------------------------- MODULE ContentTrackingProofs -------------------------
(***************************************************************************)
(* Proofs about ContentTracking for any extractors, values, triggers, time *)
(* window, feeds, length of a feed and of what is remembered of it, for    *)
(* servers that send ETags with all, some or no answers, and any number of *)
(* changes and edits.                                                      *)
(***************************************************************************)
EXTENDS ContentTracking, WellFoundedInduction, TLAPS

-----------------------------------------------------------------------------
(* The least-number principle, and from it the greatest of some indices.   *)
LEMMA LessIsWellFounded == \E R : IsWellFoundedOn(R, Nat) /\ \A x, y \in Nat : x < y => <<x, y>> \in R
<1>1. IsWellFoundedOn(OpToRel(<, Nat), Nat)
  BY NatLessThanWellFounded
<1>2. \A x, y \in Nat : x < y => <<x, y>> \in OpToRel(<, Nat)
  BY DEF OpToRel
<1> QED BY <1>1, <1>2

LEMMA LeastNatural == ASSUME NEW T \in SUBSET Nat, T # {} PROVE \E m \in T : \A n \in T : m <= n
<1>1. PICK R : IsWellFoundedOn(R, Nat) /\ \A x, y \in Nat : x < y => <<x, y>> \in R
  BY LessIsWellFounded
<1>2. T \subseteq Nat
  OBVIOUS
<1>0. IsWellFoundedOn(R, Nat) /\ T \subseteq Nat /\ T # {}
  BY <1>1
<1>5. \E x \in T : \A y \in T : ~ (<<y, x>> \in R)
  BY <1>0, WFMin
<1>3. PICK m \in T : \A y \in T : ~ (<<y, m>> \in R)
  BY <1>5
<1>4. \A n \in T : ~ (n < m)
  BY <1>1, <1>2, <1>3
<1> QED BY <1>2, <1>4

LEMMA Greatest ==
  ASSUME NEW n \in Nat, NEW T \in SUBSET (1..n), T # {} PROVE \E m \in T : \A i \in T : i <= m
<1> DEFINE U == {n - i : i \in T}
<1>1. U \in SUBSET Nat /\ U # {}
  <2>1. \A i \in T : i \in Int /\ i <= n
    OBVIOUS
  <2>2. \A i \in T : n - i \in Nat
    BY <2>1
  <2> QED BY <2>2
<1>2. PICK k \in U : \A u \in U : k <= u
  BY <1>1, LeastNatural
<1>3. PICK m \in T : k = n - m
  OBVIOUS
<1>4. \A i \in T : n - i \in U
  OBVIOUS
<1>5. \A i \in T : i \in Int /\ n - m <= n - i
  BY <1>2, <1>3, <1>4
<1> QED BY <1>5

-----------------------------------------------------------------------------
(* What a row and a result may be. *)
WebBases == UNION {[D -> Values] : D \in SUBSET Extractors}
FeedBases == UNION {[D -> Hashes] : D \in SUBSET Ids}
Bases == WebBases \cup FeedBases
Contents == Bases \cup Hashes
Etags == WebPages \cup Feeds \cup {NoEtag}
RowType == [etag : Etags, initialized : BOOLEAN, base : Bases, age : Nat]
RunType == [on : {TRUE}, answered : BOOLEAN, rule : SUBSET Extractors, bare : BOOLEAN,
            observed : SUBSET Contents, signals : SUBSET Contents, row : RowType]

Typed ==
  /\ kind \in Kinds
  /\ page \in IF kind = "web" THEN WebPages ELSE Feeds
  /\ rule \in SUBSET Extractors \ {{}} /\ seen \in SUBSET Extractors
  /\ bare \in BOOLEAN
  /\ row \in RowType
  /\ run \in RunType \cup {NoRun}

(* What a feed's next baseline knows is in the table, or goes there with   *)
(* it.                                                                     *)
KnownInHand ==
  run.on /\ kind = "feed" =>
    \A i \in DOMAIN run.row.base : run.row.base[i] \in stored \cup run.signals

(* A baseline that gives way to one a trigger fires on goes with a signal. *)
Demands(old, new) ==
  /\ old.base # new.base /\ old.initialized /\ AllFound(DOMAIN new.base, new.base)
  /\ old.age < TimeWindow
  /\ \E x \in DOMAIN old.base \cap DOMAIN new.base :
       /\ Filtered(old.base[x]) # Filtered(new.base[x])
       /\ <<old.base[x], new.base[x]>> \in Triggers
ReportsInHand == run.on /\ kind = "web" /\ Demands(row, run.row) => run.row.base \in run.signals

IInv == Typed /\ KnownEntriesStored /\ KnownInHand /\ ReportsInHand

(* The ETag of a row goes with its baseline, unless the last full answer   *)
(* had none.                                                               *)
EtagFits(r, extractors, none) ==
  r.etag # NoEtag /\ ~none =>
    IF kind = "feed" THEN r.base = Remembered(r.etag)
    ELSE IF Whole(extractors, r.etag) THEN r.base = [x \in extractors |-> r.etag[x]]
    ELSE Whole(DOMAIN r.base, r.base)

(* A page's baseline has all its values, or none: a page that lacks some   *)
(* never becomes one.                                                      *)
BaseIsWhole(r) == kind = "web" => Whole(DOMAIN r.base, r.base)

InHand == run.on => EtagFits(run.row, run.rule, run.bare) /\ BaseIsWhole(run.row)

EInv == EtagMeansBaseline /\ BaseIsWhole(row) /\ InHand

-----------------------------------------------------------------------------
LEMMA HashesAreBase == ASSUME NEW D \in SUBSET Ids, NEW f \in [D -> Hashes] PROVE f \in Bases
<1>1. [D -> Hashes] \in {[E -> Hashes] : E \in SUBSET Ids}
  OBVIOUS
<1>2. f \in FeedBases
  BY <1>1 DEF FeedBases
<1> QED BY <1>2 DEF Bases

(* What is remembered of an id is the content of an entry with that id. *)
LEMMA RememberedFacts ==
  ASSUME NEW feed \in Feeds
  PROVE  /\ Remembered(feed) \in Bases
         /\ \A id \in DOMAIN Remembered(feed) :
              \E i \in DOMAIN feed : feed[i].id = id /\ Remembered(feed)[id] = feed[i].hash
<1> DEFINE n == IF Len(feed) <= FeedCap THEN Len(feed) ELSE FeedCap
           known == {feed[i].id : i \in 1..n}
           last(id) == CHOOSE i \in 1..n : feed[i].id = id /\ \A j \in 1..n : feed[j].id = id => j <= i
<1>1. PICK m \in Nat : feed \in [1..m -> Entries]
  BY ContentAssumption DEF Feeds
<1>2. feed \in Seq(Entries) /\ DOMAIN feed = 1..Len(feed) /\ Len(feed) \in Nat
  BY <1>1
<1>3. n \in Nat /\ n <= Len(feed)
  BY <1>2, ContentAssumption
<1>5. Remembered(feed) = [id \in known |-> feed[last(id)].hash]
  BY DEF Remembered
<1> HIDE DEF n
<1>4. \A i \in 1..n : i \in DOMAIN feed /\ feed[i].id \in Ids /\ feed[i].hash \in Hashes
  <2>1. \A i \in 1..n : i \in DOMAIN feed
    BY <1>2, <1>3
  <2>2. \A i \in DOMAIN feed : feed[i] \in Entries
    BY <1>1
  <2> QED BY <2>1, <2>2 DEF Entries
<1>6. ASSUME NEW id \in known PROVE last(id) \in 1..n /\ feed[last(id)].id = id
  <2> DEFINE S == {i \in 1..n : feed[i].id = id}
  <2>1. S \in SUBSET (1..n) /\ S # {}
    OBVIOUS
  <2>2. \E i \in S : \A j \in S : j <= i
    <3> HIDE DEF S
    <3> QED BY <1>3, <2>1, Greatest
  <2>3. \E i \in 1..n : feed[i].id = id /\ \A j \in 1..n : feed[j].id = id => j <= i
    BY <2>2
  <2> QED BY <2>3
<1> HIDE DEF last
<1>7. known \in SUBSET Ids
  BY <1>4
<1>8. Remembered(feed) \in [known -> Hashes]
  BY <1>4, <1>5, <1>6
<1>9. \A id \in known : Remembered(feed)[id] = feed[last(id)].hash
  BY <1>5
<1> HIDE DEF known
<1>10. Remembered(feed) \in Bases /\ DOMAIN Remembered(feed) = known
  <2>3. DOMAIN Remembered(feed) = known
    BY <1>8
  <2>4. Remembered(feed) \in Bases
    BY <1>7, <1>8, HashesAreBase
  <2> QED BY <2>3, <2>4
<1>11. ASSUME NEW id \in known
       PROVE  \E i \in DOMAIN feed : feed[i].id = id /\ Remembered(feed)[id] = feed[i].hash
  BY <1>4, <1>6, <1>9
<1> QED BY <1>10, <1>11

LEMMA ValuesAreBase ==
  ASSUME NEW D \in SUBSET Extractors, NEW p \in WebPages PROVE [x \in D |-> p[x]] \in Bases
<1> DEFINE f == [x \in D |-> p[x]]
<1>1. f \in [D -> Values]
  BY DEF WebPages
<1>2. [D -> Values] \in {[E -> Values] : E \in SUBSET Extractors}
  OBVIOUS
<1> HIDE DEF f
<1>3. f \in WebBases
  BY <1>1, <1>2 DEF WebBases
<1> QED BY <1>3 DEF Bases, f

LEMMA EmptyIsBase == Empty \in Bases /\ DOMAIN Empty = {}
<1>1. Empty \in [{} -> Values] /\ {} \in SUBSET Extractors
  BY DEF Empty
<1>2. [{} -> Values] \in {[E -> Values] : E \in SUBSET Extractors}
  BY <1>1
<1>3. Empty \in WebBases
  BY <1>1, <1>2 DEF WebBases
<1> QED BY <1>1, <1>3 DEF Bases

-----------------------------------------------------------------------------
(* The result of a page. *)
LEMMA WebResult ==
  ASSUME Typed, kind = "web", NEW sends \in BOOLEAN, WebFetch(sends)
  PROVE  /\ run' \in RunType /\ run'.on /\ run'.rule = rule /\ run'.bare = ~sends
         /\ run'.row \in RowType /\ run'.row.etag = Etag(sends)
         /\ IF KeepsMetadata THEN run'.row.base = [x \in rule |-> page[x]] ELSE run'.row.base = row.base
         /\ run'.signals = IF Reports THEN {[x \in rule |-> page[x]]} ELSE {}
<1> DEFINE values == [x \in rule |-> page[x]]
           updated == [row EXCEPT !.etag = Etag(sends)]
           kept == IF KeepsMetadata
                   THEN [updated EXCEPT !.initialized = TRUE, !.base = values, !.age = 0]
                   ELSE updated
           signals == IF Reports THEN {values} ELSE {}
<1>1. /\ row \in RowType /\ page \in WebPages /\ rule \in SUBSET Extractors
  BY DEF Typed
<1>2. values \in Bases
  BY <1>1, ValuesAreBase
<1>3. Etag(sends) \in Etags
  BY <1>1 DEF Etag, RowType, Etags
<1> HIDE DEF values
<1>4. updated \in RowType /\ updated.etag = Etag(sends) /\ updated.base = row.base
  BY <1>1, <1>3 DEF RowType
<1> HIDE DEF updated
<1>5. kept \in RowType /\ kept.etag = Etag(sends)
      /\ IF KeepsMetadata THEN kept.base = values ELSE kept.base = row.base
  BY <1>2, <1>4 DEF RowType
<1>6. run' = [on |-> TRUE, answered |-> TRUE, rule |-> rule, bare |-> ~sends, observed |-> {values},
              signals |-> signals, row |-> kept]
  BY DEF WebFetch, values, updated
<1>7. {values} \in SUBSET Contents /\ signals \in SUBSET Contents
  BY <1>2 DEF Contents
<1> HIDE DEF kept, signals
<1>8. run' \in RunType
  BY <1>1, <1>5, <1>6, <1>7 DEF RunType
<1>9. run'.on /\ run'.rule = rule /\ run'.bare = ~sends /\ run'.row = kept /\ run'.signals = signals
  BY <1>6
<1> QED BY <1>5, <1>8, <1>9 DEF values, signals

(* The result of a feed. *)
LEMMA FeedResult ==
  ASSUME Typed, kind = "feed", NEW sends \in BOOLEAN, FeedFetch(sends)
  PROVE  /\ run' \in RunType /\ run'.on /\ run'.rule = rule /\ run'.bare = ~sends
         /\ run'.row \in RowType /\ run'.row.etag = Etag(sends) /\ run'.row.base = Remembered(page)
         /\ run'.signals = {page[i].hash : i \in {j \in DOMAIN page : News(page[j])}}
<1> DEFINE observed == {page[i].hash : i \in DOMAIN page}
           signals == {page[i].hash : i \in {j \in DOMAIN page : News(page[j])}}
           kept == [row EXCEPT !.etag = Etag(sends), !.initialized = TRUE, !.base = Remembered(page)]
<1>1. row \in RowType /\ page \in Feeds /\ rule \in SUBSET Extractors
  BY DEF Typed
<1>2. Remembered(page) \in Bases
  BY <1>1, RememberedFacts
<1>3. Etag(sends) \in Etags
  BY <1>1 DEF Etag, RowType, Etags
<1>4. kept \in RowType /\ kept.etag = Etag(sends) /\ kept.base = Remembered(page)
  BY <1>1, <1>2, <1>3 DEF RowType
<1>5. observed \in SUBSET Contents /\ signals \in SUBSET Contents
  <2>1. PICK m \in Nat : page \in [1..m -> Entries]
    BY <1>1, ContentAssumption DEF Feeds
  <2>2. \A i \in DOMAIN page : page[i].hash \in Hashes
    BY <2>1 DEF Entries
  <2> QED BY <2>2 DEF Contents
<1>6. run' = [on |-> TRUE, answered |-> TRUE, rule |-> rule, bare |-> ~sends, observed |-> observed,
              signals |-> signals, row |-> kept]
  BY DEF FeedFetch
<1> HIDE DEF kept, signals, observed
<1>7. run' \in RunType
  BY <1>1, <1>4, <1>5, <1>6 DEF RunType
<1>8. run'.on /\ run'.rule = rule /\ run'.bare = ~sends /\ run'.row = kept /\ run'.signals = signals
  BY <1>6
<1> QED BY <1>4, <1>7, <1>8 DEF signals

(* A 304 or a failure. *)
LEMMA NoNewsResult ==
  ASSUME Typed, NEW answered \in BOOLEAN
  PROVE  /\ NoNews(answered) \in RunType /\ NoNews(answered).on
         /\ NoNews(answered).rule = seen /\ NoNews(answered).bare = bare
         /\ NoNews(answered).row = row
         /\ NoNews(answered).signals = {}
BY DEF Typed, NoNews, RunType

-----------------------------------------------------------------------------
(* Each action. *)
LEMMA IdleIsOff == NoRun.on = FALSE
BY DEF NoRun

(* While the run goes on, and when it comes to nothing, the row stays. *)
LEMMA RowStaysKeepsInv ==
  ASSUME IInv, Typed', UNCHANGED <<kind, row, stored>>,
         \/ run' = run \/ run' = NoRun
         \/ run'.on /\ run'.row = row
         \/ kind = "web" /\ run'.on /\ (Demands(row, run'.row) => run'.row.base \in run'.signals)
         \/ kind = "feed" /\ run'.on
            /\ \A i \in DOMAIN run'.row.base : run'.row.base[i] \in stored \cup run'.signals
  PROVE  IInv'
<1>1. KnownEntriesStored'
  BY DEF IInv, KnownEntriesStored
<1>2. KnownInHand'
  BY IdleIsOff DEF IInv, KnownInHand, KnownEntriesStored
<1>3. ReportsInHand'
  BY IdleIsOff DEF IInv, ReportsInHand, Demands
<1> QED BY <1>1, <1>2, <1>3 DEF IInv

(* A page whose new values a trigger wants is reported. *)
LEMMA WebFetchReports ==
  ASSUME Typed, kind = "web", NEW new \in RowType,
         IF KeepsMetadata THEN new.base = [x \in rule |-> page[x]] ELSE new.base = row.base,
         Demands(row, new)
  PROVE  Reports /\ new.base = [x \in rule |-> page[x]]
<1>1. new.base = [x \in rule |-> page[x]]
  BY DEF Demands
<1>2. DOMAIN new.base = rule /\ \A x \in rule : new.base[x] = page[x]
  BY <1>1
<1>3. Lost = {}
  BY <1>2 DEF Demands, AllFound, Lost
<1>4. PICK x \in DOMAIN row.base \cap rule :
        Filtered(row.base[x]) # Filtered(page[x]) /\ <<row.base[x], page[x]>> \in Triggers
  BY <1>2 DEF Demands
<1>5. x \in Changed /\ Previous(x) = row.base[x]
  BY <1>4 DEF Changed, Previous
<1>6. Changed # {} /\ ~Suppressed
  BY <1>4, <1>5 DEF Suppressed
<1>7. InTime
  BY ContentAssumption DEF Demands, InTime, Typed, RowType
<1>8. Triggered
  BY <1>4, <1>7 DEF Triggered, Fires
<1> QED BY <1>1, <1>3, <1>6, <1>8 DEF Reports, Demands

LEMMA FetchKeepsInv == ASSUME IInv, Fetch PROVE IInv'
<1>0. Typed /\ SendsEtag \subseteq BOOLEAN /\ kind \in {"web", "feed"}
  BY ContentAssumption DEF IInv, Typed, Kinds
<1>1. UNCHANGED <<kind, page, rule, row, stored, seen, bare>>
  BY DEF Fetch, historyVars
<1>2. ASSUME run' \in RunType PROVE Typed'
  BY <1>0, <1>1, <1>2 DEF Typed
<1>3. CASE NotModified
  <2>1. run' = NoNews(TRUE)
    BY <1>3 DEF NotModified
  <2>2. run' \in RunType /\ run'.on /\ run'.row = row
    BY <1>0, <2>1, NoNewsResult
  <2> QED BY <1>1, <1>2, <2>2, RowStaysKeepsInv
<1>4. ASSUME NEW sends \in SendsEtag, FetchPage(sends) PROVE IInv'
  <2>1. kind = "web" /\ WebFetch(sends) /\ sends \in BOOLEAN
    BY <1>0, <1>4 DEF FetchPage
  <2>2. /\ run' \in RunType /\ run'.on /\ run'.row \in RowType
        /\ IF KeepsMetadata THEN run'.row.base = [x \in rule |-> page[x]] ELSE run'.row.base = row.base
        /\ run'.signals = IF Reports THEN {[x \in rule |-> page[x]]} ELSE {}
    BY <1>0, <2>1, WebResult
  <2>3. Demands(row, run'.row) => run'.row.base \in run'.signals
    <3> SUFFICES ASSUME Demands(row, run'.row) PROVE run'.row.base \in run'.signals
      OBVIOUS
    <3>1. Reports /\ run'.row.base = [x \in rule |-> page[x]]
      BY <1>0, <2>1, <2>2, WebFetchReports
    <3> QED BY <2>2, <3>1
  <2> QED BY <1>1, <1>2, <2>1, <2>2, <2>3, RowStaysKeepsInv
<1>5. ASSUME NEW sends \in SendsEtag, FetchFeed(sends) PROVE IInv'
  <2>1. kind = "feed" /\ FeedFetch(sends) /\ sends \in BOOLEAN /\ page \in Feeds
    BY <1>0, <1>5 DEF FetchFeed, Typed
  <2>2. /\ run' \in RunType /\ run'.on /\ run'.row.base = Remembered(page)
        /\ run'.signals = {page[i].hash : i \in {j \in DOMAIN page : News(page[j])}}
    BY <1>0, <2>1, FeedResult
  <2>3. ASSUME NEW id \in DOMAIN Remembered(page)
        PROVE  Remembered(page)[id] \in stored \cup run'.signals
    <3>1. PICK i \in DOMAIN page : page[i].id = id /\ Remembered(page)[id] = page[i].hash
      BY <2>1, RememberedFacts
    <3>2. CASE News(page[i])
      BY <2>2, <3>1, <3>2
    <3>3. CASE ~News(page[i])
      <4>1. id \in DOMAIN row.base /\ row.base[id] = page[i].hash
        BY <3>1, <3>3 DEF News
      <4> QED BY <2>1, <3>1, <4>1 DEF IInv, KnownEntriesStored
    <3> QED BY <3>2, <3>3
  <2> QED BY <1>1, <1>2, <2>1, <2>2, <2>3, RowStaysKeepsInv
<1> QED BY <1>3, <1>4, <1>5 DEF Fetch

LEMMA FailKeepsInv == ASSUME IInv, Fail PROVE IInv'
<1>1. run' = NoNews(FALSE) /\ UNCHANGED <<kind, page, rule, row, stored, seen, bare>> /\ Typed
  BY DEF Fail, IInv, historyVars
<1>2. run' \in RunType /\ run'.on /\ run'.row = row
  BY <1>1, NoNewsResult
<1>3. Typed'
  BY <1>1, <1>2 DEF Typed
<1> QED BY <1>1, <1>2, <1>3, RowStaysKeepsInv

LEMMA CommitKeepsInv == ASSUME IInv, Commit PROVE IInv'
<1>1. run \in RunType /\ run.row \in RowType /\ run.rule \in SUBSET Extractors /\ run.bare \in BOOLEAN
  BY IdleIsOff DEF Commit, IInv, Typed, RunType
<1>2. Typed'
  BY <1>1 DEF Commit, IInv, Typed
<1>3. KnownEntriesStored'
  BY DEF Commit, IInv, KnownInHand, KnownEntriesStored
<1>4. KnownInHand' /\ ReportsInHand'
  BY IdleIsOff DEF Commit, KnownInHand, ReportsInHand
<1> QED BY <1>2, <1>3, <1>4 DEF IInv

LEMMA DiscardKeepsInv == ASSUME IInv, Discard PROVE IInv'
<1>1. Typed'
  BY DEF Discard, IInv, Typed, historyVars
<1> QED BY <1>1, RowStaysKeepsInv DEF Discard

LEMMA ChangeKeepsInv == ASSUME IInv, Change PROVE IInv'
<1>1. page' \in IF kind = "web" THEN WebPages ELSE Feeds
  <2>1. CASE kind = "web"
    <3>1. \A x \in Extractors, v \in Values : [page EXCEPT ![x] = v] \in WebPages
      BY <2>1 DEF IInv, Typed, WebPages
    <3> QED BY <2>1, <3>1 DEF Change, NewPage
  <2>2. CASE kind # "web"
    BY <2>2 DEF Change
  <2> QED BY <2>1, <2>2
<1>2. Typed'
  BY <1>1 DEF Change, IInv, Typed, historyVars
<1> QED BY <1>2, RowStaysKeepsInv DEF Change

LEMMA EditRuleKeepsInv == ASSUME IInv, EditRule PROVE IInv'
<1>1. Typed'
  BY DEF EditRule, IInv, Typed, historyVars
<1> QED BY <1>1, RowStaysKeepsInv DEF EditRule

(* A tick makes rows older, and nothing else. *)
LEMMA TickEffect ==
  ASSUME Typed, Tick
  PROVE  /\ row' \in RowType /\ row'.etag = row.etag /\ row'.initialized = row.initialized
         /\ row'.base = row.base /\ row'.age >= row.age
         /\ run.on => /\ run' \in RunType /\ run'.on /\ run'.rule = run.rule /\ run'.bare = run.bare /\ run'.signals = run.signals
                      /\ run'.row.etag = run.row.etag /\ run'.row.base = run.row.base
         /\ ~run.on => run' = run
<1>1. \A n \in Nat : Older(n) \in Nat /\ Older(n) >= n
  BY DEF Older
<1>2. ASSUME NEW r \in RowType
      PROVE  /\ [r EXCEPT !.age = Older(@)] \in RowType
             /\ [r EXCEPT !.age = Older(@)].etag = r.etag
             /\ [r EXCEPT !.age = Older(@)].initialized = r.initialized
             /\ [r EXCEPT !.age = Older(@)].base = r.base
             /\ [r EXCEPT !.age = Older(@)].age = Older(r.age)
  BY <1>1 DEF RowType
<1>3. row' = [row EXCEPT !.age = Older(@)] /\ row \in RowType /\ row.age \in Nat
  BY DEF Tick, Typed, RowType
<1>4. row' \in RowType /\ row'.etag = row.etag /\ row'.initialized = row.initialized
      /\ row'.base = row.base /\ row'.age >= row.age
  BY <1>1, <1>2, <1>3
<1>5. ASSUME run.on
      PROVE  /\ run' \in RunType /\ run'.on /\ run'.rule = run.rule /\ run'.bare = run.bare /\ run'.signals = run.signals
             /\ run'.row.etag = run.row.etag /\ run'.row.base = run.row.base
  <2>1. run \in RunType /\ run.row \in RowType
    BY <1>5, IdleIsOff DEF Typed, RunType
  <2> DEFINE aged == [run.row EXCEPT !.age = Older(@)]
  <2>2. run' = [run EXCEPT !.row = aged]
    BY <1>5 DEF Tick
  <2>3. aged \in RowType /\ aged.etag = run.row.etag /\ aged.base = run.row.base
    BY <1>2, <2>1
  <2> HIDE DEF aged
  <2> QED BY <2>1, <2>2, <2>3 DEF RunType
<1>6. ~run.on => run' = run
  BY DEF Tick
<1> QED BY <1>4, <1>5, <1>6

LEMMA TickKeepsInv == ASSUME IInv, Tick PROVE IInv'
<1>0. UNCHANGED <<kind, page, rule, stored, seen, bare>> /\ Typed /\ row.age \in Nat /\ TimeWindow \in Nat
  BY ContentAssumption DEF Tick, IInv, Typed, RowType, historyVars
<1>1. /\ row' \in RowType /\ row'.etag = row.etag /\ row'.initialized = row.initialized
      /\ row'.base = row.base /\ row'.age >= row.age
      /\ run.on => /\ run' \in RunType /\ run'.on /\ run'.rule = run.rule /\ run'.bare = run.bare /\ run'.signals = run.signals
                   /\ run'.row.etag = run.row.etag /\ run'.row.base = run.row.base
      /\ ~run.on => run' = run
  BY <1>0, TickEffect
<1>2. Typed'
  BY <1>0, <1>1 DEF Typed
<1>3. KnownEntriesStored' /\ KnownInHand'
  BY <1>0, <1>1 DEF IInv, KnownEntriesStored, KnownInHand
<1>4. ReportsInHand'
  <2> SUFFICES ASSUME run'.on, kind = "web", Demands(row', run'.row) PROVE run'.row.base \in run'.signals
    BY <1>0 DEF ReportsInHand
  <2>1. run.on /\ run'.row.base = run.row.base /\ run'.signals = run.signals
    BY <1>1
  <2>2. row.age < TimeWindow
    <3>1. row'.age \in Nat /\ row'.age < TimeWindow
      BY <1>1 DEF Demands, RowType
    <3> QED BY <1>0, <1>1, <3>1
  <2>3. Demands(row, run.row)
    BY <1>1, <2>1, <2>2 DEF Demands
  <2> QED BY <2>1, <2>3 DEF IInv, ReportsInHand
<1> QED BY <1>2, <1>3, <1>4 DEF IInv

-----------------------------------------------------------------------------
LEMMA IInvInit == Init => IInv
<1> SUFFICES ASSUME Init PROVE IInv
  OBVIOUS
<1>1. row \in RowType /\ row.base = Empty
  BY EmptyIsBase DEF Init, RowType, Etags
<1>2. Typed
  BY <1>1 DEF Init, Typed
<1>3. KnownEntriesStored /\ KnownInHand /\ ReportsInHand
  BY <1>1, EmptyIsBase, IdleIsOff DEF Init, KnownEntriesStored, KnownInHand, ReportsInHand
<1> QED BY <1>2, <1>3 DEF IInv

LEMMA IInvStep == IInv /\ [Next]_vars => IInv'
<1>1. ASSUME IInv, UNCHANGED vars PROVE IInv'
  <2>1. Typed'
    BY <1>1 DEF vars, IInv, Typed, historyVars
  <2> QED BY <1>1, <2>1, RowStaysKeepsInv DEF vars
<1> QED BY <1>1, FetchKeepsInv, FailKeepsInv, CommitKeepsInv, DiscardKeepsInv, ChangeKeepsInv,
           EditRuleKeepsInv, TickKeepsInv DEF Next

(* The inductive invariant: what is stored fits, and so does what is in    *)
(* the hands of a run.                                                     *)
THEOREM ContentInvariant == Spec => []IInv
BY IInvInit, IInvStep, PTL DEF Spec

(* What a feed's baseline knows was reported, for every content of every   *)
(* id, whatever was discarded, cut off at the cap or emptied on the way.   *)
THEOREM KnownWasReported == Spec => []KnownEntriesStored
<1>1. IInv => KnownEntriesStored
  BY DEF IInv
<1> QED BY <1>1, ContentInvariant, PTL

(* A baseline of a complete page never gives way to one whose texts a      *)
(* trigger fires on, in time, unless the new values are in the table.      *)
THEOREM TriggeredChangesAreStored == Spec => TriggeredChangeStored
<1>1. IInv /\ [Next]_vars =>
        [ kind = "web" /\ row.base # row'.base /\ row.initialized /\ AllFound(DOMAIN row'.base, row'.base)
          /\ row.age < TimeWindow
          /\ (\E x \in DOMAIN row.base \cap DOMAIN row'.base :
                /\ Filtered(row.base[x]) # Filtered(row'.base[x])
                /\ <<row.base[x], row'.base[x]>> \in Triggers)
          => row'.base \in stored' ]_vars
  <2> SUFFICES ASSUME IInv, Next, kind = "web", Demands(row, row') PROVE row'.base \in stored'
    BY DEF Demands
  <2>1. CASE Commit
    BY <2>1 DEF Commit, IInv, ReportsInHand
  <2>2. CASE ~Commit
    <3>1. row'.base = row.base
      BY <2>2, TickEffect DEF Next, Fetch, Fail, Discard, Change, EditRule, IInv
    <3> QED BY <3>1 DEF Demands
  <2> QED BY <2>1, <2>2
<1> QED BY <1>1, ContentInvariant, PTL DEF Spec, TriggeredChangeStored

-----------------------------------------------------------------------------
(* ETags. *)
LEMMA EtagInit == Init => EInv
<1> SUFFICES ASSUME Init PROVE EInv
  OBVIOUS
<1>1. row.etag = NoEtag /\ row.base = Empty /\ run = NoRun
  BY DEF Init
<1>2. BaseIsWhole(row)
  BY <1>1, EmptyIsBase DEF BaseIsWhole, Whole, AllFound
<1> QED BY <1>1, <1>2, IdleIsOff DEF EInv, EtagMeansBaseline, InHand

(* The baseline that a page is given is whole, and is the page when that   *)
(* is whole.                                                               *)
LEMMA WholePageIsKept ==
  ASSUME NEW base, IF KeepsMetadata THEN base = [x \in rule |-> page[x]] ELSE base = row.base,
         Whole(DOMAIN row.base, row.base)
  PROVE  /\ Whole(DOMAIN base, base)
         /\ Whole(rule, page) => base = [x \in rule |-> page[x]]
<1>1. KeepsMetadata <=> Whole(rule, page)
  BY DEF KeepsMetadata, Lost, Whole, AllFound, NoneFound
<1>2. ASSUME KeepsMetadata PROVE Whole(DOMAIN base, base)
  <2>1. DOMAIN base = rule /\ \A x \in rule : base[x] = page[x]
    BY <1>2
  <2> QED BY <1>1, <1>2, <2>1 DEF Whole, AllFound, NoneFound
<1> QED BY <1>1, <1>2

LEMMA EtagFetch == ASSUME Typed, EInv, Fetch PROVE EInv'
<1>1. UNCHANGED <<kind, page, rule, row, stored, seen, bare>> /\ kind \in {"web", "feed"}
  BY DEF Fetch, Typed, Kinds, historyVars
<1>2. EtagMeansBaseline' /\ BaseIsWhole(row)'
  BY <1>1 DEF EInv, EtagMeansBaseline, BaseIsWhole
<1>3. EtagFits(run'.row, run'.rule, run'.bare) /\ BaseIsWhole(run'.row)
  <2>0. SendsEtag \subseteq BOOLEAN
    BY ContentAssumption
  <2>1. CASE NotModified
    <3>1. run'.row = row /\ run'.rule = seen /\ run'.bare = bare
      BY <2>1, NoNewsResult DEF NotModified
    <3> QED BY <3>1 DEF EInv, EtagMeansBaseline, EtagFits
  <2>2. ASSUME NEW sends \in SendsEtag, FetchPage(sends)
        PROVE  EtagFits(run'.row, run'.rule, run'.bare) /\ BaseIsWhole(run'.row)
    <3>1. kind = "web" /\ WebFetch(sends) /\ sends \in BOOLEAN
      BY <2>0, <2>2 DEF FetchPage
    <3>2. /\ run'.rule = rule /\ run'.bare = ~sends /\ run'.row.etag = Etag(sends)
          /\ IF KeepsMetadata THEN run'.row.base = [x \in rule |-> page[x]] ELSE run'.row.base = row.base
      BY <3>1, WebResult
    <3>3. Whole(DOMAIN row.base, row.base)
      BY <3>1 DEF EInv, BaseIsWhole
    <3>4. /\ Whole(DOMAIN run'.row.base, run'.row.base)
          /\ Whole(rule, page) => run'.row.base = [x \in rule |-> page[x]]
      BY <3>2, <3>3, WholePageIsKept
    <3>5. ~run'.bare => run'.row.etag = page
      BY <3>1, <3>2 DEF Etag
    <3> QED BY <3>1, <3>2, <3>4, <3>5 DEF EtagFits, BaseIsWhole
  <2>3. ASSUME NEW sends \in SendsEtag, FetchFeed(sends)
        PROVE  EtagFits(run'.row, run'.rule, run'.bare) /\ BaseIsWhole(run'.row)
    <3>1. kind = "feed" /\ FeedFetch(sends) /\ sends \in BOOLEAN
      BY <2>0, <2>3 DEF FetchFeed
    <3>2. run'.bare = ~sends /\ run'.row.etag = Etag(sends) /\ run'.row.base = Remembered(page)
      BY <3>1, FeedResult
    <3> QED BY <3>1, <3>2 DEF EtagFits, BaseIsWhole, Etag
  <2> QED BY <2>1, <2>2, <2>3 DEF Fetch
<1>4. InHand'
  BY <1>1, <1>3 DEF InHand, EtagFits, BaseIsWhole
<1> QED BY <1>2, <1>4 DEF EInv

LEMMA EtagStep == Typed /\ EInv /\ [Next]_vars => EInv'
<1> SUFFICES ASSUME Typed, EInv, [Next]_vars PROVE EInv'
  OBVIOUS
<1>1. CASE Fail
  <2>1. /\ run'.row = row /\ run'.rule = seen /\ run'.bare = bare
        /\ UNCHANGED <<kind, row, seen, bare>>
    BY <1>1, NoNewsResult DEF Fail, historyVars
  <2> QED BY <2>1 DEF EInv, EtagMeansBaseline, InHand, EtagFits, BaseIsWhole
<1>2. CASE Commit
  BY <1>2, IdleIsOff DEF Commit, EInv, EtagMeansBaseline, InHand, EtagFits, BaseIsWhole
<1>3. CASE Discard \/ Change \/ EditRule \/ UNCHANGED vars
  <2>1. UNCHANGED <<kind, row, seen, bare>> /\ (run' = run \/ run' = NoRun)
    BY <1>3 DEF Discard, Change, EditRule, vars, historyVars
  <2> QED BY <2>1, IdleIsOff DEF EInv, EtagMeansBaseline, InHand, EtagFits, BaseIsWhole
<1>4. CASE Tick
  <2>1. /\ UNCHANGED <<kind, seen, bare>> /\ row'.etag = row.etag /\ row'.base = row.base
        /\ run.on => /\ run'.rule = run.rule /\ run'.bare = run.bare
                     /\ run'.row.etag = run.row.etag /\ run'.row.base = run.row.base
        /\ ~run.on => run' = run
    BY <1>4, TickEffect DEF Tick, historyVars
  <2> QED BY <2>1 DEF EInv, EtagMeansBaseline, InHand, EtagFits, BaseIsWhole
<1> QED BY <1>1, <1>2, <1>3, <1>4, EtagFetch DEF Next

(* A stored ETag goes with the baseline of its page or feed, across        *)
(* failures, discarded runs, lost selectors and edits of the rule, unless  *)
(* the last full answer had no ETag.                                       *)
THEOREM EtagsMeanBaselines == Spec => []EtagMeansBaseline
<1>1. Typed /\ EInv /\ [Next]_vars => EInv'
  BY EtagStep
<1>2. IInv => Typed
  BY DEF IInv
<1>3. EInv => EtagMeansBaseline
  BY DEF EInv
<1> QED BY <1>1, <1>2, <1>3, EtagInit, ContentInvariant, PTL DEF Spec
=============================================================================
