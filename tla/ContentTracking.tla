---------------------------- MODULE ContentTracking ----------------------------
(***************************************************************************)
(* What GenericWebTarget.execute (generic_web_target.py) and               *)
(* RSSFeedTarget.execute (rss_feed_target.py) make of a page or a feed     *)
(* that changes under them: the baseline and the ETag they leave in the    *)
(* target's row, the signals they report, and what the database keeps of   *)
(* the signals.  When a target is fetched is TargetLifecycle's matter.     *)
(*                                                                         *)
(* The value of an extractor is a text with some dynamic noise in it       *)
(* (timestamps, tokens: FalsePositiveGuard removes them), or nothing when  *)
(* the selector is not found.  An entry of a feed is an id and the hash of *)
(* its content.  A page's ETag identifies the page; Last-Modified is left  *)
(* out.                                                                    *)
(***************************************************************************)
EXTENDS Integers, Sequences

CONSTANTS
  Extractors,
  Found,        \* values of an extractor: a text and its noise
  Triggers,     \* <<old value, new value>> some trigger of the rule fires on
  TimeWindow,   \* time_window_minutes of the triggers
  Ids, Hashes,  \* of feed entries
  FeedCap,      \* entries remembered of a feed (50)
  NoEtag,
  SendsEtag,    \* whether an answer has an ETag
  MaxEntries,   \* bounds: entries of a feed,
  MaxChanges,   \* changes of the page or feed, edits of the rule
  MaxEdits

Missing == <<>>
Values == Found \cup {Missing}

ASSUME ContentAssumption ==
  /\ Extractors # {} /\ Found \subseteq (Nat \ {0}) \X Nat
  /\ Triggers \subseteq Values \X Values
  /\ TimeWindow \in Nat /\ FeedCap \in Nat \ {0}
  /\ SendsEtag \subseteq BOOLEAN /\ SendsEtag # {}
  /\ MaxEntries \in Nat /\ MaxChanges \in Nat /\ MaxEdits \in Nat

VARIABLES
  kind,     \* "web" or "feed"
  page,     \* what the server has: a value per extractor, or a sequence of entries
  changes, edits,
  rule,     \* the extractors of the rule
  row,      \* etag and metadata of the target: initialized, base (normalized_values
            \* or feed_entries), age of observation_timestamp
  run,      \* a result between execute and finalize_execution
  stored,   \* fingerprints in the table of signals
  seen,     \* the rule of the last full answer (history)
  bare      \* whether the last full answer had no ETag (history)

historyVars == <<seen, bare>>
vars == <<kind, page, changes, edits, rule, row, run, stored, historyVars>>

(* _resolve_adapter: by its URL a target is a feed, a page, or a GitHub    *)
(* repository (GitHubSubresources).                                        *)
Kinds == {"web", "feed"}

Entries == [id : Ids, hash : Hashes]
WebPages == [Extractors -> Values]
Feeds == UNION {[1..n -> Entries] : n \in 0..MaxEntries}
Empty == [x \in {} |-> Missing]
NoRun == [on |-> FALSE]

Init ==
  /\ kind \in Kinds
  /\ page \in IF kind = "web" THEN WebPages ELSE Feeds
  /\ changes = 0 /\ edits = 0
  /\ rule \in SUBSET Extractors \ {{}}
  /\ row = [etag |-> NoEtag, initialized |-> FALSE, base |-> Empty, age |-> 0]
  /\ run = NoRun
  /\ stored = {}
  /\ seen = {}
  /\ bare = FALSE

-----------------------------------------------------------------------------
(* updated_etag: without an ETag in the answer the stored one stays. *)
Etag(sends) == IF sends THEN page ELSE row.etag

(* DynamicNoiseFilter.filter; 0 is the empty text. *)
Filtered(value) == IF value = Missing THEN 0 ELSE value[1]

Previous(x) == IF x \in DOMAIN row.base THEN row.base[x] ELSE Missing
Changed == {x \in rule : page[x] # Previous(x)}
Lost == {x \in rule : page[x] = Missing}

(* A mutant: one noisy extractor hides the others. *)
SuppressedByAny == \E x \in Changed : Filtered(Previous(x)) = Filtered(page[x])

(* FalsePositiveGuard.should_suppress_signal: every changed extractor is   *)
(* the same once the noise is removed.                                     *)
Suppressed == \A x \in Changed : Filtered(Previous(x)) = Filtered(page[x])

(* evaluate_condition, evaluate_condition_group: what the triggers of a    *)
(* field say of its stored value, which there must be, and the new one.    *)
Fires(x) == x \in DOMAIN row.base /\ <<row.base[x], page[x]>> \in Triggers

(* check_time_window: since the previous observation; 304s are none. *)
InTime == row.age <= TimeWindow

(* A rule without triggers wants every change. *)
Triggered == Triggers = {} \/ \E x \in rule : Fires(x) /\ InTime

(* 8. Determine observation status and signals. *)
Reports == row.initialized /\ Lost = {} /\ Changed # {} /\ ~Suppressed /\ Triggered

(* A mutant: the metadata is stored with a signal only. *)
KeepsOnlyReported == Reports

(* 11. Determine outcome, and transition_for: some but not all extractors  *)
(* lost is a TRANSFORM_ERROR, which keeps the old metadata.                *)
KeepsMetadata == Lost = {} \/ Lost = rule

WebFetch(sends) ==
  LET values == [x \in rule |-> page[x]]
      updated == [row EXCEPT !.etag = Etag(sends)]
  IN run' = [on |-> TRUE, answered |-> TRUE, rule |-> rule, bare |-> ~sends,
             observed |-> {values},
             signals |-> IF Reports THEN {values} ELSE {},
             row |-> IF KeepsMetadata
                     THEN [updated EXCEPT !.initialized = TRUE, !.base = values, !.age = 0]
                     ELSE updated]

(* A mutant: only entries that were not there before. *)
NewsNewOnly(entry) == entry.id \notin DOMAIN row.base

(* 8. Determine new/updated entries. *)
News(entry) == entry.id \notin DOMAIN row.base \/ row.base[entry.id] # entry.hash

(* 9. Update stored entries: the first FeedCap, a later one of the same id *)
(* in place of an earlier one.                                             *)
Remembered(feed) ==
  LET first == 1..(IF Len(feed) <= FeedCap THEN Len(feed) ELSE FeedCap)
      last(id) == CHOOSE i \in first : feed[i].id = id /\ \A j \in first : feed[j].id = id => j <= i
  IN [id \in {feed[i].id : i \in first} |-> feed[last(id)].hash]

(* A feed that is empty or does not parse has no entries: the baseline is  *)
(* emptied.                                                                *)
FeedFetch(sends) ==
  run' = [on |-> TRUE, answered |-> TRUE, rule |-> rule, bare |-> ~sends,
          observed |-> {page[i].hash : i \in DOMAIN page},
          signals |-> {page[i].hash : i \in {j \in DOMAIN page : News(page[j])}},
          row |-> [row EXCEPT !.etag = Etag(sends), !.initialized = TRUE, !.base = Remembered(page)]]

(* The result of a 304, or of an answer that is no success. *)
NoNews(answered) == [on |-> TRUE, answered |-> answered, rule |-> seen, bare |-> bare,
                     observed |-> {}, signals |-> {}, row |-> row]

(* A mutant: a stored ETag is enough. *)
NotModifiedEver == row.etag # NoEtag /\ run' = NoNews(TRUE)

(* 304: NOT_MODIFIED stores what is there. *)
NotModified == row.etag = page /\ run' = NoNews(TRUE)

(* execute of the two adapters, allowed by the policy and answered 200. *)
FetchPage(sends) == kind = "web" /\ WebFetch(sends)
FetchFeed(sends) == kind = "feed" /\ FeedFetch(sends)

(* run_once has the adapter execute; a known ETag is answered 304. *)
Fetch ==
  /\ ~run.on
  /\ \/ NotModified
     \/ /\ row.etag # page
        /\ \E sends \in SendsEtag : FetchPage(sends) \/ FetchFeed(sends)
  /\ UNCHANGED <<kind, page, changes, edits, rule, row, stored, historyVars>>

(* 6. Non-success status: ETag and metadata stay. *)
Fail ==
  /\ ~run.on
  /\ run' = NoNews(FALSE)
  /\ UNCHANGED <<kind, page, changes, edits, rule, row, stored, historyVars>>

(* finalize_execution: the row, and INSERT OR IGNORE of the signals. *)
Commit ==
  /\ run.on
  /\ row' = run.row
  /\ stored' = stored \cup run.signals
  /\ seen' = run.rule /\ bare' = run.bare
  /\ run' = NoRun
  /\ UNCHANGED <<kind, page, changes, edits, rule>>

(* The fence, an error of the database or a crash: nothing is stored. *)
Discard ==
  /\ run.on
  /\ run' = NoRun
  /\ UNCHANGED <<kind, page, changes, edits, rule, row, stored, historyVars>>

(* The server changes the value of an extractor, or serves another feed,   *)
(* also an empty or broken one.                                            *)
NewPage == {[page EXCEPT ![x] = v] : x \in Extractors, v \in Values}
Change ==
  /\ changes < MaxChanges
  /\ page' \in (IF kind = "web" THEN NewPage ELSE Feeds) \ {page}
  /\ changes' = changes + 1
  /\ UNCHANGED <<kind, edits, rule, row, run, stored, historyVars>>

(* Hot reload of a rule with other extractors. *)
EditRule ==
  /\ kind = "web" /\ edits < MaxEdits
  /\ rule' \in SUBSET Extractors \ {{}, rule}
  /\ edits' = edits + 1
  /\ UNCHANGED <<kind, page, changes, row, run, stored, historyVars>>

(* Time matters to the time window only, and only up to it. *)
Older(age) == IF age <= TimeWindow THEN age + 1 ELSE age
Tick ==
  /\ kind = "web"
  /\ row' = [row EXCEPT !.age = Older(@)]
  /\ run' = IF run.on THEN [run EXCEPT !.row.age = Older(@)] ELSE run
  /\ UNCHANGED <<kind, page, changes, edits, rule, stored, historyVars>>

Next == Fetch \/ Fail \/ Commit \/ Discard \/ Change \/ EditRule \/ Tick

(* The target is fetched again and again and runs end; not every fetch     *)
(* fails, and not every run with an answer is fenced off or dies.          *)
Fairness == SF_vars(Fetch) /\ WF_vars(Commit) /\ SF_vars(Commit /\ run.answered)

Spec == Init /\ [][Next]_vars /\ Fairness

-----------------------------------------------------------------------------
(* PROPERTIES                                                              *)

AllFound(extractors, p) == \A x \in extractors : p[x] # Missing
NoneFound(extractors, p) == \A x \in extractors : p[x] = Missing
Whole(extractors, p) == AllFound(extractors, p) \/ NoneFound(extractors, p)

(* A server that says 304 has nothing the baseline does not know: a stored *)
(* ETag goes with the values of its page.  Two exceptions are the code's:  *)
(* an answer without ETag leaves the older one beside its baseline; and a  *)
(* page that lacks some of its values leaves its ETag beside the older     *)
(* baseline, which never has such gaps itself.                             *)
EtagMeansBaseline ==
  row.etag # NoEtag /\ ~bare =>
    IF kind = "feed" THEN row.base = Remembered(row.etag)
    ELSE IF Whole(seen, row.etag) THEN row.base = [x \in seen |-> row.etag[x]]
    ELSE Whole(DOMAIN row.base, row.base)

(* When the baseline of a complete page gives way to another one whose     *)
(* texts a trigger fires on, in time, the new values are in the table: the *)
(* noise of one extractor never hides the change of another.               *)
TriggeredChangeStored ==
  [][ kind = "web" /\ row.base # row'.base /\ row.initialized /\ AllFound(DOMAIN row'.base, row'.base)
      /\ row.age < TimeWindow
      /\ (\E x \in DOMAIN row.base \cap DOMAIN row'.base :
            /\ Filtered(row.base[x]) # Filtered(row'.base[x])
            /\ <<row.base[x], row'.base[x]>> \in Triggers)
      => row'.base \in stored' ]_vars

(* What a feed's baseline knows was reported: an entry that counts as old  *)
(* is in the table with the very content it has.                           *)
KnownEntriesStored == kind = "feed" => \A i \in DOMAIN row.base : row.base[i] \in stored

(* Once the page stays as it is, the baseline becomes what it says, for    *)
(* the rule in force at the last full answer, whatever was discarded or    *)
(* broken on the way: unless some but not all of its selectors find        *)
(* nothing, or the server answers 304 to an ETag older than the baseline.  *)
Agrees ==
  \/ bare /\ row.etag = page
  \/ kind = "feed" /\ row.base = Remembered(page)
  \/ kind = "web" /\ seen # {} /\ (Whole(seen, page) => row.base = [x \in seen |-> page[x]])
CatchesUp == <>[]Agrees
=============================================================================
