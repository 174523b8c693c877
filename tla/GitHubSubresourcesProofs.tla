----------------------- MODULE GitHubSubresourcesProofs -----------------------
(***************************************************************************)
(* Proofs about GitHubSubresources for any sets of watched sub-resources,  *)
(* any values they take, any threshold, ladder, backoffs and Retry-Afters, *)
(* and any number of changes.                                              *)
(***************************************************************************)
EXTENDS GitHubSubresources, SequenceTheorems, FiniteSetTheorems, WellFoundedInduction, TLAPS

Taken == UNION {Values[s] : s \in Subs}
AnyValue == Taken \cup {Compared(s, v) : s \in Subs, v \in Taken} \cup {NoValue, NoEtag}
Fingerprints == Subs \X AnyValue
Outcomes == {"success_changed", "success_unchanged", "not_modified", "policy_cooldown",
             "fetch_failed", "transform_error"}

MetaType == [etag : AnyValue, base : AnyValue, wait : Nat]
EvalType == [sub : Subs, status : Status, failures : Nat, delay : Nat]
RowType == [status : Status, failures : Nat, wait : Nat]
RunType ==
  [on : {TRUE}, todo : SUBSET Subs, evals : Seq(EvalType), outcomes : SUBSET Outcomes,
   signals : Seq(Fingerprints), meta : [Subs -> MetaType]]

TypeOK ==
  /\ watched \in SUBSET Subs
  /\ world \in [Subs -> AnyValue] /\ \A s \in Subs : world[s] \in Values[s]
  /\ changes \in Nat
  /\ row \in RowType
  /\ meta \in [Subs -> MetaType]
  /\ run \in RunType \cup {NoRun}
  /\ emitted \in Seq(Fingerprints) /\ sent \in Seq(Fingerprints)

(* What is stored of a sub-resource: the baseline is what the ETag stands  *)
(* for, and stars are counted.                                             *)
Sound(s, m) ==
  /\ m.etag # NoEtag => m.base = Compared(s, m.etag)
  /\ s = "stars" => m.base \in Nat \cup {NoValue}

(* e is the end of q, as long as the memory allows. *)
Trails(e, q) ==
  /\ Len(e) = AtMost(Len(q), EmittedCap)
  /\ \A j \in Nat : j < Len(e) => e[Len(e) - j] = q[Len(q) - j]

(* No release or number of stars twice within the reach of the memory. *)
Spaced(q) ==
  \A i, j \in DOMAIN q : i < j /\ j - i <= EmittedCap /\ q[i][1] \in Kinds => q[i] # q[j]

(* The remembered fingerprints are the last that were sent. *)
MetaFits ==
  /\ \A s \in Subs : Sound(s, meta[s])
  /\ Trails(emitted, sent) /\ Spaced(sent)

(* A run has in its hands what it read, until it asks the sub-resource;    *)
(* what it reports is not sent too early, and it has moved a baseline only *)
(* to what was sent or is reported.                                        *)
RunFits ==
  run.on =>
    /\ Spaced(sent \o run.signals)
    /\ \A s \in Subs :
         /\ Sound(s, run.meta[s])
         /\ s \in run.todo => run.meta[s] = meta[s]
         /\ s \in Kinds /\ Apart(s, meta[s].base, run.meta[s].base) =>
              Among(Fingerprint(s, run.meta[s].etag), sent \o run.signals)

(* An evaluation that slows the target down shows among the outcomes. *)
Shows(e, outcomes) ==
  /\ e.status = "cooldown" => "policy_cooldown" \in outcomes /\ e.delay >= Ladder[1]
  /\ e.status = "backoff" => "fetch_failed" \in outcomes
EvalsFit == run.on => \A i \in DOMAIN run.evals : Shows(run.evals[i], run.outcomes)

IInv == TypeOK /\ MetaFits /\ RunFits /\ EvalsFit

-----------------------------------------------------------------------------
(* The order of execute. *)
LEMMA SubsAre == Subs = {"releases", "stars", "commits", "prs", "issues"} /\ Kinds = {"releases", "stars"}
<1>1. \A i \in 1..5 : i = 1 \/ i = 2 \/ i = 3 \/ i = 4 \/ i = 5
  OBVIOUS
<1>2. /\ Order[1] = "releases" /\ Order[2] = "stars" /\ Order[3] = "commits"
      /\ Order[4] = "prs" /\ Order[5] = "issues"
  BY DEF Order
<1>3. 1 \in 1..5 /\ 2 \in 1..5 /\ 3 \in 1..5 /\ 4 \in 1..5 /\ 5 \in 1..5
  OBVIOUS
<1>4. Subs = {"releases", "stars", "commits", "prs", "issues"}
  BY <1>1, <1>2, <1>3 DEF Subs
<1> QED BY <1>4 DEF Kinds

LEMMA FirstIsOfThem ==
  ASSUME NEW S \in SUBSET Subs, S # {} PROVE First(S) \in S
<1> DEFINE P(i) == Order[i] \in S /\ \A j \in 1..(i - 1) : Order[j] \notin S
<1>1. PICK k \in 1..5 : Order[k] \in S
  BY DEF Subs
<1>2. \E i \in 1..5 : P(i)
  <2>1. CASE Order[1] \in S
    BY <2>1
  <2>2. CASE Order[1] \notin S /\ Order[2] \in S
    <3>1. P(2)
      BY <2>2
    <3> QED BY <3>1
  <2>3. CASE Order[1] \notin S /\ Order[2] \notin S /\ Order[3] \in S
    <3>1. P(3)
      BY <2>3
    <3> QED BY <3>1
  <2>4. CASE Order[1] \notin S /\ Order[2] \notin S /\ Order[3] \notin S /\ Order[4] \in S
    <3>1. P(4)
      BY <2>4
    <3> QED BY <3>1
  <2>5. CASE Order[1] \notin S /\ Order[2] \notin S /\ Order[3] \notin S /\ Order[4] \notin S
    <3>1. k = 5
      BY <1>1, <2>5
    <3>2. P(5)
      BY <1>1, <2>5, <3>1
    <3> QED BY <3>2
  <2> QED BY <2>1, <2>2, <2>3, <2>4, <2>5
<1>3. P(CHOOSE i \in 1..5 : P(i))
  BY <1>2
<1> QED BY <1>3 DEF First

-----------------------------------------------------------------------------
(* The policy. *)

(* 2^n counts the subsets of 1..n. *)
LEMMA PowerOfTwo == ASSUME NEW n \in Nat PROVE 2^n \in Nat \ {0}
<1>1. IsFiniteSet(1..n) /\ Cardinality(1..n) = n
  BY FS_Interval
<1>2. IsFiniteSet(SUBSET (1..n)) /\ Cardinality(SUBSET (1..n)) = 2^n
  BY <1>1, FS_SUBSET
<1>3. SUBSET (1..n) # {}
  OBVIOUS
<1> QED BY <1>2, <1>3, FS_CardinalityType, FS_EmptySet

LEMMA BackoffsAreDelays == ASSUME NEW n \in Nat \ {0}, NEW d \in Backoffs(n) PROVE d \in Nat
<1> DEFINE raw == AtMost(BaseBackoff * 2^(n - 1), MaxBackoff)
           spread == raw \div JitterDivisor
<1>1. BaseBackoff \in Nat /\ MaxBackoff \in Nat /\ JitterDivisor \in Nat \ {0}
  BY PolicyAssumption
<1>2. raw \in Nat
  <2> DEFINE power == 2^(n - 1)
  <2>1. power \in Nat
    BY PowerOfTwo
  <2>2. raw = AtMost(BaseBackoff * power, MaxBackoff)
    OBVIOUS
  <2> HIDE DEF power, raw
  <2> QED BY <1>1, <2>1, <2>2 DEF AtMost
<1>3. PICK jitter \in -spread..spread : d = AtLeast(1, raw + jitter)
  BY DEF Backoffs
<1> HIDE DEF raw
<1>4. spread \in Int
  BY <1>1, <1>2
<1> HIDE DEF spread
<1>5. jitter \in Int
  BY <1>3, <1>4
<1> QED BY <1>2, <1>3, <1>5 DEF AtLeast

LEMMA RungFacts ==
  ASSUME NEW n \in Nat PROVE Rung(n) \in Nat /\ Rung(n) >= Ladder[1]
<1>1. Len(Ladder) \in Nat \ {0} /\ MaxFailures \in Nat /\ Ladder \in Seq(Nat)
  BY PolicyAssumption
<1>2. 1 + AtMost(AtLeast(0, n - MaxFailures), Len(Ladder) - 1) \in 1..Len(Ladder)
  BY <1>1 DEF AtMost, AtLeast
<1>3. DOMAIN Ladder = 1..Len(Ladder)
  BY <1>1
<1>4. \A i \in 1..Len(Ladder) : Ladder[i] \in Nat /\ Ladder[1] <= Ladder[i]
  <2>1. \A i \in 1..Len(Ladder) : Ladder[i] \in Nat
    BY <1>1
  <2>2. \A i \in 1..Len(Ladder) : 1 <= i /\ 1 \in 1..Len(Ladder)
    BY <1>1
  <2> QED BY <1>3, <2>1, <2>2, PolicyAssumption
<1> QED BY <1>2, <1>4 DEF Rung


Evaluation == [status : Status, failures : Nat, delay : Nat]

LEMMA FailFacts ==
  ASSUME NEW status \in Status, NEW n \in Nat, NEW rung \in Nat, rung >= Ladder[1],
         NEW delays \in SUBSET Nat, NEW e \in Fail(status, n, rung, delays)
  PROVE  e \in Evaluation /\ (e.status = "cooldown" => e.delay >= Ladder[1])
<1>1. CASE Escalates(status, n)
  BY <1>1 DEF Fail, Isolate, Evaluation, Status
<1>2. CASE ~Escalates(status, n)
  <2>1. PICK d \in delays : e = [status |-> "backoff", failures |-> n, delay |-> d]
    BY <1>2 DEF Fail
  <2> QED BY <2>1 DEF Evaluation, Status
<1> QED BY <1>1, <1>2

(* What the policy says of a sub-resource: only a failure slows the target *)
(* down, and what isolates it isolates it for at least the first rung.     *)
LEMMA EvaluationFacts ==
  ASSUME NEW status \in Status, NEW n \in Nat, NEW response \in Responses,
         NEW retryAfter \in Nat \cup {NoRetryAfter},
         NEW e \in EvaluateResponse(status, n, response, retryAfter)
  PROVE  /\ e \in Evaluation
         /\ response \in Successes => e.status = "normal"
         /\ e.status = "cooldown" => e.delay >= Ladder[1]
<1>0. Ladder[1] \in Nat /\ Interval \in Nat /\ RetryAfterCap \in Nat /\ Backoffs(n + 1) \in SUBSET Nat
  <2>1. n + 1 \in Nat \ {0}
    OBVIOUS
  <2> QED BY <2>1, PolicyAssumption, BackoffsAreDelays
<1>1. CASE response \in Successes
  <2>1. e = [status |-> "normal", failures |-> 0, delay |-> Interval]
    BY <1>1 DEF EvaluateResponse, Successes
  <2> QED BY <1>0, <2>1 DEF Evaluation, Status
<1>2. CASE response = "forbidden"
  <2>1. e = Isolate(n + 1, Ladder[1])
    BY <1>2 DEF EvaluateResponse, Successes
  <2> QED BY <1>0, <1>2, <2>1 DEF Isolate, Evaluation, Status, Successes
<1>3. CASE response = "notFound" \/ (response = "rateLimited" /\ retryAfter = NoRetryAfter)
  <2>1. e \in Fail(status, n + 1, Ladder[1], Backoffs(n + 1))
    BY <1>3 DEF EvaluateResponse, Successes
  <2> QED BY <1>0, <1>3, <2>1, FailFacts DEF Successes
<1>4. CASE response = "rateLimited" /\ retryAfter # NoRetryAfter
  <2> DEFINE bounded == AtLeast(1, AtMost(retryAfter, RetryAfterCap))
             rung == AtLeast(Ladder[1], retryAfter)
  <2>1. e \in Fail(status, n + 1, rung, {bounded})
    BY <1>4 DEF EvaluateResponse, Successes
  <2>2. retryAfter \in Nat
    BY <1>4
  <2>3. rung \in Nat /\ rung >= Ladder[1] /\ bounded \in Nat
    BY <1>0, <2>2 DEF AtLeast, AtMost
  <2> HIDE DEF bounded, rung
  <2>4. {bounded} \in SUBSET Nat
    BY <2>3
  <2> QED BY <1>0, <1>4, <2>1, <2>3, <2>4, FailFacts DEF Successes
<1>5. CASE response = "other"
  <2>1. e \in Fail(status, n + 1, Rung(n + 1), Backoffs(n + 1))
    BY <1>5 DEF EvaluateResponse, Successes
  <2>2. Rung(n + 1) \in Nat /\ Rung(n + 1) >= Ladder[1]
    BY RungFacts
  <2> QED BY <1>0, <1>5, <2>1, <2>2, FailFacts DEF Successes
<1>6. CASE response = "noStatus"
  BY <1>6 DEF EvaluateResponse, Successes
<1> QED BY <1>1, <1>2, <1>3, <1>4, <1>5, <1>6 DEF Responses, Failures

-----------------------------------------------------------------------------
(* The least-number principle, and from it the greatest of some indices.   *)
LEMMA LessIsWellFounded == \E R : IsWellFoundedOn(R, Nat) /\ \A x, y \in Nat : x < y => <<x, y>> \in R
<1>1. IsWellFoundedOn(OpToRel(<, Nat), Nat)
  BY NatLessThanWellFounded
<1>2. \A x, y \in Nat : x < y => <<x, y>> \in OpToRel(<, Nat)
  BY DEF OpToRel
<1> QED BY <1>1, <1>2

LEMMA LeastNatural == ASSUME NEW T \in SUBSET Nat, T # {} PROVE \E m \in T : \A n \in T : m <= n
<1>1. PICK R : IsWellFoundedOn(R, Nat) /\ \A x, y \in Nat : x < y => <<x, y>> \in R
  BY LessIsWellFounded
<1>2. T \subseteq Nat
  OBVIOUS
<1>0. IsWellFoundedOn(R, Nat) /\ T \subseteq Nat /\ T # {}
  BY <1>1
<1>5. \E x \in T : \A y \in T : ~ (<<y, x>> \in R)
  BY <1>0, WFMin
<1>3. PICK m \in T : \A y \in T : ~ (<<y, m>> \in R)
  BY <1>5
<1>4. \A n \in T : ~ (n < m)
  BY <1>1, <1>2, <1>3
<1> QED BY <1>2, <1>4

LEMMA Greatest ==
  ASSUME NEW n \in Nat, NEW T \in SUBSET (1..n), T # {} PROVE \E m \in T : \A i \in T : i <= m
<1> DEFINE U == {n - i : i \in T}
<1>1. U \in SUBSET Nat /\ U # {}
  <2>1. \A i \in T : i \in Int /\ i <= n
    OBVIOUS
  <2>2. \A i \in T : n - i \in Nat
    BY <2>1
  <2> QED BY <2>2
<1>2. PICK k \in U : \A u \in U : k <= u
  BY <1>1, LeastNatural
<1>3. PICK m \in T : k = n - m
  OBVIOUS
<1>4. \A i \in T : n - i \in U
  OBVIOUS
<1>5. \A i \in T : i \in Int /\ n - m <= n - i
  BY <1>2, <1>3, <1>4
<1> QED BY <1>5


-----------------------------------------------------------------------------
(* The memory of fingerprints. *)

LEMMA LatestFacts ==
  ASSUME NEW S, NEW q \in Seq(S)
  PROVE  /\ Latest(q) \in Seq(S) /\ Len(Latest(q)) = AtMost(Len(q), EmittedCap)
         /\ \A j \in Nat : j < Len(Latest(q)) => Latest(q)[Len(Latest(q)) - j] = q[Len(q) - j]
<1> DEFINE lo == AtLeast(1, Len(q) - EmittedCap + 1)
<1>1. EmittedCap \in Nat \ {0} /\ Len(q) \in Nat
  BY GitHubAssumption
<1>2. lo \in Nat \ {0} /\ (lo <= Len(q) => Len(q) - lo + 1 = AtMost(Len(q), EmittedCap))
      /\ (lo > Len(q) => AtMost(Len(q), EmittedCap) = 0)
  BY <1>1 DEF AtLeast, AtMost
<1>3. Latest(q) = SubSeq(q, lo, Len(q))
  BY DEF Latest
<1> HIDE DEF lo
<1>4. \A i \in lo .. Len(q) : q[i] \in S
  BY <1>1, <1>2
<1>5. /\ Latest(q) \in Seq(S) /\ Len(Latest(q)) = IF lo <= Len(q) THEN Len(q) - lo + 1 ELSE 0
      /\ \A i \in 1 .. (Len(q) - lo + 1) : Latest(q)[i] = q[lo + i - 1]
  BY <1>1, <1>2, <1>3, <1>4, SubSeqProperties
<1>6. ASSUME NEW j \in Nat, j < Len(Latest(q)) PROVE Latest(q)[Len(Latest(q)) - j] = q[Len(q) - j]
  <2>1. lo <= Len(q) /\ Len(Latest(q)) = Len(q) - lo + 1
    BY <1>1, <1>2, <1>5, <1>6
  <2>2. Len(Latest(q)) - j \in 1 .. (Len(q) - lo + 1) /\ lo + (Len(Latest(q)) - j) - 1 = Len(q) - j
    BY <1>1, <1>2, <1>6, <2>1
  <2> QED BY <1>5, <2>2
<1> QED BY <1>1, <1>2, <1>5, <1>6

(* The memory of what is appended to what is remembered. *)
LEMMA TrailsOn ==
  ASSUME NEW S, NEW e \in Seq(S), NEW q \in Seq(S), NEW r \in Seq(S), Trails(e, q)
  PROVE  Latest(e \o r) \in Seq(S) /\ Trails(Latest(e \o r), q \o r)
<1> DEFINE m == e \o r
           n == q \o r
<1>1. /\ Len(e) \in Nat /\ Len(q) \in Nat /\ Len(r) \in Nat /\ EmittedCap \in Nat \ {0}
      /\ Len(e) = AtMost(Len(q), EmittedCap)
  BY GitHubAssumption DEF Trails
<1>2. /\ m \in Seq(S) /\ Len(m) = Len(e) + Len(r)
      /\ \A i \in 1 .. Len(e) + Len(r) : m[i] = IF i <= Len(e) THEN e[i] ELSE r[i - Len(e)]
  BY ConcatProperties
<1>3. /\ n \in Seq(S) /\ Len(n) = Len(q) + Len(r)
      /\ \A i \in 1 .. Len(q) + Len(r) : n[i] = IF i <= Len(q) THEN q[i] ELSE r[i - Len(q)]
  BY ConcatProperties
<1> HIDE DEF m, n
<1> DEFINE l == Latest(m)
<1>4. /\ l \in Seq(S) /\ Len(l) = AtMost(Len(m), EmittedCap)
      /\ \A j \in Nat : j < Len(l) => l[Len(l) - j] = m[Len(m) - j]
  BY <1>2, LatestFacts
<1> HIDE DEF l
<1>5. Len(l) = AtMost(Len(q) + Len(r), EmittedCap) /\ Len(l) <= Len(e) + Len(r)
  BY <1>1, <1>2, <1>4 DEF AtMost
<1>6. ASSUME NEW j \in Nat, j < Len(l) PROVE l[Len(l) - j] = n[Len(n) - j]
  <2>1. l[Len(l) - j] = m[Len(e) + Len(r) - j]
    BY <1>2, <1>4, <1>6
  <2>2. Len(e) + Len(r) - j \in 1 .. Len(e) + Len(r)
    BY <1>1, <1>5, <1>6
  <2>3. Len(q) + Len(r) - j \in 1 .. Len(q) + Len(r) /\ Len(e) <= Len(q)
    BY <1>1, <1>5, <1>6 DEF AtMost
  <2>4. CASE j < Len(r)
    <3>1. m[Len(e) + Len(r) - j] = r[Len(r) - j]
      <4>1. ~(Len(e) + Len(r) - j <= Len(e)) /\ Len(e) + Len(r) - j - Len(e) = Len(r) - j
        BY <1>1, <2>4
      <4> QED BY <1>2, <2>2, <4>1
    <3>2. n[Len(q) + Len(r) - j] = r[Len(r) - j]
      <4>1. ~(Len(q) + Len(r) - j <= Len(q)) /\ Len(q) + Len(r) - j - Len(q) = Len(r) - j
        BY <1>1, <2>4
      <4> QED BY <1>3, <2>3, <4>1
    <3> QED BY <1>3, <2>1, <3>1, <3>2
  <2>5. CASE j >= Len(r)
    <3>1. j - Len(r) \in Nat /\ j - Len(r) < Len(e)
      BY <1>1, <1>5, <1>6, <2>5
    <3>2. e[Len(e) - (j - Len(r))] = q[Len(q) - (j - Len(r))]
      BY <3>1 DEF Trails
    <3>3. m[Len(e) + Len(r) - j] = e[Len(e) - (j - Len(r))]
      <4>1. Len(e) + Len(r) - j <= Len(e) /\ Len(e) + Len(r) - j = Len(e) - (j - Len(r))
        BY <1>1, <2>5
      <4> QED BY <1>2, <2>2, <4>1
    <3>4. n[Len(q) + Len(r) - j] = q[Len(q) - (j - Len(r))]
      <4>1. Len(q) + Len(r) - j <= Len(q) /\ Len(q) + Len(r) - j = Len(q) - (j - Len(r))
        BY <1>1, <2>5
      <4> QED BY <1>3, <2>3, <4>1
    <3> QED BY <1>3, <2>1, <3>2, <3>3, <3>4
  <2> QED BY <1>1, <2>4, <2>5
<1> QED BY <1>3, <1>4, <1>5, <1>6 DEF l, m, n, Trails

LEMMA TrailedIsAmong ==
  ASSUME NEW S, NEW e \in Seq(S), NEW q \in Seq(S), Trails(e, q), NEW f, Among(f, e)
  PROVE  Among(f, q)
<1>1. PICK i \in 1 .. Len(e) : e[i] = f
  BY DEF Among
<1>2. Len(e) \in Nat /\ Len(q) \in Nat /\ EmittedCap \in Nat /\ Len(e) <= Len(q)
  BY GitHubAssumption DEF Trails, AtMost
<1>3. Len(e) - i \in Nat /\ Len(e) - i < Len(e) /\ Len(e) - (Len(e) - i) = i
  BY <1>2
<1>4. q[Len(q) - (Len(e) - i)] = f
  BY <1>1, <1>3 DEF Trails
<1>5. Len(q) - (Len(e) - i) \in 1 .. Len(q)
  BY <1>2
<1> QED BY <1>4, <1>5 DEF Among

(* One more report that is not remembered. *)
LEMMA SpacedOn ==
  ASSUME NEW S, NEW e \in Seq(S), NEW q \in Seq(S), Trails(e, q), Spaced(q), NEW f \in S,
         f[1] \in Kinds => ~Among(f, e)
  PROVE  Spaced(Append(q, f))
<1> DEFINE a == Append(q, f)
<1>1. /\ Len(a) = Len(q) + 1 /\ DOMAIN a = 1 .. Len(q) + 1 /\ a[Len(q) + 1] = f
      /\ \A i \in 1 .. Len(q) : a[i] = q[i]
  OBVIOUS
<1>2. Len(e) \in Nat /\ Len(q) \in Nat /\ EmittedCap \in Nat \ {0} /\ Len(e) = AtMost(Len(q), EmittedCap)
  BY GitHubAssumption DEF Trails
<1> HIDE DEF a
<1> SUFFICES ASSUME NEW i \in 1 .. Len(q) + 1, NEW j \in 1 .. Len(q) + 1,
                    i < j, j - i <= EmittedCap, a[i][1] \in Kinds
             PROVE  a[i] # a[j]
  BY <1>1 DEF a, Spaced
<1>3. i \in 1 .. Len(q) /\ a[i] = q[i]
  BY <1>1, <1>2
<1>4. CASE j <= Len(q)
  <2>1. j \in 1 .. Len(q) /\ a[j] = q[j]
    BY <1>1, <1>2, <1>4
  <2> QED BY <1>3, <2>1 DEF Spaced
<1>5. CASE j = Len(q) + 1
  <2>1. Len(q) - i \in Nat /\ Len(q) - i < Len(e) /\ Len(q) - (Len(q) - i) = i
    BY <1>2, <1>3, <1>5 DEF AtMost
  <2>2. e[Len(e) - (Len(q) - i)] = q[i]
    BY <2>1 DEF Trails
  <2>3. Len(e) - (Len(q) - i) \in DOMAIN e
    BY <1>2, <1>3, <2>1
  <2>4. Among(q[i], e)
    BY <2>2, <2>3 DEF Among
  <2> QED BY <1>1, <1>3, <1>5, <2>4
<1> QED BY <1>2, <1>4, <1>5

-----------------------------------------------------------------------------
(* The steps. *)

LEMMA RunIsRun == ASSUME TypeOK PROVE (run.on => run \in RunType) /\ (~run.on => run = NoRun)
<1>1. CASE run \in RunType
  <2>1. run.on = TRUE
    BY <1>1 DEF RunType
  <2> QED BY <1>1, <2>1
<1>2. CASE run = NoRun
  <2>1. run.on = FALSE
    BY <1>2 DEF NoRun
  <2> QED BY <1>2, <2>1
<1> QED BY <1>1, <1>2 DEF TypeOK

LEMMA ValuesAreValues ==
  ASSUME TypeOK, NEW s \in Subs
  PROVE  /\ world[s] \in AnyValue /\ Compared(s, world[s]) \in AnyValue
         /\ s = "stars" => Compared(s, world[s]) \in Nat
<1>1. world[s] \in Taken
  BY DEF TypeOK, Taken
<1>2. s = "stars" => world[s] \in Nat
  BY GitHubAssumption DEF TypeOK
<1> QED BY <1>1, <1>2 DEF AnyValue, Compared

(* What a run remembers is the end of what was sent before and by it. *)
LEMMA RememberedTrails ==
  ASSUME IInv, run.on
  PROVE  /\ run.signals \in Seq(Fingerprints) /\ sent \o run.signals \in Seq(Fingerprints)
         /\ Remembered \in Seq(Fingerprints) /\ Trails(Remembered, sent \o run.signals)
<1>1. run.signals \in Seq(Fingerprints) /\ sent \in Seq(Fingerprints) /\ emitted \in Seq(Fingerprints)
  BY RunIsRun DEF IInv, TypeOK, RunType
<1>2. Trails(emitted, sent)
  BY DEF IInv, MetaFits
<1> QED BY <1>1, <1>2, TrailsOn, ConcatProperties DEF Remembered

LEMMA IInvInit == Init => IInv
<1> SUFFICES ASSUME Init PROVE IInv
  OBVIOUS
<1>1. \A s \in Subs : world[s] \in Values[s]
  <2>1. \A s \in Subs : Values[s] # {}
    BY GitHubAssumption
  <2>2. \A s \in Subs : (CHOOSE v \in Values[s] : TRUE) \in Values[s]
    BY <2>1
  <2> QED BY <2>2 DEF Init
<1>2. world \in [Subs -> AnyValue]
  BY <1>1 DEF Init, AnyValue, Taken
<1>3. meta \in [Subs -> MetaType] /\ row \in RowType
  <2>1. meta = [s \in Subs |-> [etag |-> NoEtag, base |-> NoValue, wait |-> 0]]
    BY DEF Init
  <2>2. [etag |-> NoEtag, base |-> NoValue, wait |-> 0] \in MetaType
    <3>1. NoEtag \in AnyValue /\ NoValue \in AnyValue
      BY DEF AnyValue
    <3> QED BY <3>1 DEF MetaType
  <2>3. row = [status |-> "normal", failures |-> 0, wait |-> 0]
    BY DEF Init
  <2>4. row \in RowType
    BY <2>3 DEF RowType, Status
  <2> QED BY <2>1, <2>2, <2>4
<1>4. watched \in SUBSET Subs /\ changes \in Nat /\ run = NoRun /\ run.on = FALSE /\ sent = <<>> /\ emitted = <<>>
  BY GitHubAssumption DEF Init, NoRun
<1>5. TypeOK
  BY <1>1, <1>2, <1>3, <1>4 DEF TypeOK
<1>6. MetaFits
  <2>1. \A s \in Subs : Sound(s, meta[s])
    BY DEF Init, Sound
  <2>2. Trails(emitted, sent) /\ Spaced(sent)
    BY <1>4, GitHubAssumption DEF Trails, Spaced, AtMost
  <2> QED BY <2>1, <2>2 DEF MetaFits
<1> QED BY <1>4, <1>5, <1>6 DEF IInv, RunFits, EvalsFit

(* An answer that stores and reports something, field by field. *)
With(outcome, e, s, stored, signals) ==
  [Answered(outcome, e) EXCEPT !.meta[s] = stored, !.signals = signals]
EvalOf(s, e) == [sub |-> s, status |-> e.status, failures |-> e.failures, delay |-> e.delay]

LEMMA AnsweredIs ==
  ASSUME run \in RunType, NEW outcome \in Outcomes, NEW e \in Evaluation, NEW s \in Subs,
         First(run.todo) = s, NEW stored \in MetaType, NEW signals \in Seq(Fingerprints)
  PROVE  /\ With(outcome, e, s, stored, signals) \in RunType
         /\ With(outcome, e, s, stored, signals).on
         /\ With(outcome, e, s, stored, signals).todo = run.todo \ {s}
         /\ With(outcome, e, s, stored, signals).outcomes = run.outcomes \cup {outcome}
         /\ With(outcome, e, s, stored, signals).evals = Append(run.evals, EvalOf(s, e))
         /\ EvalOf(s, e) \in EvalType
         /\ With(outcome, e, s, stored, signals).meta = [run.meta EXCEPT ![s] = stored]
         /\ With(outcome, e, s, stored, signals).signals = signals
<1> DEFINE full == With(outcome, e, s, stored, signals)
           eval == EvalOf(s, e)
           todo == run.todo \ {s}
           outcomes == run.outcomes \cup {outcome}
           evals == Append(run.evals, eval)
           answered == Answered(outcome, e)
<1>1. eval \in EvalType
  BY DEF EvalOf, Evaluation, EvalType
<1>2. evals \in Seq(EvalType)
  BY <1>1 DEF RunType
<1>3. todo \in SUBSET Subs /\ outcomes \in SUBSET Outcomes
  BY DEF RunType
<1>4. /\ answered \in RunType /\ answered.todo = todo /\ answered.outcomes = outcomes /\ answered.evals = evals
      /\ answered.meta = run.meta /\ answered.signals = run.signals
  <2>1. answered = [run EXCEPT !.todo = todo, !.outcomes = outcomes, !.evals = evals]
    BY DEF Answered, EvalOf
  <2> HIDE DEF answered, evals, todo, outcomes
  <2> QED BY <1>2, <1>3, <2>1 DEF RunType
<1>5. full = [answered EXCEPT !.meta[s] = stored, !.signals = signals]
  BY DEF With
<1> HIDE DEF answered, evals, todo, outcomes, full, eval
<1>6. run.meta \in [Subs -> MetaType] /\ [run.meta EXCEPT ![s] = stored] \in [Subs -> MetaType]
  <2>1. run.meta \in [Subs -> MetaType]
    BY DEF RunType
  <2> QED BY <2>1
<1> DEFINE metas == [run.meta EXCEPT ![s] = stored]
<1>10. full = [answered EXCEPT !.meta = metas, !.signals = signals]
  <2>1. full = [answered EXCEPT !.meta = [answered.meta EXCEPT ![s] = stored], !.signals = signals]
    BY <1>5
  <2> QED BY <1>4, <2>1
<1>11. metas \in [Subs -> MetaType]
  BY <1>6
<1> HIDE DEF metas
<1>7. full.todo = todo /\ full.outcomes = outcomes /\ full.evals = evals /\ full.meta = metas /\ full.signals = signals
  BY <1>4, <1>10 DEF RunType
<1>8. full \in RunType
  BY <1>4, <1>10, <1>11 DEF RunType
<1>9. full.on = TRUE
  BY <1>8 DEF RunType
<1> QED BY <1>1, <1>7, <1>8, <1>9 DEF evals, todo, outcomes, metas, full, eval

(* Storing and reporting what is there already is to store nothing. *)
LEMMA AnsweredStores ==
  ASSUME run \in RunType, NEW outcome \in Outcomes, NEW e \in Evaluation, NEW s \in Subs
  PROVE  Answered(outcome, e) = With(outcome, e, s, run.meta[s], run.signals)
<1> DEFINE answered == Answered(outcome, e)
<1>1. answered.meta = run.meta /\ answered.signals = run.signals /\ DOMAIN answered = DOMAIN run
  BY DEF Answered, RunType
<1>2. run.meta = [run.meta EXCEPT ![s] = run.meta[s]]
  BY DEF RunType
<1>3. answered = [answered EXCEPT !.meta = @, !.signals = @]
  BY DEF Answered, RunType
<1> HIDE DEF answered
<1>4. answered = [answered EXCEPT !.meta[s] = run.meta[s], !.signals = run.signals]
  BY <1>1, <1>2, <1>3
<1> QED BY <1>4 DEF answered, With

(* An answer to the next request keeps the invariant if what it stores is  *)
(* sound and what it reports is not remembered.                            *)
LEMMA AnswerKeepsInv ==
  ASSUME IInv, run.on, run.todo # {}, NEW s, s = First(run.todo),
         NEW e \in Evaluation, NEW outcome \in Outcomes,
         NEW stored \in MetaType, NEW signals \in Seq(Fingerprints),
         e.status = "cooldown" => outcome = "policy_cooldown" /\ e.delay >= Ladder[1],
         e.status = "backoff" => outcome = "fetch_failed",
         Sound(s, stored),
         Spaced(sent \o signals),
         \A f : Among(f, sent \o run.signals) => Among(f, sent \o signals),
         s \in Kinds /\ Apart(s, meta[s].base, stored.base) =>
           Among(Fingerprint(s, stored.etag), sent \o signals),
         run' = With(outcome, e, s, stored, signals),
         UNCHANGED <<watched, world, changes, row, meta, emitted, sent>>
  PROVE  IInv'
<1> DEFINE eval == EvalOf(s, e)
<1>0. run \in RunType /\ run.todo \in SUBSET Subs /\ s \in run.todo /\ s \in Subs
  <2>1. run \in RunType
    BY RunIsRun DEF IInv
  <2>2. run.todo \in SUBSET Subs
    BY <2>1 DEF RunType
  <2> QED BY <2>1, <2>2, FirstIsOfThem
<1>10. eval.status = e.status /\ eval.delay = e.delay
  BY DEF EvalOf
<1> HIDE DEF eval
<1>1. /\ run' \in RunType
      /\ run'.on /\ run'.todo = run.todo \ {s} /\ run'.outcomes = run.outcomes \cup {outcome}
      /\ run'.evals = Append(run.evals, eval) /\ eval \in EvalType
      /\ run'.meta = [run.meta EXCEPT ![s] = stored]
      /\ run'.signals = signals
  BY <1>0, AnsweredIs DEF eval
<1>4. /\ run'.on /\ run'.todo = run.todo \ {s} /\ run'.evals = Append(run.evals, eval)
      /\ run'.outcomes = run.outcomes \cup {outcome}
      /\ run'.signals = signals /\ run'.meta = [run.meta EXCEPT ![s] = stored]
      /\ meta' = meta /\ sent' = sent
  BY <1>1
<1>2. TypeOK' /\ MetaFits'
  BY <1>1 DEF IInv, TypeOK, MetaFits, Sound, Trails, Spaced
<1>3. /\ run.meta \in [Subs -> MetaType]
      /\ run.evals \in Seq(EvalType) /\ run.outcomes \in SUBSET Outcomes
  BY <1>0 DEF RunType
<1>5. RunFits'
  <2> SUFFICES ASSUME NEW r \in Subs
      PROVE  /\ Sound(r, run'.meta[r])
             /\ r \in run'.todo => run'.meta[r] = meta[r]
             /\ r \in Kinds /\ Apart(r, meta[r].base, run'.meta[r].base) =>
                  Among(Fingerprint(r, run'.meta[r].etag), sent \o signals)
    <3>1. sent' \o run'.signals = sent \o signals
      BY <1>4
    <3>2. Spaced(sent' \o run'.signals)
      BY <3>1
    <3>3. \A r \in Subs :
            /\ Sound(r, run'.meta[r])
            /\ r \in run'.todo => run'.meta[r] = meta'[r]
            /\ r \in Kinds /\ Apart(r, meta'[r].base, run'.meta[r].base) =>
                 Among(Fingerprint(r, run'.meta[r].etag), sent' \o run'.signals)
      BY <1>4, <3>1
    <3> QED BY <3>2, <3>3 DEF RunFits, Sound, Apart, Another, FarOff, Spaced, Among, Fingerprint
  <2>1. CASE r = s
    <3>1. run'.meta[r] = stored /\ r \notin run'.todo
      BY <1>0, <1>3, <1>4, <2>1
    <3> QED BY <2>1, <3>1
  <2>2. CASE r # s
    <3>1. run'.meta[r] = run.meta[r] /\ (r \in run'.todo <=> r \in run.todo)
      BY <1>0, <1>3, <1>4, <2>2
    <3> QED BY <3>1 DEF IInv, RunFits
  <2> QED BY <2>1, <2>2
<1>6. EvalsFit'
  <2> SUFFICES ASSUME NEW i \in DOMAIN run'.evals PROVE Shows(run'.evals[i], run'.outcomes)
    BY <1>4 DEF EvalsFit, Shows
  <2>1. Len(run.evals) \in Nat /\ DOMAIN run.evals = 1..Len(run.evals)
    BY <1>3
  <2>2. CASE i \in DOMAIN run.evals
    <3>1. run'.evals[i] = run.evals[i]
      BY <1>1, <1>3, <1>4, <2>1, <2>2
    <3>2. Shows(run.evals[i], run.outcomes)
      BY <2>2 DEF IInv, EvalsFit
    <3> QED BY <1>4, <3>1, <3>2 DEF Shows
  <2>3. CASE i \notin DOMAIN run.evals
    <3>1. run'.evals[i] = eval
      BY <1>1, <1>3, <1>4, <2>1, <2>3
    <3> QED BY <1>4, <1>10, <3>1 DEF Shows
  <2> QED BY <2>2, <2>3
<1> QED BY <1>2, <1>5, <1>6 DEF IInv

(* No value is apart from itself. *)
LEMMA NotApartFromItself ==
  ASSUME NEW s \in Kinds, NEW m, Sound(s, m) PROVE ~Apart(s, m.base, m.base)
<1>1. CASE s = "stars"
  <2>1. m.base # NoValue => m.base \in Nat /\ m.base - m.base = 0
    BY <1>1 DEF Sound
  <2>2. Threshold \in Nat \ {0}
    BY GitHubAssumption
  <2> QED BY <1>1, <2>1, <2>2 DEF Apart, FarOff
<1>2. CASE s # "stars"
  BY <1>2 DEF Apart, Another
<1> QED BY <1>1, <1>2

(* An answer without news. *)
LEMMA SilenceKeepsInv ==
  ASSUME IInv, run.on, run.todo # {}, NEW e \in Evaluation, NEW outcome \in Outcomes,
         e.status = "cooldown" => outcome = "policy_cooldown" /\ e.delay >= Ladder[1],
         e.status = "backoff" => outcome = "fetch_failed",
         run' = Answered(outcome, e),
         UNCHANGED <<watched, world, changes, row, meta, emitted, sent>>
  PROVE  IInv'
<1> DEFINE s == First(run.todo)
<1>1. run \in RunType /\ s \in run.todo /\ s \in Subs
  <2>1. run \in RunType
    BY RunIsRun DEF IInv
  <2>2. run.todo \in SUBSET Subs
    BY <2>1 DEF RunType
  <2> QED BY <2>1, <2>2, FirstIsOfThem
<1>2. run' = With(outcome, e, s, run.meta[s], run.signals)
  BY <1>1, AnsweredStores
<1>3. run.meta[s] = meta[s] /\ Sound(s, meta[s]) /\ meta[s] \in MetaType
  BY <1>1 DEF IInv, RunFits, MetaFits, TypeOK
<1>4. s \in Kinds => ~Apart(s, meta[s].base, meta[s].base)
  BY <1>3, NotApartFromItself
<1> HIDE DEF s
<1>5. run' = With(outcome, e, s, meta[s], run.signals)
  BY <1>2, <1>3
<1>6. run.signals \in Seq(Fingerprints) /\ Spaced(sent \o run.signals) /\ s = First(run.todo)
  BY RememberedTrails DEF s, IInv, RunFits
<1> QED BY <1>3, <1>4, <1>5, <1>6, AnswerKeepsInv

LEMMA FetchKeepsInv == ASSUME IInv, NEW s \in Subs, Fetch(s) PROVE IInv'
<1>1. run.on /\ run.todo # {} /\ s = First(run.todo) /\ UNCHANGED <<watched, world, changes, row, meta, emitted, sent>>
  BY DEF Fetch
<1>2. row.status \in Status /\ row.failures \in Nat
  BY DEF IInv, TypeOK, RowType
<1>3. ASSUME NEW response \in Responses, NEW retryAfter \in Nat \cup {NoRetryAfter},
             NEW e \in Evaluations(response, retryAfter)
      PROVE  /\ e \in Evaluation
             /\ response \in Successes => e.status = "normal"
             /\ e.status = "cooldown" => e.delay >= Ladder[1]
  BY <1>2, <1>3, EvaluationFacts DEF Evaluations
<1>4. ASSUME NEW e \in Evaluations("ok", NoRetryAfter)
      PROVE  e \in Evaluation /\ e.status = "normal"
  <2>1. "ok" \in Responses /\ "ok" \in Successes /\ NoRetryAfter \in Nat \cup {NoRetryAfter}
    BY DEF Responses, Successes
  <2> QED BY <1>3, <2>1
<1>5. ASSUME NEW e \in Evaluation, e.status = "normal", NEW outcome \in Outcomes, run' = Answered(outcome, e)
      PROVE  IInv'
  BY <1>1, <1>5, SilenceKeepsInv
<1>6. ASSUME Undecodable(s) \/ Empty PROVE IInv'
  <2>1. PICK e \in Evaluations("ok", NoRetryAfter), outcome \in {"transform_error", "success_unchanged"} :
          run' = Answered(outcome, e)
    BY <1>6 DEF Undecodable, Empty
  <2>2. outcome \in Outcomes
    BY DEF Outcomes
  <2> QED BY <1>4, <1>5, <2>1, <2>2
<1>7. ASSUME NotModified(s) PROVE IInv'
  <2>1. PICK e \in Evaluations("notModified", NoRetryAfter) : run' = Answered("not_modified", e)
    BY <1>7 DEF NotModified
  <2>2. "notModified" \in Responses /\ "notModified" \in Successes /\ NoRetryAfter \in Nat \cup {NoRetryAfter}
        /\ "not_modified" \in Outcomes
    BY DEF Responses, Successes, Outcomes
  <2>3. e \in Evaluation /\ e.status = "normal"
    BY <1>3, <2>2
  <2> QED BY <1>5, <2>1, <2>2, <2>3
<1>8. ASSUME Refused PROVE IInv'
  <2>1. PICK response \in Failures \cup {"forbidden", "redirect"}, retryAfter \in RetryAfters :
          \E e \in Evaluations(response, retryAfter) :
            run' = Answered(IF e.status = "cooldown" THEN "policy_cooldown" ELSE "fetch_failed", e)
    BY <1>8 DEF Refused
  <2>2. PICK e \in Evaluations(response, retryAfter) :
          run' = Answered(IF e.status = "cooldown" THEN "policy_cooldown" ELSE "fetch_failed", e)
    BY <2>1
  <2>3. response \in Responses /\ retryAfter \in Nat \cup {NoRetryAfter}
    BY GitHubAssumption DEF Responses, Failures, Successes
  <2>4. e \in Evaluation /\ (e.status = "cooldown" => e.delay >= Ladder[1])
    BY <1>3, <2>3
  <2> DEFINE outcome == IF e.status = "cooldown" THEN "policy_cooldown" ELSE "fetch_failed"
  <2>5. /\ outcome \in Outcomes
        /\ e.status = "cooldown" => outcome = "policy_cooldown"
        /\ e.status = "backoff" => outcome = "fetch_failed"
        /\ run' = Answered(outcome, e)
    BY <2>2 DEF Outcomes
  <2> HIDE DEF outcome
  <2> QED BY <1>1, <2>4, <2>5, SilenceKeepsInv
<1>9. ASSUME Received(s) PROVE IInv'
  <2> DEFINE value == world[s]
             new == Compared(s, value)
             stores == ~(s = "commits" /\ value = NoValue)
             news == stores /\ Reports(s, run.meta[s].base, new) /\ ~Duplicate(s, value)
             stored == IF stores THEN [run.meta[s] EXCEPT !.etag = value, !.base = new] ELSE run.meta[s]
             outcome == IF news THEN "success_changed" ELSE "success_unchanged"
             f == Fingerprint(s, value)
             signals == IF news THEN Append(run.signals, f) ELSE run.signals
             before == sent \o run.signals
  <2>1. PICK e \in Evaluations("ok", NoRetryAfter) :
          run' = [Answered(outcome, e) EXCEPT !.meta[s] = stored,
                                              !.signals = IF news THEN Append(@, f) ELSE @]
    BY <1>9 DEF Received
  <2>2. outcome \in Outcomes
    BY DEF Outcomes
  <2>3. run' = With(outcome, e, s, stored, signals)
    <3>1. Answered(outcome, e).signals = run.signals
      BY RunIsRun DEF Answered, RunType, IInv, NoRun
    <3> QED BY <2>1, <3>1 DEF With
  <2>4. value \in AnyValue /\ new \in AnyValue /\ (s = "stars" => new \in Nat)
    BY ValuesAreValues DEF IInv
  <2>5. run.meta[s] = meta[s] /\ Sound(s, meta[s]) /\ meta[s] \in MetaType
    <3>1. run.todo \in SUBSET Subs
      BY <1>1, RunIsRun DEF IInv, RunType
    <3>2. s \in run.todo
      BY <1>1, <3>1, FirstIsOfThem
    <3> QED BY <1>1, <3>2 DEF IInv, RunFits, MetaFits, TypeOK
  <2>6. /\ f \in Fingerprints /\ f[1] = s /\ run.signals \in Seq(Fingerprints)
        /\ sent \in Seq(Fingerprints) /\ before \in Seq(Fingerprints)
        /\ Remembered \in Seq(Fingerprints) /\ Trails(Remembered, before) /\ Spaced(before)
    <3>1. NoValue \in AnyValue
      BY DEF AnyValue
    <3>2. f \in Fingerprints /\ f[1] = s
      BY <2>4, <3>1 DEF Fingerprint, Fingerprints
    <3> QED BY <1>1, <3>2, RememberedTrails DEF IInv, RunFits, TypeOK
  <2>7. signals \in Seq(Fingerprints) /\ (news => sent \o signals = Append(before, f))
    <3>1. ASSUME news PROVE sent \o signals = Append(before, f)
      <4>1. signals = Append(run.signals, f) /\ before = sent \o run.signals
        BY <3>1
      <4> HIDE DEF f, signals, before, news
      <4>2. Append(run.signals, f) = run.signals \o <<f>>
        BY <2>6, AppendIsConcat
      <4>3. Append(before, f) = before \o <<f>>
        BY <2>6, AppendIsConcat
      <4>4. <<f>> \in Seq(Fingerprints)
        BY <2>6
      <4>5. (sent \o run.signals) \o <<f>> = sent \o (run.signals \o <<f>>)
        <5> DEFINE A == sent
                   B == run.signals
                   D == <<f>>
        <5>1. A \in Seq(Fingerprints) /\ B \in Seq(Fingerprints) /\ D \in Seq(Fingerprints)
          BY <2>6, <4>4
        <5> HIDE DEF A, B, D
        <5>2. (A \o B) \o D = A \o (B \o D)
          BY <5>1, ConcatAssociative
        <5> QED BY <5>2 DEF A, B, D
      <4> QED BY <4>1, <4>2, <4>3, <4>5
    <3> QED BY <2>6, <3>1
  <2>8. stored \in MetaType /\ Sound(s, stored) /\ (stores => stored.etag = value /\ stored.base = new)
    <3>1. CASE stores
      <4>1. stored = [meta[s] EXCEPT !.etag = value, !.base = new]
        BY <2>5, <3>1
      <4>3. new = Compared(s, value)
        OBVIOUS
      <4> HIDE DEF new, value, stored
      <4>2. stored \in MetaType /\ stored.etag = value /\ stored.base = new
        BY <2>4, <2>5, <4>1 DEF MetaType
      <4> QED BY <2>4, <4>2, <4>3 DEF Sound
    <3>2. CASE ~stores
      BY <2>5, <3>2
    <3> QED BY <3>1, <3>2
  <2>9. Spaced(sent \o signals)
    <3>1. CASE news
      <4>1. f[1] \in Kinds => ~Among(f, Remembered)
        BY <2>6, <3>1 DEF Duplicate
      <4> HIDE DEF f, before, signals, news
      <4> QED BY <2>6, <2>7, <3>1, <4>1, SpacedOn
    <3>2. CASE ~news
      BY <2>6, <3>2
    <3> QED BY <3>1, <3>2
  <2>10. (\A g : Among(g, before) => Among(g, sent \o signals)) /\ (news => Among(f, sent \o signals))
    <3>1. CASE news
      <4>1. /\ DOMAIN Append(before, f) = 1 .. Len(before) + 1 /\ Append(before, f)[Len(before) + 1] = f
            /\ \A i \in 1 .. Len(before) : Append(before, f)[i] = before[i]
            /\ DOMAIN before = 1 .. Len(before) /\ Len(before) \in Nat
        BY <2>6
      <4> HIDE DEF f, before, signals, news
      <4>2. 1 .. Len(before) \subseteq DOMAIN Append(before, f) /\ Len(before) + 1 \in DOMAIN Append(before, f)
        BY <4>1
      <4> QED BY <2>7, <3>1, <4>1, <4>2 DEF Among
    <3>2. CASE ~news
      BY <3>2
    <3> QED BY <3>1, <3>2
  <2>11. ASSUME s \in Kinds, Apart(s, meta[s].base, stored.base)
         PROVE  Among(Fingerprint(s, stored.etag), sent \o signals)
    <3>1. s \in {"releases", "stars"} /\ stores
      BY <2>11, SubsAre
    <3>2. Fingerprint(s, stored.etag) = f /\ stored.base = new
      BY <2>8, <3>1
    <3>3. Reports(s, run.meta[s].base, new)
      BY <2>5, <2>11, <3>1, <3>2 DEF Apart, Reports
    <3>4. CASE news
      BY <2>10, <3>2, <3>4
    <3>5. CASE ~news
      <4>1. Among(f, Remembered)
        BY <3>1, <3>3, <3>5 DEF Duplicate
      <4>2. Among(f, before)
        BY <2>6, <4>1, TrailedIsAmong
      <4> QED BY <2>10, <3>2, <4>2
    <3> QED BY <3>4, <3>5
  <2>12. \A g : Among(g, sent \o run.signals) => Among(g, sent \o signals)
    BY <2>10
  <2> HIDE DEF value, new, stores, news, stored, outcome, f, signals, before
  <2> QED BY <1>1, <1>4, <2>2, <2>3, <2>7, <2>8, <2>9, <2>11, <2>12, AnswerKeepsInv
<1> QED BY <1>6, <1>7, <1>8, <1>9 DEF Fetch

LEMMA StartKeepsInv == ASSUME IInv, Start PROVE IInv'
<1> DEFINE claimed == IF row.status = "cooldown" THEN "recovering" ELSE row.status
<1>1. /\ row' = [row EXCEPT !.status = claimed]
      /\ run' = [on |-> TRUE, todo |-> Asked(claimed), evals |-> <<>>, outcomes |-> {},
                 signals |-> <<>>, meta |-> meta]
      /\ UNCHANGED <<watched, world, changes, meta, emitted, sent>>
  BY DEF Start
<1>2. claimed \in Status
  BY DEF IInv, TypeOK, RowType, Status
<1>3. Asked(claimed) \in SUBSET Subs /\ meta \in [Subs -> MetaType]
  BY DEF Asked, IInv, TypeOK
<1>4. row' \in RowType
  BY <1>1, <1>2 DEF IInv, TypeOK, RowType
<1> HIDE DEF claimed
<1>5. run' \in RunType
  <2>1. <<>> \in Seq(EvalType) /\ <<>> \in Seq(Fingerprints) /\ {} \in SUBSET Outcomes
    OBVIOUS
  <2> QED BY <1>1, <1>3, <2>1 DEF RunType
<1>6. TypeOK' /\ MetaFits'
  BY <1>1, <1>4, <1>5 DEF IInv, TypeOK, MetaFits, Sound, Trails, Spaced
<1>7. run'.on /\ run'.meta = meta /\ run'.signals = <<>> /\ sent' = sent /\ run'.evals = <<>> /\ meta' = meta
  BY <1>1
<1>8. RunFits'
  <2>1. sent \in Seq(Fingerprints) /\ sent \o <<>> = sent /\ Spaced(sent)
    BY ConcatEmptySeq DEF IInv, TypeOK, MetaFits
  <2>2. ASSUME NEW s \in Subs PROVE Sound(s, meta[s]) /\ (s \in Kinds => ~Apart(s, meta[s].base, meta[s].base))
    BY <2>2, NotApartFromItself DEF IInv, MetaFits
  <2> QED BY <1>7, <2>1, <2>2 DEF RunFits, Sound, Apart, Another, FarOff, Spaced
<1>9. EvalsFit'
  BY <1>7 DEF EvalsFit
<1> QED BY <1>6, <1>8, <1>9 DEF IInv

(* The evaluation that counts is one of the run's, and none is worse. *)
LEMMA WorstIsWorst ==
  ASSUME run \in RunType, run.evals # <<>>
  PROVE  /\ \E i \in DOMAIN run.evals : Worst = run.evals[i]
         /\ \A j \in DOMAIN run.evals : Severity(Worst) <= Severity(run.evals[j])
<1> DEFINE n == Len(run.evals)
           sev(i) == Severity(run.evals[i])
           severest == {i \in DOMAIN run.evals : \A j \in DOMAIN run.evals : sev(i) <= sev(j)}
<1>1. run.evals \in Seq(EvalType) /\ n \in Nat /\ DOMAIN run.evals = 1..n /\ 1 \in 1..n
  BY DEF RunType
<1>2. \A i \in 1..n : sev(i) \in {0, 1, 2}
  BY DEF Severity
<1>3. \E i \in 1..n : \A j \in 1..n : sev(i) <= sev(j)
  <2> HIDE DEF sev
  <2>1. CASE \E i \in 1..n : sev(i) = 0
    BY <1>2, <2>1
  <2>2. CASE (\A i \in 1..n : sev(i) # 0) /\ \E i \in 1..n : sev(i) = 1
    <3>1. PICK i \in 1..n : sev(i) = 1
      BY <2>2
    <3>2. \A j \in 1..n : sev(j) = 1 \/ sev(j) = 2
      BY <1>2, <2>2
    <3>3. \A j \in 1..n : sev(i) <= sev(j)
      BY <3>1, <3>2
    <3> QED BY <3>3
  <2>3. CASE (\A i \in 1..n : sev(i) # 0) /\ (\A i \in 1..n : sev(i) # 1)
    BY <1>1, <1>2, <2>3
  <2> QED BY <2>1, <2>2, <2>3
<1>4. severest \in SUBSET (1..n) /\ severest # {}
  BY <1>1, <1>3
<1>5. \E m \in severest : \A i \in severest : i <= m
  <2> HIDE DEF severest
  <2> QED BY <1>1, <1>4, Greatest
<1> DEFINE last == CHOOSE i \in severest : \A j \in severest : j <= i
<1>6. last \in severest
  <2> HIDE DEF severest
  <2> QED BY <1>5
<1>7. Worst = run.evals[last]
  BY DEF Worst
<1> HIDE DEF last
<1> QED BY <1>6, <1>7

LEMMA CompositeIsOutcome == Composite \in Outcomes
BY DEF Composite, Outcomes

LEMMA ObservedFacts ==
  ASSUME run \in RunType
  PROVE  Observed.status \in Status /\ Observed.failures \in Nat /\ Observed.delay \in Nat
<1>1. CASE run.evals = <<>>
  BY <1>1, PolicyAssumption DEF Observed, Status
<1>2. CASE run.evals # <<>>
  <2>1. PICK i \in DOMAIN run.evals : Worst = run.evals[i]
    BY <1>2, WorstIsWorst
  <2>2. Worst \in EvalType
    BY <2>1 DEF RunType
  <2> QED BY <1>2, <2>2 DEF Observed, EvalType
<1> QED BY <1>1, <1>2

LEMMA TransitionFacts ==
  ASSUME run \in RunType, row \in RowType
  PROVE  /\ Transition.status \in Status /\ Transition.failures \in Nat /\ Transition.delay \in Nat
         /\ Composite = "policy_cooldown" => Transition.status = "cooldown" /\ Transition.delay = Observed.delay
         /\ Composite = "fetch_failed" => Transition.status \in {"cooldown", "backoff"}
<1>1. Observed.failures \in Nat /\ Observed.delay \in Nat /\ row.failures \in Nat /\ Interval \in Nat
  BY ObservedFacts, PolicyAssumption DEF RowType
<1>2. CASE Composite = "policy_cooldown"
  <2>1. Transition = Isolate(IF Observed.failures > 0 THEN Observed.failures ELSE row.failures, Observed.delay)
    BY <1>2 DEF Transition, TransitionFor
  <2> QED BY <1>1, <1>2, <2>1 DEF Isolate, Status
<1>3. CASE Composite = "fetch_failed"
  <2>1. Transition = [status |-> IF row.status \in Isolated THEN "cooldown" ELSE "backoff",
                      failures |-> IF Observed.failures > 0 THEN Observed.failures ELSE row.failures + 1,
                      delay |-> Observed.delay]
    BY <1>3 DEF Transition, TransitionFor
  <2> QED BY <1>1, <1>3, <2>1 DEF Status
<1>4. CASE Composite \notin {"policy_cooldown", "fetch_failed"}
  <2>1. Transition = [status |-> "normal", failures |-> 0, delay |-> Interval]
    BY <1>4 DEF Transition, TransitionFor
  <2> QED BY <1>1, <1>4, <2>1 DEF Status
<1> QED BY <1>2, <1>3, <1>4

(* What the end of a run stores of each sub-resource: what the run has in  *)
(* its hands but for the penalty, or, when it reports nothing, perhaps     *)
(* what was there.                                                         *)
LEMMA StoredFacts ==
  ASSUME run \in RunType, meta \in [Subs -> MetaType]
  PROVE  /\ Stored \in [Subs -> MetaType]
         /\ \/ Stored = meta /\ KeepsMetadata
            \/ ~KeepsMetadata /\ \A s \in Subs : Stored[s].etag = run.meta[s].etag /\ Stored[s].base = run.meta[s].base
         /\ KeepsMetadata => run.signals = <<>>
<1>1. run.meta \in [Subs -> MetaType] /\ run.evals \in Seq(EvalType)
  BY DEF RunType
<1>2. \A s \in Subs : PenaltyOf(s) \in Nat
  <2> TAKE s \in Subs
  <2> DEFINE asked == {i \in DOMAIN run.evals : run.evals[i].sub = s /\ run.evals[i].status \in {"backoff", "cooldown"}}
  <2>1. CASE asked = {}
    BY <2>1 DEF PenaltyOf
  <2>2. CASE asked # {}
    <3> DEFINE k == CHOOSE i \in asked : TRUE
    <3>1. k \in DOMAIN run.evals
      BY <2>2
    <3>2. PenaltyOf(s) = run.evals[k].delay
      BY <2>2 DEF PenaltyOf
    <3> HIDE DEF k
    <3>3. run.evals[k] \in EvalType
      BY <1>1, <3>1
    <3> QED BY <3>2, <3>3 DEF EvalType
  <2> QED BY <2>1, <2>2
<1>3. CASE KeepsMetadata
  <2>1. Stored = meta /\ run.signals = <<>>
    BY <1>3 DEF Stored, KeepsMetadata, Composite
  <2> QED BY <1>3, <2>1
<1>4. CASE ~KeepsMetadata /\ run.evals = <<>>
  BY <1>1, <1>4 DEF Stored, WithStates
<1>5. CASE ~KeepsMetadata /\ run.evals # <<>>
  <2>1. Stored = [s \in Subs |-> [run.meta[s] EXCEPT !.wait = PenaltyOf(s)]]
    BY <1>5 DEF Stored, WithStates
  <2>2. \A s \in Subs : run.meta[s] \in MetaType
    BY <1>1
  <2>3. ASSUME NEW s \in Subs
        PROVE  /\ Stored[s] \in MetaType
               /\ Stored[s].etag = run.meta[s].etag /\ Stored[s].base = run.meta[s].base
    BY <1>2, <2>1, <2>2 DEF MetaType
  <2> QED BY <1>5, <2>1, <2>3
<1> QED BY <1>3, <1>4, <1>5

LEMMA FinishKeepsInv == ASSUME IInv, Finish PROVE IInv'
<1>1. run.on /\ run \in RunType /\ row \in RowType /\ meta \in [Subs -> MetaType]
  BY RunIsRun DEF Finish, IInv, TypeOK
<1>2. /\ row' = [status |-> Transition.status, failures |-> AtMost(Transition.failures, FailureCap),
                wait |-> Transition.delay]
      /\ meta' = Stored /\ emitted' = StoredEmitted /\ sent' = sent \o run.signals /\ run' = NoRun
      /\ UNCHANGED <<watched, world, changes>>
  BY DEF Finish
<1>3. FailureCap \in Nat
  BY PolicyAssumption DEF FailureCap
<1>4. row' \in RowType
  <2>1. AtMost(Transition.failures, FailureCap) \in Nat
    BY <1>1, <1>3, TransitionFacts DEF AtMost
  <2> QED BY <1>1, <1>2, <2>1, TransitionFacts DEF RowType
<1>5. /\ emitted' \in Seq(Fingerprints) /\ sent' \in Seq(Fingerprints)
      /\ Trails(emitted', sent') /\ Spaced(sent')
  <2>1. sent' \in Seq(Fingerprints) /\ Spaced(sent')
    BY <1>1, <1>2, RememberedTrails DEF IInv, RunFits
  <2>2. CASE KeepsMetadata
    <3>1. emitted' = emitted /\ sent' = sent
      BY <1>1, <1>2, <2>2, StoredFacts, ConcatEmptySeq DEF StoredEmitted, IInv, TypeOK
    <3> QED BY <2>1, <3>1 DEF IInv, TypeOK, MetaFits
  <2>3. CASE ~KeepsMetadata
    <3>1. emitted' = Remembered
      BY <1>2, <2>3 DEF StoredEmitted
    <3> QED BY <1>1, <1>2, <2>1, <3>1, RememberedTrails
  <2> QED BY <2>2, <2>3
<1>6. meta' \in [Subs -> MetaType]
  BY <1>1, <1>2, StoredFacts
<1>7. TypeOK'
  BY <1>2, <1>4, <1>5, <1>6 DEF IInv, TypeOK
<1>8. MetaFits'
  <2>1. ASSUME NEW s \in Subs PROVE Sound(s, meta'[s])
    <3>1. Sound(s, meta[s]) /\ Sound(s, run.meta[s])
      BY <1>1 DEF IInv, MetaFits, RunFits
    <3>2. CASE meta' = meta
      BY <3>1, <3>2
    <3>3. CASE meta'[s].etag = run.meta[s].etag /\ meta'[s].base = run.meta[s].base
      BY <3>1, <3>3 DEF Sound
    <3> QED BY <1>1, <1>2, <3>2, <3>3, StoredFacts
  <2> QED BY <1>5, <2>1 DEF MetaFits, Sound, Trails, Spaced
<1>9. ~run'.on
  BY <1>2 DEF NoRun
<1> QED BY <1>7, <1>8, <1>9 DEF IInv, RunFits, EvalsFit

LEMMA AbandonKeepsInv == ASSUME IInv, Abandon PROVE IInv'
<1>1. run' = NoRun /\ ~run'.on /\ UNCHANGED <<watched, world, changes, row, meta, emitted, sent>>
  BY DEF Abandon, NoRun
<1>2. TypeOK' /\ MetaFits'
  BY <1>1 DEF IInv, TypeOK, MetaFits, Sound, Trails, Spaced
<1> QED BY <1>1, <1>2 DEF IInv, RunFits, EvalsFit

(* What changes neither the metadata nor a run. *)
LEMMA ElsewhereKeepsInv == ASSUME IInv, TypeOK', UNCHANGED <<meta, emitted, run, sent>> PROVE IInv'
<1>1. MetaFits'
  BY DEF IInv, MetaFits, Sound, Trails, Spaced
<1>2. RunFits' /\ EvalsFit'
  BY DEF IInv, RunFits, EvalsFit, Sound, Shows, Apart, Another, FarOff, Spaced, Among, Fingerprint
<1> QED BY <1>1, <1>2 DEF IInv

LEMMA ChangeKeepsInv == ASSUME IInv, Change PROVE IInv'
<1>1. PICK s \in watched : \E v \in Values[s] \ {world[s]} : world' = [world EXCEPT ![s] = v]
  BY DEF Change
<1>2. PICK v \in Values[s] : world' = [world EXCEPT ![s] = v]
  BY <1>1
<1>3. s \in Subs /\ v \in AnyValue
  <2>1. s \in Subs
    BY DEF IInv, TypeOK
  <2> QED BY <2>1 DEF AnyValue, Taken
<1>4. world' \in [Subs -> AnyValue] /\ \A r \in Subs : world'[r] \in Values[r]
  BY <1>2, <1>3 DEF IInv, TypeOK
<1>5. changes' \in Nat
  BY DEF Change, IInv, TypeOK
<1>6. TypeOK'
  BY <1>4, <1>5 DEF Change, IInv, TypeOK
<1> QED BY <1>6, ElsewhereKeepsInv DEF Change

LEMMA EnableKeepsInv == ASSUME IInv, Enable PROVE IInv'
<1>1. row' \in RowType
  BY DEF Enable, IInv, TypeOK, RowType, Status
<1>2. TypeOK'
  BY <1>1 DEF Enable, IInv, TypeOK
<1> QED BY <1>2, ElsewhereKeepsInv DEF Enable

LEMMA TickKeepsInv == ASSUME IInv, Tick PROVE IInv'
<1>1. \A n \in Nat : Less(n) \in Nat
  BY DEF Less, AtLeast
<1>2. row' \in RowType
  BY <1>1 DEF Tick, IInv, TypeOK, RowType
<1>3. ASSUME NEW s \in Subs
      PROVE  /\ meta'[s] \in MetaType
             /\ meta'[s].etag = meta[s].etag /\ meta'[s].base = meta[s].base
  <2>1. meta'[s] = [meta[s] EXCEPT !.wait = Less(@)] /\ meta[s] \in MetaType
    BY DEF Tick, IInv, TypeOK
  <2> QED BY <1>1, <2>1 DEF MetaType
<1>4. meta' \in [Subs -> MetaType]
  BY <1>3 DEF Tick
<1>5. TypeOK'
  BY <1>2, <1>4 DEF Tick, IInv, TypeOK
<1>6. MetaFits'
  BY <1>3 DEF Tick, IInv, MetaFits, Sound, Trails, Spaced
<1>7. ~run'.on
  BY DEF Tick
<1> QED BY <1>5, <1>6, <1>7 DEF IInv, RunFits, EvalsFit

LEMMA IInvStep == IInv /\ [Next]_vars => IInv'
<1> SUFFICES ASSUME IInv, [Next]_vars PROVE IInv'
  OBVIOUS
<1>1. ASSUME UNCHANGED vars PROVE IInv'
  <2>1. TypeOK'
    BY <1>1 DEF vars, IInv, TypeOK
  <2> QED BY <1>1, <2>1, ElsewhereKeepsInv DEF vars
<1>2. ASSUME FetchReleases \/ FetchStars \/ FetchCommits \/ FetchPulls \/ FetchIssues PROVE IInv'
  <2>1. PICK s \in Subs : Fetch(s)
    BY <1>2, SubsAre DEF FetchReleases, FetchStars, FetchCommits, FetchPulls, FetchIssues
  <2> QED BY <2>1, FetchKeepsInv
<1> QED BY <1>1, <1>2, StartKeepsInv, FinishKeepsInv, AbandonKeepsInv, ChangeKeepsInv, EnableKeepsInv,
           TickKeepsInv DEF Next

-----------------------------------------------------------------------------
(* The inductive invariant: stored ETags, baselines and fingerprints fit   *)
(* each other and what was sent, and so do those in the hands of a run.    *)
THEOREM GitHubInvariant == Spec => []IInv
BY IInvInit, IInvStep, PTL DEF Spec

(* Every variable keeps its type, whatever the policy answers. *)
THEOREM TypeCorrect == Spec => []TypeOK
<1>1. IInv => TypeOK
  BY DEF IInv
<1> QED BY <1>1, GitHubInvariant, PTL

(* The ETag that execute stores never runs ahead of the baseline: a 304    *)
(* hides no change of any sub-resource, whatever the others of the run met.*)
THEOREM NoEtagIsBlind == Spec => []NoBlindEtag
<1>1. IInv => NoBlindEtag
  BY DEF IInv, MetaFits, Sound, NoBlindEtag
<1> QED BY <1>1, GitHubInvariant, PTL

LEMMA OnlyFinishEnds == ASSUME TypeOK, Next, Ends PROVE Finish
<1>1. ASSUME NEW s, Fetch(s) PROVE row' = row
  BY <1>1 DEF Fetch
<1>2. FetchReleases \/ FetchStars \/ FetchCommits \/ FetchPulls \/ FetchIssues => row' = row
  BY <1>1 DEF FetchReleases, FetchStars, FetchCommits, FetchPulls, FetchIssues
<1>3. Abandon \/ Change => row' = row
  BY DEF Abandon, Change
<1>4. Start \/ Enable \/ Tick => ~run.on
  BY DEF Start, Enable, Tick
<1> QED BY <1>2, <1>3, <1>4 DEF Next, Ends

(* A release or a number of stars is sent again only after EmittedCap other*)
(* reports, for a memory of any length: _is_duplicate_signal sees the last *)
(* fingerprints that were sent, since a run that reports stores its        *)
(* metadata.                                                               *)
THEOREM ReportsAreNew == Spec => []ReportedOnce
<1>1. IInv => ReportedOnce
  BY DEF IInv, MetaFits, Spaced, ReportedOnce
<1> QED BY <1>1, GitHubInvariant, PTL

(* A stored release or number of stars never gives way to another that had *)
(* to be reported, unless that one was sent.                               *)
THEOREM NoMoveIsSilent == Spec => MovesAreReported
<1>1. ASSUME IInv, Next, NEW s \in Kinds, Apart(s, meta[s].base, meta'[s].base) PROVE Among(Fingerprint(s, meta'[s].etag), sent')
  <2>0. s \in Subs /\ Sound(s, meta[s])
    BY <1>1 DEF Kinds, IInv, MetaFits
  <2>1. meta'[s].base # meta[s].base
    BY <1>1, <2>0, NotApartFromItself
  <2>2. ASSUME NEW r, Fetch(r) PROVE meta' = meta
    BY <2>2 DEF Fetch
  <2>3. FetchReleases \/ FetchStars \/ FetchCommits \/ FetchPulls \/ FetchIssues => meta' = meta
    BY <2>2 DEF FetchReleases, FetchStars, FetchCommits, FetchPulls, FetchIssues
  <2>4. Start \/ Abandon \/ Change \/ Enable => meta' = meta
    BY DEF Start, Abandon, Change, Enable
  <2>5. Tick => meta'[s].base = meta[s].base
    <3>1. meta[s] \in MetaType
      BY <1>1, <2>0 DEF IInv, TypeOK
    <3>2. Tick => meta'[s] = [meta[s] EXCEPT !.wait = Less(@)]
      BY <2>0 DEF Tick
    <3> QED BY <3>1, <3>2 DEF MetaType
  <2>6. Finish
    BY <1>1, <2>1, <2>3, <2>4, <2>5 DEF Next
  <2>7. run.on /\ run \in RunType /\ meta \in [Subs -> MetaType] /\ meta' = Stored
        /\ sent' = sent \o run.signals
    BY <1>1, <2>0, <2>6, RunIsRun DEF Finish, IInv, TypeOK
  <2>8. meta'[s].base = run.meta[s].base /\ meta'[s].etag = run.meta[s].etag
    BY <2>0, <2>1, <2>7, StoredFacts
  <2>9. Apart(s, meta[s].base, run.meta[s].base) => Among(Fingerprint(s, run.meta[s].etag), sent \o run.signals)
    BY <1>1, <2>0, <2>7 DEF IInv, RunFits
  <2> QED BY <1>1, <2>7, <2>8, <2>9
<1>2. IInv /\ [Next]_vars =>
        [\A s \in Kinds : Apart(s, meta[s].base, meta'[s].base) => Among(Fingerprint(s, meta'[s].etag), sent')]_vars
  BY <1>1
<1> QED BY <1>2, GitHubInvariant, PTL DEF Spec, MovesAreReported

(* A failure of any sub-resource counts in a run without news and without  *)
(* 304: the composite outcome and the worst evaluation agree, for any      *)
(* order and number of the others.                                         *)
THEOREM AnyFailureCounts == Spec => FailureOfAnyCounts
<1> DEFINE statuses == {run.evals[i].status : i \in DOMAIN run.evals}
<1>1. ASSUME IInv, Next, Ends, run.signals = <<>>, "not_modified" \notin run.outcomes
      PROVE  /\ "cooldown" \in statuses => row'.status = "cooldown" /\ row'.wait >= Ladder[1]
             /\ "backoff" \in statuses => row'.status \in {"backoff", "cooldown"}
  <2>1. Finish /\ run.on /\ run \in RunType /\ row \in RowType
    BY <1>1, OnlyFinishEnds, RunIsRun DEF IInv, TypeOK, Ends
  <2>2. row'.status = Transition.status /\ row'.wait = Transition.delay
    BY <2>1 DEF Finish
  <2>3. \A i \in DOMAIN run.evals : Shows(run.evals[i], run.outcomes)
    BY <1>1, <2>1 DEF IInv, EvalsFit
  <2>4. ASSUME NEW i \in DOMAIN run.evals, run.evals[i].status = "cooldown"
        PROVE  row'.status = "cooldown" /\ row'.wait >= Ladder[1]
    <3>1. "policy_cooldown" \in run.outcomes
      BY <2>3, <2>4 DEF Shows
    <3>2. Composite = "policy_cooldown"
      BY <1>1, <3>1 DEF Composite
    <3>3. run.evals # <<>>
      BY <2>4
    <3>4. PICK k \in DOMAIN run.evals : Worst = run.evals[k]
      BY <2>1, <3>3, WorstIsWorst
    <3>5. Severity(Worst) <= Severity(run.evals[i])
      BY <2>1, <2>4, <3>3, WorstIsWorst
    <3>6. Worst.status = "cooldown"
      BY <2>4, <3>5 DEF Severity
    <3>7. Worst.delay >= Ladder[1]
      BY <2>3, <3>4, <3>6 DEF Shows
    <3>8. Observed.delay = Worst.delay
      BY <3>3 DEF Observed
    <3> QED BY <2>1, <2>2, <3>2, <3>7, <3>8, TransitionFacts
  <2>5. ASSUME NEW i \in DOMAIN run.evals, run.evals[i].status = "backoff"
        PROVE  row'.status \in {"backoff", "cooldown"}
    <3>1. "fetch_failed" \in run.outcomes
      BY <2>3, <2>5 DEF Shows
    <3>2. Composite \in {"policy_cooldown", "fetch_failed"}
      BY <1>1, <3>1 DEF Composite
    <3> QED BY <2>1, <2>2, <3>2, TransitionFacts
  <2> QED BY <2>4, <2>5
<1>2. IInv /\ [Next]_vars =>
        [ Ends /\ run.signals = <<>> /\ "not_modified" \notin run.outcomes
          => LET found == {run.evals[i].status : i \in DOMAIN run.evals}
             IN /\ "cooldown" \in found => row'.status = "cooldown" /\ row'.wait >= Ladder[1]
                /\ "backoff" \in found => row'.status \in {"backoff", "cooldown"} ]_vars
  BY <1>1
<1> QED BY <1>2, GitHubInvariant, PTL DEF Spec, FailureOfAnyCounts
=============================================================================
