-------------------------- MODULE GitHubSubresources --------------------------
(***************************************************************************)
(* GitHubTarget.execute (github_target.py): one target, up to five         *)
(* sub-resources of one repository fetched one after the other, each with  *)
(* its own ETag, baseline and penalty, and one composite outcome that      *)
(* decides what transition_for stores of them all.  The repository changes *)
(* between and during runs.                                                *)
(*                                                                         *)
(* A sub-resource is the value the adapter compares: a tag name, a number  *)
(* of stars, a sha, or the newest pull request or issue [number, state].   *)
(* A release also has a time of publication, which the adapter puts into   *)
(* its fingerprint but does not compare.  The server's ETag identifies the *)
(* value.  Time passes between runs only: a run stamps everything with the *)
(* time of its start.  target.etag is written but never sent, and is left  *)
(* out.                                                                    *)
(***************************************************************************)
EXTENDS FetchPolicy, FiniteSets, Sequences

CONSTANTS
  WatchLists,   \* the sets of watch_types a target may have
  Values,       \* sub-resource -> the values it can have, NoValue for an empty answer
  NoValue,
  NoEtag,
  Threshold,    \* star_delta_threshold
  EmittedCap,   \* fingerprints that are remembered: 100
  RetryAfters,  \* values of the Retry-After header
  MaxChanges    \* bound: changes of a repository, for each set of watch_types

(* The order of execute. *)
Order == <<"releases", "stars", "commits", "prs", "issues">>
Subs == {Order[i] : i \in 1..5}
First(S) == Order[CHOOSE i \in 1..5 : Order[i] \in S /\ \A j \in 1..(i - 1) : Order[j] \notin S]

ASSUME GitHubAssumption ==
  /\ WatchLists \subseteq (SUBSET Subs) \ {{}}
  /\ DOMAIN Values = Subs /\ \A s \in Subs : Values[s] # {}
  /\ Values["stars"] \subseteq Nat /\ NoValue \notin Nat
  /\ {Threshold, EmittedCap} \subseteq Nat \ {0}
  /\ RetryAfters \subseteq Nat \cup {NoRetryAfter} /\ RetryAfters # {}
  /\ MaxChanges \in [WatchLists -> Nat]

VARIABLES
  watched,  \* watch_types of the rule
  world,    \* what the repository is
  changes,  \* how often it changed
  row,      \* scheduling columns of the target: status, failures, wait until next_allowed_at
  meta,     \* stored metadata: of each sub-resource ETag, baseline and, when
            \* penalised, the wait until its next_allowed_at
  emitted,  \* stored metadata: emitted_signal_fingerprints, of all sub-resources
  run,      \* execute, between two of its requests
  sent      \* the fingerprints of all signals that were committed (history)

vars == <<watched, world, changes, row, meta, emitted, run, sent>>

NoRun == [on |-> FALSE, todo |-> {}, evals |-> <<>>, outcomes |-> {}, signals |-> <<>>]

Init ==
  /\ watched \in WatchLists
  /\ world = [s \in Subs |-> CHOOSE v \in Values[s] : TRUE]
  /\ changes = 0
  /\ row = [status |-> "normal", failures |-> 0, wait |-> 0]
  /\ meta = [s \in Subs |-> [etag |-> NoEtag, base |-> NoValue, wait |-> 0]]
  /\ emitted = <<>>
  /\ run = NoRun
  /\ sent = <<>>

-----------------------------------------------------------------------------
(* A recovery probe asks for releases only: the others want NORMAL.        *)
(* _should_skip_subresource: a stored penalty that is not over.            *)
Asked(status) ==
  {s \in watched : (s = "releases" \/ status = "normal") /\ meta[s].wait = 0}

(* The claim, and the start of execute. *)
Start ==
  /\ ~run.on
  /\ row.status \in {"normal", "recovering", "cooldown"}
  /\ row.wait = 0
  /\ LET claimed == IF row.status = "cooldown" THEN "recovering" ELSE row.status
     IN /\ row' = [row EXCEPT !.status = claimed]
        /\ run' = [on |-> TRUE, todo |-> Asked(claimed), evals |-> <<>>, outcomes |-> {},
                   signals |-> <<>>, meta |-> meta]
  /\ UNCHANGED <<watched, world, changes, meta, emitted, sent>>

(* What of a value is kept and compared: of a release its tag. *)
Compared(s, value) == IF s = "releases" /\ value # NoValue THEN value.tag ELSE value

(* Whether a new value is reported: another tag, another commit, a number  *)
(* of stars at least the threshold away.  Of pull requests and issues only *)
(* the state of the newest counts, whichever item that is.                 *)
Another(old, new) == old # NoValue /\ new # NoValue /\ old # new
FarOff(old, new) == old # NoValue /\ (new - old >= Threshold \/ old - new >= Threshold)
OtherState(old, new) == old # NoValue /\ new # NoValue /\ old.state # new.state
Reports(s, old, new) ==
  CASE s \in {"releases", "commits"} -> Another(old, new)
    [] s = "stars" -> FarOff(old, new)
    [] s \in {"prs", "issues"} -> OtherState(old, new)

(* _compute_signal_fingerprint: a release with its time of publication, a  *)
(* number of stars; that of the other three contains the time of the fetch *)
(* and is like no other.                                                   *)
Kinds == Subs \cap {"releases", "stars"}
Fingerprint(s, value) == <<s, IF s \in Kinds THEN value ELSE NoValue>>

(* A mutant: one fingerprint too few is kept. *)
LatestFewer(q) == SubSeq(q, AtLeast(1, Len(q) - EmittedCap + 2), Len(q))

(* emitted[-100:] *)
Latest(q) == SubSeq(q, AtLeast(1, Len(q) - EmittedCap + 1), Len(q))

(* _record_signal_fingerprint, for all the signals of the run so far. *)
Remembered == Latest(emitted \o run.signals)

(* _is_duplicate_signal *)
Among(f, q) == \E i \in DOMAIN q : q[i] = f
Duplicate(s, value) == s \in Kinds /\ Among(Fingerprint(s, value), Remembered)

Answered(outcome, evaluation) ==
  [run EXCEPT !.todo = @ \ {First(@)}, !.outcomes = @ \cup {outcome},
              !.evals = Append(@, [sub |-> First(run.todo), status |-> evaluation.status,
                                   failures |-> evaluation.failures, delay |-> evaluation.delay])]

Evaluations(response, retryAfter) == EvaluateResponse(row.status, row.failures, response, retryAfter)

(* 200 with its value.  An empty list of commits leaves ETag and baseline  *)
(* as they are.                                                            *)
Received(s) ==
  LET value == world[s]
      stores == ~(s = "commits" /\ value = NoValue)
      news == stores /\ Reports(s, run.meta[s].base, Compared(s, value)) /\ ~Duplicate(s, value)
      stored == IF stores THEN [run.meta[s] EXCEPT !.etag = value, !.base = Compared(s, value)]
                ELSE run.meta[s]
  IN \E e \in Evaluations("ok", NoRetryAfter) :
       run' = [Answered(IF news THEN "success_changed" ELSE "success_unchanged", e)
                 EXCEPT !.meta[s] = stored,
                        !.signals = IF news THEN Append(@, Fingerprint(s, value)) ELSE @]

(* A mutant: the ETag is kept before the body is decoded. *)
UndecodableKeepsEtag(s) ==
  \E e \in Evaluations("ok", NoRetryAfter) :
    run' = [Answered("transform_error", e) EXCEPT !.meta[s].etag = world[s]]

(* 200 with a body that is not the JSON expected. *)
Undecodable(s) ==
  \E e \in Evaluations("ok", NoRetryAfter) : run' = Answered("transform_error", e)

(* 304 answers an ETag that is current. *)
NotModified(s) ==
  /\ run.meta[s].etag = world[s]
  /\ \E e \in Evaluations("notModified", NoRetryAfter) : run' = Answered("not_modified", e)

(* Everything else that has a status code; an empty 200 counts as no news. *)
Refused ==
  \E response \in Failures \cup {"forbidden", "redirect"}, retryAfter \in RetryAfters :
    \E e \in Evaluations(response, retryAfter) :
      run' = Answered(IF e.status = "cooldown" THEN "policy_cooldown" ELSE "fetch_failed", e)

Empty == \E e \in Evaluations("ok", NoRetryAfter) : run' = Answered("success_unchanged", e)

(* The request for the next sub-resource, and its branch. *)
Fetch(s) ==
  /\ run.on /\ run.todo # {} /\ First(run.todo) = s
  /\ Received(s) \/ Undecodable(s) \/ NotModified(s) \/ Refused \/ Empty
  /\ UNCHANGED <<watched, world, changes, row, meta, emitted, sent>>

(* The five blocks of execute. *)
FetchReleases == Fetch("releases")
FetchStars == Fetch("stars")
FetchCommits == Fetch("commits")
FetchPulls == Fetch("prs")
FetchIssues == Fetch("issues")

-----------------------------------------------------------------------------
(* A mutant: a 304 is looked for first. *)
CompositeNotModifiedFirst ==
  IF "not_modified" \in run.outcomes THEN "not_modified"
  ELSE IF run.signals # <<>> THEN "success_changed"
  ELSE IF "policy_cooldown" \in run.outcomes THEN "policy_cooldown"
  ELSE IF "fetch_failed" \in run.outcomes THEN "fetch_failed"
  ELSE IF "transform_error" \in run.outcomes THEN "transform_error"
  ELSE "success_unchanged"

(* 4. Determine composite outcome.  TIMEOUT never arises: a result without *)
(* a status code has already raised in evaluate_response.                  *)
Composite ==
  IF run.signals # <<>> THEN "success_changed"
  ELSE IF "not_modified" \in run.outcomes THEN "not_modified"
  ELSE IF "policy_cooldown" \in run.outcomes THEN "policy_cooldown"
  ELSE IF "fetch_failed" \in run.outcomes THEN "fetch_failed"
  ELSE IF "transform_error" \in run.outcomes THEN "transform_error"
  ELSE "success_unchanged"

(* 4-1. subresource_states: of this run's evaluations only; a sub-resource *)
(* that was skipped loses its penalty.  Without any, they stay.            *)
PenaltyOf(s) ==
  LET asked == {i \in DOMAIN run.evals : run.evals[i].sub = s /\ run.evals[i].status \in {"backoff", "cooldown"}}
  IN IF asked = {} THEN 0 ELSE run.evals[CHOOSE i \in asked : TRUE].delay
WithStates(m) ==
  IF run.evals = <<>> THEN m ELSE [s \in Subs |-> [m[s] EXCEPT !.wait = PenaltyOf(s)]]

(* A mutant: the last evaluation stands for all. *)
WorstLast == run.evals[Len(run.evals)]

(* 4-2. The most severe evaluation, the last of several. *)
Severity(e) == CASE e.status = "cooldown" -> 0 [] e.status = "backoff" -> 1 [] OTHER -> 2
Worst ==
  LET severest == {i \in DOMAIN run.evals :
                     \A j \in DOMAIN run.evals : Severity(run.evals[i]) <= Severity(run.evals[j])}
  IN run.evals[CHOOSE i \in severest : \A j \in severest : j <= i]

Observed ==
  IF run.evals = <<>> THEN [status |-> "normal", failures |-> 0, delay |-> Interval]
  ELSE [status |-> Worst.status, failures |-> Worst.failures, delay |-> Worst.delay]

(* transition_for: TRANSFORM_ERROR and the successes schedule alike. *)
Transition ==
  TransitionFor(IF Composite \in {"policy_cooldown", "fetch_failed"} THEN Composite ELSE "success",
                row.status, row.failures, Observed)

(* NOT_MODIFIED and TRANSFORM_ERROR keep target.metadata. *)
KeepsMetadata == Composite \in {"not_modified", "transform_error"}
Stored == IF KeepsMetadata THEN meta ELSE WithStates(run.meta)
StoredEmitted == IF KeepsMetadata THEN emitted ELSE Remembered

FailureCap == MaxFailures + Len(Ladder)

(* The end of execute, and finalize_execution. *)
Finish ==
  /\ run.on /\ run.todo = {}
  /\ row' = [status |-> Transition.status, failures |-> AtMost(Transition.failures, FailureCap),
             wait |-> Transition.delay]
  /\ meta' = Stored
  /\ emitted' = StoredEmitted
  /\ sent' = sent \o run.signals
  /\ run' = NoRun
  /\ UNCHANGED <<watched, world, changes>>

(* A mutant: what was observed before the host refused is stored. *)
AbandonStoring ==
  /\ run.on
  /\ run' = NoRun
  /\ meta' = run.meta
  /\ emitted' = Remembered
  /\ UNCHANGED <<watched, world, changes, row, sent>>

(* The host window refuses a request (POLICY_BLOCKED, not stored),         *)
(* evaluate_response raises on a missing status code, a new release has a  *)
(* null body ([:500] raises TypeError), the lease is lost, or the process  *)
(* dies: nothing of the run is stored, the claimed status stays.           *)
Abandon ==
  /\ run.on
  /\ run' = NoRun
  /\ UNCHANGED <<watched, world, changes, row, meta, emitted, sent>>

(* The repository changes. *)
Change ==
  /\ changes < MaxChanges[watched]
  /\ \E s \in watched : \E v \in Values[s] \ {world[s]} : world' = [world EXCEPT ![s] = v]
  /\ changes' = changes + 1
  /\ UNCHANGED <<watched, row, meta, emitted, run, sent>>

(* targets batch-enable. *)
Enable ==
  /\ ~run.on /\ row.status # "normal"
  /\ row' = [row EXCEPT !.status = "normal"]
  /\ UNCHANGED <<watched, world, changes, meta, emitted, run, sent>>

Less(n) == AtLeast(0, n - 1)
Tick ==
  /\ ~run.on
  /\ row' = [row EXCEPT !.wait = Less(@)]
  /\ meta' = [s \in Subs |-> [meta[s] EXCEPT !.wait = Less(@)]]
  /\ UNCHANGED <<watched, world, changes, emitted, run, sent>>

Next ==
  \/ Start
  \/ FetchReleases \/ FetchStars \/ FetchCommits \/ FetchPulls \/ FetchIssues
  \/ Finish \/ Abandon
  \/ Change \/ Enable \/ Tick

Spec == Init /\ [][Next]_vars

-----------------------------------------------------------------------------
(* PROPERTIES                                                              *)

(* A run ends in finalize_execution: the row's wait starts anew. *)
Ends == run.on /\ ~run'.on /\ row' # row

(* A release or a number of stars that was reported is not reported again  *)
(* until EmittedCap other signals of the repository, of whatever kind,     *)
(* have been: the memory of emitted fingerprints, short and shared as it   *)
(* is, survives every run that reported something, whatever else that run  *)
(* met, and takes nothing from a run that is not stored.                   *)
ReportedOnce ==
  \A i, j \in DOMAIN sent :
    i < j /\ j - i <= EmittedCap /\ sent[i][1] \in Kinds => sent[i] # sent[j]

(* The stored ETag never runs ahead of the baseline: otherwise the server  *)
(* answers 304 to a change that was never compared.                        *)
NoBlindEtag ==
  \A s \in Subs : meta[s].etag # NoEtag => meta[s].base = Compared(s, meta[s].etag)

(* A stored baseline never moves past a change that had to be reported: it *)
(* goes from one tag, or one number of stars that differs by the threshold,*)
(* to another only if the answer it comes from (whose ETag is stored with  *)
(* it) is or was reported.                                                 *)
Apart(s, old, new) ==
  IF s = "stars" THEN new # NoValue /\ FarOff(old, new) ELSE Another(old, new)
MovesAreReported ==
  [][\A s \in Kinds :
       Apart(s, meta[s].base, meta'[s].base) => Among(Fingerprint(s, meta'[s].etag), sent')]_vars

(* When no sub-resource had news and none answered 304, a failure of any   *)
(* of them slows the target down, and a cooldown of any of them isolates   *)
(* it for at least the first rung.                                         *)
FailureOfAnyCounts ==
  [][ Ends /\ run.signals = <<>> /\ "not_modified" \notin run.outcomes
      => LET statuses == {run.evals[i].status : i \in DOMAIN run.evals}
         IN /\ "cooldown" \in statuses => row'.status = "cooldown" /\ row'.wait >= Ladder[1]
            /\ "backoff" \in statuses => row'.status \in {"backoff", "cooldown"} ]_vars
=============================================================================
