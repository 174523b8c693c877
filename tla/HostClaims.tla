------------------------------ MODULE HostClaims ------------------------------
(***************************************************************************)
(* The per-host request claims and rate-limit windows that all workers     *)
(* share: the host_rate_limits table (acquire_host_request,                *)
(* renew_host_request, release_host_request, update_host_next_allowed,     *)
(* reap_stale_claims), HostRateLimiter, FetchPolicy.prepare_request and    *)
(* evaluate_response, and the two ways the adapters use them.              *)
(*                                                                         *)
(* The web and RSS adapters claim the host of the target's URL, give the   *)
(* claim up as soon as the response is there, and evaluate it after that.  *)
(* The GitHub adapter claims the host of the target's URL too, then the    *)
(* host of the API before each API request, evaluates each response        *)
(* against the host of the URL, and gives the API host up at the end.      *)
(*                                                                         *)
(* A claim token (uuid4) stands for the worker that drew it.  This is      *)
(* exact: a worker remembers one token per host, the one it drew last, and *)
(* a token that left the table never returns to it.  A host without a row  *)
(* is one without claim and window; times are absolute, 0 stands for NULL. *)
(***************************************************************************)
EXTENDS Integers

CONSTANTS
  Workers, Hosts,
  ApiHost,      \* host of the GitHub API
  Free,         \* NULL in claim_token
  Lease,        \* lease_seconds
  Delays,       \* delays evaluate_response gives a host (403, 429)
  Attempts,     \* max_attempts of the fetcher's retry
  RequestTime,  \* bound on one request and the pause before its repetition
  MaxTime       \* bound on the clock

ASSUME HostAssumption ==
  /\ ApiHost \in Hosts /\ Free \notin Workers
  /\ Lease \in Nat \ {0} /\ Delays \subseteq Nat \ {0}
  /\ Attempts \in Nat \ {0} /\ RequestTime \in Nat /\ MaxTime \in Nat

VARIABLES
  now,
  \* the host_rate_limits table
  claim,        \* the worker whose claim_token is in the row, or Free
  until,        \* claim_until
  next,         \* next_allowed_at
  \* the workers
  pc,
  startedAt,    \* run_once's now, used by every call of the run
  active,       \* hosts in _active_claims
  job,          \* the adapter at work and the host of its target's URL
  sentAt,       \* when the request under way was sent
  sent          \* requests of the fetch under way

tableVars == <<claim, until, next>>
requestVars == <<sentAt, sent>>
workerVars == <<pc, startedAt, active, job, requestVars>>
vars == <<now, tableVars, workerVars>>

Jobs == [kind : {"web", "github"}, host : Hosts]
NoJob == [kind |-> "web", host |-> ApiHost]

\* The host that a worker's request goes to.
RequestHost(w) == IF job[w].kind = "github" THEN ApiHost ELSE job[w].host

TypeOK ==
  /\ now \in Nat
  /\ claim \in [Hosts -> Workers \cup {Free}]
  /\ until \in [Hosts -> Nat] /\ next \in [Hosts -> Nat]
  /\ \A h \in Hosts : claim[h] = Free <=> until[h] = 0
  /\ pc \in [Workers -> {"idle", "started", "running", "api", "sending", "answered"}]
  /\ startedAt \in [Workers -> Nat]
  /\ active \in [Workers -> SUBSET Hosts]
  /\ job \in [Workers -> Jobs]
  /\ sentAt \in [Workers -> Nat]
  /\ sent \in [Workers -> 0..Attempts]
  /\ \A w \in Workers : sent[w] > 0 <=> pc[w] = "sending"

Init ==
  /\ now = 1
  /\ claim = [h \in Hosts |-> Free]
  /\ until = [h \in Hosts |-> 0]
  /\ next = [h \in Hosts |-> 0]
  /\ pc = [w \in Workers |-> "idle"]
  /\ startedAt = [w \in Workers |-> 0]
  /\ active = [w \in Workers |-> {}]
  /\ job = [w \in Workers |-> NoJob]
  /\ sentAt = [w \in Workers |-> 0]
  /\ sent = [w \in Workers |-> 0]

-----------------------------------------------------------------------------
(* The repository's operations on one row. *)
Holds(w, h) == h \in active[w] /\ claim[h] = w

(* The WHERE clause of acquire_host_request. *)
Acquirable(w, h) ==
  /\ claim[h] = Free \/ until[h] <= startedAt[w]
  /\ next[h] <= startedAt[w]

(* prepare_request: renew the claim of this process if it still has it,    *)
(* or else acquire one.                                                    *)
Allowed(w, h) == Holds(w, h) \/ Acquirable(w, h)

Claim(w, h) ==
  /\ Allowed(w, h)
  /\ claim' = [claim EXCEPT ![h] = w]
  /\ until' = [until EXCEPT ![h] = startedAt[w] + Lease]
  /\ active' = [active EXCEPT ![w] = @ \cup {h}]
  /\ UNCHANGED next

(* A mutant: claim_until is forgotten. *)
ClearTokens(S) == claim' = [h \in Hosts |-> IF h \in S THEN Free ELSE claim[h]] /\ UNCHANGED until

ClearClaims(S) ==
  /\ claim' = [h \in Hosts |-> IF h \in S THEN Free ELSE claim[h]]
  /\ until' = [h \in Hosts |-> IF h \in S THEN 0 ELSE until[h]]

(* A mutant: whatever token is in the row. *)
ReleaseAny(w, h) == ClearClaims({h}) /\ active' = [active EXCEPT ![w] = @ \ {h}]

(* release_request: clears the row only if the token is still this one. *)
Release(w, h) ==
  /\ ClearClaims({h} \cap {k \in Hosts : Holds(w, k)})
  /\ active' = [active EXCEPT ![w] = @ \ {h}]

Goto(w, place) == pc' = [pc EXCEPT ![w] = place]

Send(w) ==
  /\ sentAt' = [sentAt EXCEPT ![w] = now]
  /\ sent' = [sent EXCEPT ![w] = @ + 1]
NoRequest(w) ==
  /\ sentAt' = [sentAt EXCEPT ![w] = 0]
  /\ sent' = [sent EXCEPT ![w] = 0]

-----------------------------------------------------------------------------
Start(w) ==
  /\ pc[w] = "idle"
  /\ startedAt' = [startedAt EXCEPT ![w] = now]
  /\ Goto(w, "started")
  /\ UNCHANGED <<now, tableVars, active, job, requestVars>>

(* reap_stale_claims(older_than = now of the run). *)
Reap(w) ==
  /\ pc[w] = "started"
  /\ ClearClaims({h \in Hosts : claim[h] # Free /\ until[h] <= startedAt[w]})
  /\ Goto(w, "running")
  /\ UNCHANGED <<now, next, startedAt, active, job, requestVars>>

(* The adapter's call of policy.prepare_request for the target's URL; when *)
(* it is refused the outcome is POLICY_BLOCKED and nothing changes.        *)
Prepare(w) ==
  /\ pc[w] = "running"
  /\ \E j \in Jobs :
       /\ Claim(w, j.host)
       /\ job' = [job EXCEPT ![w] = j]
       /\ IF j.kind = "web"
          THEN Goto(w, "sending") /\ Send(w)
          ELSE Goto(w, "api") /\ UNCHANGED requestVars
  /\ UNCHANGED <<now, startedAt>>

(* The GitHub adapter claims the API host for its next API request. *)
PrepareApi(w) ==
  /\ pc[w] = "api"
  /\ Claim(w, ApiHost)
  /\ Goto(w, "sending")
  /\ Send(w)
  /\ UNCHANGED <<now, startedAt, job>>

(* A timeout or a connection error: the fetcher sends the request again    *)
(* under the same claim, and asks neither the limiter nor the clock.       *)
SendAgain(w) ==
  /\ pc[w] = "sending"
  /\ sent[w] < Attempts
  /\ Send(w)
  /\ UNCHANGED <<now, tableVars, pc, startedAt, active, job>>

(* The fetch returns or raises; the web adapters' finally gives the claim up. *)
Answer(w) ==
  /\ pc[w] = "sending"
  /\ IF job[w].kind = "web"
     THEN Release(w, job[w].host)
     ELSE UNCHANGED <<claim, until, active>>
  /\ Goto(w, "answered")
  /\ NoRequest(w)
  /\ UNCHANGED <<now, next, startedAt, job>>

(* The adapter goes on: GitHub to its next API request, others are done. *)
Proceed(w) ==
  IF job[w].kind = "github"
  THEN Goto(w, "api") /\ UNCHANGED job
  ELSE Goto(w, "running") /\ job' = [job EXCEPT ![w] = NoJob]

(* A mutant: only the worker's own claim. *)
RevokedOwn(w) == {job[w].host} \cap {h \in Hosts : Holds(w, h)}

(* The claims update_host_next_allowed clears: there is no token test. *)
Revoked(w) == {job[w].host}

(* 403 or 429: update_host_next_allowed overwrites the window of the URL's *)
(* host and clears whatever claim is in the row, then release_request      *)
(* forgets the worker's own.                                               *)
Limited(w) ==
  /\ pc[w] = "answered"
  /\ \E d \in Delays : next' = [next EXCEPT ![job[w].host] = startedAt[w] + d]
  /\ ClearClaims(Revoked(w))
  /\ active' = [active EXCEPT ![w] = @ \ {job[w].host}]
  /\ Proceed(w)
  /\ UNCHANGED <<now, startedAt, requestVars>>

(* 2xx, 3xx: only the release. *)
Accepted(w) ==
  /\ pc[w] = "answered"
  /\ Release(w, job[w].host)
  /\ Proceed(w)
  /\ UNCHANGED <<now, next, startedAt, requestVars>>

(* 404, 5xx and transport failures leave the table alone, and so does a    *)
(* fetch or an evaluation that raises.                                     *)
Failed(w) ==
  /\ pc[w] = "answered"
  /\ Proceed(w)
  /\ UNCHANGED <<now, tableVars, startedAt, active, requestVars>>

(* The GitHub adapter is done, or was refused the API host: its finally    *)
(* releases the API host, and not the host of the URL.  (Refused at once,  *)
(* it releases nothing; a token the row does not hold is worth nothing.)   *)
Close(w) ==
  /\ pc[w] = "api"
  /\ Release(w, ApiHost)
  /\ Goto(w, "running")
  /\ job' = [job EXCEPT ![w] = NoJob]
  /\ UNCHANGED <<now, next, startedAt, requestVars>>

(* run_once ends; _active_claims outlives it. *)
Finish(w) ==
  /\ pc[w] = "running"
  /\ Goto(w, "idle")
  /\ startedAt' = [startedAt EXCEPT ![w] = 0]
  /\ UNCHANGED <<now, tableVars, active, job, requestVars>>

(* The process dies; its claims stay in the table. *)
Crash(w) ==
  /\ pc[w] # "idle"
  /\ Goto(w, "idle")
  /\ startedAt' = [startedAt EXCEPT ![w] = 0]
  /\ active' = [active EXCEPT ![w] = {}]
  /\ job' = [job EXCEPT ![w] = NoJob]
  /\ NoRequest(w)
  /\ UNCHANGED <<now, tableVars>>

Tick ==
  /\ now < MaxTime
  /\ \A w \in Workers : pc[w] = "sending" => now < sentAt[w] + RequestTime
  /\ now' = now + 1
  /\ UNCHANGED <<tableVars, workerVars>>

Evaluate(w) == Limited(w) \/ Accepted(w) \/ Failed(w)

WorkerStep(w) ==
  \/ Start(w) \/ Reap(w) \/ Finish(w) \/ Crash(w)
  \/ Prepare(w) \/ PrepareApi(w) \/ SendAgain(w) \/ Answer(w) \/ Evaluate(w) \/ Close(w)

Next == Tick \/ \E w \in Workers : WorkerStep(w)

Spec == Init /\ [][Next]_vars

-----------------------------------------------------------------------------
(* PROPERTIES                                                              *)

(* No request is sent inside the window recorded for its host.  A renewed  *)
(* claim is granted, and a request repeated, without a look at             *)
(* next_allowed_at; but whoever sets a window takes away the claim that    *)
(* could be renewed or under which a request could be repeated.  So the    *)
(* one exception is the repetition of a request whose claim was taken, or  *)
(* has expired and gone to another, since it was sent.                     *)
WindowRespected ==
  [][\A w \in Workers :
       sent'[w] > sent[w] =>
         LET h == RequestHost(w)'
         IN next[h] <= startedAt[w] \/ (sent[w] > 0 /\ ~Holds(w, h))]_vars

(* A live claim ends only when its holder gives it up or when a rate-limit *)
(* answer from that host closes the window for everyone: neither the       *)
(* reaper, nor a release with an old token, nor an acquire takes it.       *)
ClaimKept ==
  [][\A h \in Hosts :
       claim[h] # Free /\ claim'[h] # claim[h] =>
         \/ until[h] <= now
         \/ h \in active[claim[h]] /\ h \notin active'[claim[h]]
         \/ \E w \in Workers : pc[w] = "answered" /\ job[w].host = h /\ claim'[h] = Free
                                 /\ \E d \in Delays : next'[h] = startedAt[w] + d]_vars
=============================================================================
