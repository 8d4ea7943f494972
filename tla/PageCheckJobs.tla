---------------------------- MODULE PageCheckJobs ----------------------------
(***************************************************************************)
(* Asynchronous page-check jobs of the entry translator                    *)
(* (api/services/entry_translator_service.py, page_check_service.py).      *)
(* A job lives in one Redis hash shared by all translator processes.  An   *)
(* execution (a token of the job) checks the page, may push a fix, and     *)
(* stores the verdict; a verdict a human must see carries an immutable     *)
(* review event that is handed off to RabbitMQ under a claim.  Recovery,   *)
(* on any process, reclaims stale jobs with a new token and retries        *)
(* handoffs.                                                               *)
(*                                                                         *)
(* Every store operation is a read and a compare-and-set on the raw record *)
(* (_update_existing), so it is one step here.  Ages saturate at the value *)
(* the code compares them with.                                            *)
(***************************************************************************)
EXTENDS Integers, FiniteSets

CONSTANTS
  Proc,          \* translator processes
  Job,           \* job ids (fresh uuids)
  None,          \* absence of a record, an event or a claim
  StaleAfter,    \* _STALE_CHECK_JOB_TIMEOUT_SECONDS, in ticks
  LeaseFor,      \* _REVIEW_HANDOFF_LEASE_SECONDS, in ticks
  MaxAttempts,   \* _CHECK_JOB_MAX_ATTEMPTS
  MaxTokens,     \* bound: tokens drawn for one job
  MaxKept,       \* max_check_jobs_kept
  MaxUnfinished, \* _MAX_UNFINISHED_CHECK_JOBS
  MaxWorkers,    \* threads of the page-check executor
  MaxFaults,     \* bound: store or broker calls that raise
  MaxCrashes,    \* bound: process crashes
  MaxShutdowns   \* bound: orderly shutdowns

Token == 0..MaxTokens
Exec  == Job \X Token    \* an execution is a job and the token it runs under
Actor == Exec \cup Proc  \* who hands a review event off: a worker or a recovery

Status  == {"pending", "running", "done", "error"}
Outcome == {"none", "good", "fixed", "unverifiable", "error"}
Handoff == {"pending", "failed", "publishing"}
Review  == Handoff \cup {"not_needed", "queued", "invalid"}

JobRec == [status : Status, tok : Token, attempts : Token, outcome : Outcome,
           review : Review, msg : Token \cup {None}, claim : Actor \cup {None}]

ASSUME PageCheckAssumption ==
  /\ StaleAfter \in Nat \ {0} /\ LeaseFor \in Nat \ {0}
  /\ MaxAttempts \in Nat /\ MaxTokens \in Nat
  /\ MaxKept \in Nat /\ MaxUnfinished \in Nat /\ MaxWorkers \in Nat
  /\ MaxFaults \in Nat /\ MaxCrashes \in Nat /\ MaxShutdowns \in Nat
  /\ IsFiniteSet(Job)
  /\ Exec \cap Proc = {}
  /\ None \notin JobRec \cup Token \cup Actor \cup Job

VARIABLES
  \* Redis
  rec,       \* the record of a job
  updAge,    \* age of last_updated_at
  claimAge,  \* age of review_queue_claimed_at
  cooling,   \* review_queue_next_attempt_at is still ahead
  \* executions
  wpc, wproc,
  wout,      \* the verdict in memory
  wmsg,      \* a review event was built in memory
  guardAge,  \* age of the time stamp of the publication guard
  \* handoffs in progress
  hpc,       \* "queued" and "failed" are results still to be stored
  hjob,      \* the job a recovery hands off
  hAge,      \* age of the claim's time stamp
  hmsg,      \* the claimed event, in memory
  \* processes
  open,      \* the page-check executor accepts tasks
  rpc, hand, stale,
  seen,      \* jobs that still have the last_updated_at the scan observed
  rage,      \* age of the recovery's own "now"
  claimed,   \* the execution recovery has just claimed
  \* what left the process
  pushed,    \* executions whose fix reached RabbitMQ
  delivered, \* review events that reached RabbitMQ: {<<job, builder's token>>}
  \* bounds
  faults, crashes, shutdowns

storeVars   == <<rec, updAge, claimAge, cooling>>
workVars    == <<wpc, wproc, wout, wmsg, guardAge>>
handoffVars == <<hpc, hjob, hAge, hmsg>>
recVars     == <<rpc, hand, stale, seen, rage, claimed>>
outVars     == <<pushed, delivered>>
boundVars   == <<faults, crashes, shutdowns>>
vars == <<storeVars, workVars, handoffVars, open, recVars, outVars, boundVars>>

\* Pcs of a task that occupies an executor thread.
TaskPc == {"check", "guard", "push", "confirm", "final", "fail"}
WorkPc == TaskPc \cup {"none", "queued", "unlaunched", "end"}

JobOf(e) == e[1]
TokOf(e) == e[2]

Active(r)   == r # None /\ r.status \in {"pending", "running"}
Terminal(r) == r # None /\ r.status \in {"done", "error"}
Created(j)  == wpc[<<j, 0>>] # "none"

-----------------------------------------------------------------------------
(* The store *)

Fault == faults < MaxFaults /\ faults' = faults + 1 /\ UNCHANGED <<crashes, shutdowns>>

\* A write that also renews last_updated_at, with a time stamp of age g: a scan
\* that observed the old one no longer matches.
Store(j, r, g) ==
  /\ rec' = [rec EXCEPT ![j] = r]
  /\ updAge' = [updAge EXCEPT ![j] = g]
  /\ seen' = [p \in Proc |-> seen[p] \ {j}]

NoStore == UNCHANGED <<rec, updAge, seen>>

\* Faulty: the execution token is not compared.
PutAllowedAnyToken(e) == rec[JobOf(e)] # None

\* put: an existing record is replaced only under its own execution token.
PutAllowed(e) == rec[JobOf(e)] # None /\ rec[JobOf(e)].tok = TokOf(e)

\* Faulty: the incoming review fields win.
MergedAfresh(e, status, out, review) ==
  [rec[JobOf(e)] EXCEPT !.status = status, !.outcome = out, !.review = review,
                        !.msg = IF review = "pending" THEN TokOf(e) ELSE None,
                        !.claim = None]

\* ... keeping the stored review event and its lifecycle, if there is one.
Merged(e, status, out, review) ==
  LET c == rec[JobOf(e)] IN
  IF c.msg # None \/ c.review = "invalid"
  THEN [c EXCEPT !.status = status, !.outcome = out]
  ELSE [c EXCEPT !.status = status, !.outcome = out, !.review = review,
                 !.msg = IF review = "pending" THEN TokOf(e) ELSE None]

Put(e, status, out, review, g) ==
  IF PutAllowed(e) THEN Store(JobOf(e), Merged(e, status, out, review), g) ELSE NoStore

\* touch_execution: also requires the job to be active.
TouchAllowed(e) == PutAllowed(e) /\ Active(rec[JobOf(e)])

Touch(e, g) ==
  IF TouchAllowed(e) THEN Store(JobOf(e), rec[JobOf(e)], g) ELSE NoStore

\* An event that nobody is publishing and whose back-off is over.
Waiting(j) == rec[j].review = "pending" \/ (rec[j].review = "failed" /\ ~cooling[j])

\* Faulty: a claim never expires.
ClaimableUnclaimed(j) == rec[j] # None /\ Waiting(j)

\* Faulty: a claim does not exclude others.
ClaimableClaimed(j) == rec[j] # None /\ (Waiting(j) \/ rec[j].review = "publishing")

\* Faulty: a verdict whose event could not be built is claimable.
ClaimableInvalid(j) == rec[j] # None /\ (Waiting(j) \/ rec[j].review = "invalid")

\* _review_handoff_is_claimable
Claimable(j) ==
  /\ rec[j] # None
  /\ Waiting(j) \/ (rec[j].review = "publishing" /\ claimAge[j] = LeaseFor)

NewRec == [status |-> "pending", tok |-> 0, attempts |-> 0, outcome |-> "none",
           review |-> "not_needed", msg |-> None, claim |-> None]

-----------------------------------------------------------------------------
Init ==
  /\ rec = [j \in Job |-> None] /\ updAge = [j \in Job |-> 0]
  /\ claimAge = [j \in Job |-> 0] /\ cooling = [j \in Job |-> FALSE]
  /\ wpc = [e \in Exec |-> "none"] /\ wproc = [e \in Exec |-> None]
  /\ wout = [e \in Exec |-> "none"] /\ wmsg = [e \in Exec |-> FALSE]
  /\ guardAge = [e \in Exec |-> 0]
  /\ hpc = [x \in Actor |-> "idle"] /\ hjob = [p \in Proc |-> None]
  /\ hAge = [x \in Actor |-> 0] /\ hmsg = [x \in Actor |-> None]
  /\ open = [p \in Proc |-> TRUE]
  /\ rpc = [p \in Proc |-> "idle"] /\ hand = [p \in Proc |-> {}]
  /\ stale = [p \in Proc |-> {}] /\ seen = [p \in Proc |-> {}]
  /\ rage = [p \in Proc |-> 0] /\ claimed = [p \in Proc |-> None]
  /\ pushed = {} /\ delivered = {} /\ faults = 0 /\ crashes = 0 /\ shutdowns = 0

-----------------------------------------------------------------------------
(* enqueue_page_check *)

Unfinished == {j \in Job : Active(rec[j])}
Stored     == {j \in Job : rec[j] # None}

\* Faulty: a finished job is removed even if its review event is undelivered.
RemovableTerminal(j) == Terminal(rec[j])

\* What _PUT_MANY_BOUNDED_SCRIPT may remove.
Removable(j) == Terminal(rec[j]) /\ rec[j].review \notin Handoff

\* Faulty: the history is measured before the new jobs join it.
ExcessBefore(n) == IF Cardinality(Stored) > MaxKept THEN Cardinality(Stored) - MaxKept ELSE 0

Excess(n) == IF Cardinality(Stored) + n > MaxKept THEN Cardinality(Stored) + n - MaxKept ELSE 0

Admitted(B) ==
  /\ Cardinality(Unfinished) + Cardinality(B) <= MaxUnfinished
  /\ Excess(Cardinality(B)) <= Cardinality({j \in Job : Removable(j)})

\* The script stores the new jobs and removes as many finished ones as the
\* history exceeds its limit (which ones, the oldest, is left open).
PutManyBounded(B) ==
  \E V \in SUBSET {j \in Job : Removable(j)} :
    /\ Cardinality(V) = Excess(Cardinality(B))
    /\ rec' = [j \in Job |-> IF j \in B THEN NewRec ELSE IF j \in V THEN None ELSE rec[j]]
    /\ updAge' = [j \in Job |-> IF j \in B \cup V THEN 0 ELSE updAge[j]]

\* A batch of titles becomes one job each, whose tasks are submitted; a
\* shut-down executor refuses them, a lost reply leaves jobs without a task.
Enqueue(p, B) ==
  /\ \A j \in B : ~Created(j)
  /\ Admitted(B) /\ PutManyBounded(B)
  /\ LET first == B \X {0} IN
     /\ \/ /\ wpc' = [e \in Exec |-> IF e \notin first THEN wpc[e]
                                    ELSE IF open[p] THEN "queued" ELSE "unlaunched"]
           /\ UNCHANGED boundVars
        \/ Fault /\ wpc' = [e \in Exec |-> IF e \in first THEN "end" ELSE wpc[e]]
     /\ wproc' = [e \in Exec |-> IF e \in first THEN p ELSE wproc[e]]
  /\ UNCHANGED <<claimAge, cooling, wout, wmsg, guardAge, handoffVars, open, recVars, outVars>>

-----------------------------------------------------------------------------
(* An execution: _build_check_task and PageCheckService.check_page *)

Goto(e, where) == wpc' = [wpc EXCEPT ![e] = where]

\* The handoff of job j by actor x begins if the state in memory, a copy of
\* the stored one, asks for it.
BeginHandoff(x, j) ==
  IF rec'[j] # None /\ rec'[j].review \in Handoff
  THEN hpc' = [hpc EXCEPT ![x] = "claim"] ELSE UNCHANGED hpc

Threads(p) ==
  Cardinality({e \in Exec : wproc[e] = p /\ (wpc[e] \in TaskPc \/ hpc[e] # "idle")})
    + (IF rpc[p] # "idle" THEN 1 ELSE 0)

\* A put of the running job at pc here: accepted, superseded (the task stops),
\* or a store error, which is handled at pc onError with verdict "error" if
\* check_pages catches it.
RunningPut(e, next, onError, out) ==
  /\ \/ /\ Put(e, "running", wout[e], "not_needed", 0)
        /\ Goto(e, IF PutAllowed(e) THEN next ELSE "end")
        /\ wout' = [wout EXCEPT ![e] = IF PutAllowed(e) THEN out ELSE "none"]
        /\ UNCHANGED boundVars
     \/ /\ Fault
        /\ Put(e, "running", wout[e], "not_needed", 0) \/ NoStore
        /\ Goto(e, onError)
        /\ wout' = [wout EXCEPT ![e] = IF onError = "final" THEN "error" ELSE @]
  /\ UNCHANGED <<claimAge, cooling, wproc, wmsg, guardAge, handoffVars, open, rpc, hand, stale,
                 rage, claimed, outVars>>

\* An executor thread picks the task up.
Start(e) ==
  /\ wpc[e] = "queued" /\ Threads(wproc[e]) < MaxWorkers
  /\ RunningPut(e, "check", "fail", "none")

\* on_progress while the page is checked.
Progress(e) == wpc[e] = "check" /\ RunningPut(e, "check", "final", "none")

\* check_page ends with a verdict, or with a fix to publish.
Verdict(e) ==
  /\ wpc[e] = "check"
  /\ \/ /\ Goto(e, "final")
        /\ \E v \in {"good", "unverifiable", "error"} : wout' = [wout EXCEPT ![e] = v]
     \/ Goto(e, "guard") /\ UNCHANGED wout
  /\ UNCHANGED <<storeVars, wproc, wmsg, guardAge, handoffVars, open, recVars, outVars, boundVars>>

\* Faulty: the guard does not look at the token.
GuardUnchecked(e) ==
  /\ wpc[e] = "guard"
  /\ Goto(e, "push")
  /\ UNCHANGED <<storeVars, wproc, wout, wmsg, guardAge, handoffVars, open, recVars, outVars,
                 boundVars>>

\* publication_guard: touch_execution, the last check before the push.
Guard(e) ==
  /\ wpc[e] = "guard"
  /\ \/ /\ Touch(e, guardAge[e])
        /\ Goto(e, IF TouchAllowed(e) THEN "push" ELSE "end")
        /\ guardAge' = [guardAge EXCEPT ![e] = IF TouchAllowed(e) THEN @ ELSE 0]
        /\ UNCHANGED <<wout, boundVars>>
     \/ /\ Fault
        /\ Touch(e, guardAge[e]) \/ NoStore
        /\ Goto(e, "final") /\ wout' = [wout EXCEPT ![e] = "error"]
        /\ guardAge' = [guardAge EXCEPT ![e] = 0]
  /\ UNCHANGED <<claimAge, cooling, wproc, wmsg, handoffVars, open, rpc, hand, stale,
                 rage, claimed, outVars>>

\* Faulty: an error of the producer counts as published.
PushUnchecked(e) ==
  /\ wpc[e] = "push"
  /\ pushed' \in {pushed, pushed \cup {e}}
  /\ Goto(e, "confirm")
  /\ guardAge' = [guardAge EXCEPT ![e] = 0]
  /\ UNCHANGED <<storeVars, wproc, wout, wmsg, handoffVars, open, recVars, delivered,
                 boundVars>>

\* publish_wikipage: queued, or an error that may hide an accepted message.
Push(e) ==
  /\ wpc[e] = "push"
  /\ \/ pushed' = pushed \cup {e} /\ Goto(e, "confirm") /\ UNCHANGED wout
     \/ /\ pushed' \in {pushed, pushed \cup {e}}
        /\ Goto(e, "final") /\ wout' = [wout EXCEPT ![e] = "error"]
  /\ guardAge' = [guardAge EXCEPT ![e] = 0]
  /\ UNCHANGED <<storeVars, wproc, wmsg, handoffVars, open, recVars, delivered,
                 boundVars>>

\* on_progress(1.0) after the push.
Confirm(e) == wpc[e] = "confirm" /\ RunningPut(e, "final", "final", "fixed")

\* Faulty: only an unverifiable page is reviewed.
ReviewOfUnverifiable(out, built) ==
  IF out = "unverifiable" THEN {"pending"} ELSE {"not_needed"}

\* _prepare_page_check_review: the review state of a verdict; building the
\* event may fail, and an event once built is kept.
ReviewOf(out, built) ==
  IF built THEN {"pending"}
  ELSE IF out \in {"unverifiable", "error"} THEN {"pending", "invalid"} ELSE {"not_needed"}

\* The verdict is stored and its event handed off.  A store error is handled
\* like a failure of the check, even if the write was applied.
Final(e) ==
  /\ wpc[e] = "final"
  /\ \E review \in ReviewOf(wout[e], FALSE) :
     \/ /\ Put(e, "done", wout[e], review, 0)
        /\ Goto(e, "end")
        /\ IF PutAllowed(e) THEN BeginHandoff(e, JobOf(e)) ELSE UNCHANGED hpc
        /\ wout' = [wout EXCEPT ![e] = "none"]
        /\ UNCHANGED <<wmsg, boundVars>>
     \/ /\ Fault
        /\ Put(e, "done", wout[e], review, 0) \/ NoStore
        /\ Goto(e, "fail") /\ wmsg' = [wmsg EXCEPT ![e] = review = "pending"]
        /\ UNCHANGED <<wout, hpc>>
  /\ UNCHANGED <<claimAge, cooling, wproc, guardAge, hjob, hAge, hmsg, open, rpc, hand, stale,
                 rage, claimed, outVars>>

\* The failure of a task, or of its submission, is stored and handed off; a
\* second store error ends the task, or the request with what it had yet to
\* launch.  Whether the put was accepted decides the handoff of a task, but
\* not of a failed submission.
Fail(e) ==
  /\ wpc[e] \in {"fail", "unlaunched"}
  /\ \E review \in ReviewOf("error", wmsg[e]) :
     \/ /\ Put(e, "error", wout[e], review, 0)
        /\ IF PutAllowed(e) \/ wpc[e] = "unlaunched"
           THEN BeginHandoff(e, JobOf(e)) ELSE UNCHANGED hpc
        /\ Goto(e, "end") /\ UNCHANGED boundVars
     \/ /\ Fault
        /\ Put(e, "error", wout[e], review, 0) \/ NoStore
        /\ \E D \in SUBSET {d \in Exec : /\ wproc[d] = wproc[e]
                                        /\ wpc[d] = "unlaunched" /\ wpc[e] = "unlaunched"} :
             wpc' = [d \in Exec |-> IF d \in D \cup {e} THEN "end" ELSE wpc[d]]
        /\ UNCHANGED hpc
  /\ wout' = [wout EXCEPT ![e] = "none"] /\ wmsg' = [wmsg EXCEPT ![e] = FALSE]
  /\ UNCHANGED <<claimAge, cooling, wproc, guardAge, hjob, hAge, hmsg, open, rpc, hand, stale,
                 rage, claimed, outVars>>

-----------------------------------------------------------------------------
(* _publish_page_check_review by a worker or a recovery *)

JobOfActor(x) == IF x \in Proc THEN hjob[x] ELSE JobOf(x)

HandoffGoto(x, where) == hpc' = [hpc EXCEPT ![x] = where]

\* claim_review_handoff; a store error or a refused claim ends the handoff.
HandoffClaim(x) ==
  /\ hpc[x] = "claim"
  /\ LET j == JobOfActor(x)
         took == /\ Claimable(j)
                 /\ rec' = [rec EXCEPT ![j].review = "publishing", ![j].claim = x]
                 /\ claimAge' = [claimAge EXCEPT ![j] = hAge[x]]
         none == UNCHANGED <<rec, claimAge>>
         quit == HandoffGoto(x, "idle") /\ hAge' = [hAge EXCEPT ![x] = 0] /\ UNCHANGED hmsg
     IN \/ /\ took /\ HandoffGoto(x, "publish") /\ hmsg' = [hmsg EXCEPT ![x] = rec[j].msg]
           /\ UNCHANGED <<hAge, boundVars>>
        \/ ~Claimable(j) /\ none /\ quit /\ UNCHANGED boundVars
        \/ Fault /\ (took \/ none) /\ quit
  /\ UNCHANGED <<updAge, cooling, workVars, hjob, open, recVars, outVars>>

\* The event an actor publishes is the one it read with its claim.
Event(x) == <<JobOfActor(x), hmsg[x]>>

\* publish_message of the claimed event; an error may hide an accepted message.
HandoffPublish(x) ==
  /\ hpc[x] = "publish"
  /\ LET sent == delivered \cup {Event(x)} IN
     \/ delivered' = sent /\ HandoffGoto(x, "queued") /\ UNCHANGED boundVars
     \/ Fault /\ delivered' \in {delivered, sent} /\ HandoffGoto(x, "failed")
  /\ hAge' = [hAge EXCEPT ![x] = 0] /\ hmsg' = [hmsg EXCEPT ![x] = None]
  /\ UNCHANGED <<storeVars, workVars, hjob, open, recVars, pushed>>

FinishAllowed(x, j) == rec[j] # None /\ rec[j].review = "publishing" /\ rec[j].claim = x

\* finish_review_handoff: only the current claim stores the result; a failed
\* publication is retried after a back-off.
HandoffFinish(x) ==
  /\ hpc[x] \in {"queued", "failed"}
  /\ LET j == JobOfActor(x)
         done == IF FinishAllowed(x, j)
                 THEN /\ rec' = [rec EXCEPT ![j].review = hpc[x], ![j].claim = None]
                      /\ claimAge' = [claimAge EXCEPT ![j] = 0]
                      /\ cooling' = [cooling EXCEPT ![j] = hpc[x] = "failed"]
                 ELSE UNCHANGED <<rec, claimAge, cooling>>
     IN \/ done /\ UNCHANGED boundVars
        \/ Fault /\ (done \/ UNCHANGED <<rec, claimAge, cooling>>)
  /\ HandoffGoto(x, "idle")
  /\ UNCHANGED <<updAge, workVars, hjob, hAge, hmsg, open, recVars, outVars>>

-----------------------------------------------------------------------------
(* _recover_stale_check_jobs, single flight per process, on a thread of the *)
(* page-check executor.                                                     *)

RecoverScan(p) ==
  /\ rpc[p] = "idle" /\ open[p] /\ Threads(p) < MaxWorkers
  /\ hand' = [hand EXCEPT ![p] = {j \in Job : Claimable(j)}]
  /\ stale' = [stale EXCEPT ![p] = {j \in Job : Active(rec[j]) /\ updAge[j] = StaleAfter}]
  /\ hand'[p] \cup stale'[p] # {}
  /\ rpc' = [rpc EXCEPT ![p] = "handoff"]
  /\ seen' = [seen EXCEPT ![p] = stale'[p]] /\ rage' = [rage EXCEPT ![p] = 0]
  /\ UNCHANGED <<storeVars, workVars, handoffVars, open, claimed, outVars, boundVars>>

\* The claimable handoffs of the snapshot come first, one after the other.
RecoverHandoff(p) ==
  /\ rpc[p] = "handoff" /\ hpc[p] = "idle"
  /\ \/ \E j \in hand[p] :
          /\ hand' = [hand EXCEPT ![p] = @ \ {j}]
          /\ hpc' = [hpc EXCEPT ![p] = "claim"] /\ hjob' = [hjob EXCEPT ![p] = j]
          /\ UNCHANGED rpc
     \/ /\ hand[p] = {} /\ rpc' = [rpc EXCEPT ![p] = "stale"]
        /\ UNCHANGED <<hand, hpc, hjob>>
  /\ UNCHANGED <<storeVars, workVars, hAge, hmsg, open, stale, seen, rage, claimed, outVars,
                 boundVars>>

\* Faulty: only a job that was started is taken over.
StaleClaimRunning(p, j) ==
  rec[j] # None /\ rec[j].status = "running" /\ j \in seen[p] /\ rec[j].attempts < MaxTokens

\* claim_stale_job: still unfinished and not updated since the snapshot.
StaleClaimAllowed(p, j) ==
  Active(rec[j]) /\ j \in seen[p] /\ rec[j].attempts < MaxTokens

\* ... takes the job over with a new token, stamped with the recovery's now.
StaleClaim(p, j) ==
  LET n == rec[j].attempts + 1 IN
  Store(j, [rec[j] EXCEPT !.status = "pending", !.tok = n, !.attempts = n], rage[p])

\* A store error abandons the recovery, whether the claim was applied or not.
RecoverClaim(p) ==
  /\ rpc[p] = "stale" /\ hpc[p] = "idle"
  /\ \/ \E j \in stale[p] :
          /\ stale' = [stale EXCEPT ![p] = @ \ {j}]
          /\ \/ /\ StaleClaimAllowed(p, j) /\ StaleClaim(p, j)
                /\ claimed' = [claimed EXCEPT ![p] = <<j, rec[j].attempts + 1>>]
                /\ rpc' = [rpc EXCEPT ![p] = "put"]
             \/ ~StaleClaimAllowed(p, j) /\ NoStore /\ UNCHANGED <<claimed, rpc>>
          /\ UNCHANGED <<rage, boundVars>>
     \/ /\ stale[p] = {} /\ rpc' = [rpc EXCEPT ![p] = "idle"]
        /\ rage' = [rage EXCEPT ![p] = 0]
        /\ NoStore /\ UNCHANGED <<stale, claimed, boundVars>>
     \/ \E j \in stale[p] :
          /\ Fault /\ (NoStore \/ (StaleClaimAllowed(p, j) /\ StaleClaim(p, j)))
          /\ stale' = [stale EXCEPT ![p] = {}] /\ rpc' = [rpc EXCEPT ![p] = "idle"]
          /\ rage' = [rage EXCEPT ![p] = 0]
          /\ UNCHANGED claimed
  /\ UNCHANGED <<claimAge, cooling, workVars, handoffVars, open, hand, outVars>>

\* The claimed job is relaunched, or failed once it was tried often enough.
RecoverPut(p) ==
  /\ rpc[p] = "put"
  /\ LET e == claimed[p]
         over == TokOf(e) > MaxAttempts
     IN \E review \in IF over THEN ReviewOf("error", FALSE) ELSE {"not_needed"} :
        LET write == Put(e, IF over THEN "error" ELSE "pending", "none", review,
                         IF over THEN 0 ELSE rage[p]) IN
        \/ /\ write
           /\ IF PutAllowed(e) /\ ~over
              THEN /\ Goto(e, IF open[p] THEN "queued" ELSE "unlaunched")
                   /\ wproc' = [wproc EXCEPT ![e] = p]
              ELSE UNCHANGED <<wpc, wproc>>
           /\ IF PutAllowed(e) /\ over
              THEN BeginHandoff(p, JobOf(e)) /\ hjob' = [hjob EXCEPT ![p] = JobOf(e)]
              ELSE UNCHANGED <<hpc, hjob>>
           /\ rpc' = [rpc EXCEPT ![p] = "stale"]
           /\ UNCHANGED <<stale, rage, boundVars>>
        \/ /\ Fault /\ (write \/ NoStore)
           /\ rpc' = [rpc EXCEPT ![p] = "idle"] /\ stale' = [stale EXCEPT ![p] = {}]
           /\ rage' = [rage EXCEPT ![p] = 0]
           /\ UNCHANGED <<wpc, wproc, hpc, hjob>>
  /\ claimed' = [claimed EXCEPT ![p] = None]
  /\ UNCHANGED <<claimAge, cooling, wout, wmsg, guardAge, hAge, hmsg, open, hand, outVars>>

-----------------------------------------------------------------------------
(* The environment *)

Older(a, max) == IF a < max THEN a + 1 ELSE a

Tick ==
  /\ updAge' = [j \in Job |->
       IF Active(rec[j]) THEN Older(updAge[j], StaleAfter) ELSE updAge[j]]
  /\ claimAge' = [j \in Job |->
       IF rec[j] # None /\ rec[j].claim # None THEN Older(claimAge[j], LeaseFor)
       ELSE claimAge[j]]
  /\ cooling' = [j \in Job |-> FALSE]
  /\ guardAge' = [e \in Exec |->
       IF wpc[e] \in {"guard", "push"} THEN Older(guardAge[e], StaleAfter) ELSE guardAge[e]]
  /\ hAge' = [x \in Actor |->
       IF hpc[x] \in {"claim", "publish"} THEN Older(hAge[x], LeaseFor) ELSE hAge[x]]
  /\ rage' = [p \in Proc |->
       IF rpc[p] # "idle" THEN Older(rage[p], StaleAfter) ELSE rage[p]]
  /\ UNCHANGED <<rec, wpc, wproc, wout, wmsg, hpc, hjob, hmsg, open, rpc, hand, stale, seen,
                 claimed, outVars, boundVars>>

\* shutdown(cancel_futures=True): queued tasks are dropped without a trace.
Shutdown(p) ==
  /\ open[p] /\ shutdowns < MaxShutdowns /\ shutdowns' = shutdowns + 1
  /\ open' = [open EXCEPT ![p] = FALSE]
  /\ wpc' = [e \in Exec |-> IF wproc[e] = p /\ wpc[e] = "queued" THEN "end" ELSE wpc[e]]
  /\ UNCHANGED <<storeVars, wproc, wout, wmsg, guardAge, handoffVars, recVars, outVars, faults,
                 crashes>>

\* The process dies with its tasks, its recovery and their handoffs, and is
\* restarted by Supervisor.
Crash(p) ==
  /\ crashes < MaxCrashes /\ crashes' = crashes + 1
  /\ LET dead == {e \in Exec : wproc[e] = p} IN
     /\ wpc' = [e \in Exec |-> IF e \in dead THEN "end" ELSE wpc[e]]
     /\ wout' = [e \in Exec |-> IF e \in dead THEN "none" ELSE wout[e]]
     /\ wmsg' = [e \in Exec |-> wmsg[e] /\ e \notin dead]
     /\ guardAge' = [e \in Exec |-> IF e \in dead THEN 0 ELSE guardAge[e]]
     /\ hpc' = [x \in Actor |-> IF x \in dead \cup {p} THEN "idle" ELSE hpc[x]]
     /\ hAge' = [x \in Actor |-> IF x \in dead \cup {p} THEN 0 ELSE hAge[x]]
     /\ hmsg' = [x \in Actor |-> IF x \in dead \cup {p} THEN None ELSE hmsg[x]]
  /\ open' = [open EXCEPT ![p] = TRUE]
  /\ rpc' = [rpc EXCEPT ![p] = "idle"] /\ rage' = [rage EXCEPT ![p] = 0]
  /\ hand' = [hand EXCEPT ![p] = {}] /\ stale' = [stale EXCEPT ![p] = {}]
  /\ seen' = [seen EXCEPT ![p] = {}] /\ claimed' = [claimed EXCEPT ![p] = None]
  /\ UNCHANGED <<storeVars, wproc, hjob, outVars, faults, shutdowns>>

-----------------------------------------------------------------------------
\* What an execution does besides reporting progress.
Work(e) == Start(e) \/ Verdict(e) \/ Guard(e) \/ Push(e) \/ Confirm(e) \/ Final(e) \/ Fail(e)

Publish(x) == HandoffClaim(x) \/ HandoffPublish(x) \/ HandoffFinish(x)

Recover(p) == RecoverScan(p) \/ RecoverHandoff(p) \/ RecoverClaim(p) \/ RecoverPut(p)

Next ==
  \/ \E p \in Proc, B \in (SUBSET Job) \ {{}} : Enqueue(p, B)
  \/ \E e \in Exec : Work(e) \/ Progress(e)
  \/ \E x \in Actor : Publish(x)
  \/ \E p \in Proc : Recover(p) \/ Shutdown(p) \/ Crash(p)
  \/ Tick

Spec == Init /\ [][Next]_vars

(* Threads that can run do run, time passes, and recovery runs: every status
   request schedules it.  Enqueueing, progress reports, shutdown and crashes
   are not fair. *)
Fairness ==
  /\ \A e \in Exec : WF_vars(Work(e))
  /\ \A x \in Actor : WF_vars(Publish(x))
  /\ \A p \in Proc : WF_vars(Recover(p))
  /\ WF_vars(Tick)

FairSpec == Spec /\ Fairness

-----------------------------------------------------------------------------
(* Properties *)

StoreType ==
  /\ rec \in [Job -> JobRec \cup {None}] /\ updAge \in [Job -> 0..StaleAfter]
  /\ claimAge \in [Job -> 0..LeaseFor] /\ cooling \in [Job -> BOOLEAN]

WorkType ==
  /\ wpc \in [Exec -> WorkPc] /\ wproc \in [Exec -> Proc \cup {None}]
  /\ wout \in [Exec -> Outcome] /\ wmsg \in [Exec -> BOOLEAN]
  /\ guardAge \in [Exec -> 0..StaleAfter]

HandoffType ==
  /\ hpc \in [Actor -> {"idle", "claim", "publish", "queued", "failed"}]
  /\ hjob \in [Proc -> Job \cup {None}] /\ hAge \in [Actor -> 0..LeaseFor]
  /\ hmsg \in [Actor -> Token \cup {None}]

RecoveryType ==
  /\ open \in [Proc -> BOOLEAN]
  /\ rpc \in [Proc -> {"idle", "handoff", "stale", "put"}]
  /\ hand \in [Proc -> SUBSET Job] /\ stale \in [Proc -> SUBSET Job]
  /\ seen \in [Proc -> SUBSET Job] /\ rage \in [Proc -> 0..StaleAfter]
  /\ claimed \in [Proc -> Exec \cup {None}]

BoundType ==
  /\ pushed \subseteq Exec /\ delivered \subseteq Exec
  /\ faults \in 0..MaxFaults /\ crashes \in 0..MaxCrashes
  /\ shutdowns \in 0..MaxShutdowns

\* Every variable has the shape the code gives it.
TypeOK == StoreType /\ WorkType /\ HandoffType /\ RecoveryType /\ BoundType

\* A job that reports a fixed page pushed that fix under its own token: a
\* retry never inherits the verdict of the execution it replaced.  And a push is
\* never passed over: the execution that made it, if the job ends with it, leaves the
\* verdict "fixed" or, after an error behind the push, an event for a human.
VerdictsMatchPushes ==
  \A j \in Job : Terminal(rec[j]) =>
    /\ rec[j].status = "done" /\ rec[j].outcome = "fixed" => <<j, rec[j].tok>> \in pushed
    /\ <<j, rec[j].tok>> \in pushed => \/ rec[j].status = "done" /\ rec[j].outcome = "fixed"
                                      \/ rec[j].review # "not_needed"

\* Every finished job a human has to look at, including one that failed after
\* its verdict was stored, carries a review event (or a build error).
FailuresAreReviewed ==
  \A j \in Job : /\ Terminal(rec[j])
                 /\ rec[j].status = "error" \/ rec[j].outcome \in {"unverifiable", "error"}
                 => rec[j].review # "not_needed"

\* A job whose review event is recorded as queued was really delivered.
QueuedMeansDelivered ==
  \A j \in Job : rec[j] # None /\ rec[j].review = "queued" => <<j, rec[j].msg>> \in delivered

\* The store stays within its limits, whatever is retried or recovered.
WithinCapacity ==
  Cardinality(Unfinished) <= MaxUnfinished /\ Cardinality(Stored) <= MaxKept

\* An undelivered review event is never dropped, replaced or rebuilt: the job
\* stays, with the same event, until the event is queued.
EventSurvives ==
  [][\A j \in Job : rec[j] # None /\ rec[j].review \in Handoff =>
       /\ rec'[j] # None /\ rec'[j].msg = rec[j].msg
       /\ rec'[j].review \in Handoff \cup {"queued"}]_vars

\* A queued review event is not handed off again, even by a worker that saw an
\* error when it stored its verdict and stores it a second time.
QueuedIsFinal ==
  [][\A j \in Job : rec[j] # None /\ rec[j].review = "queued" =>
       rec'[j] = None \/ (rec'[j].review = "queued" /\ rec'[j].msg = rec[j].msg)]_vars

\* A finished or removed job never runs again: no late write of a worker, of
\* recovery or of a failed submission revives it.
FinishedStaysFinished ==
  [][\A j \in Job : Created(j) /\ ~Active(rec[j]) => ~Active(rec'[j])]_vars

\* A fix is pushed by an execution that lost its job only if the execution
\* stalled for the whole stale timeout after its guard's time stamp.
FixFenced ==
  [][\A e \in pushed' \ pushed :
       TouchAllowed(e) \/ guardAge[e] = StaleAfter]_vars

\* A handoff is published by someone who lost the claim only after a stall of
\* the whole claim lease.
HandoffFenced ==
  [][\A x \in Actor : hpc[x] = "publish" /\ hpc'[x] \in {"queued", "failed"} =>
       FinishAllowed(x, JobOfActor(x)) \/ hAge[x] = LeaseFor]_vars

\* The event of a job: the stored one, or, of a job that was removed from the history,
\* the one that RabbitMQ got.
SentOf(j)  == {m \in Token : <<j, m>> \in delivered}
EventOf(j) == IF rec[j] # None THEN rec[j].msg
              ELSE IF SentOf(j) # {} THEN CHOOSE m \in SentOf(j) : TRUE ELSE None
Concluded  == {j \in Job : IF rec[j] # None THEN rec[j].review = "queued" ELSE SentOf(j) # {}}

handover == INSTANCE Handover WITH
  Content <- Token, event <- [j \in Job |-> EventOf(j)], concluded <- Concluded,
  sent <- delivered

\* put, claim_review_handoff, finish_review_handoff and the bounded history make the job
\* store hand its review events over: a job has one event, whichever execution, retry or
\* failed write built it; only that event is ever published, even by a publisher that
\* lost its claim or whose job is gone; and the job is forgotten, or its event counted
\* as queued, only after RabbitMQ has the event.
ChecksHandOver == handover!Spec

\* Every page check ends, whatever crashed or was dropped on its way.
EveryCheckEnds == \A j \in Job : Active(rec[j]) ~> ~Active(rec[j])

\* No review event is stranded.
EveryEventIsQueued ==
  \A j \in Job : (rec[j] # None /\ rec[j].review \in Handoff)
                   ~> (rec[j] # None /\ rec[j].review = "queued")
=============================================================================
