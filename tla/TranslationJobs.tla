--------------------------- MODULE TranslationJobs ---------------------------
(***************************************************************************)
(* Asynchronous translation jobs of the entry translator                   *)
(* (api/services/entry_translator_service.py).  Several translator         *)
(* processes share one Redis.  A client posts a request id; one attempt    *)
(* claims the active record (the lease) of that id, creates the durable    *)
(* job, translates in a bounded executor, publishes behind the lease, and  *)
(* releases everything.  Readers and stale recovery, on any process, fence *)
(* jobs whose lease was lost.                                              *)
(*                                                                         *)
(* Time is kept as ages: the age of a stored time stamp grows with Tick    *)
(* and saturates at StaleAfter, the only value the code compares it with,  *)
(* so the model has no time horizon.                                       *)
(***************************************************************************)
EXTENDS Integers, FiniteSets

CONSTANTS
  Proc,        \* translator processes
  Req,         \* request ids (job ids)
  Attempt,     \* calls of enqueue_translation_job; an attempt is its owner token
  Poller,      \* calls of get_translation_job
  None,        \* absence of a lease, record, lock holder or snapshot
  StaleAfter,  \* _stale_job_timeout_seconds, in ticks
  Capacity,    \* process-local job slots (max workers + max pending)
  MaxWorkers,  \* threads of the executor
  MaxFaults,   \* bound: Redis calls that raise
  MaxCrashes,  \* bound: process crashes
  MaxShutdowns \* bound: orderly shutdowns

Thread == Attempt \cup Poller

ASSUME ConstantsAssumption ==
  /\ StaleAfter \in Nat \ {0}
  /\ Capacity \in Nat /\ MaxWorkers \in Nat
  /\ MaxFaults \in Nat /\ MaxCrashes \in Nat /\ MaxShutdowns \in Nat
  /\ Attempt \cap Poller = {}

VARIABLES
  \* Redis
  lease,      \* active record of a request id: its owner token
  hbAge,      \* age of the stored heartbeat of that record
  job,        \* durable translation job
  updAge,     \* age of the durable last_updated_at
  \* calls and workers
  pc, proc, req,
  stage,      \* the lifecycle transition being persisted
  pub,        \* publication_state of the in-memory job
  ret,        \* where a call continues after reading the existing job
  view,       \* the durable job a reader observed
  started,    \* task_started
  hbOn,       \* the heartbeat thread has not been told to stop
  beat,       \* age of the time stamp of a heartbeat in flight
  guardAge,   \* age of the oldest time stamp written for the lease since the guard
  \* process-local state
  accepting, admitted, running, local, publishLock,
  \* stale recovery of a process
  rpc,        \* "idle", "evict" or "mark"
  cand,       \* stale records still to be evicted: {<<request, token>>}
  fresh,      \* requests whose heartbeat was written since the scan
  evicted,    \* evicted records whose durable job is still to be marked
  mark,       \* the durable job recovery read and is about to overwrite
  \* what left the process
  pushed,     \* attempts whose page message reached RabbitMQ
  saved,      \* attempts that stored entries and published references
  \* bounds
  faults, crashes, shutdowns

redisVars == <<lease, hbAge, job, updAge>>
callVars  == <<pc, proc, req, stage, pub, ret, view, started, hbOn, beat, guardAge>>
procVars  == <<accepting, admitted, running, local, publishLock>>
recVars   == <<rpc, cand, fresh, evicted, mark>>
outVars   == <<pushed, saved>>
boundVars == <<faults, crashes, shutdowns>>
vars == <<redisVars, callVars, procVars, recVars, outVars, boundVars>>

Age      == 0..StaleAfter
Status   == {"pending", "running", "done", "error"}
PubState == {"not_queued", "queued", "filtered_out"}
JobRec   == [status : Status, tok : Attempt, pub : PubState]
Snapshot == [tok : Attempt, pub : PubState, age : Age]
Marking  == [req : Req, tok : Attempt, pub : PubState]

ASSUME NoneAssumption ==
  None \notin Attempt \cup Age \cup JobRec \cup Snapshot \cup Marking

LockedStage  == {"queueing_publication", "prefiltering_publication"}
PublishStage == LockedStage \cup {"publication_filtered", "publication_queued"}
TerminalStage == {"completed", "error_result", "failed"}
Stage == PublishStage \cup TerminalStage \cup {"none", "loading_source", "translating"}

ReaderPc == {"get", "owns", "fence"}
\* Pcs of an attempt that holds a job slot before its task is in the executor.
AdmitPc  == {"claim", "create", "spawn", "spawn_failed", "submit"}
\* Pcs of a task, of its cancellation callback or of the failed submission.
TaskPc   == {"queued", "touch", "put", "fetch", "process", "lock", "assemble",
             "filter", "guard", "push", "save", "finish", "cleanup"}
\* "release" is cleanup() of an attempt that never owned the active record.
Pc == {"idle", "reserve", "release", "end"} \cup ReaderPc \cup AdmitPc \cup TaskPc

Active(j)   == j # None /\ j.status \in {"pending", "running"}
Terminal(j) == j # None /\ j.status \in {"done", "error"}

-----------------------------------------------------------------------------
(* Redis scripts *)

Older(a) == IF a < StaleAfter THEN a + 1 ELSE a

\* A heartbeat of request r with age g is stored; every scan that observed
\* the previous one no longer matches.
WriteHeartbeat(r, g) ==
  /\ hbAge' = [hbAge EXCEPT ![r] = g]
  /\ fresh' = [p \in Proc |-> IF rpc[p] = "evict" THEN fresh[p] \cup {r} ELSE fresh[p]]

\* _CLAIM_JOB_SCRIPT: create the record and its first heartbeat.
ClaimScript(r, a) ==
  /\ lease' = [lease EXCEPT ![r] = a]
  /\ WriteHeartbeat(r, 0)

\* _TOUCH_JOB_SCRIPT: only the owner refreshes an existing record.
TouchScript(r, a, g) ==
  IF lease[r] = a THEN WriteHeartbeat(r, g) ELSE UNCHANGED <<hbAge, fresh>>

\* _FINISH_JOB_SCRIPT: only the owner removes its record.
FinishScript(r, a) ==
  lease' = [lease EXCEPT ![r] = IF @ = a THEN None ELSE @]

\* Faulty variants of PutAllowed: a finished job may be overwritten; the
\* active record is required, as if require_active=False were ignored.
PutAllowedFinished(r, a) == job[r] # None /\ job[r].tok = a
PutAllowedLeased(r, a) == Active(job[r]) /\ job[r].tok = a /\ lease[r] = a

\* _PUT_OWNED_SCRIPT: the owner token must match and the job must be active.
PutAllowed(r, a) == Active(job[r]) /\ job[r].tok = a

\* Faulty: the stage is stored where the status belongs.
StageStatusMixed(s) == s

StageStatus(s) ==
  CASE s = "completed" -> "done"
    [] s \in {"error_result", "failed"} -> "error"
    [] OTHER -> "running"

PutScript(r, a, status, state) ==
  IF PutAllowed(r, a)
  THEN /\ job' = [job EXCEPT ![r] = [status |-> status, tok |-> a, pub |-> state]]
       /\ updAge' = [updAge EXCEPT ![r] = 0]
  ELSE UNCHANGED <<job, updAge>>

\* A Redis call raises (connection or socket timeout): counted against the bound.
RedisFault == faults < MaxFaults /\ faults' = faults + 1 /\ UNCHANGED <<crashes, shutdowns>>

-----------------------------------------------------------------------------
(* The initial state *)

Init ==
  /\ lease = [r \in Req |-> None] /\ hbAge = [r \in Req |-> 0]
  /\ job = [r \in Req |-> None]   /\ updAge = [r \in Req |-> 0]
  /\ pc = [x \in Thread |-> "idle"]
  /\ proc = [x \in Thread |-> None] /\ req = [x \in Thread |-> None]
  /\ ret = [x \in Thread |-> "idle"] /\ view = [x \in Thread |-> None]
  /\ stage = [a \in Attempt |-> "none"] /\ pub = [a \in Attempt |-> "not_queued"]
  /\ started = [a \in Attempt |-> FALSE] /\ hbOn = [a \in Attempt |-> FALSE]
  /\ beat = [a \in Attempt |-> None] /\ guardAge = [a \in Attempt |-> 0]
  /\ accepting = [p \in Proc |-> TRUE]
  /\ admitted = [p \in Proc |-> 0] /\ running = [p \in Proc |-> 0]
  /\ local = [p \in Proc |-> {}] /\ publishLock = [p \in Proc |-> None]
  /\ rpc = [p \in Proc |-> "idle"] /\ cand = [p \in Proc |-> {}]
  /\ fresh = [p \in Proc |-> {}] /\ evicted = [p \in Proc |-> {}]
  /\ mark = [p \in Proc |-> None]
  /\ pushed = {} /\ saved = {} /\ faults = 0 /\ crashes = 0 /\ shutdowns = 0

-----------------------------------------------------------------------------
(* Reading the durable job: get_translation_job, and                       *)
(* _get_existing_translation_request inside an enqueue call.               *)

Goto(x, where) == pc' = [pc EXCEPT ![x] = where]

\* get_translation_job arrives at a process.
Poll(q, p, r) ==
  /\ pc[q] = "idle"
  /\ Goto(q, "get")
  /\ proc' = [proc EXCEPT ![q] = p] /\ req' = [req EXCEPT ![q] = r]
  /\ UNCHANGED <<redisVars, stage, pub, ret, view, started, hbOn, beat, guardAge,
                 procVars, recVars, outVars, boundVars>>

\* enqueue_translation_job arrives; it first looks for an existing job.
Enqueue(a, p, r) ==
  /\ pc[a] = "idle"
  /\ Goto(a, "get")
  /\ proc' = [proc EXCEPT ![a] = p] /\ req' = [req EXCEPT ![a] = r]
  /\ UNCHANGED <<redisVars, stage, pub, ret, view, started, hbOn, beat, guardAge,
                 procVars, recVars, outVars, boundVars>>

\* Faulty: a call that lost its claim starts admission over.
AfterMissAgain(x) == IF x \in Attempt THEN "reserve" ELSE ret[x]

\* The first lookup of an enqueue call that finds nothing goes on to admission.
AfterMiss(x) == IF x \in Attempt /\ ret[x] = "idle" THEN "reserve" ELSE ret[x]

Get(x) ==
  /\ pc[x] = "get"
  /\ LET j == job[req[x]] IN
     \/ /\ ~Active(j)
        /\ Goto(x, IF j = None THEN AfterMiss(x) ELSE ret[x])
        /\ UNCHANGED <<view, boundVars>>
     \/ /\ Active(j)
        /\ Goto(x, "owns")
        /\ view' = [view EXCEPT ![x] =
                      [tok |-> j.tok, pub |-> j.pub, age |-> updAge[req[x]]]]
        /\ UNCHANGED boundVars
     \/ /\ RedisFault
        /\ Goto(x, ret[x])
        /\ UNCHANGED view
  /\ UNCHANGED <<redisVars, proc, req, stage, pub, ret, started, hbOn, beat, guardAge,
                 procVars, recVars, outVars>>

\* _recover_unleased_translation_job: a job whose owner still holds the lease,
\* or that was updated recently, is returned as it is.
Owns(x) ==
  /\ pc[x] = "owns"
  /\ \/ /\ IF lease[req[x]] # view[x].tok /\ view[x].age = StaleAfter
           THEN Goto(x, "fence") /\ UNCHANGED view
           ELSE Goto(x, ret[x]) /\ view' = [view EXCEPT ![x] = None]
        /\ UNCHANGED boundVars
     \/ /\ RedisFault
        /\ Goto(x, ret[x]) /\ view' = [view EXCEPT ![x] = None]
  /\ UNCHANGED <<redisVars, proc, req, stage, pub, ret, started, hbOn, beat, guardAge,
                 procVars, recVars, outVars>>

\* ... otherwise the observed record is written back as failed, under its token.
Fence(x) ==
  /\ pc[x] = "fence"
  /\ \/ PutScript(req[x], view[x].tok, "error", view[x].pub) /\ UNCHANGED boundVars
     \/ RedisFault /\ PutScript(req[x], view[x].tok, "error", view[x].pub)
     \/ RedisFault /\ UNCHANGED <<job, updAge>>
  /\ Goto(x, ret[x]) /\ view' = [view EXCEPT ![x] = None]
  /\ UNCHANGED <<lease, hbAge, proc, req, stage, pub, ret, started, hbOn, beat, guardAge,
                 procVars, recVars, outVars>>

-----------------------------------------------------------------------------
(* Admission: enqueue_translation_job up to the executor *)

\* _reserve_job_slot: refused while shutting down or at capacity.
Reserve(a) ==
  /\ pc[a] = "reserve"
  /\ LET p == proc[a] IN
     IF accepting[p] /\ admitted[p] < Capacity
     THEN admitted' = [admitted EXCEPT ![p] = @ + 1] /\ Goto(a, "claim")
     ELSE UNCHANGED admitted /\ Goto(a, "idle")
  /\ UNCHANGED <<redisVars, proc, req, stage, pub, ret, view, started, hbOn, beat,
                 guardAge, accepting, running, local, publishLock, recVars, outVars,
                 boundVars>>

\* claim_job, then _local_job_ids.add.  A lost claim returns the existing job.
Claim(a) ==
  /\ pc[a] = "claim"
  /\ LET r == req[a] IN
     \/ /\ lease[r] = None
        /\ ClaimScript(r, a)
        /\ local' = [local EXCEPT ![proc[a]] = @ \cup {r}]
        /\ Goto(a, "create")
        /\ UNCHANGED <<ret, boundVars>>
     \/ /\ lease[r] # None
        /\ Goto(a, "get") /\ ret' = [ret EXCEPT ![a] = "release"]
        /\ UNCHANGED <<lease, hbAge, fresh, local, boundVars>>
     \/ /\ RedisFault
        /\ \/ lease[r] = None /\ ClaimScript(r, a)
           \/ UNCHANGED <<lease, hbAge, fresh>>
        /\ Goto(a, "release")
        /\ UNCHANGED <<ret, local>>
  /\ UNCHANGED <<job, updAge, proc, req, stage, pub, view, started, hbOn, beat, guardAge,
                 accepting, admitted, running, publishLock, rpc, cand, evicted, mark,
                 outVars>>

NewJob(a) == [status |-> "pending", tok |-> a, pub |-> "not_queued"]

\* RedisTranslationJobStore.create: SET NX of the pending record.
CreateScript(r, a) ==
  /\ job' = [job EXCEPT ![r] = NewJob(a)]
  /\ updAge' = [updAge EXCEPT ![r] = 0]

\* Faulty: SET without NX.
CreateAlways(r) == TRUE
CreateAllowed(r) == job[r] = None

Create(a) ==
  /\ pc[a] = "create"
  /\ LET r == req[a] IN
     \/ /\ CreateAllowed(r)
        /\ CreateScript(r, a)
        /\ Goto(a, "spawn")
        /\ UNCHANGED <<ret, boundVars>>
     \/ /\ ~CreateAllowed(r)
        /\ Goto(a, "get") /\ ret' = [ret EXCEPT ![a] = "finish"]
        /\ UNCHANGED <<job, updAge, boundVars>>
     \/ /\ RedisFault
        /\ \/ CreateAllowed(r) /\ CreateScript(r, a)
           \/ UNCHANGED <<job, updAge>>
        /\ Goto(a, "finish")
        /\ UNCHANGED ret
  /\ UNCHANGED <<lease, hbAge, proc, req, stage, pub, view, started, hbOn, beat, guardAge,
                 procVars, recVars, outVars>>

\* The heartbeat thread starts, or cannot be started.
Spawn(a) ==
  /\ pc[a] = "spawn"
  /\ \/ hbOn' = [hbOn EXCEPT ![a] = TRUE] /\ Goto(a, "submit")
     \/ UNCHANGED hbOn /\ Goto(a, "spawn_failed")
  /\ UNCHANGED <<redisVars, proc, req, stage, pub, ret, view, started, beat, guardAge,
                 procVars, recVars, outVars, boundVars>>

\* Without a heartbeat the job is failed without touching the lease
\* (require_active=False); a store error is only logged.
SpawnFailed(a) ==
  /\ pc[a] = "spawn_failed"
  /\ \/ PutScript(req[a], a, "error", pub[a]) /\ UNCHANGED boundVars
     \/ RedisFault /\ PutScript(req[a], a, "error", pub[a])
     \/ RedisFault /\ UNCHANGED <<job, updAge>>
  /\ Goto(a, "finish")
  /\ UNCHANGED <<lease, hbAge, proc, req, stage, pub, ret, view, started, hbOn, beat,
                 guardAge, procVars, recVars, outVars>>

\* _run_task: a shut-down executor refuses the task, which fails the job.
Submit(a) ==
  /\ pc[a] = "submit"
  /\ IF accepting[proc[a]]
     THEN Goto(a, "queued") /\ UNCHANGED stage
     ELSE Goto(a, "touch") /\ stage' = [stage EXCEPT ![a] = "failed"]
  /\ UNCHANGED <<redisVars, proc, req, pub, ret, view, started, hbOn, beat, guardAge,
                 procVars, recVars, outVars, boundVars>>

\* shutdown(cancel_futures=True): queued futures are cancelled and their done
\* callbacks fail the jobs; running tasks go on.
Shutdown(p) ==
  /\ accepting[p]
  /\ shutdowns < MaxShutdowns /\ shutdowns' = shutdowns + 1
  /\ accepting' = [accepting EXCEPT ![p] = FALSE]
  /\ LET cancelled == {a \in Attempt : proc[a] = p /\ pc[a] = "queued"} IN
     /\ pc' = [x \in Thread |-> IF x \in cancelled THEN "touch" ELSE pc[x]]
     /\ stage' = [a \in Attempt |-> IF a \in cancelled THEN "failed" ELSE stage[a]]
  /\ UNCHANGED <<redisVars, proc, req, pub, ret, view, started, hbOn, beat, guardAge,
                 admitted, running, local, publishLock, recVars, outVars, faults, crashes>>

-----------------------------------------------------------------------------
(* The task: translate, publish behind the lease, persist the outcome *)

Busy(p) == {a \in Attempt : proc[a] = p /\ started[a] /\ pc[a] # "end"}

\* An executor thread picks the task up.
StartTask(a) ==
  /\ pc[a] = "queued"
  /\ Cardinality(Busy(proc[a])) < MaxWorkers
  /\ started' = [started EXCEPT ![a] = TRUE]
  /\ running' = [running EXCEPT ![proc[a]] = @ + 1]
  /\ stage' = [stage EXCEPT ![a] = "loading_source"]
  /\ Goto(a, "touch")
  /\ UNCHANGED <<redisVars, proc, req, pub, ret, view, hbOn, beat, guardAge,
                 accepting, admitted, local, publishLock, recVars, outVars, boundVars>>

\* Persist the transition to stage s next.
Update(a, s) == Goto(a, "touch") /\ stage' = [stage EXCEPT ![a] = s]

Unlock(a) == publishLock' = [publishLock EXCEPT ![proc[a]] = IF @ = a THEN None ELSE @]

\* An exception: raised while publishing it becomes an error result of
\* process_wiktionary_wiki_page; elsewhere the task's handler persists the
\* failure; raised there it leaves the active record to stale recovery.
Raise(a) ==
  /\ IF stage[a] = "failed"
     THEN Goto(a, "cleanup") /\ UNCHANGED stage
     ELSE Update(a, IF stage[a] \in PublishStage THEN "error_result" ELSE "failed")
  /\ Unlock(a)

\* _update_translation_job, first half: touch_job.
Touch(a) ==
  /\ pc[a] = "touch"
  /\ \/ /\ TouchScript(req[a], a, 0)
        /\ IF lease[req[a]] = a
           THEN Goto(a, "put") /\ UNCHANGED <<stage, publishLock>>
           ELSE Raise(a)
        /\ UNCHANGED boundVars
     \/ /\ RedisFault
        /\ TouchScript(req[a], a, 0) \/ UNCHANGED <<hbAge, fresh>>
        /\ Raise(a)
  /\ UNCHANGED <<lease, job, updAge, proc, req, pub, ret, view, started, hbOn, beat,
                 guardAge, accepting, admitted, running, local, rpc, cand, evicted, mark,
                 outVars>>

\* Where the task continues once stage s is durable.
AfterPut(s) ==
  CASE s = "loading_source" -> "fetch"
    [] s = "translating" -> "process"
    [] s = "queueing_publication" -> "assemble"
    [] s = "prefiltering_publication" -> "filter"
    [] s \in {"publication_filtered", "publication_queued"} -> "save"
    [] OTHER -> "finish"

\* _update_translation_job, second half: put_owned.
Put(a) ==
  /\ pc[a] = "put"
  /\ LET status == StageStatus(stage[a]) IN
     \/ /\ PutScript(req[a], a, status, pub[a])
        /\ IF PutAllowed(req[a], a)
           THEN Goto(a, AfterPut(stage[a])) /\ UNCHANGED <<stage, publishLock>>
           ELSE Raise(a)
        /\ UNCHANGED boundVars
     \/ /\ RedisFault
        /\ PutScript(req[a], a, status, pub[a]) \/ UNCHANGED <<job, updAge>>
        /\ Raise(a)
  /\ UNCHANGED <<lease, hbAge, proc, req, pub, ret, view, started, hbOn, beat, guardAge,
                 accepting, admitted, running, local, recVars, outVars>>

\* A step of the task that touches neither Redis nor the outside.
Local == UNCHANGED <<redisVars, proc, req, ret, view, started, hbOn, beat, guardAge,
                     accepting, admitted, running, local, recVars, boundVars>>

\* _fetch_page of the source page.
Fetch(a) ==
  /\ pc[a] = "fetch"
  /\ \/ Update(a, "translating") /\ UNCHANGED publishLock
     \/ Raise(a)
  /\ Local /\ UNCHANGED <<pub, outVars>>

\* process_wiktionary_wiki_page: nothing to publish, an error result, or a page.
Process(a) ==
  /\ pc[a] = "process"
  /\ \/ Update(a, "completed")
     \/ Update(a, "error_result")
     \/ Goto(a, "lock") /\ UNCHANGED stage
  /\ Local /\ UNCHANGED <<publishLock, pub, outVars>>

\* publish_locked takes the process-wide publish lock.
Lock(a) ==
  /\ pc[a] = "lock" /\ publishLock[proc[a]] = None
  /\ publishLock' = [publishLock EXCEPT ![proc[a]] = a]
  /\ Update(a, "queueing_publication")
  /\ Local /\ UNCHANGED <<pub, outVars>>

\* publish_to_wiktionary reads the target and assembles the page; the
\* settings store decides whether the candidate is prefiltered.
Assemble(a) ==
  /\ pc[a] = "assemble"
  /\ \/ Goto(a, "guard") /\ UNCHANGED <<stage, publishLock>>
     \/ Update(a, "prefiltering_publication") /\ UNCHANGED publishLock
     \/ Raise(a)
  /\ Local /\ UNCHANGED <<pub, outVars>>

\* Faulty: a rejected candidate is recorded as filtered out and still published.
FilterThrough(a) ==
  /\ pc[a] = "filter"
  /\ Goto(a, "guard")
  /\ pub' = [pub EXCEPT ![a] = "filtered_out"]
  /\ Local /\ UNCHANGED <<stage, publishLock, outVars>>

\* filter_publication: only a good candidate goes on; any other is filtered out.
Filter(a) ==
  /\ pc[a] = "filter"
  /\ \/ Goto(a, "guard") /\ UNCHANGED <<stage, publishLock, pub>>
     \/ /\ Update(a, "publication_filtered") /\ Unlock(a)
        /\ pub' = [pub EXCEPT ![a] = "filtered_out"]
     \/ Raise(a) /\ UNCHANGED pub
  /\ Local /\ UNCHANGED outVars

\* assert_publication_lease: touch_job as the last check before the push.  Its
\* time stamp is as old as the call itself.
Guard(a) ==
  /\ pc[a] = "guard"
  /\ \/ /\ TouchScript(req[a], a, guardAge[a])
        /\ IF lease[req[a]] = a
           THEN Goto(a, "push") /\ UNCHANGED <<stage, publishLock>>
           ELSE Raise(a)
        /\ UNCHANGED boundVars
     \/ /\ RedisFault
        /\ TouchScript(req[a], a, guardAge[a]) \/ UNCHANGED <<hbAge, fresh>>
        /\ Raise(a)
  /\ UNCHANGED <<lease, job, updAge, proc, req, pub, ret, view, started, hbOn, beat,
                 guardAge, accepting, admitted, running, local, rpc, cand, evicted, mark,
                 outVars>>

\* Faulty: an error of the producer counts as queued.
PushUnchecked(a) ==
  /\ pc[a] = "push"
  /\ pushed' \in {pushed, pushed \cup {a}}
  /\ pub' = [pub EXCEPT ![a] = "queued"]
  /\ Update(a, "publication_queued") /\ Unlock(a)
  /\ Local /\ UNCHANGED saved

\* push: confirmed by the broker, or an error that may hide an accepted message.
Push(a) ==
  /\ pc[a] = "push"
  /\ \/ /\ pushed' = pushed \cup {a}
        /\ pub' = [pub EXCEPT ![a] = "queued"]
        /\ Update(a, "publication_queued") /\ Unlock(a)
     \/ /\ pushed' \in {pushed, pushed \cup {a}}
        /\ Raise(a) /\ UNCHANGED pub
  /\ Local /\ UNCHANGED saved

\* publish_locked has returned None: process_wiktionary_wiki_page stores the
\* entries and publishes their references, then the job completes.
Save(a) ==
  /\ pc[a] = "save"
  /\ \/ saved' = saved \cup {a} /\ Update(a, "completed") /\ UNCHANGED publishLock
     \/ saved' \in {saved, saved \cup {a}} /\ Raise(a)
  /\ Local /\ UNCHANGED <<pub, pushed>>

\* stop_heartbeat, then finish_job; a Redis error falls back to a local counter
\* that does not know the job, so the record may stay.
Finish(a) ==
  /\ pc[a] = "finish"
  /\ \/ FinishScript(req[a], a) /\ UNCHANGED boundVars
     \/ RedisFault /\ FinishScript(req[a], a)
     \/ RedisFault /\ UNCHANGED lease
  /\ hbOn' = [hbOn EXCEPT ![a] = FALSE]
  /\ Goto(a, "cleanup")
  /\ UNCHANGED <<hbAge, job, updAge, proc, req, stage, pub, ret, view, started, beat,
                 guardAge, procVars, recVars, outVars>>

\* Faulty: the local id is kept.
KeepLocal(a) == UNCHANGED local

\* cleanup discards the local id if this attempt owned the active record.
ForgetLocal(a) ==
  local' = [local EXCEPT ![proc[a]] = IF pc[a] = "cleanup" THEN @ \ {req[a]} ELSE @]

\* cleanup: release the slot of the process.
Cleanup(a) ==
  /\ pc[a] \in {"cleanup", "release"}
  /\ LET p == proc[a] IN
     /\ admitted' = [admitted EXCEPT ![p] = @ - 1]
     /\ running' = [running EXCEPT ![p] = IF started[a] THEN @ - 1 ELSE @]
  /\ ForgetLocal(a)
  /\ Goto(a, "end")
  /\ hbOn' = [hbOn EXCEPT ![a] = FALSE]
  /\ stage' = [stage EXCEPT ![a] = "none"]
  /\ UNCHANGED <<redisVars, proc, req, pub, ret, view, started, beat, guardAge, accepting,
                 publishLock, recVars, outVars, boundVars>>

-----------------------------------------------------------------------------
(* The heartbeat thread: _heartbeat_translation_job *)

\* The thread takes a time stamp and calls touch_job.
BeatSend(a) ==
  /\ hbOn[a] /\ beat[a] = None
  /\ beat' = [beat EXCEPT ![a] = 0]
  /\ UNCHANGED <<redisVars, pc, proc, req, stage, pub, ret, view, started, hbOn, guardAge,
                 procVars, recVars, outVars, boundVars>>

\* The call arrives, possibly after the thread was told to stop (join has a
\* timeout); the thread ends when the lease is no longer its own.
BeatArrive(a) ==
  /\ beat[a] # None
  /\ beat' = [beat EXCEPT ![a] = None]
  /\ \/ /\ TouchScript(req[a], a, beat[a])
        /\ hbOn' = [hbOn EXCEPT ![a] = @ /\ lease[req[a]] = a]
        /\ guardAge' = [guardAge EXCEPT ![a] =
                          IF pc[a] = "push" /\ @ < beat[a] THEN beat[a] ELSE @]
        /\ UNCHANGED boundVars
     \/ /\ RedisFault   \* logged; the thread goes on
        /\ UNCHANGED <<hbAge, fresh, hbOn, guardAge>>
  /\ UNCHANGED <<lease, job, updAge, pc, proc, req, stage, pub, ret, view, started, procVars,
                 rpc, cand, evicted, mark, outVars>>

-----------------------------------------------------------------------------
(* Stale recovery of one process: _recover_stale_jobs *)

\* Protected ids, records and heartbeats are read; stale records are candidates.
RecoverScan(p) ==
  /\ rpc[p] = "idle"
  /\ cand' = [cand EXCEPT ![p] =
       {<<r, lease[r]>> : r \in {q \in Req \ local[p] :
                                   lease[q] # None /\ hbAge[q] = StaleAfter}}]
  /\ cand'[p] # {}
  /\ rpc' = [rpc EXCEPT ![p] = "evict"]
  /\ fresh' = [fresh EXCEPT ![p] = {}]
  /\ UNCHANGED <<redisVars, callVars, procVars, evicted, mark, outVars, boundVars>>

\* Faulty: the heartbeat is not compared before the record is deleted.
EvictUnconditionally(p, r) == lease[r] # None

\* _RECOVER_JOB_SCRIPT: delete a record whose heartbeat is the observed one.
EvictAllowed(p, r) == lease[r] # None /\ r \notin fresh[p]

\* One candidate is evicted.  A Redis error abandons the scan, and forgets
\* the records already evicted.
RecoverEvict(p) ==
  /\ rpc[p] = "evict"
  /\ \/ \E c \in cand[p] :
          /\ lease' = [lease EXCEPT ![c[1]] = IF EvictAllowed(p, c[1]) THEN None ELSE @]
          /\ cand' = [cand EXCEPT ![p] = @ \ {c}]
          /\ evicted' = [evicted EXCEPT ![p] =
                           IF EvictAllowed(p, c[1]) THEN @ \cup {c} ELSE @]
          /\ UNCHANGED <<rpc, fresh, boundVars>>
     \/ /\ cand[p] = {}
        /\ rpc' = [rpc EXCEPT ![p] = "mark"]
        /\ fresh' = [fresh EXCEPT ![p] = {}]
        /\ UNCHANGED <<lease, cand, evicted, boundVars>>
     \/ \E c \in cand[p] :
          /\ RedisFault
          /\ \/ lease' = [lease EXCEPT ![c[1]] = IF EvictAllowed(p, c[1]) THEN None ELSE @]
             \/ UNCHANGED lease
          /\ cand' = [cand EXCEPT ![p] = {}] /\ evicted' = [evicted EXCEPT ![p] = {}]
          /\ rpc' = [rpc EXCEPT ![p] = "idle"]
          /\ fresh' = [fresh EXCEPT ![p] = {}]
  /\ UNCHANGED <<hbAge, job, updAge, callVars, procVars, mark, outVars>>

\* The durable job of an evicted record is read; only an active one is marked.
RecoverRead(p) ==
  /\ rpc[p] = "mark" /\ mark[p] = None
  /\ \/ \E c \in evicted[p] :
          /\ evicted' = [evicted EXCEPT ![p] = @ \ {c}]
          /\ \/ /\ mark' = [mark EXCEPT ![p] =
                     IF Active(job[c[1]])
                     THEN [req |-> c[1], tok |-> c[2], pub |-> job[c[1]].pub]
                     ELSE None]
                /\ UNCHANGED boundVars
             \/ RedisFault /\ UNCHANGED mark
          /\ UNCHANGED rpc
     \/ /\ evicted[p] = {}
        /\ rpc' = [rpc EXCEPT ![p] = "idle"]
        /\ UNCHANGED <<evicted, mark, boundVars>>
  /\ UNCHANGED <<redisVars, callVars, procVars, cand, fresh, outVars>>

\* ... as failed, under the token of the evicted record.
RecoverMark(p) ==
  /\ mark[p] # None
  /\ LET m == mark[p] IN
     \/ PutScript(m.req, m.tok, "error", m.pub) /\ UNCHANGED boundVars
     \/ RedisFault /\ PutScript(m.req, m.tok, "error", m.pub)
     \/ RedisFault /\ UNCHANGED <<job, updAge>>
  /\ mark' = [mark EXCEPT ![p] = None]
  /\ UNCHANGED <<lease, hbAge, callVars, procVars, rpc, cand, fresh, evicted, outVars>>

-----------------------------------------------------------------------------
(* The environment *)

\* Time passes: every time stamp still compared with the timeout grows older.
Tick ==
  /\ hbAge' = [r \in Req |-> IF lease[r] # None THEN Older(hbAge[r]) ELSE hbAge[r]]
  /\ updAge' = [r \in Req |-> IF Active(job[r]) THEN Older(updAge[r]) ELSE updAge[r]]
  /\ view' = [x \in Thread |->
       IF view[x] = None THEN None ELSE [view[x] EXCEPT !.age = Older(@)]]
  /\ beat' = [a \in Attempt |-> IF beat[a] = None THEN None ELSE Older(beat[a])]
  /\ guardAge' = [a \in Attempt |->
       IF pc[a] \in {"guard", "push"} THEN Older(guardAge[a]) ELSE guardAge[a]]
  /\ UNCHANGED <<lease, job, pc, proc, req, stage, pub, ret, started, hbOn, procVars, recVars,
                 outVars, boundVars>>

\* A process dies and is restarted by Supervisor: its threads and its local
\* state are gone, Redis keeps what it had.
Crash(p) ==
  /\ crashes < MaxCrashes /\ crashes' = crashes + 1
  /\ LET dead == {x \in Thread : proc[x] = p /\ pc[x] # "idle"} IN
     /\ pc' = [x \in Thread |->
          IF x \notin dead THEN pc[x] ELSE IF x \in Poller THEN "idle" ELSE "end"]
     /\ view' = [x \in Thread |-> IF x \in dead THEN None ELSE view[x]]
     /\ stage' = [a \in Attempt |-> IF a \in dead THEN "none" ELSE stage[a]]
     /\ hbOn' = [a \in Attempt |-> hbOn[a] /\ a \notin dead]
     /\ beat' = [a \in Attempt |-> IF a \in dead THEN None ELSE beat[a]]
  /\ accepting' = [accepting EXCEPT ![p] = TRUE]
  /\ admitted' = [admitted EXCEPT ![p] = 0] /\ running' = [running EXCEPT ![p] = 0]
  /\ local' = [local EXCEPT ![p] = {}] /\ publishLock' = [publishLock EXCEPT ![p] = None]
  /\ rpc' = [rpc EXCEPT ![p] = "idle"] /\ cand' = [cand EXCEPT ![p] = {}]
  /\ fresh' = [fresh EXCEPT ![p] = {}] /\ evicted' = [evicted EXCEPT ![p] = {}]
  /\ mark' = [mark EXCEPT ![p] = None]
  /\ UNCHANGED <<redisVars, proc, req, pub, ret, started, guardAge, outVars, faults, shutdowns>>

-----------------------------------------------------------------------------
Read(x) == Get(x) \/ Owns(x) \/ Fence(x)

\* What an admitted attempt's own threads do next.
Step(a) ==
  \/ Reserve(a) \/ Claim(a) \/ Create(a) \/ Spawn(a) \/ SpawnFailed(a) \/ Submit(a)
  \/ StartTask(a) \/ Touch(a) \/ Put(a) \/ Fetch(a) \/ Process(a) \/ Lock(a)
  \/ Assemble(a) \/ Filter(a) \/ Guard(a) \/ Push(a) \/ Save(a) \/ Finish(a) \/ Cleanup(a)

Recover(p) == RecoverScan(p) \/ RecoverEvict(p) \/ RecoverRead(p) \/ RecoverMark(p)

Next ==
  \/ \E q \in Poller, p \in Proc, r \in Req : Poll(q, p, r)
  \/ \E a \in Attempt, p \in Proc, r \in Req : Enqueue(a, p, r)
  \/ \E x \in Thread : Read(x)
  \/ \E a \in Attempt : Step(a) \/ BeatSend(a) \/ BeatArrive(a)
  \/ \E p \in Proc : Recover(p) \/ Shutdown(p) \/ Crash(p)
  \/ Tick

Spec == Init /\ [][Next]_vars

(* Scheduling the code relies on: threads that can run do run, clients keep
   polling a job and reading /jobs or /health (which starts recovery), and
   time passes.  Enqueue calls, heartbeats, shutdown and crashes are not fair. *)
Fairness ==
  /\ \A a \in Attempt : WF_vars(Step(a) \/ Read(a)) /\ WF_vars(BeatArrive(a))
  /\ \A q \in Poller : WF_vars(Read(q))
  /\ \A q \in Poller, r \in Req : WF_vars(\E p \in Proc : Poll(q, p, r))
  /\ \A p \in Proc : WF_vars(Recover(p))
  /\ WF_vars(Tick)

FairSpec == Spec /\ Fairness

-----------------------------------------------------------------------------
(* Properties *)

RedisType ==
  /\ lease \in [Req -> Attempt \cup {None}] /\ hbAge \in [Req -> Age]
  /\ job \in [Req -> JobRec \cup {None}] /\ updAge \in [Req -> Age]

CallType ==
  /\ pc \in [Thread -> Pc]
  /\ proc \in [Thread -> Proc \cup {None}] /\ req \in [Thread -> Req \cup {None}]
  /\ ret \in [Thread -> {"idle", "release", "finish"}]
  /\ view \in [Thread -> Snapshot \cup {None}]

TaskType ==
  /\ stage \in [Attempt -> Stage] /\ pub \in [Attempt -> PubState]
  /\ started \in [Attempt -> BOOLEAN] /\ hbOn \in [Attempt -> BOOLEAN]
  /\ beat \in [Attempt -> Age \cup {None}] /\ guardAge \in [Attempt -> Age]

ProcType ==
  /\ accepting \in [Proc -> BOOLEAN]
  /\ admitted \in [Proc -> Int] /\ running \in [Proc -> Int]
  /\ local \in [Proc -> SUBSET Req] /\ publishLock \in [Proc -> Attempt \cup {None}]

RecoveryType ==
  /\ rpc \in [Proc -> {"idle", "evict", "mark"}]
  /\ cand \in [Proc -> SUBSET (Req \X Attempt)]
  /\ fresh \in [Proc -> SUBSET Req]
  /\ evicted \in [Proc -> SUBSET (Req \X Attempt)]
  /\ mark \in [Proc -> Marking \cup {None}]

BoundType ==
  /\ pushed \subseteq Attempt /\ saved \subseteq Attempt
  /\ faults \in 0..MaxFaults /\ crashes \in 0..MaxCrashes
  /\ shutdowns \in 0..MaxShutdowns

\* Every variable has the shape the code gives it.
TypeOK == RedisType /\ CallType /\ TaskType /\ ProcType /\ RecoveryType /\ BoundType

\* Idempotent request ids: however often a request id is posted, on whatever
\* process, and whatever recovery does, its page is pushed by one attempt only.
OnePublication ==
  \A a, b \in pushed : req[a] = req[b] => a = b

\* A durable job tells the truth about its publication, whoever wrote it last: one that
\* says queued belongs to an attempt whose page was pushed, and one that says filtered
\* out sent no page.
QueuedMeansPushed ==
  \A r \in Req : job[r] # None /\ job[r].pub = "queued" => job[r].tok \in pushed
FilteredMeansNotPushed ==
  \A r \in Req : job[r] # None /\ job[r].pub = "filtered_out" => job[r].tok \notin pushed
PublicationIsTrue == QueuedMeansPushed /\ FilteredMeansNotPushed

\* A finished job never changes again: neither a late worker, nor a reader,
\* nor recovery with an old snapshot overwrites it.
TerminalIsFinal ==
  [][\A r \in Req : Terminal(job[r]) => job'[r] = job[r]]_vars

ledger == INSTANCE Ledger WITH Request <- Req, Token <- Attempt, record <- job, sent <- pushed

\* The job store, with its create and put_owned scripts, is a ledger: a request id is
\* accepted once, for one attempt; whoever writes its record, the worker, a reader with
\* an old snapshot or recovery, leaves it true, and leaves it alone once it is finished;
\* and only the attempt that was accepted pushes, once.
JobsAreLedger == ledger!Spec

\* Whatever path an admitted attempt ends on, the counters of its process
\* agree with the attempts that really hold a slot or an executor thread.
Holding(p) ==
  {a \in Attempt : /\ proc[a] = p
                   /\ \/ pc[a] \in AdmitPc \cup TaskPc \cup {"release"}
                      \/ pc[a] \in ReaderPc /\ ret[a] # "idle"}
SlotAccounting ==
  \A p \in Proc : /\ admitted[p] = Cardinality(Holding(p))
                   /\ running[p] = Cardinality(Busy(p))

\* The publication fence: a page is pushed by an attempt that has lost its
\* lease only if the attempt stalled for the whole stale timeout after the
\* oldest time stamp it wrote at or after its guard.
PublicationFenced ==
  [][\A a \in pushed' \ pushed : lease[req[a]] = a \/ guardAge[a] = StaleAfter]_vars

\* A rejected candidate must not persist data or publish references
\* (test_core.py says so of process_wiktionary_wiki_page).
FilteredIsDiscarded ==
  \A a \in saved : pub[a] # "filtered_out"

\* Every durable job ends: a crash, a lost lease or a failed write never
\* leaves a job pending or running for ever.
EveryJobTerminates ==
  \A r \in Req : Active(job[r]) ~> Terminal(job[r])

\* No request id stays wedged behind an active record nobody serves.
EveryLeaseIsReleased ==
  \A r \in Req : lease[r] # None ~> lease[r] = None
=============================================================================
