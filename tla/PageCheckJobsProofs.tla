------------------------ MODULE PageCheckJobsProofs ------------------------
(***************************************************************************)
(* What PageCheckJobs promises, for any number of processes, jobs, retries, *)
(* crashes, shutdowns and store errors.  The invariants are layered: types, *)
(* who owns which token, what verdicts and claims say about the broker, and *)
(* how the two time fences relate the ages kept in Redis and in memory.     *)
(***************************************************************************)
EXTENDS PageCheckJobs, FiniteSetTheorems, TLAPS

\* A handoff has a job, recovery at its write a claimed execution, and a record has
\* an event exactly when its review state is about one.
RecoveryShape ==
  \A p \in Proc : /\ rpc[p] = "put" => claimed[p] # None /\ hpc[p] = "idle"
                  /\ hpc[p] # "idle" => hjob[p] # None

EventShape ==
  \A j \in Job : rec[j] # None => (rec[j].msg # None <=> rec[j].review \in Handoff \cup {"queued"})

PublishShape == \A x \in Actor : hpc[x] = "publish" => hmsg[x] # None

TypeInv == TypeOK /\ RecoveryShape /\ EventShape /\ PublishShape

\* Tokens are drawn once: nobody knows a token above the number of attempts, and a
\* token that recovery has claimed is used by nobody else.
Known(e) == Created(JobOf(e)) /\ (rec[JobOf(e)] # None => TokOf(e) <= rec[JobOf(e)].attempts)

RecordTokens == \A j \in Job : rec[j] # None => rec[j].tok = rec[j].attempts /\ Created(j)

WorkTokens ==
  \A e \in Exec : /\ wpc[e] # "none" => Known(e)
                  /\ wproc[e] # None => wpc[e] # "none"

ClaimTokens ==
  /\ \A p \in Proc : claimed[p] # None => Known(claimed[p]) /\ wpc[claimed[p]] = "none"
  /\ \A p, q \in Proc : claimed[p] # None /\ claimed[p] = claimed[q] => p = q

Tokens == RecordTokens /\ WorkTokens /\ ClaimTokens

\* An execution that still owns its job and has stored no verdict owns an active job.
EarlyPc == {"queued", "check", "guard", "push", "confirm", "final"}

Owners ==
  /\ \A e \in Exec : wpc[e] \in EarlyPc /\ PutAllowed(e) => Active(rec[JobOf(e)])
  /\ \A p \in Proc : claimed[p] # None /\ PutAllowed(claimed[p])
                       => Active(rec[JobOf(claimed[p])])

\* What a worker believes about its fix is true, and so is what is stored.
Beliefs == \A e \in Exec : wout[e] = "fixed" \/ wpc[e] = "confirm" => e \in pushed

\* An execution that pushed has yet to store what became of it, as "fixed" or as an
\* error, or has ended.
Noted(e) == \/ wpc[e] \in {"confirm", "fail", "end"}
            \/ wpc[e] = "final" /\ wout[e] \in {"fixed", "error"}

PushesNoted == \A e \in pushed : Noted(e)

Verdicts == Beliefs /\ PushesNoted /\ VerdictsMatchPushes /\ FailuresAreReviewed

\* The holder of a claim has the stored event, and has delivered it when it says so;
\* a publisher without the claim stalled for the whole lease.
Holds(x) == FinishAllowed(x, JobOfActor(x))

ClaimIsTrue(x) ==
  /\ hpc[x] = "publish" /\ Holds(x) => hmsg[x] = rec[JobOfActor(x)].msg
  /\ hpc[x] = "queued" /\ Holds(x) => <<JobOfActor(x), rec[JobOfActor(x)].msg>> \in delivered
  /\ hpc[x] = "publish" =>
       hAge[x] = LeaseFor \/ (Holds(x) /\ claimAge[JobOfActor(x)] <= hAge[x])

Claims == (\A x \in Actor : ClaimIsTrue(x)) /\ QueuedMeansDelivered

\* What a scan saw is still stale unless somebody wrote; an execution between guard
\* and push owns its job, or stalled for the whole timeout.
SeenIsStale ==
  \A p \in Proc : \A j \in seen[p] : Created(j) /\ (Active(rec[j]) => updAge[j] = StaleAfter)

PushFence ==
  \A e \in Exec : wpc[e] = "push" =>
    guardAge[e] = StaleAfter \/ (TouchAllowed(e) /\ updAge[JobOf(e)] <= guardAge[e])

Fences == SeenIsStale /\ PushFence

-----------------------------------------------------------------------------
(* The store *)

LEMMA ExecShape ==
  /\ \A e \in Exec : JobOf(e) \in Job /\ TokOf(e) \in Token /\ e = <<JobOf(e), TokOf(e)>>
  /\ \A d, e \in Exec : JobOf(d) = JobOf(e) /\ TokOf(d) = TokOf(e) => d = e
BY DEF Exec, JobOf, TokOf

LEMMA Distinct ==
  /\ \A r \in JobRec : r # None
  /\ \A t \in Token : t # None
  /\ \A j \in Job : j # None
  /\ \A x \in Actor : x # None
  /\ \A e \in Exec : e # None /\ e \in Actor /\ e \notin Proc
  /\ \A p \in Proc : p # None /\ p \in Actor /\ p \notin Exec
  /\ 0 \in Token /\ 0 \in 0..StaleAfter /\ 0 \in 0..LeaseFor
BY PageCheckAssumption DEF Actor, Token

\* What a put makes of a record c: the event stays with its lifecycle, tokens and
\* claim are untouched.
MergeOf(c, m, status, out, review) ==
  /\ m \in JobRec /\ m.status = status /\ m.outcome = out
  /\ m.tok = c.tok /\ m.attempts = c.attempts /\ m.claim = c.claim
  /\ m.msg # None <=> m.review \in Handoff \cup {"queued"}
  /\ c.msg # None \/ c.review = "invalid" => m.msg = c.msg /\ m.review = c.review
  /\ c.msg = None /\ c.review # "invalid" => m.review = review

NewReview == {"not_needed", "pending", "invalid"}

LEMMA MergedIsMerge ==
  ASSUME TypeInv, NEW e \in Exec, PutAllowed(e), NEW status \in Status, NEW out \in Outcome,
         NEW review \in NewReview
  PROVE  MergeOf(rec[JobOf(e)], Merged(e, status, out, review), status, out, review)
<1> DEFINE c == rec[JobOf(e)]
           m == Merged(e, status, out, review)
<1>1. c \in JobRec /\ c # None /\ TokOf(e) \in Token /\ JobOf(e) \in Job
  BY ExecShape DEF TypeInv, TypeOK, StoreType, PutAllowed
<1>2. c.msg # None <=> c.review \in Handoff \cup {"queued"}
  BY <1>1 DEF TypeInv, EventShape
<1>3. TokOf(e) # None
  BY <1>1, Distinct
<1>4. CASE c.msg # None \/ c.review = "invalid"
  <2>1. m = [c EXCEPT !.status = status, !.outcome = out]
    BY <1>4 DEF Merged
  <2> QED BY <1>1, <1>2, <1>4, <2>1 DEF MergeOf, JobRec
<1>5. CASE ~(c.msg # None \/ c.review = "invalid")
  <2> DEFINE t == IF review = "pending" THEN TokOf(e) ELSE None
  <2>1. m = [c EXCEPT !.status = status, !.outcome = out, !.review = review, !.msg = t]
    BY <1>5 DEF Merged
  <2>2. t \in Token \cup {None} /\ (t # None <=> review = "pending")
    BY <1>1, <1>3
  <2> HIDE DEF t
  <2>3. review \in Review /\ (review = "pending" <=> review \in Handoff \cup {"queued"})
    BY DEF NewReview, Review, Handoff
  <2> QED BY <1>1, <1>5, <2>1, <2>2, <2>3 DEF MergeOf, JobRec
<1> QED BY <1>4, <1>5

\* What a put does, whether it is accepted, refused or lost.
PutEffect(e, status, out, review, g) ==
  \/ NoStore
  \/ /\ PutAllowed(e)
     /\ \E m \in JobRec :
          Store(JobOf(e), m, g) /\ MergeOf(rec[JobOf(e)], m, status, out, review)

LEMMA PutHasEffect ==
  ASSUME TypeInv, NEW e \in Exec, NEW status \in Status, NEW out \in Outcome,
         NEW review \in NewReview, NEW g, Put(e, status, out, review, g) \/ NoStore
  PROVE  PutEffect(e, status, out, review, g)
<1>1. CASE NoStore
  BY <1>1 DEF PutEffect
<1>2. CASE ~NoStore
  <2>1. PutAllowed(e) /\ Store(JobOf(e), Merged(e, status, out, review), g)
    BY <1>2 DEF Put
  <2>2. MergeOf(rec[JobOf(e)], Merged(e, status, out, review), status, out, review)
    BY <2>1, MergedIsMerge
  <2>3. Merged(e, status, out, review) \in JobRec
    BY <2>2 DEF MergeOf
  <2> QED BY <2>1, <2>2, <2>3 DEF PutEffect
<1> QED BY <1>1, <1>2

\* A put that is accepted has its effect at once.
LEMMA PutAccepted ==
  ASSUME TypeInv, NEW e \in Exec, NEW status \in Status, NEW out \in Outcome,
         NEW review \in NewReview, NEW g, Put(e, status, out, review, g), PutAllowed(e)
  PROVE  rec'[JobOf(e)] \in JobRec /\ MergeOf(rec[JobOf(e)], rec'[JobOf(e)], status, out, review)
<1>1. MergeOf(rec[JobOf(e)], Merged(e, status, out, review), status, out, review)
  BY MergedIsMerge
<1>2. rec' = [rec EXCEPT ![JobOf(e)] = Merged(e, status, out, review)]
  BY DEF Put, Store
<1>3. rec \in [Job -> JobRec \cup {None}] /\ JobOf(e) \in Job
  BY ExecShape DEF TypeInv, TypeOK, StoreType
<1> QED BY <1>1, <1>2, <1>3 DEF MergeOf

SeenType == seen \in [Proc -> SUBSET Job]

LEMMA StoreTyped ==
  ASSUME TypeInv, NEW j \in Job, NEW m \in JobRec, NEW g \in 0..StaleAfter,
         m.msg # None <=> m.review \in Handoff \cup {"queued"},
         Store(j, m, g), UNCHANGED <<claimAge, cooling>>
  PROVE  StoreType' /\ EventShape' /\ SeenType'
<1>1. rec' \in [Job -> JobRec \cup {None}] /\ updAge' \in [Job -> 0..StaleAfter]
  BY DEF TypeInv, TypeOK, StoreType, Store
<1>2. rec'[j] = m /\ \A k \in Job : k # j => rec'[k] = rec[k]
  BY DEF TypeInv, TypeOK, StoreType, Store
<1>3. StoreType'
  BY <1>1 DEF TypeInv, TypeOK, StoreType
<1>4. EventShape'
  BY <1>2 DEF TypeInv, EventShape
<1>5. SeenType'
  BY DEF TypeInv, TypeOK, RecoveryType, Store, SeenType
<1> QED BY <1>3, <1>4, <1>5

LEMMA NoStoreTyped ==
  ASSUME TypeInv, NoStore, UNCHANGED <<claimAge, cooling>>
  PROVE  StoreType' /\ EventShape' /\ SeenType'
BY DEF TypeInv, TypeOK, StoreType, RecoveryType, EventShape, SeenType, NoStore

LEMMA PutTyped ==
  ASSUME TypeInv, NEW e \in Exec, NEW status, NEW out, NEW review, NEW g \in 0..StaleAfter,
         PutEffect(e, status, out, review, g), UNCHANGED <<claimAge, cooling>>
  PROVE  StoreType' /\ EventShape' /\ SeenType'
<1>1. CASE NoStore
  BY <1>1, NoStoreTyped
<1>2. CASE ~NoStore
  <2>1. PICK m \in JobRec :
          Store(JobOf(e), m, g) /\ MergeOf(rec[JobOf(e)], m, status, out, review)
    BY <1>2 DEF PutEffect
  <2>2. m.msg # None <=> m.review \in Handoff \cup {"queued"}
    BY <2>1 DEF MergeOf
  <2>3. JobOf(e) \in Job
    BY ExecShape
  <2> QED BY <2>1, <2>2, <2>3, StoreTyped
<1> QED BY <1>1, <1>2

-----------------------------------------------------------------------------
(* Types *)

LEMMA BoundsTyped ==
  ASSUME TypeInv, Fault \/ UNCHANGED boundVars
  PROVE  faults' \in 0..MaxFaults /\ crashes' \in 0..MaxCrashes /\ shutdowns' \in 0..MaxShutdowns
BY PageCheckAssumption DEF TypeInv, TypeOK, BoundType, Fault, boundVars

\* A step of an execution leaves recoveries alone and begins at most its own handoff.
LEMMA WorkerTyped ==
  ASSUME TypeInv, NEW e \in Exec, StoreType', EventShape', SeenType', WorkType',
         hpc' = hpc \/ hpc' = [hpc EXCEPT ![e] = "claim"],
         pushed' = pushed \/ pushed' = pushed \cup {e},
         Fault \/ UNCHANGED boundVars,
         UNCHANGED <<hjob, hAge, hmsg, open, rpc, hand, stale, rage, claimed, delivered>>
  PROVE  TypeInv'
<1>1. HandoffType' /\ \A x \in Actor : hpc'[x] = hpc[x] \/ (x = e /\ hpc'[x] = "claim")
  BY Distinct DEF TypeInv, TypeOK, HandoffType
<1>2. RecoveryType'
  BY DEF TypeInv, TypeOK, RecoveryType, SeenType
<1>3. BoundType'
  BY BoundsTyped DEF TypeInv, TypeOK, BoundType
<1>4. RecoveryShape'
  BY <1>1, Distinct DEF TypeInv, RecoveryShape
<1>5. PublishShape'
  BY <1>1 DEF TypeInv, PublishShape
<1> QED BY <1>1, <1>2, <1>3, <1>4, <1>5 DEF TypeInv, TypeOK

LEMMA RunningPutHasEffect ==
  ASSUME TypeInv, NEW e \in Exec, NEW next, NEW onError, NEW out,
         RunningPut(e, next, onError, out)
  PROVE  PutEffect(e, "running", wout[e], "not_needed", 0)
<1>1. Put(e, "running", wout[e], "not_needed", 0) \/ NoStore
  BY DEF RunningPut
<1>2. wout[e] \in Outcome /\ "running" \in Status /\ "not_needed" \in NewReview
  BY DEF TypeInv, TypeOK, WorkType, Status, NewReview
<1> QED BY <1>1, <1>2, PutHasEffect

LEMMA RunningPutTyped ==
  ASSUME TypeInv, NEW e \in Exec, NEW next \in WorkPc, NEW onError \in WorkPc, NEW out \in Outcome,
         RunningPut(e, next, onError, out)
  PROVE  TypeInv'
<1>1. UNCHANGED <<claimAge, cooling, wproc, wmsg, guardAge, hpc, hjob, hAge, hmsg, open, rpc,
                  hand, stale, rage, claimed, pushed, delivered>>
  BY DEF RunningPut, handoffVars, outVars
<1>2. Fault \/ UNCHANGED boundVars
  BY DEF RunningPut
<1>3. StoreType' /\ EventShape' /\ SeenType'
  BY <1>1, RunningPutHasEffect, PutTyped, Distinct
<1>4. wpc' \in [Exec -> WorkPc]
  BY DEF RunningPut, Goto, TypeInv, TypeOK, WorkType, WorkPc
<1>5. wout' \in [Exec -> Outcome]
  BY DEF RunningPut, TypeInv, TypeOK, WorkType, Outcome
<1>6. WorkType'
  BY <1>1, <1>4, <1>5 DEF TypeInv, TypeOK, WorkType
<1> QED BY <1>1, <1>2, <1>3, <1>6, WorkerTyped

LEMMA StartTyped ==
  ASSUME TypeInv, NEW e \in Exec, Start(e)
  PROVE  TypeInv'
BY RunningPutTyped DEF Start, WorkPc, TaskPc, Outcome

LEMMA ProgressTyped ==
  ASSUME TypeInv, NEW e \in Exec, Progress(e)
  PROVE  TypeInv'
BY RunningPutTyped DEF Progress, WorkPc, TaskPc, Outcome

LEMMA ConfirmTyped ==
  ASSUME TypeInv, NEW e \in Exec, Confirm(e)
  PROVE  TypeInv'
BY RunningPutTyped DEF Confirm, WorkPc, TaskPc, Outcome

LEMMA VerdictTyped ==
  ASSUME TypeInv, NEW e \in Exec, Verdict(e)
  PROVE  TypeInv'
<1>1. NoStore /\ UNCHANGED <<claimAge, cooling, wproc, wmsg, guardAge, hpc, hjob, hAge, hmsg, open,
         rpc, hand, stale, rage, claimed, pushed, delivered>> /\ UNCHANGED boundVars
  BY DEF Verdict, NoStore, storeVars, handoffVars, recVars, outVars
<1>2. wpc' \in [Exec -> WorkPc] /\ wout' \in [Exec -> Outcome]
  BY DEF Verdict, Goto, TypeInv, TypeOK, WorkType, WorkPc, TaskPc, Outcome
<1>3. WorkType'
  BY <1>1, <1>2 DEF TypeInv, TypeOK, WorkType
<1> QED BY <1>1, <1>3, NoStoreTyped, WorkerTyped

LEMMA PushTyped ==
  ASSUME TypeInv, NEW e \in Exec, Push(e)
  PROVE  TypeInv'
<1>1. NoStore /\ UNCHANGED <<claimAge, cooling, wproc, wmsg, hpc, hjob, hAge, hmsg, open,
         rpc, hand, stale, rage, claimed, delivered>> /\ UNCHANGED boundVars
  BY DEF Push, NoStore, storeVars, handoffVars, recVars
<1>2. wpc' \in [Exec -> WorkPc] /\ wout' \in [Exec -> Outcome] /\ guardAge' \in [Exec -> 0..StaleAfter]
  BY Distinct DEF Push, Goto, TypeInv, TypeOK, WorkType, WorkPc, TaskPc, Outcome
<1>3. WorkType'
  BY <1>1, <1>2 DEF TypeInv, TypeOK, WorkType
<1>4. pushed' = pushed \/ pushed' = pushed \cup {e}
  BY DEF Push
<1> QED BY <1>1, <1>3, <1>4, NoStoreTyped, WorkerTyped

\* The guard writes nothing but the time stamp.
LEMMA TouchTyped ==
  ASSUME TypeInv, NEW e \in Exec, NEW g \in 0..StaleAfter, Touch(e, g) \/ NoStore,
         UNCHANGED <<claimAge, cooling>>
  PROVE  StoreType' /\ EventShape' /\ SeenType' /\ UNCHANGED rec
<1>1. CASE NoStore
  BY <1>1, NoStoreTyped DEF NoStore
<1>2. CASE ~NoStore
  <2> DEFINE c == rec[JobOf(e)]
  <2>1. TouchAllowed(e) /\ Store(JobOf(e), c, g) /\ JobOf(e) \in Job
    BY <1>2, ExecShape DEF Touch
  <2>2. c \in JobRec /\ c # None
    BY <2>1 DEF TouchAllowed, PutAllowed, TypeInv, TypeOK, StoreType
  <2>3. c.msg # None <=> c.review \in Handoff \cup {"queued"}
    BY <2>1, <2>2 DEF TypeInv, EventShape
  <2>4. StoreType' /\ EventShape' /\ SeenType'
    BY <2>1, <2>2, <2>3, StoreTyped
  <2>5. UNCHANGED rec
    BY <2>1 DEF Store, TypeInv, TypeOK, StoreType
  <2> QED BY <2>4, <2>5
<1> QED BY <1>1, <1>2

LEMMA GuardTyped ==
  ASSUME TypeInv, NEW e \in Exec, Guard(e)
  PROVE  TypeInv' /\ UNCHANGED rec
<1>1. UNCHANGED <<claimAge, cooling, wproc, wmsg, hpc, hjob, hAge, hmsg, open, rpc,
                  hand, stale, rage, claimed, pushed, delivered>>
  BY DEF Guard, handoffVars, outVars
<1>2. (Fault \/ UNCHANGED boundVars) /\ (Touch(e, guardAge[e]) \/ NoStore)
  BY DEF Guard
<1>3. guardAge[e] \in 0..StaleAfter
  BY DEF TypeInv, TypeOK, WorkType
<1>4. StoreType' /\ EventShape' /\ SeenType' /\ UNCHANGED rec
  BY <1>1, <1>2, <1>3, TouchTyped
<1>5. wpc' \in [Exec -> WorkPc] /\ wout' \in [Exec -> Outcome] /\ guardAge' \in [Exec -> 0..StaleAfter]
  BY Distinct DEF Guard, Goto, TypeInv, TypeOK, WorkType, WorkPc, TaskPc, Outcome
<1>6. WorkType'
  BY <1>1, <1>5 DEF TypeInv, TypeOK, WorkType
<1> QED BY <1>1, <1>2, <1>4, <1>6, WorkerTyped

LEMMA ReviewOfIsNew ==
  \A out, built : ReviewOf(out, built) \subseteq NewReview
BY DEF ReviewOf, NewReview

LEMMA BeginHandoffStep ==
  ASSUME NEW x, NEW j, BeginHandoff(x, j) \/ UNCHANGED hpc
  PROVE  hpc' = hpc \/ hpc' = [hpc EXCEPT ![x] = "claim"]
BY DEF BeginHandoff

LEMMA FinalTyped ==
  ASSUME TypeInv, NEW e \in Exec, Final(e)
  PROVE  TypeInv' /\ \E review \in ReviewOf(wout[e], FALSE) :
                       PutEffect(e, "done", wout[e], review, 0)
<1>1. UNCHANGED <<claimAge, cooling, wproc, guardAge, hjob, hAge, hmsg, open, rpc, hand, stale,
                  rage, claimed, pushed, delivered>>
  BY DEF Final, outVars
<1>2. PICK review \in ReviewOf(wout[e], FALSE) :
         /\ Put(e, "done", wout[e], review, 0) \/ NoStore
         /\ Fault \/ UNCHANGED boundVars
         /\ BeginHandoff(e, JobOf(e)) \/ UNCHANGED hpc
         /\ wmsg' = wmsg \/ wmsg' = [wmsg EXCEPT ![e] = review = "pending"]
  BY DEF Final
<1>3. wout[e] \in Outcome /\ "done" \in Status /\ review \in NewReview
  BY ReviewOfIsNew DEF TypeInv, TypeOK, WorkType, Status
<1>4. PutEffect(e, "done", wout[e], review, 0)
  BY <1>2, <1>3, PutHasEffect
<1>5. StoreType' /\ EventShape' /\ SeenType'
  BY <1>1, <1>4, PutTyped, Distinct
<1>6. wpc' \in [Exec -> WorkPc] /\ wout' \in [Exec -> Outcome]
  BY DEF Final, Goto, TypeInv, TypeOK, WorkType, WorkPc, TaskPc, Outcome
<1>7. wmsg' \in [Exec -> BOOLEAN]
  BY <1>2 DEF TypeInv, TypeOK, WorkType
<1>8. WorkType'
  BY <1>1, <1>6, <1>7 DEF TypeInv, TypeOK, WorkType
<1>9. hpc' = hpc \/ hpc' = [hpc EXCEPT ![e] = "claim"]
  BY <1>2, BeginHandoffStep
<1> QED BY <1>1, <1>2, <1>4, <1>5, <1>8, <1>9, WorkerTyped

\* A failure ends the task, perhaps with the rest of its request.
LEMMA FailEnds ==
  ASSUME TypeInv, NEW e \in Exec, Fail(e)
  PROVE  /\ wpc' \in [Exec -> WorkPc] /\ wpc'[e] = "end"
         /\ \A d \in Exec : d # e => wpc'[d] = wpc[d] \/ (wpc[d] = "unlaunched" /\ wpc'[d] = "end")
<1>1. CASE Goto(e, "end")
  BY <1>1 DEF Goto, TypeInv, TypeOK, WorkType, WorkPc
<1>2. CASE \E D \in SUBSET {d \in Exec : /\ wproc[d] = wproc[e]
                                        /\ wpc[d] = "unlaunched" /\ wpc[e] = "unlaunched"} :
             wpc' = [d \in Exec |-> IF d \in D \cup {e} THEN "end" ELSE wpc[d]]
  BY <1>2 DEF TypeInv, TypeOK, WorkType, WorkPc
<1> QED BY <1>1, <1>2 DEF Fail

LEMMA FailTyped ==
  ASSUME TypeInv, NEW e \in Exec, Fail(e)
  PROVE  TypeInv' /\ \E review \in {"pending", "invalid"} :
                       PutEffect(e, "error", wout[e], review, 0)
<1>1. UNCHANGED <<claimAge, cooling, wproc, guardAge, hjob, hAge, hmsg, open, rpc, hand, stale,
                  rage, claimed, pushed, delivered>>
  BY DEF Fail, outVars
<1>2. PICK review \in ReviewOf("error", wmsg[e]) :
         /\ Put(e, "error", wout[e], review, 0) \/ NoStore
         /\ Fault \/ UNCHANGED boundVars
         /\ BeginHandoff(e, JobOf(e)) \/ UNCHANGED hpc
  BY DEF Fail
<1>3. wout[e] \in Outcome /\ "error" \in Status /\ review \in {"pending", "invalid"}
  BY DEF TypeInv, TypeOK, WorkType, Status, ReviewOf
<1>4. PutEffect(e, "error", wout[e], review, 0)
  BY <1>2, <1>3, PutHasEffect DEF NewReview
<1>5. StoreType' /\ EventShape' /\ SeenType'
  BY <1>1, <1>4, PutTyped, Distinct
<1>6. wout' \in [Exec -> Outcome] /\ wmsg' \in [Exec -> BOOLEAN]
  BY DEF Fail, TypeInv, TypeOK, WorkType, Outcome
<1>7. WorkType'
  BY <1>1, <1>6, FailEnds DEF TypeInv, TypeOK, WorkType
<1>8. hpc' = hpc \/ hpc' = [hpc EXCEPT ![e] = "claim"]
  BY <1>2, BeginHandoffStep
<1> QED BY <1>1, <1>2, <1>3, <1>4, <1>5, <1>7, <1>8, WorkerTyped

\* The record of a created job is gone or as before; that of a new job is fresh.
LEMMA EnqueueRecords ==
  ASSUME TypeInv, NEW p \in Proc, NEW B \in SUBSET Job, Enqueue(p, B)
  PROVE  \A j \in Job :
           \/ j \in B /\ rec'[j] = NewRec
           \/ j \notin B /\ Removable(j) /\ rec'[j] = None
           \/ j \notin B /\ rec'[j] = rec[j] /\ updAge'[j] = updAge[j]
<1>1. PutManyBounded(B)
  BY DEF Enqueue
<1> QED BY <1>1 DEF PutManyBounded

LEMMA EnqueueTyped ==
  ASSUME TypeInv, NEW p \in Proc, NEW B \in SUBSET Job, Enqueue(p, B)
  PROVE  TypeInv'
<1>1. UNCHANGED <<claimAge, cooling, wout, wmsg, guardAge, hpc, hjob, hAge, hmsg, open, rpc,
                  hand, stale, seen, rage, claimed, pushed, delivered>>
  BY DEF Enqueue, handoffVars, recVars, outVars
<1>2. Fault \/ UNCHANGED boundVars
  BY DEF Enqueue
<1>3. NewRec \in JobRec /\ NewRec.msg = None /\ NewRec.review = "not_needed"
  BY Distinct DEF NewRec, JobRec, Status, Outcome, Review, Handoff
<1>4. rec' \in [Job -> JobRec \cup {None}] /\ updAge' \in [Job -> 0..StaleAfter]
  BY <1>3, Distinct DEF Enqueue, PutManyBounded, TypeInv, TypeOK, StoreType
<1>5. EventShape'
  BY <1>3, EnqueueRecords DEF TypeInv, EventShape, Handoff
<1>6. wpc' \in [Exec -> WorkPc] /\ wproc' \in [Exec -> Proc \cup {None}]
  BY DEF Enqueue, TypeInv, TypeOK, WorkType, WorkPc
<1>7. StoreType' /\ WorkType'
  BY <1>1, <1>4, <1>6 DEF TypeInv, TypeOK, StoreType, WorkType
<1>8. HandoffType' /\ RecoveryType' /\ RecoveryShape' /\ PublishShape'
  BY <1>1 DEF TypeInv, TypeOK, HandoffType, RecoveryType, RecoveryShape, PublishShape
<1>9. BoundType'
  BY <1>1, <1>2, BoundsTyped DEF TypeInv, TypeOK, BoundType
<1> QED BY <1>5, <1>7, <1>8, <1>9 DEF TypeInv, TypeOK

-----------------------------------------------------------------------------
(* Handoffs *)

LEMMA ActorJob ==
  ASSUME TypeInv, NEW x \in Actor, hpc[x] # "idle"
  PROVE  JobOfActor(x) \in Job
BY ExecShape DEF TypeInv, TypeOK, HandoffType, RecoveryShape, JobOfActor, Actor

\* A claim that was taken.
Took(x, j) ==
  /\ Claimable(j) /\ rec[j] \in JobRec
  /\ \E m \in JobRec :
       /\ rec' = [rec EXCEPT ![j] = m]
       /\ m.review = "publishing" /\ m.claim = x /\ m.status = rec[j].status
       /\ m.tok = rec[j].tok /\ m.attempts = rec[j].attempts /\ m.outcome = rec[j].outcome
       /\ m.msg = rec[j].msg
  /\ claimAge' = [claimAge EXCEPT ![j] = hAge[x]]

\* A result that was stored.
Finished(x, j) ==
  /\ FinishAllowed(x, j) /\ rec[j] \in JobRec
  /\ \E m \in JobRec :
       /\ rec' = [rec EXCEPT ![j] = m]
       /\ m.review = hpc[x] /\ m.claim = None /\ m.status = rec[j].status
       /\ m.tok = rec[j].tok /\ m.attempts = rec[j].attempts /\ m.outcome = rec[j].outcome
       /\ m.msg = rec[j].msg
  /\ claimAge' = [claimAge EXCEPT ![j] = 0]

LEMMA HandoffClaimSteps ==
  ASSUME TypeInv, NEW x \in Actor, HandoffClaim(x)
  PROVE  /\ hpc[x] = "claim" /\ JobOfActor(x) \in Job
         /\ \/ /\ Took(x, JobOfActor(x)) /\ hpc' = [hpc EXCEPT ![x] = "publish"]
               /\ hmsg' = [hmsg EXCEPT ![x] = rec[JobOfActor(x)].msg] /\ hAge' = hAge
            \/ /\ Took(x, JobOfActor(x)) \/ UNCHANGED <<rec, claimAge>>
               /\ hpc' = [hpc EXCEPT ![x] = "idle"] /\ hAge' = [hAge EXCEPT ![x] = 0]
               /\ hmsg' = hmsg
         /\ Fault \/ UNCHANGED boundVars
<1> DEFINE j == JobOfActor(x)
           take == /\ Claimable(j)
                   /\ rec' = [rec EXCEPT ![j].review = "publishing", ![j].claim = x]
                   /\ claimAge' = [claimAge EXCEPT ![j] = hAge[x]]
<1>1. hpc[x] = "claim" /\ j \in Job
  BY ActorJob DEF HandoffClaim
<1>2. ASSUME take PROVE Took(x, j)
  <2> DEFINE m == [rec[j] EXCEPT !.review = "publishing", !.claim = x]
  <2>1. rec[j] \in JobRec /\ rec \in [Job -> JobRec \cup {None}]
    BY <1>1, <1>2 DEF Claimable, TypeInv, TypeOK, StoreType
  <2>2. rec' = [rec EXCEPT ![j] = m]
    BY <1>1, <1>2, <2>1
  <2>3. /\ m \in JobRec /\ m.review = "publishing" /\ m.claim = x /\ m.status = rec[j].status
        /\ m.tok = rec[j].tok /\ m.attempts = rec[j].attempts /\ m.outcome = rec[j].outcome
        /\ m.msg = rec[j].msg
    BY <2>1 DEF JobRec, Review, Handoff
  <2> HIDE DEF m
  <2> QED BY <1>2, <2>1, <2>2, <2>3 DEF Took
<1>3. \/ take /\ hpc' = [hpc EXCEPT ![x] = "publish"]
         /\ hmsg' = [hmsg EXCEPT ![x] = rec[j].msg] /\ hAge' = hAge
      \/ (take \/ UNCHANGED <<rec, claimAge>>) /\ hpc' = [hpc EXCEPT ![x] = "idle"]
         /\ hAge' = [hAge EXCEPT ![x] = 0] /\ hmsg' = hmsg
  BY DEF HandoffClaim, HandoffGoto
<1>4. Fault \/ UNCHANGED boundVars
  BY DEF HandoffClaim
<1> HIDE DEF take
<1> QED BY <1>1, <1>2, <1>3, <1>4

LEMMA HandoffFinishSteps ==
  ASSUME TypeInv, NEW x \in Actor, HandoffFinish(x)
  PROVE  /\ hpc[x] \in {"queued", "failed"} /\ JobOfActor(x) \in Job
         /\ Finished(x, JobOfActor(x)) \/ UNCHANGED <<rec, claimAge>>
         /\ cooling' \in [Job -> BOOLEAN]
         /\ hpc' = [hpc EXCEPT ![x] = "idle"]
         /\ Fault \/ UNCHANGED boundVars
<1> DEFINE j == JobOfActor(x)
           m == [rec[j] EXCEPT !.review = hpc[x], !.claim = None]
<1>1. hpc[x] \in {"queued", "failed"} /\ j \in Job
  BY ActorJob DEF HandoffFinish
<1>2. \/ FinishAllowed(x, j) /\ rec' = [rec EXCEPT ![j].review = hpc[x], ![j].claim = None]
         /\ claimAge' = [claimAge EXCEPT ![j] = 0] /\ cooling' = [cooling EXCEPT ![j] = hpc[x] = "failed"]
      \/ UNCHANGED <<rec, claimAge, cooling>>
  BY DEF HandoffFinish
<1>3. cooling' \in [Job -> BOOLEAN]
  BY <1>2 DEF TypeInv, TypeOK, StoreType
<1>4. ASSUME FinishAllowed(x, j), rec' = [rec EXCEPT ![j].review = hpc[x], ![j].claim = None],
             claimAge' = [claimAge EXCEPT ![j] = 0]
      PROVE Finished(x, j)
  <2>1. rec[j] \in JobRec /\ rec \in [Job -> JobRec \cup {None}]
    BY <1>1, <1>4 DEF FinishAllowed, TypeInv, TypeOK, StoreType
  <2>2. rec' = [rec EXCEPT ![j] = m]
    BY <1>1, <1>4, <2>1
  <2>3. /\ m \in JobRec /\ m.review = hpc[x] /\ m.claim = None /\ m.status = rec[j].status
        /\ m.tok = rec[j].tok /\ m.attempts = rec[j].attempts /\ m.outcome = rec[j].outcome
        /\ m.msg = rec[j].msg
    BY <1>1, <2>1 DEF JobRec, Review, Handoff
  <2> HIDE DEF m
  <2> QED BY <1>4, <2>1, <2>2, <2>3 DEF Finished
<1>5. hpc' = [hpc EXCEPT ![x] = "idle"] /\ (Fault \/ UNCHANGED boundVars)
  BY DEF HandoffFinish, HandoffGoto
<1> QED BY <1>1, <1>2, <1>3, <1>4, <1>5

LEMMA HandoffClaimTyped ==
  ASSUME TypeInv, NEW x \in Actor, HandoffClaim(x)
  PROVE  TypeInv'
<1> DEFINE j == JobOfActor(x)
<1>1. UNCHANGED <<updAge, cooling, wpc, wproc, wout, wmsg, guardAge, hjob, open, rpc, hand, stale,
                  seen, rage, claimed, pushed, delivered>>
  BY DEF HandoffClaim, workVars, recVars, outVars
<1>2. j \in Job /\ hAge[x] \in 0..LeaseFor /\ hpc[x] = "claim"
  BY HandoffClaimSteps DEF TypeInv, TypeOK, HandoffType
<1>3. Took(x, j) \/ UNCHANGED <<rec, claimAge>>
  BY HandoffClaimSteps
<1>4. ASSUME Took(x, j)
      PROVE  /\ rec' \in [Job -> JobRec \cup {None}] /\ claimAge' \in [Job -> 0..LeaseFor]
             /\ EventShape' /\ rec[j].msg \in Token /\ rec[j].msg # None
  <2>1. PICK m \in JobRec : rec' = [rec EXCEPT ![j] = m] /\ m.review = "publishing" /\ m.msg = rec[j].msg
    BY <1>4 DEF Took
  <2>2. rec[j] \in JobRec /\ rec[j] # None /\ rec[j].review \in Handoff /\ claimAge' = [claimAge EXCEPT ![j] = hAge[x]]
    BY <1>4, Distinct DEF Took, Claimable, Waiting, Handoff
  <2>3. rec[j].msg \in Token /\ rec[j].msg # None
    BY <1>2, <2>2 DEF TypeInv, EventShape, JobRec
  <2>4. rec' \in [Job -> JobRec \cup {None}] /\ claimAge' \in [Job -> 0..LeaseFor]
    BY <1>2, <2>1, <2>2 DEF TypeInv, TypeOK, StoreType
  <2>5. rec'[j] = m /\ \A k \in Job : k # j => rec'[k] = rec[k]
    BY <1>2, <2>1 DEF TypeInv, TypeOK, StoreType
  <2>6. EventShape'
    BY <2>1, <2>3, <2>5 DEF TypeInv, EventShape, Handoff
  <2> QED BY <2>3, <2>4, <2>6
<1>5. rec' \in [Job -> JobRec \cup {None}] /\ claimAge' \in [Job -> 0..LeaseFor] /\ EventShape'
  BY <1>3, <1>4 DEF TypeInv, TypeOK, StoreType, EventShape
<1>6. StoreType' /\ WorkType' /\ RecoveryType'
  BY <1>1, <1>5 DEF TypeInv, TypeOK, StoreType, WorkType, RecoveryType
<1>7. BoundType'
  BY <1>1, HandoffClaimSteps, BoundsTyped DEF TypeInv, TypeOK, BoundType
<1>8. HandoffType' /\ RecoveryShape' /\ PublishShape'
  <2>1. CASE Took(x, j) /\ hpc' = [hpc EXCEPT ![x] = "publish"]
             /\ hmsg' = [hmsg EXCEPT ![x] = rec[j].msg] /\ hAge' = hAge
    <3>1. rec[j].msg \in Token /\ rec[j].msg # None
      BY <1>4, <2>1
    <3>2. HandoffType'
      BY <1>1, <2>1, <3>1 DEF TypeInv, TypeOK, HandoffType
    <3>3. hpc'[x] = "publish" /\ hmsg'[x] # None /\ \A y \in Actor : y # x => hpc'[y] = hpc[y] /\ hmsg'[y] = hmsg[y]
      BY <2>1, <3>1 DEF TypeInv, TypeOK, HandoffType
    <3>4. RecoveryShape'
      BY <1>1, <1>2, <3>3, Distinct DEF TypeInv, RecoveryShape
    <3>5. PublishShape'
      BY <3>3 DEF TypeInv, PublishShape
    <3> QED BY <3>2, <3>4, <3>5
  <2>2. CASE hpc' = [hpc EXCEPT ![x] = "idle"] /\ hAge' = [hAge EXCEPT ![x] = 0] /\ hmsg' = hmsg
    <3>1. HandoffType' /\ \A y \in Actor : hpc'[y] = hpc[y] \/ hpc'[y] = "idle"
      BY <1>1, <2>2, Distinct DEF TypeInv, TypeOK, HandoffType
    <3>2. RecoveryShape' /\ PublishShape'
      BY <1>1, <2>2, <3>1, Distinct DEF TypeInv, RecoveryShape, PublishShape
    <3> QED BY <3>1, <3>2
  <2> QED BY <2>1, <2>2, HandoffClaimSteps
<1> QED BY <1>5, <1>6, <1>7, <1>8 DEF TypeInv, TypeOK

LEMMA HandoffPublishTyped ==
  ASSUME TypeInv, NEW x \in Actor, HandoffPublish(x)
  PROVE  TypeInv'
<1>1. UNCHANGED <<rec, updAge, claimAge, cooling, wpc, wproc, wout, wmsg, guardAge, hjob, open, rpc,
                  hand, stale, seen, rage, claimed, pushed>>
  BY DEF HandoffPublish, storeVars, workVars, recVars
<1>2. hpc[x] = "publish" /\ JobOfActor(x) \in Job /\ hmsg[x] \in Token
  BY ActorJob DEF HandoffPublish, TypeInv, TypeOK, HandoffType, PublishShape
<1>3. Event(x) \in Exec
  BY <1>2 DEF Event, Exec
<1>4. delivered' \in SUBSET Exec /\ (Fault \/ UNCHANGED boundVars)
  BY <1>3 DEF HandoffPublish, TypeInv, TypeOK, BoundType
<1>5. BoundType'
  BY <1>1, <1>4, BoundsTyped DEF TypeInv, TypeOK, BoundType
<1>6. PICK w \in {"queued", "failed"} : hpc' = [hpc EXCEPT ![x] = w]
  BY DEF HandoffPublish, HandoffGoto
<1>7. hAge' = [hAge EXCEPT ![x] = 0] /\ hmsg' = [hmsg EXCEPT ![x] = None]
  BY DEF HandoffPublish
<1>8. HandoffType'
  BY <1>1, <1>6, <1>7, Distinct DEF TypeInv, TypeOK, HandoffType
<1>9. hpc'[x] = w /\ \A y \in Actor : y # x => hpc'[y] = hpc[y] /\ hmsg'[y] = hmsg[y]
  BY <1>6, <1>7 DEF TypeInv, TypeOK, HandoffType
<1>10. RecoveryShape' /\ PublishShape'
  BY <1>1, <1>2, <1>9, Distinct DEF TypeInv, RecoveryShape, PublishShape
<1>11. StoreType' /\ WorkType' /\ RecoveryType' /\ EventShape'
  BY <1>1 DEF TypeInv, TypeOK, StoreType, WorkType, RecoveryType, EventShape
<1> QED BY <1>5, <1>8, <1>10, <1>11 DEF TypeInv, TypeOK

LEMMA HandoffFinishTyped ==
  ASSUME TypeInv, NEW x \in Actor, HandoffFinish(x)
  PROVE  TypeInv'
<1> DEFINE j == JobOfActor(x)
<1>1. UNCHANGED <<updAge, wpc, wproc, wout, wmsg, guardAge, hjob, hAge, hmsg, open, rpc, hand, stale,
                  seen, rage, claimed, pushed, delivered>>
  BY DEF HandoffFinish, workVars, recVars, outVars
<1>2. j \in Job /\ hpc[x] \in {"queued", "failed"}
  BY HandoffFinishSteps
<1>3. rec' \in [Job -> JobRec \cup {None}] /\ claimAge' \in [Job -> 0..LeaseFor] /\ EventShape'
  <2>1. CASE UNCHANGED <<rec, claimAge>>
    BY <2>1 DEF TypeInv, TypeOK, StoreType, EventShape
  <2>2. CASE Finished(x, j)
    <3>1. PICK m \in JobRec : rec' = [rec EXCEPT ![j] = m] /\ m.review = hpc[x] /\ m.msg = rec[j].msg
      BY <2>2 DEF Finished
    <3>2. rec[j] # None /\ rec[j].review = "publishing" /\ claimAge' = [claimAge EXCEPT ![j] = 0]
      BY <2>2 DEF Finished, FinishAllowed
    <3>3. rec[j].msg # None
      BY <1>2, <3>2 DEF TypeInv, EventShape, Handoff
    <3>4. rec' \in [Job -> JobRec \cup {None}] /\ claimAge' \in [Job -> 0..LeaseFor]
      BY <1>2, <3>1, <3>2, Distinct DEF TypeInv, TypeOK, StoreType
    <3>5. rec'[j] = m /\ \A k \in Job : k # j => rec'[k] = rec[k]
      BY <1>2, <3>1 DEF TypeInv, TypeOK, StoreType
    <3>6. EventShape'
      BY <1>2, <3>1, <3>3, <3>5 DEF TypeInv, EventShape, Handoff
    <3> QED BY <3>4, <3>6
  <2> QED BY <2>1, <2>2, HandoffFinishSteps
<1>4. StoreType' /\ WorkType' /\ RecoveryType'
  BY <1>1, <1>3, HandoffFinishSteps DEF TypeInv, TypeOK, StoreType, WorkType, RecoveryType
<1>5. BoundType'
  BY <1>1, HandoffFinishSteps, BoundsTyped DEF TypeInv, TypeOK, BoundType
<1>6. hpc' = [hpc EXCEPT ![x] = "idle"]
  BY HandoffFinishSteps
<1>7. HandoffType' /\ \A y \in Actor : hpc'[y] = hpc[y] \/ hpc'[y] = "idle"
  BY <1>1, <1>6 DEF TypeInv, TypeOK, HandoffType
<1>8. RecoveryShape' /\ PublishShape'
  BY <1>1, <1>7, Distinct DEF TypeInv, RecoveryShape, PublishShape
<1> QED BY <1>3, <1>4, <1>5, <1>7, <1>8 DEF TypeInv, TypeOK

-----------------------------------------------------------------------------
(* Recovery *)

\* A job that recovery took over.
Reclaimed(p, j) ==
  /\ StaleClaimAllowed(p, j) /\ rec[j] \in JobRec
  /\ \E m \in JobRec :
       /\ Store(j, m, rage[p])
       /\ m.status = "pending" /\ m.tok = rec[j].attempts + 1 /\ m.attempts = rec[j].attempts + 1
       /\ m.review = rec[j].review /\ m.msg = rec[j].msg /\ m.claim = rec[j].claim
       /\ m.outcome = rec[j].outcome

LEMMA StaleClaimReclaims ==
  ASSUME TypeInv, NEW p \in Proc, NEW j \in Job, StaleClaimAllowed(p, j), StaleClaim(p, j)
  PROVE  Reclaimed(p, j) /\ rec[j].attempts + 1 \in Token
<1> DEFINE n == rec[j].attempts + 1
           m == [rec[j] EXCEPT !.status = "pending", !.tok = n, !.attempts = n]
<1>1. rec[j] \in JobRec /\ rec[j].attempts < MaxTokens
  BY DEF StaleClaimAllowed, Active, TypeInv, TypeOK, StoreType
<1>2. rec[j].attempts \in Token
  BY <1>1 DEF JobRec
<1>3. n \in Token
  BY <1>1, <1>2, PageCheckAssumption DEF Token
<1>4. Store(j, m, rage[p])
  BY DEF StaleClaim
<1> HIDE DEF n
<1>5. /\ m \in JobRec /\ m.status = "pending" /\ m.tok = n /\ m.attempts = n
      /\ m.review = rec[j].review /\ m.msg = rec[j].msg /\ m.claim = rec[j].claim
      /\ m.outcome = rec[j].outcome
  BY <1>1, <1>3 DEF JobRec, Status
<1> HIDE DEF m
<1> QED BY <1>1, <1>3, <1>4, <1>5 DEF Reclaimed, n

LEMMA ReclaimTyped ==
  ASSUME TypeInv, NEW p \in Proc, NEW j \in Job, Reclaimed(p, j), UNCHANGED <<claimAge, cooling>>
  PROVE  StoreType' /\ EventShape' /\ SeenType'
<1>1. PICK m \in JobRec : Store(j, m, rage[p]) /\ m.review = rec[j].review /\ m.msg = rec[j].msg
  BY DEF Reclaimed
<1>2. rec[j] \in JobRec /\ rec[j] # None /\ rage[p] \in 0..StaleAfter
  BY Distinct DEF Reclaimed, TypeInv, TypeOK, RecoveryType
<1>3. m.msg # None <=> m.review \in Handoff \cup {"queued"}
  BY <1>1, <1>2 DEF TypeInv, EventShape
<1> QED BY <1>1, <1>2, <1>3, StoreTyped

LEMMA RecoverScanTyped ==
  ASSUME TypeInv, NEW p \in Proc, RecoverScan(p)
  PROVE  TypeInv'
<1>1. UNCHANGED <<rec, updAge, claimAge, cooling, wpc, wproc, wout, wmsg, guardAge, hpc, hjob, hAge,
                  hmsg, open, claimed, pushed, delivered, faults, crashes, shutdowns>>
  BY DEF RecoverScan, storeVars, workVars, handoffVars, outVars, boundVars
<1>2. RecoveryType'
  BY <1>1, Distinct DEF RecoverScan, TypeInv, TypeOK, RecoveryType
<1>3. rpc' = [rpc EXCEPT ![p] = "handoff"]
  BY DEF RecoverScan
<1>4. RecoveryShape'
  BY <1>1, <1>3 DEF TypeInv, TypeOK, RecoveryType, RecoveryShape
<1>5. StoreType' /\ WorkType' /\ HandoffType' /\ BoundType' /\ EventShape' /\ PublishShape'
  BY <1>1 DEF TypeInv, TypeOK, StoreType, WorkType, HandoffType, BoundType, EventShape, PublishShape
<1> QED BY <1>2, <1>4, <1>5 DEF TypeInv, TypeOK

LEMMA RecoverHandoffTyped ==
  ASSUME TypeInv, NEW p \in Proc, RecoverHandoff(p)
  PROVE  TypeInv'
<1>1. UNCHANGED <<rec, updAge, claimAge, cooling, wpc, wproc, wout, wmsg, guardAge, hAge, hmsg, open,
                  stale, seen, rage, claimed, pushed, delivered, faults, crashes, shutdowns>>
  BY DEF RecoverHandoff, storeVars, workVars, outVars, boundVars
<1>2. rpc[p] = "handoff" /\ hpc[p] = "idle" /\ p \in Actor
  BY Distinct DEF RecoverHandoff
<1>3. \/ \E j \in Job : /\ hand' = [hand EXCEPT ![p] = @ \ {j}] /\ hpc' = [hpc EXCEPT ![p] = "claim"]
                        /\ hjob' = [hjob EXCEPT ![p] = j] /\ rpc' = rpc
      \/ rpc' = [rpc EXCEPT ![p] = "stale"] /\ UNCHANGED <<hand, hpc, hjob>>
  BY DEF RecoverHandoff, TypeInv, TypeOK, RecoveryType
<1>4. RecoveryType' /\ HandoffType'
  BY <1>1, <1>2, <1>3 DEF TypeInv, TypeOK, RecoveryType, HandoffType
<1>5. RecoveryShape' /\ PublishShape'
  <2>1. CASE rpc' = [rpc EXCEPT ![p] = "stale"] /\ UNCHANGED <<hand, hpc, hjob>>
    BY <1>1, <2>1 DEF TypeInv, TypeOK, RecoveryType, RecoveryShape, PublishShape
  <2>2. CASE \E j \in Job : /\ hpc' = [hpc EXCEPT ![p] = "claim"] /\ hjob' = [hjob EXCEPT ![p] = j]
                            /\ rpc' = rpc
    <3>1. PICK j \in Job : /\ hpc' = [hpc EXCEPT ![p] = "claim"] /\ hjob' = [hjob EXCEPT ![p] = j]
                           /\ rpc' = rpc
      BY <2>2
    <3>2. /\ hpc'[p] = "claim" /\ hjob'[p] = j
          /\ \A x \in Actor : x # p => hpc'[x] = hpc[x]
          /\ \A q \in Proc : q # p => hjob'[q] = hjob[q]
      BY <1>2, <3>1 DEF TypeInv, TypeOK, HandoffType
    <3>3. hjob'[p] # None
      BY <3>2, Distinct
    <3> QED BY <1>1, <1>2, <3>1, <3>2, <3>3, Distinct DEF TypeInv, RecoveryShape, PublishShape
  <2> QED BY <1>3, <2>1, <2>2
<1>6. StoreType' /\ WorkType' /\ BoundType' /\ EventShape'
  BY <1>1 DEF TypeInv, TypeOK, StoreType, WorkType, BoundType, EventShape
<1> QED BY <1>4, <1>5, <1>6 DEF TypeInv, TypeOK

LEMMA RecoverClaimSteps ==
  ASSUME TypeInv, NEW p \in Proc, RecoverClaim(p)
  PROVE  /\ rpc[p] = "stale" /\ hpc[p] = "idle"
         /\ UNCHANGED <<claimAge, cooling, wpc, wproc, wout, wmsg, guardAge, hpc, hjob, hAge, hmsg,
                       open, hand, pushed, delivered>>
         /\ \/ \E j \in Job : /\ Reclaimed(p, j) /\ rec[j].attempts + 1 \in Token
                             /\ claimed' = [claimed EXCEPT ![p] = <<j, rec[j].attempts + 1>>]
                             /\ rpc' = [rpc EXCEPT ![p] = "put"]
            \/ /\ NoStore \/ \E j \in Job : Reclaimed(p, j)
               /\ claimed' = claimed /\ rpc' \in {rpc, [rpc EXCEPT ![p] = "idle"]}
         /\ rage' \in {rage, [rage EXCEPT ![p] = 0]}
         /\ stale' \in [Proc -> SUBSET Job]
         /\ Fault \/ UNCHANGED boundVars
<1>1. rpc[p] = "stale" /\ hpc[p] = "idle"
  BY DEF RecoverClaim
<1>2. UNCHANGED <<claimAge, cooling, wpc, wproc, wout, wmsg, guardAge, hpc, hjob, hAge, hmsg,
                  open, hand, pushed, delivered>>
  BY DEF RecoverClaim, workVars, handoffVars, outVars
<1>3. stale \in [Proc -> SUBSET Job]
  BY DEF TypeInv, TypeOK, RecoveryType
<1>4. CASE \E j \in stale[p] :
             /\ stale' = [stale EXCEPT ![p] = @ \ {j}]
             /\ \/ /\ StaleClaimAllowed(p, j) /\ StaleClaim(p, j)
                   /\ claimed' = [claimed EXCEPT ![p] = <<j, rec[j].attempts + 1>>]
                   /\ rpc' = [rpc EXCEPT ![p] = "put"]
                \/ ~StaleClaimAllowed(p, j) /\ NoStore /\ UNCHANGED <<claimed, rpc>>
             /\ UNCHANGED <<rage, boundVars>>
  <2>1. PICK j \in stale[p] :
             /\ stale' = [stale EXCEPT ![p] = @ \ {j}]
             /\ \/ /\ StaleClaimAllowed(p, j) /\ StaleClaim(p, j)
                   /\ claimed' = [claimed EXCEPT ![p] = <<j, rec[j].attempts + 1>>]
                   /\ rpc' = [rpc EXCEPT ![p] = "put"]
                \/ ~StaleClaimAllowed(p, j) /\ NoStore /\ UNCHANGED <<claimed, rpc>>
             /\ UNCHANGED <<rage, boundVars>>
    BY <1>4
  <2>2. j \in Job /\ stale' \in [Proc -> SUBSET Job]
    BY <1>3, <2>1
  <2>3. CASE ~StaleClaimAllowed(p, j)
    BY <1>1, <1>2, <2>1, <2>2, <2>3
  <2>4. CASE StaleClaimAllowed(p, j)
    <3>1. Reclaimed(p, j) /\ rec[j].attempts + 1 \in Token
      BY <2>1, <2>2, <2>4, StaleClaimReclaims
    <3> QED BY <1>1, <1>2, <2>1, <2>2, <2>4, <3>1
  <2> QED BY <2>3, <2>4
<1>5. CASE /\ stale[p] = {} /\ rpc' = [rpc EXCEPT ![p] = "idle"]
           /\ rage' = [rage EXCEPT ![p] = 0]
           /\ NoStore /\ UNCHANGED <<stale, claimed, boundVars>>
  BY <1>1, <1>2, <1>3, <1>5
<1>6. CASE \E j \in stale[p] :
             /\ Fault /\ (NoStore \/ (StaleClaimAllowed(p, j) /\ StaleClaim(p, j)))
             /\ stale' = [stale EXCEPT ![p] = {}] /\ rpc' = [rpc EXCEPT ![p] = "idle"]
             /\ rage' = [rage EXCEPT ![p] = 0]
             /\ UNCHANGED claimed
  <2>1. PICK j \in stale[p] :
             /\ Fault /\ (NoStore \/ (StaleClaimAllowed(p, j) /\ StaleClaim(p, j)))
             /\ stale' = [stale EXCEPT ![p] = {}] /\ rpc' = [rpc EXCEPT ![p] = "idle"]
             /\ rage' = [rage EXCEPT ![p] = 0]
             /\ UNCHANGED claimed
    BY <1>6
  <2>2. j \in Job /\ stale' \in [Proc -> SUBSET Job]
    BY <1>3, <2>1
  <2>3. NoStore \/ Reclaimed(p, j)
    BY <2>1, <2>2, StaleClaimReclaims
  <2> QED BY <1>1, <1>2, <2>1, <2>2, <2>3
<1> QED BY <1>4, <1>5, <1>6 DEF RecoverClaim

LEMMA RecoverClaimTyped ==
  ASSUME TypeInv, NEW p \in Proc, RecoverClaim(p)
  PROVE  TypeInv'
<1>1. UNCHANGED <<claimAge, cooling, wpc, wproc, wout, wmsg, guardAge, hpc, hjob, hAge, hmsg,
                  open, hand, pushed, delivered>>
  BY RecoverClaimSteps
<1>2. NoStore \/ \E j \in Job : Reclaimed(p, j)
  BY RecoverClaimSteps
<1>3. StoreType' /\ EventShape' /\ SeenType'
  BY <1>1, <1>2, NoStoreTyped, ReclaimTyped
<1>4. claimed' \in [Proc -> Exec \cup {None}] /\ rpc' \in [Proc -> {"idle", "handoff", "stale", "put"}]
  BY RecoverClaimSteps DEF TypeInv, TypeOK, RecoveryType, Exec
<1>5. rage' \in [Proc -> 0..StaleAfter]
  BY RecoverClaimSteps, Distinct DEF TypeInv, TypeOK, RecoveryType
<1>6. RecoveryType'
  BY <1>1, <1>3, <1>4, <1>5, RecoverClaimSteps DEF TypeInv, TypeOK, RecoveryType, SeenType
<1>7. WorkType' /\ HandoffType' /\ PublishShape'
  BY <1>1 DEF TypeInv, TypeOK, WorkType, HandoffType, PublishShape
<1>8. BoundType'
  BY <1>1, RecoverClaimSteps, BoundsTyped DEF TypeInv, TypeOK, BoundType
<1>9. RecoveryShape'
  <2>1. CASE \E j \in Job : /\ rec[j].attempts + 1 \in Token
                           /\ claimed' = [claimed EXCEPT ![p] = <<j, rec[j].attempts + 1>>]
                           /\ rpc' = [rpc EXCEPT ![p] = "put"]
    <3>1. PICK d \in Exec : /\ claimed' = [claimed EXCEPT ![p] = d] /\ rpc' = [rpc EXCEPT ![p] = "put"]
      BY <2>1 DEF Exec
    <3>2. /\ claimed'[p] = d /\ \A q \in Proc : q # p => claimed'[q] = claimed[q] /\ rpc'[q] = rpc[q]
      BY <3>1 DEF TypeInv, TypeOK, RecoveryType
    <3> QED BY <1>1, <3>2, RecoverClaimSteps, Distinct DEF TypeInv, RecoveryShape
  <2>2. CASE claimed' = claimed /\ rpc' \in {rpc, [rpc EXCEPT ![p] = "idle"]}
    BY <1>1, <2>2 DEF TypeInv, TypeOK, RecoveryType, RecoveryShape
  <2> QED BY <2>1, <2>2, RecoverClaimSteps
<1> QED BY <1>3, <1>6, <1>7, <1>8, <1>9 DEF TypeInv, TypeOK

\* Recovery relaunches the execution it claimed, or fails it.
LEMMA RecoverPutSteps ==
  ASSUME TypeInv, NEW p \in Proc, RecoverPut(p)
  PROVE  /\ rpc[p] = "put" /\ claimed[p] \in Exec /\ hpc[p] = "idle"
         /\ UNCHANGED <<claimAge, cooling, wout, wmsg, guardAge, hAge, hmsg, open, hand, pushed,
                       delivered>>
         /\ \/ \E g \in 0..StaleAfter : PutEffect(claimed[p], "pending", "none", "not_needed", g)
            \/ \E review \in {"pending", "invalid"} :
                  PutEffect(claimed[p], "error", "none", review, 0)
         /\ \/ UNCHANGED <<wpc, wproc>>
            \/ /\ \E w \in {"queued", "unlaunched"} : wpc' = [wpc EXCEPT ![claimed[p]] = w]
               /\ wproc' = [wproc EXCEPT ![claimed[p]] = p]
               /\ UNCHANGED <<hpc, hjob>>
               /\ PutAllowed(claimed[p])
               /\ MergeOf(rec[JobOf(claimed[p])], rec'[JobOf(claimed[p])], "pending", "none", "not_needed")
         /\ \/ UNCHANGED <<hpc, hjob>>
            \/ /\ hjob' = [hjob EXCEPT ![p] = JobOf(claimed[p])]
               /\ hpc' \in {hpc, [hpc EXCEPT ![p] = "claim"]}
               /\ UNCHANGED <<wpc, wproc>>
         /\ rpc' \in {[rpc EXCEPT ![p] = "stale"], [rpc EXCEPT ![p] = "idle"]}
         /\ stale' \in {stale, [stale EXCEPT ![p] = {}]} /\ rage' \in {rage, [rage EXCEPT ![p] = 0]}
         /\ claimed' = [claimed EXCEPT ![p] = None]
         /\ Fault \/ UNCHANGED boundVars
<1> DEFINE e == claimed[p]
           over == TokOf(e) > MaxAttempts
           st == IF over THEN "error" ELSE "pending"
           g == IF over THEN 0 ELSE rage[p]
<1>1. rpc[p] = "put" /\ e \in Exec /\ hpc[p] = "idle"
  BY DEF RecoverPut, TypeInv, TypeOK, RecoveryType, RecoveryShape
<1>2. UNCHANGED <<claimAge, cooling, wout, wmsg, guardAge, hAge, hmsg, open, hand, pushed, delivered>>
  BY DEF RecoverPut, outVars
<1>3. claimed' = [claimed EXCEPT ![p] = None]
  BY DEF RecoverPut
<1>4. PICK review \in IF over THEN ReviewOf("error", FALSE) ELSE {"not_needed"} :
        \/ /\ Put(e, st, "none", review, g)
           /\ IF PutAllowed(e) /\ ~over
              THEN /\ Goto(e, IF open[p] THEN "queued" ELSE "unlaunched")
                   /\ wproc' = [wproc EXCEPT ![e] = p]
              ELSE UNCHANGED <<wpc, wproc>>
           /\ IF PutAllowed(e) /\ over
              THEN BeginHandoff(p, JobOf(e)) /\ hjob' = [hjob EXCEPT ![p] = JobOf(e)]
              ELSE UNCHANGED <<hpc, hjob>>
           /\ rpc' = [rpc EXCEPT ![p] = "stale"]
           /\ UNCHANGED <<stale, rage, boundVars>>
        \/ /\ Fault /\ (Put(e, st, "none", review, g) \/ NoStore)
           /\ rpc' = [rpc EXCEPT ![p] = "idle"] /\ stale' = [stale EXCEPT ![p] = {}]
           /\ rage' = [rage EXCEPT ![p] = 0]
           /\ UNCHANGED <<wpc, wproc, hpc, hjob>>
  BY DEF RecoverPut
<1>5. /\ st \in Status /\ "none" \in Outcome /\ review \in NewReview /\ g \in 0..StaleAfter
      /\ over => review \in {"pending", "invalid"}
      /\ ~over => review = "not_needed"
  BY Distinct DEF Status, Outcome, ReviewOf, NewReview, TypeInv, TypeOK, RecoveryType
<1>6. PutEffect(e, st, "none", review, g)
  BY <1>1, <1>4, <1>5, PutHasEffect
<1>7. \/ \E h \in 0..StaleAfter : PutEffect(e, "pending", "none", "not_needed", h)
      \/ \E r \in {"pending", "invalid"} : PutEffect(e, "error", "none", r, 0)
  <2>1. CASE over
    BY <1>5, <1>6, <2>1
  <2>2. CASE ~over
    BY <1>5, <1>6, <2>2
  <2> QED BY <2>1, <2>2
<1>8. ASSUME PutAllowed(e), ~over, Put(e, st, "none", review, g)
      PROVE  MergeOf(rec[JobOf(e)], rec'[JobOf(e)], "pending", "none", "not_needed")
  BY <1>1, <1>5, <1>8, PutAccepted
<1>9. BeginHandoff(p, JobOf(e)) => hpc' \in {hpc, [hpc EXCEPT ![p] = "claim"]}
  BY BeginHandoffStep
<1> HIDE DEF over, st, g
<1>10. \/ UNCHANGED <<wpc, wproc>>
       \/ /\ \E w \in {"queued", "unlaunched"} : wpc' = [wpc EXCEPT ![e] = w]
          /\ wproc' = [wproc EXCEPT ![e] = p]
          /\ UNCHANGED <<hpc, hjob>>
          /\ PutAllowed(e)
          /\ MergeOf(rec[JobOf(e)], rec'[JobOf(e)], "pending", "none", "not_needed")
  BY <1>4, <1>8 DEF Goto
<1>11. \/ UNCHANGED <<hpc, hjob>>
       \/ /\ hjob' = [hjob EXCEPT ![p] = JobOf(e)]
          /\ hpc' \in {hpc, [hpc EXCEPT ![p] = "claim"]}
          /\ UNCHANGED <<wpc, wproc>>
  BY <1>4, <1>9
<1>12. /\ rpc' \in {[rpc EXCEPT ![p] = "stale"], [rpc EXCEPT ![p] = "idle"]}
       /\ stale' \in {stale, [stale EXCEPT ![p] = {}]} /\ rage' \in {rage, [rage EXCEPT ![p] = 0]}
       /\ Fault \/ UNCHANGED boundVars
  BY <1>4
<1> QED BY <1>1, <1>2, <1>3, <1>7, <1>10, <1>11, <1>12

LEMMA RecoverPutTyped ==
  ASSUME TypeInv, NEW p \in Proc, RecoverPut(p)
  PROVE  TypeInv'
<1>1. UNCHANGED <<claimAge, cooling, wout, wmsg, guardAge, hAge, hmsg, open, hand, pushed, delivered>>
  BY RecoverPutSteps
<1>2. claimed[p] \in Exec /\ JobOf(claimed[p]) \in Job /\ p \in Actor
  BY RecoverPutSteps, ExecShape, Distinct
<1>3. StoreType' /\ EventShape' /\ SeenType'
  BY <1>1, <1>2, RecoverPutSteps, PutTyped, Distinct
<1>4. wpc' \in [Exec -> WorkPc] /\ wproc' \in [Exec -> Proc \cup {None}]
  BY <1>2, RecoverPutSteps DEF TypeInv, TypeOK, WorkType, WorkPc
<1>5. WorkType'
  BY <1>1, <1>4 DEF TypeInv, TypeOK, WorkType
<1>6. /\ claimed' \in [Proc -> Exec \cup {None}] /\ rpc' \in [Proc -> {"idle", "handoff", "stale", "put"}]
      /\ stale' \in [Proc -> SUBSET Job] /\ rage' \in [Proc -> 0..StaleAfter]
  BY RecoverPutSteps, Distinct DEF TypeInv, TypeOK, RecoveryType
<1>7. RecoveryType'
  BY <1>1, <1>3, <1>6 DEF TypeInv, TypeOK, RecoveryType, SeenType
<1>8. BoundType'
  BY <1>1, RecoverPutSteps, BoundsTyped DEF TypeInv, TypeOK, BoundType
<1>9. hpc' \in {hpc, [hpc EXCEPT ![p] = "claim"]} /\ hjob' \in {hjob, [hjob EXCEPT ![p] = JobOf(claimed[p])]}
      /\ (hpc' # hpc => hjob' = [hjob EXCEPT ![p] = JobOf(claimed[p])])
  BY RecoverPutSteps
<1>10. HandoffType'
  BY <1>1, <1>2, <1>9 DEF TypeInv, TypeOK, HandoffType
<1>11. /\ \A x \in Actor : x # p => hpc'[x] = hpc[x]
       /\ \A q \in Proc : q # p => hjob'[q] = hjob[q] /\ rpc'[q] = rpc[q] /\ claimed'[q] = claimed[q]
       /\ rpc'[p] # "put" /\ (hpc'[p] # "idle" => hpc'[p] = "claim" /\ hjob'[p] = JobOf(claimed[p]))
  BY <1>2, <1>9, RecoverPutSteps DEF TypeInv, TypeOK, HandoffType, RecoveryType
<1>12. RecoveryShape' /\ PublishShape'
  BY <1>1, <1>2, <1>11, Distinct DEF TypeInv, RecoveryShape, PublishShape
<1> QED BY <1>3, <1>5, <1>7, <1>8, <1>10, <1>12 DEF TypeInv, TypeOK

-----------------------------------------------------------------------------
(* The environment *)

LEMMA OlderTyped ==
  ASSUME NEW max \in Nat, NEW a \in 0..max
  PROVE  Older(a, max) \in 0..max /\ a <= Older(a, max)
BY DEF Older

LEMMA TickTyped ==
  ASSUME TypeInv, Tick
  PROVE  TypeInv'
<1>1. UNCHANGED <<rec, wpc, wproc, wout, wmsg, hpc, hjob, hmsg, open, rpc, hand, stale, seen,
                  claimed, pushed, delivered, faults, crashes, shutdowns>>
  BY DEF Tick, outVars, boundVars
<1>2. updAge' \in [Job -> 0..StaleAfter] /\ claimAge' \in [Job -> 0..LeaseFor]
      /\ cooling' \in [Job -> BOOLEAN]
  BY OlderTyped, PageCheckAssumption DEF Tick, TypeInv, TypeOK, StoreType
<1>3. guardAge' \in [Exec -> 0..StaleAfter] /\ hAge' \in [Actor -> 0..LeaseFor]
      /\ rage' \in [Proc -> 0..StaleAfter]
  BY OlderTyped, PageCheckAssumption DEF Tick, TypeInv, TypeOK, WorkType, HandoffType, RecoveryType
<1>4. TypeOK'
  BY <1>1, <1>2, <1>3 DEF TypeInv, TypeOK, StoreType, WorkType, HandoffType, RecoveryType, BoundType
<1>5. RecoveryShape' /\ EventShape' /\ PublishShape'
  BY <1>1 DEF TypeInv, RecoveryShape, EventShape, PublishShape
<1> QED BY <1>4, <1>5 DEF TypeInv

LEMMA ShutdownTyped ==
  ASSUME TypeInv, NEW p \in Proc, Shutdown(p)
  PROVE  TypeInv'
<1>1. UNCHANGED <<rec, updAge, claimAge, cooling, wproc, wout, wmsg, guardAge, hpc, hjob, hAge, hmsg,
                  rpc, hand, stale, seen, rage, claimed, pushed, delivered, faults, crashes>>
  BY DEF Shutdown, storeVars, handoffVars, recVars, outVars
<1>2. wpc' \in [Exec -> WorkPc] /\ open' \in [Proc -> BOOLEAN] /\ shutdowns' \in 0..MaxShutdowns
  BY PageCheckAssumption DEF Shutdown, TypeInv, TypeOK, WorkType, RecoveryType, BoundType, WorkPc
<1>3. TypeOK'
  BY <1>1, <1>2 DEF TypeInv, TypeOK, StoreType, WorkType, HandoffType, RecoveryType, BoundType
<1>4. RecoveryShape' /\ EventShape' /\ PublishShape'
  BY <1>1 DEF TypeInv, RecoveryShape, EventShape, PublishShape
<1> QED BY <1>3, <1>4 DEF TypeInv

LEMMA CrashTyped ==
  ASSUME TypeInv, NEW p \in Proc, Crash(p)
  PROVE  TypeInv'
<1>1. UNCHANGED <<rec, updAge, claimAge, cooling, wproc, hjob, pushed, delivered, faults, shutdowns>>
  BY DEF Crash, storeVars, outVars
<1>2. /\ wpc' \in [Exec -> WorkPc] /\ wout' \in [Exec -> Outcome] /\ wmsg' \in [Exec -> BOOLEAN]
      /\ guardAge' \in [Exec -> 0..StaleAfter]
  BY Distinct DEF Crash, TypeInv, TypeOK, WorkType, WorkPc, Outcome
<1>3. /\ hpc' \in [Actor -> {"idle", "claim", "publish", "queued", "failed"}]
      /\ hAge' \in [Actor -> 0..LeaseFor] /\ hmsg' \in [Actor -> Token \cup {None}]
  BY Distinct DEF Crash, TypeInv, TypeOK, HandoffType
<1>4. RecoveryType'
  BY Distinct DEF Crash, TypeInv, TypeOK, RecoveryType
<1>5. crashes' \in 0..MaxCrashes
  BY PageCheckAssumption DEF Crash, TypeInv, TypeOK, BoundType
<1>6. TypeOK'
  BY <1>1, <1>2, <1>3, <1>4, <1>5 DEF TypeInv, TypeOK, StoreType, WorkType, HandoffType, BoundType
<1>7. /\ \A x \in Actor : hpc'[x] = "idle" \/ (hpc'[x] = hpc[x] /\ hmsg'[x] = hmsg[x])
      /\ hpc'[p] = "idle" /\ rpc'[p] = "idle"
      /\ \A q \in Proc : q # p => rpc'[q] = rpc[q] /\ claimed'[q] = claimed[q]
  BY Distinct DEF Crash, TypeInv, TypeOK, RecoveryType
<1>8. RecoveryShape' /\ PublishShape'
  BY <1>1, <1>7, Distinct DEF TypeInv, RecoveryShape, PublishShape
<1>9. EventShape'
  BY <1>1 DEF TypeInv, EventShape
<1> QED BY <1>6, <1>8, <1>9 DEF TypeInv

LEMMA TypeStep ==
  ASSUME TypeInv, [Next]_vars
  PROVE  TypeInv'
<1>1. ASSUME NEW p \in Proc, NEW B \in (SUBSET Job) \ {{}}, Enqueue(p, B) PROVE TypeInv'
  BY <1>1, EnqueueTyped
<1>2. ASSUME NEW e \in Exec, Work(e) \/ Progress(e) PROVE TypeInv'
  BY <1>2, StartTyped, VerdictTyped, GuardTyped, PushTyped, ConfirmTyped, FinalTyped, FailTyped,
     ProgressTyped DEF Work
<1>3. ASSUME NEW x \in Actor, Publish(x) PROVE TypeInv'
  BY <1>3, HandoffClaimTyped, HandoffPublishTyped, HandoffFinishTyped DEF Publish
<1>4. ASSUME NEW p \in Proc, Recover(p) \/ Shutdown(p) \/ Crash(p) PROVE TypeInv'
  BY <1>4, RecoverScanTyped, RecoverHandoffTyped, RecoverClaimTyped, RecoverPutTyped,
     ShutdownTyped, CrashTyped DEF Recover
<1>5. CASE UNCHANGED vars
  BY <1>5 DEF vars, storeVars, workVars, handoffVars, recVars, outVars, boundVars, TypeInv, TypeOK,
     StoreType, WorkType, HandoffType, RecoveryType, BoundType, RecoveryShape, EventShape, PublishShape
<1> QED BY <1>1, <1>2, <1>3, <1>4, <1>5, TickTyped DEF Next

LEMMA TypeInit == Init => TypeInv
BY Distinct, PageCheckAssumption DEF Init, TypeInv, TypeOK, StoreType, WorkType, HandoffType,
   RecoveryType, BoundType, RecoveryShape, EventShape, PublishShape, WorkPc, Outcome

-----------------------------------------------------------------------------
(* How records change *)

\* One put changes at most the record of its own job.
LEMMA PutChanges ==
  ASSUME TypeInv, NEW e \in Exec, NEW status, NEW out, NEW review, NEW g,
         PutEffect(e, status, out, review, g)
  PROVE  \A j \in Job :
           \/ rec'[j] = rec[j]
           \/ /\ j = JobOf(e) /\ PutAllowed(e) /\ rec[j] # None /\ rec'[j] # None
              /\ MergeOf(rec[j], rec'[j], status, out, review)
<1>1. CASE NoStore
  BY <1>1 DEF NoStore
<1>2. CASE ~NoStore
  <2>1. PutAllowed(e)
    BY <1>2 DEF PutEffect
  <2>2. PICK m \in JobRec :
          Store(JobOf(e), m, g) /\ MergeOf(rec[JobOf(e)], m, status, out, review)
    BY <1>2 DEF PutEffect
  <2>3. rec' = [rec EXCEPT ![JobOf(e)] = m] /\ rec \in [Job -> JobRec \cup {None}] /\ JobOf(e) \in Job
    BY <2>2, ExecShape DEF Store, TypeInv, TypeOK, StoreType
  <2>4. rec'[JobOf(e)] = m /\ \A k \in Job : k # JobOf(e) => rec'[k] = rec[k]
    BY <2>3
  <2>5. rec[JobOf(e)] # None /\ m # None
    BY <2>1, Distinct DEF PutAllowed
  <2> QED BY <2>1, <2>2, <2>4, <2>5
<1> QED BY <1>1, <1>2

\* A step of a handoff changes only the review state and the claim of one record.
HandedOver(j) ==
  /\ rec[j] # None /\ rec'[j] # None
  /\ rec[j].review \in Handoff /\ rec'[j].review \in Handoff \cup {"queued"}
  /\ rec'[j].status = rec[j].status /\ rec'[j].tok = rec[j].tok
  /\ rec'[j].attempts = rec[j].attempts /\ rec'[j].outcome = rec[j].outcome
  /\ rec'[j].msg = rec[j].msg

LEMMA TookChanges ==
  ASSUME TypeInv, NEW x \in Actor, NEW j \in Job, Took(x, j)
  PROVE  /\ HandedOver(j) /\ rec'[j].review = "publishing" /\ rec'[j].claim = x
         /\ \A k \in Job : k # j => rec'[k] = rec[k] /\ claimAge'[k] = claimAge[k]
         /\ claimAge'[j] = hAge[x] /\ Claimable(j)
<1>1. PICK m \in JobRec :
       /\ rec' = [rec EXCEPT ![j] = m]
       /\ m.review = "publishing" /\ m.claim = x /\ m.status = rec[j].status
       /\ m.tok = rec[j].tok /\ m.attempts = rec[j].attempts /\ m.outcome = rec[j].outcome
       /\ m.msg = rec[j].msg
  BY DEF Took
<1>2. rec'[j] = m /\ \A k \in Job : k # j => rec'[k] = rec[k]
  BY <1>1 DEF TypeInv, TypeOK, StoreType
<1>3. claimAge'[j] = hAge[x] /\ \A k \in Job : k # j => claimAge'[k] = claimAge[k]
  BY DEF Took, TypeInv, TypeOK, StoreType
<1>4. rec[j] # None /\ m # None /\ Claimable(j)
  BY Distinct DEF Took
<1>5. rec[j].review \in Handoff
  BY <1>4 DEF Claimable, Waiting, Handoff
<1> QED BY <1>1, <1>2, <1>3, <1>4, <1>5 DEF HandedOver, Handoff

LEMMA FinishedChanges ==
  ASSUME TypeInv, NEW x \in Actor, NEW j \in Job, Finished(x, j), hpc[x] \in {"queued", "failed"}
  PROVE  /\ HandedOver(j) /\ rec'[j].review = hpc[x] /\ rec'[j].claim = None
         /\ \A k \in Job : k # j => rec'[k] = rec[k] /\ claimAge'[k] = claimAge[k]
         /\ FinishAllowed(x, j)
<1>1. PICK m \in JobRec :
       /\ rec' = [rec EXCEPT ![j] = m]
       /\ m.review = hpc[x] /\ m.claim = None /\ m.status = rec[j].status
       /\ m.tok = rec[j].tok /\ m.attempts = rec[j].attempts /\ m.outcome = rec[j].outcome
       /\ m.msg = rec[j].msg
  BY DEF Finished
<1>2. rec'[j] = m /\ \A k \in Job : k # j => rec'[k] = rec[k]
  BY <1>1 DEF TypeInv, TypeOK, StoreType
<1>3. \A k \in Job : k # j => claimAge'[k] = claimAge[k]
  BY DEF Finished, TypeInv, TypeOK, StoreType
<1>4. rec[j] # None /\ m # None /\ FinishAllowed(x, j)
  BY Distinct DEF Finished
<1>5. rec[j].review \in Handoff
  BY <1>4 DEF FinishAllowed, Handoff
<1> QED BY <1>1, <1>2, <1>3, <1>4, <1>5 DEF HandedOver, Handoff

LEMMA HandoffChanges ==
  ASSUME TypeInv, NEW x \in Actor, Publish(x)
  PROVE  /\ \A j \in Job : rec'[j] = rec[j] \/ HandedOver(j)
         /\ UNCHANGED <<updAge, wpc, wproc, wout, guardAge, hjob, seen, claimed, pushed>>
<1>1. CASE HandoffClaim(x)
  <2>1. UNCHANGED <<updAge, wpc, wproc, wout, guardAge, hjob, seen, claimed, pushed>>
    BY <1>1 DEF HandoffClaim, workVars, recVars, outVars
  <2> QED BY <1>1, <2>1, HandoffClaimSteps, TookChanges
<1>2. CASE HandoffPublish(x)
  BY <1>2 DEF HandoffPublish, storeVars, workVars, recVars
<1>3. CASE HandoffFinish(x)
  <2>1. UNCHANGED <<updAge, wpc, wproc, wout, guardAge, hjob, seen, claimed, pushed>>
    BY <1>3 DEF HandoffFinish, workVars, recVars, outVars
  <2> QED BY <1>3, <2>1, HandoffFinishSteps, FinishedChanges
<1> QED BY <1>1, <1>2, <1>3 DEF Publish

LEMMA ReclaimChanges ==
  ASSUME TypeInv, NEW p \in Proc, NEW j \in Job, Reclaimed(p, j)
  PROVE  /\ Active(rec[j]) /\ rec[j] # None /\ rec[j] \in JobRec /\ j \in seen[p]
         /\ rec'[j] # None /\ rec'[j] \in JobRec
         /\ rec'[j].status = "pending" /\ rec'[j].tok = rec[j].attempts + 1
         /\ rec'[j].attempts = rec[j].attempts + 1
         /\ rec'[j].review = rec[j].review /\ rec'[j].msg = rec[j].msg /\ rec'[j].claim = rec[j].claim
         /\ updAge'[j] = rage[p] /\ seen' = [q \in Proc |-> seen[q] \ {j}]
         /\ \A k \in Job : k # j => rec'[k] = rec[k] /\ updAge'[k] = updAge[k]
<1>1. PICK m \in JobRec :
       /\ Store(j, m, rage[p])
       /\ m.status = "pending" /\ m.tok = rec[j].attempts + 1 /\ m.attempts = rec[j].attempts + 1
       /\ m.review = rec[j].review /\ m.msg = rec[j].msg /\ m.claim = rec[j].claim
  BY DEF Reclaimed
<1>2. /\ rec'[j] = m /\ updAge'[j] = rage[p] /\ seen' = [q \in Proc |-> seen[q] \ {j}]
      /\ \A k \in Job : k # j => rec'[k] = rec[k] /\ updAge'[k] = updAge[k]
  BY <1>1 DEF Store, TypeInv, TypeOK, StoreType
<1>3. Active(rec[j]) /\ rec[j] # None /\ rec[j] \in JobRec /\ j \in seen[p] /\ m # None
  BY Distinct DEF Reclaimed, StaleClaimAllowed, Active
<1> QED BY <1>1, <1>2, <1>3

-----------------------------------------------------------------------------
(* Tokens and owners *)

LifeInv == TypeInv /\ Tokens /\ Owners

\* No job appears, and none becomes active again.
Subdued == \A j \in Job : /\ rec'[j] # None <=> rec[j] # None
                          /\ Active(rec'[j]) => Active(rec[j])

\* Tokens and attempts stay.
SameTokens == \A j \in Job : rec'[j] # None =>
                rec[j] # None /\ rec'[j].tok = rec[j].tok /\ rec'[j].attempts = rec[j].attempts

\* Only its owner, which then stores no other verdict, ends a job.
EndedByOwner ==
  \A j \in Job : Active(rec[j]) /\ rec'[j] # None =>
    \/ Active(rec'[j])
    \/ \E e \in Exec : /\ JobOf(e) = j /\ PutAllowed(e) /\ wpc'[e] \notin EarlyPc
                       /\ \A p \in Proc : claimed'[p] # e

LEMMA TokensKept ==
  ASSUME TypeInv, TypeInv', Tokens, SameTokens,
         \A e \in Exec : wpc'[e] = "none" <=> wpc[e] = "none",
         wproc' = wproc, \A p \in Proc : claimed'[p] \in {None, claimed[p]}
  PROVE  Tokens'
<1>1. \A j \in Job : <<j, 0>> \in Exec
  BY Distinct DEF Exec
<1>2. \A j \in Job : Created(j) => Created(j)'
  BY <1>1 DEF Created
<1>3. RecordTokens'
  BY <1>2 DEF Tokens, RecordTokens, SameTokens
<1>4. \A e \in Exec : Known(e) => Known(e)'
  BY <1>2, ExecShape DEF Known, SameTokens
<1>5. WorkTokens'
  BY <1>4 DEF Tokens, WorkTokens
<1>6. ClaimTokens'
  <2>1. ASSUME NEW p \in Proc, claimed'[p] # None
        PROVE  claimed'[p] = claimed[p] /\ claimed[p] \in Exec
    BY <2>1 DEF TypeInv, TypeOK, RecoveryType
  <2>2. ASSUME NEW p \in Proc, claimed'[p] # None
        PROVE  Known(claimed[p])' /\ (wpc[claimed[p]] = "none")'
    <3> DEFINE d == claimed[p]
    <3>1. PICK d0 \in Exec : d0 = claimed[p] /\ d0 = claimed'[p]
      BY <2>1, <2>2
    <3>2. Known(d0) /\ wpc[d0] = "none"
      BY <2>2, <3>1 DEF Tokens, ClaimTokens
    <3>3. Known(d0)' /\ wpc'[d0] = "none"
      BY <1>4, <3>2
    <3> QED BY <3>1, <3>3
  <2> QED BY <2>1, <2>2 DEF Tokens, ClaimTokens
<1> QED BY <1>3, <1>5, <1>6 DEF Tokens

LEMMA OwnersKept ==
  ASSUME TypeInv, TypeInv', Tokens, Owners, SameTokens, EndedByOwner,
         \A e \in Exec : wpc'[e] \in EarlyPc => wpc[e] \in EarlyPc,
         \A p \in Proc : claimed'[p] \in {None, claimed[p]}
  PROVE  Owners'
<1>1. ASSUME NEW d \in Exec, PutAllowed(d)', Active(rec[JobOf(d)]),
             wpc'[d] \in EarlyPc \/ \E p \in Proc : claimed'[p] = d
      PROVE  Active(rec[JobOf(d)])'
  <2>1. JobOf(d) \in Job /\ rec'[JobOf(d)] # None /\ rec'[JobOf(d)].tok = TokOf(d)
    BY <1>1, ExecShape DEF PutAllowed
  <2>2. rec[JobOf(d)].tok = TokOf(d)
    BY <2>1 DEF SameTokens
  <2>3. ASSUME NEW e \in Exec, JobOf(e) = JobOf(d), PutAllowed(e) PROVE e = d
    BY <2>2, <2>3, ExecShape DEF PutAllowed
  <2> QED BY <1>1, <2>1, <2>3 DEF EndedByOwner
<1>2. ASSUME NEW d \in Exec, PutAllowed(d)' PROVE PutAllowed(d)
  BY <1>2, ExecShape DEF PutAllowed, SameTokens
<1>3. ASSUME NEW d \in Exec, wpc'[d] \in EarlyPc, PutAllowed(d)' PROVE Active(rec[JobOf(d)])'
  BY <1>1, <1>2, <1>3 DEF Owners
<1>4. ASSUME NEW p \in Proc, claimed'[p] # None, PutAllowed(claimed[p])'
      PROVE  Active(rec[JobOf(claimed[p])])'
  <2>1. PICK d \in Exec : d = claimed[p] /\ d = claimed'[p]
    BY <1>4 DEF TypeInv, TypeOK, RecoveryType
  <2>2. PutAllowed(d)'
    BY <1>4, <2>1
  <2>3. PutAllowed(claimed[p]) /\ claimed[p] # None
    BY <1>2, <1>4, <2>1, <2>2
  <2>4. Active(rec[JobOf(d)])
    BY <2>1, <2>3 DEF Owners
  <2> QED BY <1>1, <2>1, <2>2, <2>4
<1> QED BY <1>3, <1>4 DEF Owners

\* A put by somebody who may still write: it does not revive the job, and ends it only
\* as its owner.
LEMMA PutLife ==
  ASSUME LifeInv, TypeInv', NEW e \in Exec, NEW status \in Status, NEW out, NEW review, NEW g,
         PutEffect(e, status, out, review, g),
         status \in {"pending", "running"} /\ PutAllowed(e) => Active(rec[JobOf(e)]),
         status \in {"done", "error"} =>
           wpc'[e] \notin EarlyPc /\ \A p \in Proc : claimed'[p] # e,
         \A d \in Exec : /\ wpc'[d] = "none" <=> wpc[d] = "none"
                         /\ wpc'[d] \in EarlyPc => wpc[d] \in EarlyPc,
         wproc' = wproc, \A p \in Proc : claimed'[p] \in {None, claimed[p]}
  PROVE  Tokens' /\ Owners' /\ Subdued
<1>1. \A j \in Job :
        \/ rec'[j] = rec[j]
        \/ /\ j = JobOf(e) /\ PutAllowed(e) /\ rec[j] # None /\ rec'[j] # None
           /\ rec'[j].tok = rec[j].tok /\ rec'[j].attempts = rec[j].attempts /\ rec'[j].status = status
  BY PutChanges DEF LifeInv, MergeOf
<1>2. SameTokens
  BY <1>1 DEF SameTokens
<1>3. Subdued
  BY <1>1 DEF Subdued, Active
<1>4. EndedByOwner
  BY <1>1 DEF EndedByOwner, Active, Status
<1>5. Tokens'
  BY <1>2, TokensKept DEF LifeInv
<1>6. Owners'
  BY <1>2, <1>4, OwnersKept DEF LifeInv
<1> QED BY <1>3, <1>5, <1>6

\* No record changes its token, status or presence.
LEMMA QuietLife ==
  ASSUME LifeInv, TypeInv', \A j \in Job : rec'[j] = rec[j] \/ HandedOver(j),
         \A d \in Exec : /\ wpc'[d] = "none" <=> wpc[d] = "none"
                         /\ wpc'[d] \in EarlyPc => wpc[d] \in EarlyPc,
         wproc' = wproc, \A p \in Proc : claimed'[p] \in {None, claimed[p]}
  PROVE  Tokens' /\ Owners' /\ Subdued
<1>1. SameTokens /\ Subdued /\ EndedByOwner
  BY DEF HandedOver, SameTokens, Subdued, EndedByOwner, Active
<1>2. Tokens'
  BY <1>1, TokensKept DEF LifeInv
<1>3. Owners'
  BY <1>1, OwnersKept DEF LifeInv
<1> QED BY <1>1, <1>2, <1>3

\* A worker that runs is no claimed execution.
LEMMA WorkerUnclaimed ==
  ASSUME LifeInv, NEW e \in Exec, wpc[e] # "none"
  PROVE  \A p \in Proc : claimed[p] # e
BY Distinct DEF LifeInv, Tokens, ClaimTokens

LEMMA RunningLife ==
  ASSUME LifeInv, TypeInv', NEW e \in Exec, NEW next \in EarlyPc, NEW onError \in {"fail", "final"},
         NEW out, wpc[e] \in {"queued", "check", "confirm"}, RunningPut(e, next, onError, out)
  PROVE  Tokens' /\ Owners' /\ Subdued
<1>1. PutEffect(e, "running", wout[e], "not_needed", 0)
  BY RunningPutHasEffect DEF LifeInv
<1>2. wproc' = wproc /\ claimed' = claimed
  BY DEF RunningPut
<1>3. PICK w \in EarlyPc \cup {"end", "fail"} : wpc' = [wpc EXCEPT ![e] = w]
  BY DEF RunningPut, Goto, EarlyPc
<1>4. wpc'[e] = w /\ \A d \in Exec : d # e => wpc'[d] = wpc[d]
  BY <1>3 DEF LifeInv, TypeInv, TypeOK, WorkType
<1>5. \A d \in Exec : /\ wpc'[d] = "none" <=> wpc[d] = "none"
                      /\ wpc'[d] \in EarlyPc => wpc[d] \in EarlyPc
  BY <1>4 DEF EarlyPc
<1>6. PutAllowed(e) => Active(rec[JobOf(e)])
  BY DEF LifeInv, Owners, EarlyPc
<1> QED BY <1>1, <1>2, <1>5, <1>6, PutLife DEF Status

\* A step of a worker that writes no record.
LEMMA WorkerQuietLife ==
  ASSUME LifeInv, TypeInv', NEW e \in Exec, wpc[e] \in EarlyPc,
         NEW w \in EarlyPc \cup {"end", "fail"}, wpc' = [wpc EXCEPT ![e] = w],
         UNCHANGED <<rec, wproc, claimed>>
  PROVE  Tokens' /\ Owners' /\ Subdued
<1>1. wpc'[e] = w /\ \A d \in Exec : d # e => wpc'[d] = wpc[d]
  BY DEF LifeInv, TypeInv, TypeOK, WorkType
<1>2. \A d \in Exec : /\ wpc'[d] = "none" <=> wpc[d] = "none"
                      /\ wpc'[d] \in EarlyPc => wpc[d] \in EarlyPc
  BY <1>1 DEF EarlyPc
<1> QED BY <1>2, QuietLife

LEMMA WorkLife ==
  ASSUME LifeInv, TypeInv', NEW e \in Exec, Work(e) \/ Progress(e)
  PROVE  Tokens' /\ Owners' /\ Subdued
<1>1. CASE Start(e)
  BY <1>1, RunningLife DEF Start, EarlyPc
<1>2. CASE Progress(e)
  BY <1>2, RunningLife DEF Progress, EarlyPc
<1>3. CASE Confirm(e)
  BY <1>3, RunningLife DEF Confirm, EarlyPc
<1>4. CASE Verdict(e)
  <2>1. wpc[e] = "check" /\ UNCHANGED <<rec, wproc, claimed>>
    BY <1>4 DEF Verdict, storeVars, recVars
  <2>2. PICK w \in {"final", "guard"} : wpc' = [wpc EXCEPT ![e] = w]
    BY <1>4 DEF Verdict, Goto
  <2> QED BY <2>1, <2>2, WorkerQuietLife DEF EarlyPc
<1>5. CASE Guard(e)
  <2>1. wpc[e] = "guard" /\ UNCHANGED <<wproc, claimed>>
    BY <1>5 DEF Guard
  <2>2. UNCHANGED rec
    BY <1>5, GuardTyped DEF LifeInv
  <2>3. PICK w \in {"push", "end", "final"} : wpc' = [wpc EXCEPT ![e] = w]
    BY <1>5 DEF Guard, Goto
  <2> QED BY <2>1, <2>2, <2>3, WorkerQuietLife DEF EarlyPc
<1>6. CASE Push(e)
  <2>1. wpc[e] = "push" /\ UNCHANGED <<rec, wproc, claimed>>
    BY <1>6 DEF Push, storeVars, recVars
  <2>2. PICK w \in {"confirm", "final"} : wpc' = [wpc EXCEPT ![e] = w]
    BY <1>6 DEF Push, Goto
  <2> QED BY <2>1, <2>2, WorkerQuietLife DEF EarlyPc
<1>7. CASE Final(e)
  <2>1. PICK review \in ReviewOf(wout[e], FALSE) : PutEffect(e, "done", wout[e], review, 0)
    BY <1>7, FinalTyped DEF LifeInv
  <2>2. wpc[e] = "final" /\ wproc' = wproc /\ claimed' = claimed
    BY <1>7 DEF Final
  <2>3. PICK w \in {"end", "fail"} : wpc' = [wpc EXCEPT ![e] = w]
    BY <1>7 DEF Final, Goto
  <2>4. wpc'[e] = w /\ \A d \in Exec : d # e => wpc'[d] = wpc[d]
    BY <2>3 DEF LifeInv, TypeInv, TypeOK, WorkType
  <2>5. \A p \in Proc : claimed'[p] # e
    BY <2>2, WorkerUnclaimed
  <2>6. \A d \in Exec : /\ wpc'[d] = "none" <=> wpc[d] = "none"
                        /\ wpc'[d] \in EarlyPc => wpc[d] \in EarlyPc
    BY <2>2, <2>4 DEF EarlyPc
  <2>7. wpc'[e] \notin EarlyPc
    BY <2>4 DEF EarlyPc
  <2> QED BY <2>1, <2>2, <2>5, <2>6, <2>7, PutLife DEF Status
<1>8. CASE Fail(e)
  <2>1. PICK review \in {"pending", "invalid"} : PutEffect(e, "error", wout[e], review, 0)
    BY <1>8, FailTyped DEF LifeInv
  <2>2. wpc[e] \in {"fail", "unlaunched"} /\ wproc' = wproc /\ claimed' = claimed
    BY <1>8 DEF Fail
  <2>3. /\ wpc'[e] = "end"
        /\ \A d \in Exec : d # e => wpc'[d] = wpc[d] \/ (wpc[d] = "unlaunched" /\ wpc'[d] = "end")
    BY <1>8, FailEnds DEF LifeInv
  <2>4. \A p \in Proc : claimed'[p] # e
    BY <2>2, WorkerUnclaimed
  <2>5. \A d \in Exec : /\ wpc'[d] = "none" <=> wpc[d] = "none"
                        /\ wpc'[d] \in EarlyPc => wpc[d] \in EarlyPc
    BY <2>2, <2>3 DEF EarlyPc
  <2>6. wpc'[e] \notin EarlyPc
    BY <2>3 DEF EarlyPc
  <2> QED BY <2>1, <2>2, <2>4, <2>5, <2>6, PutLife DEF Status
<1> QED BY <1>1, <1>2, <1>3, <1>4, <1>5, <1>6, <1>7, <1>8 DEF Work

LEMMA RecoverPutLife ==
  ASSUME LifeInv, TypeInv', NEW p \in Proc, RecoverPut(p)
  PROVE  Tokens' /\ Owners' /\ Subdued
<1>1. TypeInv /\ claimed \in [Proc -> Exec \cup {None}] /\ wpc \in [Exec -> WorkPc]
      /\ wproc \in [Exec -> Proc \cup {None}]
  BY DEF LifeInv, TypeInv, TypeOK, RecoveryType, WorkType
<1>2. PICK e \in Exec : e = claimed[p]
  BY <1>1, RecoverPutSteps
<1>3. /\ claimed'[p] = None /\ \A q \in Proc : q # p => claimed'[q] = claimed[q]
      /\ e # None /\ wpc[e] = "none" /\ Known(e)
      /\ \A q \in Proc : claimed'[q] # e
  BY <1>1, <1>2, RecoverPutSteps, Distinct DEF LifeInv, Tokens, ClaimTokens
<1>4. PutAllowed(e) => Active(rec[JobOf(e)])
  BY <1>2, <1>3 DEF LifeInv, Owners
<1>5. CASE UNCHANGED <<wpc, wproc>>
  <2>1. CASE \E g \in 0..StaleAfter : PutEffect(e, "pending", "none", "not_needed", g)
    BY <1>3, <1>4, <1>5, <2>1, PutLife DEF Status
  <2>2. CASE \E review \in {"pending", "invalid"} : PutEffect(e, "error", "none", review, 0)
    <3>1. wpc'[e] \notin EarlyPc
      BY <1>3, <1>5 DEF EarlyPc
    <3> QED BY <1>3, <1>4, <1>5, <2>2, <3>1, PutLife DEF Status
  <2> QED BY <1>1, <1>2, <2>1, <2>2, RecoverPutSteps
<1>6. CASE /\ \E w \in {"queued", "unlaunched"} : wpc' = [wpc EXCEPT ![e] = w]
           /\ wproc' = [wproc EXCEPT ![e] = p]
           /\ PutAllowed(e)
           /\ MergeOf(rec[JobOf(e)], rec'[JobOf(e)], "pending", "none", "not_needed")
  <2>1. PICK w \in {"queued", "unlaunched"} : wpc' = [wpc EXCEPT ![e] = w]
    BY <1>6
  <2>2. /\ wpc'[e] = w /\ \A d \in Exec : d # e => wpc'[d] = wpc[d] /\ wproc'[d] = wproc[d]
    BY <1>1, <1>6, <2>1
  <2>3. \A j \in Job : j # JobOf(e) => rec'[j] = rec[j]
    BY <1>1, <1>2, RecoverPutSteps, PutChanges
  <2>4. /\ JobOf(e) \in Job /\ rec[JobOf(e)] # None /\ rec'[JobOf(e)] # None
        /\ rec'[JobOf(e)].tok = rec[JobOf(e)].tok /\ rec[JobOf(e)].tok = TokOf(e)
        /\ rec'[JobOf(e)].attempts = rec[JobOf(e)].attempts
        /\ rec'[JobOf(e)].status = "pending" /\ Active(rec[JobOf(e)])
    BY <1>4, <1>6, ExecShape, Distinct DEF MergeOf, PutAllowed
  <2>5. SameTokens /\ Subdued
    BY <2>3, <2>4 DEF SameTokens, Subdued, Active
  <2>6. \A j \in Job : <<j, 0>> \in Exec
    BY Distinct DEF Exec
  <2>7. \A j \in Job : Created(j) => Created(j)'
    BY <2>2, <2>6 DEF Created
  <2>8. \A d \in Exec : Known(d) => Known(d)'
    BY <2>5, <2>7, ExecShape DEF Known, SameTokens
  <2>9. RecordTokens'
    BY <2>5, <2>7 DEF LifeInv, Tokens, RecordTokens, SameTokens
  <2>10. WorkTokens'
    BY <1>3, <2>2, <2>8 DEF LifeInv, Tokens, WorkTokens
  <2>11. ClaimTokens'
    <3>1. ASSUME NEW q \in Proc, claimed'[q] # None
          PROVE  Known(claimed[q])' /\ (wpc[claimed[q]] = "none")'
      <4>1. PICK d \in Exec : d = claimed[q] /\ d = claimed'[q] /\ d # e
        BY <1>1, <1>3, <3>1
      <4>2. Known(d) /\ wpc[d] = "none"
        BY <1>3, <3>1, <4>1 DEF LifeInv, Tokens, ClaimTokens
      <4> QED BY <2>2, <2>8, <4>1, <4>2
    <3>2. \A q, r \in Proc : claimed'[q] # None /\ claimed'[q] = claimed'[r] => q = r
      BY <1>3 DEF LifeInv, Tokens, ClaimTokens
    <3> QED BY <3>1, <3>2 DEF ClaimTokens
  <2>12. \A d \in Exec : PutAllowed(d)' => PutAllowed(d)
    BY <2>5, ExecShape DEF PutAllowed, SameTokens
  <2>13. \A j \in Job : Active(rec[j]) => Active(rec'[j])
    BY <2>3, <2>4 DEF Active
  <2>14. \A d \in Exec : wpc'[d] \in EarlyPc /\ PutAllowed(d)' => Active(rec[JobOf(d)])'
    <3>1. ASSUME NEW d \in Exec, wpc'[d] \in EarlyPc, PutAllowed(d)' PROVE Active(rec[JobOf(d)])
      BY <2>2, <2>4, <2>12, <3>1 DEF LifeInv, Owners
    <3> QED BY <2>13, <3>1, ExecShape
  <2>15. ASSUME NEW q \in Proc, claimed'[q] # None, PutAllowed(claimed[q])'
         PROVE  Active(rec[JobOf(claimed[q])])'
    <3>1. PICK d \in Exec : d = claimed[q] /\ d = claimed'[q] /\ claimed[q] # None
      BY <1>1, <1>3, <2>15
    <3>2. PutAllowed(d)
      BY <2>12, <2>15, <3>1
    <3>3. Active(rec[JobOf(d)])
      BY <3>1, <3>2 DEF LifeInv, Owners
    <3> QED BY <2>13, <3>1, <3>3, ExecShape
  <2> QED BY <2>5, <2>9, <2>10, <2>11, <2>14, <2>15 DEF Tokens, Owners
<1> QED BY <1>1, <1>2, <1>5, <1>6, RecoverPutSteps

LEMMA RecoverClaimLife ==
  ASSUME LifeInv, TypeInv', NEW p \in Proc, RecoverClaim(p)
  PROVE  Tokens' /\ Owners' /\ Subdued
<1>1. TypeInv /\ claimed \in [Proc -> Exec \cup {None}] /\ UNCHANGED <<wpc, wproc>>
  BY RecoverClaimSteps DEF LifeInv, TypeInv, TypeOK, RecoveryType
<1>2. CASE NoStore /\ claimed' = claimed
  BY <1>1, <1>2, QuietLife DEF NoStore
<1>3. CASE \E j \in Job : /\ Reclaimed(p, j)
                          /\ \/ claimed' = claimed
                             \/ /\ rec[j].attempts + 1 \in Token
                                /\ claimed' = [claimed EXCEPT ![p] = <<j, rec[j].attempts + 1>>]
  <2>1. PICK j \in Job : /\ Reclaimed(p, j)
                         /\ \/ claimed' = claimed
                            \/ /\ rec[j].attempts + 1 \in Token
                               /\ claimed' = [claimed EXCEPT ![p] = <<j, rec[j].attempts + 1>>]
    BY <1>3
  <2>2. /\ Active(rec[j]) /\ rec[j] # None /\ rec[j].attempts \in Nat /\ rec'[j] # None
        /\ rec'[j].status = "pending" /\ rec'[j].tok = rec[j].attempts + 1
        /\ rec'[j].attempts = rec[j].attempts + 1
        /\ \A k \in Job : k # j => rec'[k] = rec[k]
    BY <1>1, <2>1, ReclaimChanges, PageCheckAssumption DEF JobRec, Token
  <2>3. Subdued
    BY <2>2 DEF Subdued
  <2>4. \A k \in Job : Created(k)' <=> Created(k)
    BY <1>1 DEF Created
  <2>5. RecordTokens'
    BY <2>2, <2>4 DEF LifeInv, Tokens, RecordTokens
  <2>6. \A d \in Exec : Known(d) => Known(d)'
    <3> SUFFICES ASSUME NEW d \in Exec, Known(d) PROVE Known(d)'
      OBVIOUS
    <3>1. JobOf(d) \in Job /\ TokOf(d) \in Nat
      BY ExecShape, PageCheckAssumption DEF Token
    <3> QED BY <2>2, <2>4, <3>1 DEF Known
  <2>7. WorkTokens'
    BY <1>1, <2>6 DEF LifeInv, Tokens, WorkTokens
  <2>8. \A d \in Exec : JobOf(d) = j /\ TokOf(d) = rec[j].attempts + 1 =>
          wpc[d] = "none" /\ \A q \in Proc : claimed[q] # d
    <3> SUFFICES ASSUME NEW d \in Exec, JobOf(d) = j, TokOf(d) = rec[j].attempts + 1
                 PROVE  wpc[d] = "none" /\ \A q \in Proc : claimed[q] # d
      OBVIOUS
    <3>1. ~Known(d)
      BY <2>2 DEF Known
    <3> QED BY <3>1, Distinct DEF LifeInv, Tokens, WorkTokens, ClaimTokens
  <2>9. ASSUME NEW q \in Proc, claimed'[q] # None, claimed'[q] = claimed[q]
        PROVE  Known(claimed[q])' /\ (wpc[claimed[q]] = "none")'
    <3>1. PICK d \in Exec : d = claimed[q] /\ d = claimed'[q]
      BY <1>1, <2>9
    <3>2. Known(d) /\ wpc[d] = "none"
      BY <2>9, <3>1 DEF LifeInv, Tokens, ClaimTokens
    <3> QED BY <1>1, <2>6, <3>1, <3>2
  <2>10. ClaimTokens'
    <3>1. CASE claimed' = claimed
      BY <2>9, <3>1 DEF LifeInv, Tokens, ClaimTokens
    <3>2. CASE rec[j].attempts + 1 \in Token /\ claimed' = [claimed EXCEPT ![p] = <<j, rec[j].attempts + 1>>]
      <4>1. PICK n \in Exec : n = <<j, rec[j].attempts + 1>>
        BY <3>2 DEF Exec
      <4>2. JobOf(n) = j /\ TokOf(n) = rec[j].attempts + 1
        BY <4>1 DEF JobOf, TokOf
      <4>3. claimed'[p] = n /\ \A q \in Proc : q # p => claimed'[q] = claimed[q]
        BY <1>1, <3>2, <4>1
      <4>4. wpc[n] = "none" /\ \A q \in Proc : claimed[q] # n
        BY <2>8, <4>2
      <4>5. Known(n)'
        BY <2>2, <2>4, <4>2 DEF Known, LifeInv, Tokens, RecordTokens
      <4>6. \A q \in Proc : claimed'[q] # None => Known(claimed[q])' /\ (wpc[claimed[q]] = "none")'
        BY <1>1, <2>9, <4>3, <4>4, <4>5
      <4>7. \A q, r \in Proc : claimed'[q] # None /\ claimed'[q] = claimed'[r] => q = r
        BY <4>3, <4>4 DEF LifeInv, Tokens, ClaimTokens
      <4> QED BY <4>6, <4>7 DEF ClaimTokens
    <3> QED BY <2>1, <3>1, <3>2
  <2>11. Active(rec'[j])
    BY <2>2 DEF Active
  <2>12. ASSUME NEW d \in Exec, PutAllowed(d)', wpc[d] \in EarlyPc \/ \E q \in Proc : claimed[q] = d
         PROVE  Active(rec[JobOf(d)])'
    <3>1. CASE JobOf(d) = j
      BY <2>11, <3>1
    <3>2. CASE JobOf(d) # j
      <4>1. rec'[JobOf(d)] = rec[JobOf(d)]
        BY <2>2, <3>2, ExecShape
      <4>2. PutAllowed(d)
        BY <2>12, <4>1 DEF PutAllowed
      <4>3. Active(rec[JobOf(d)])
        BY <2>12, <4>2, Distinct DEF LifeInv, Owners
      <4> QED BY <4>1, <4>3
    <3> QED BY <3>1, <3>2
  <2>13. \A d \in Exec : wpc'[d] \in EarlyPc /\ PutAllowed(d)' => Active(rec[JobOf(d)])'
    BY <1>1, <2>12
  <2>14. ASSUME NEW q \in Proc, claimed'[q] # None, PutAllowed(claimed[q])'
         PROVE  Active(rec[JobOf(claimed[q])])'
    <3>1. CASE claimed'[q] = claimed[q]
      <4>1. PICK d \in Exec : d = claimed[q] /\ d = claimed'[q]
        BY <1>1, <2>14, <3>1
      <4>2. PutAllowed(d)'
        BY <2>14, <4>1
      <4> QED BY <2>12, <4>1, <4>2
    <3>2. CASE claimed'[q] # claimed[q]
      <4>1. claimed'[q] = <<j, rec[j].attempts + 1>>
        BY <1>1, <2>1, <3>2
      <4>2. JobOf(claimed'[q]) = j
        BY <4>1 DEF JobOf
      <4> QED BY <2>11, <4>2
    <3> QED BY <3>1, <3>2
  <2> QED BY <2>3, <2>5, <2>7, <2>10, <2>13, <2>14 DEF Tokens, Owners
<1> QED BY <1>1, <1>2, <1>3, RecoverClaimSteps

\* A batch gives its jobs their first execution.
LEMMA EnqueueWork ==
  ASSUME TypeInv, NEW p \in Proc, NEW B \in SUBSET Job, Enqueue(p, B)
  PROVE  \A e \in Exec :
           \/ /\ JobOf(e) \in B /\ TokOf(e) = 0
              /\ wpc'[e] \in {"queued", "unlaunched", "end"}
           \/ /\ ~(JobOf(e) \in B /\ TokOf(e) = 0)
              /\ wpc'[e] = wpc[e] /\ wproc'[e] = wproc[e]
<1>1. \A e \in Exec : e \in B \X {0} <=> JobOf(e) \in B /\ TokOf(e) = 0
  BY DEF Exec, JobOf, TokOf
<1>2. \/ wpc' = [e \in Exec |-> IF e \notin B \X {0} THEN wpc[e]
                                ELSE IF open[p] THEN "queued" ELSE "unlaunched"]
      \/ wpc' = [e \in Exec |-> IF e \in B \X {0} THEN "end" ELSE wpc[e]]
  BY DEF Enqueue
<1>3. wproc' = [e \in Exec |-> IF e \in B \X {0} THEN p ELSE wproc[e]]
  BY DEF Enqueue
<1> QED BY <1>1, <1>2, <1>3

LEMMA EnqueueLife ==
  ASSUME LifeInv, TypeInv', NEW p \in Proc, NEW B \in SUBSET Job, Enqueue(p, B)
  PROVE  Tokens' /\ Owners'
<1>1. TypeInv /\ claimed' = claimed /\ claimed \in [Proc -> Exec \cup {None}]
      /\ \A j \in B : ~Created(j)
  BY DEF LifeInv, TypeInv, TypeOK, RecoveryType, Enqueue, recVars
<1>2. \A j \in Job : <<j, 0>> \in Exec /\ JobOf(<<j, 0>>) = j /\ TokOf(<<j, 0>>) = 0
  BY Distinct DEF Exec, JobOf, TokOf
<1>3. \A j \in Job : Created(j)' <=> Created(j) \/ j \in B
  BY <1>1, <1>2, EnqueueWork DEF Created
<1>4. \A e \in Exec : wpc[e] # "none" => JobOf(e) \notin B
  BY <1>1 DEF LifeInv, Tokens, WorkTokens, Known
<1>5. \A q \in Proc : claimed[q] # None => claimed[q] \in Exec /\ JobOf(claimed[q]) \notin B
  BY <1>1 DEF LifeInv, Tokens, ClaimTokens, Known
<1>6. NewRec.tok = 0 /\ NewRec.attempts = 0 /\ Active(NewRec)
  <2>1. NewRec \in JobRec
    BY Distinct DEF NewRec, JobRec, Status, Outcome, Review, Handoff
  <2> QED BY <2>1, Distinct DEF NewRec, Active
<1>7. RecordTokens'
  BY <1>3, <1>6, <1>1, EnqueueRecords DEF LifeInv, Tokens, RecordTokens
<1>8. \A e \in Exec : Known(e) /\ JobOf(e) \notin B => Known(e)'
  BY <1>1, <1>3, ExecShape, EnqueueRecords DEF Known
<1>9. WorkTokens'
  <2> SUFFICES ASSUME NEW e \in Exec
               PROVE  /\ wpc'[e] # "none" => Known(e)'
                      /\ wproc'[e] # None => wpc'[e] # "none"
    BY DEF WorkTokens
  <2>1. CASE JobOf(e) \in B /\ TokOf(e) = 0
    <3>1. Known(e)'
      BY <1>1, <1>3, <1>6, <2>1, EnqueueRecords DEF Known
    <3>2. wpc'[e] # "none"
      BY <1>1, <2>1, EnqueueWork
    <3> QED BY <3>1, <3>2
  <2>2. CASE ~(JobOf(e) \in B /\ TokOf(e) = 0)
    <3>1. wpc'[e] = wpc[e] /\ wproc'[e] = wproc[e]
      BY <1>1, <2>2, EnqueueWork
    <3> QED BY <1>4, <1>8, <3>1 DEF LifeInv, Tokens, WorkTokens
  <2> QED BY <2>1, <2>2
<1>10. ClaimTokens'
  <2>1. ASSUME NEW q \in Proc, claimed'[q] # None
        PROVE  Known(claimed[q])' /\ (wpc[claimed[q]] = "none")'
    <3>1. PICK d \in Exec : d = claimed[q] /\ d = claimed'[q] /\ JobOf(d) \notin B
      BY <1>1, <1>5, <2>1
    <3>2. Known(d) /\ wpc[d] = "none"
      BY <1>1, <2>1, <3>1 DEF LifeInv, Tokens, ClaimTokens
    <3>3. wpc'[d] = "none"
      BY <1>1, <3>1, <3>2, EnqueueWork
    <3> QED BY <1>8, <3>1, <3>2, <3>3
  <2> QED BY <1>1, <2>1 DEF LifeInv, Tokens, ClaimTokens
<1>11. ASSUME NEW d \in Exec, PutAllowed(d)', JobOf(d) \notin B
       PROVE  PutAllowed(d) /\ rec'[JobOf(d)] = rec[JobOf(d)]
  BY <1>1, <1>11, ExecShape, EnqueueRecords DEF PutAllowed
<1>12. ASSUME NEW d \in Exec, wpc'[d] \in EarlyPc, PutAllowed(d)' PROVE Active(rec[JobOf(d)])'
  <2>1. CASE JobOf(d) \in B
    <3>1. rec'[JobOf(d)] = NewRec
      BY <1>1, <2>1, EnqueueRecords
    <3> QED BY <1>6, <3>1
  <2>2. CASE JobOf(d) \notin B
    <3>1. wpc'[d] = wpc[d]
      BY <1>1, <2>2, EnqueueWork
    <3> QED BY <1>11, <1>12, <2>2, <3>1 DEF LifeInv, Owners
  <2> QED BY <2>1, <2>2
<1>13. ASSUME NEW q \in Proc, claimed'[q] # None, PutAllowed(claimed[q])'
       PROVE  Active(rec[JobOf(claimed[q])])'
  <2>1. PICK d \in Exec : d = claimed[q] /\ d = claimed'[q] /\ JobOf(d) \notin B
    BY <1>1, <1>5, <1>13
  <2>2. PutAllowed(d) /\ rec'[JobOf(d)] = rec[JobOf(d)]
    BY <1>11, <1>13, <2>1
  <2>3. Active(rec[JobOf(d)])
    BY <1>1, <1>13, <2>1, <2>2 DEF LifeInv, Owners
  <2> QED BY <2>1, <2>2, <2>3
<1> QED BY <1>7, <1>9, <1>10, <1>12, <1>13 DEF Tokens, Owners

\* The steps of the environment and the passive ones of recovery.
LEMMA PassiveLife ==
  ASSUME LifeInv, TypeInv',
         NEW p \in Proc, RecoverScan(p) \/ RecoverHandoff(p) \/ Shutdown(p) \/ Crash(p)
  PROVE  Tokens' /\ Owners' /\ Subdued
<1>1. CASE RecoverScan(p) \/ RecoverHandoff(p)
  <2>1. UNCHANGED <<rec, wpc, wproc, claimed>>
    BY <1>1 DEF RecoverScan, RecoverHandoff, storeVars, workVars
  <2> QED BY <2>1, QuietLife
<1>2. CASE Shutdown(p)
  <2>1. UNCHANGED <<rec, wproc, claimed>>
    BY <1>2 DEF Shutdown, storeVars, recVars
  <2>2. \A e \in Exec : wpc'[e] = wpc[e] \/ (wpc[e] = "queued" /\ wpc'[e] = "end")
    BY <1>2 DEF Shutdown
  <2>3. \A d \in Exec : /\ wpc'[d] = "none" <=> wpc[d] = "none"
                        /\ wpc'[d] \in EarlyPc => wpc[d] \in EarlyPc
    BY <2>2 DEF EarlyPc
  <2> QED BY <2>1, <2>3, QuietLife
<1>3. CASE Crash(p)
  <2>1. UNCHANGED <<rec, wproc>> /\ \A q \in Proc : claimed'[q] \in {None, claimed[q]}
    BY <1>3 DEF Crash, storeVars, LifeInv, TypeInv, TypeOK, RecoveryType
  <2>2. \A e \in Exec : wpc'[e] = wpc[e] \/ (wproc[e] = p /\ wpc'[e] = "end")
    BY <1>3 DEF Crash
  <2>3. \A d \in Exec : /\ wpc'[d] = "none" <=> wpc[d] = "none"
                        /\ wpc'[d] \in EarlyPc => wpc[d] \in EarlyPc
    BY <2>2, Distinct DEF EarlyPc, LifeInv, Tokens, WorkTokens
  <2> QED BY <2>1, <2>3, QuietLife
<1> QED BY <1>1, <1>2, <1>3

LEMMA LifeStep ==
  ASSUME LifeInv, [Next]_vars
  PROVE  /\ LifeInv'
         /\ Subdued \/ \E p \in Proc, B \in SUBSET Job : Enqueue(p, B)
<1>1. TypeInv'
  BY TypeStep DEF LifeInv
<1>2. ASSUME NEW p \in Proc, NEW B \in (SUBSET Job) \ {{}}, Enqueue(p, B) PROVE Tokens' /\ Owners'
  BY <1>1, <1>2, EnqueueLife
<1>3. ASSUME NEW e \in Exec, Work(e) \/ Progress(e) PROVE Tokens' /\ Owners' /\ Subdued
  BY <1>1, <1>3, WorkLife
<1>4. ASSUME NEW x \in Actor, Publish(x) PROVE Tokens' /\ Owners' /\ Subdued
  <2>1. /\ \A j \in Job : rec'[j] = rec[j] \/ HandedOver(j)
        /\ UNCHANGED <<wpc, wproc, claimed>>
    BY <1>4, HandoffChanges DEF LifeInv
  <2> QED BY <1>1, <2>1, QuietLife
<1>5. ASSUME NEW p \in Proc, Recover(p) \/ Shutdown(p) \/ Crash(p)
      PROVE  Tokens' /\ Owners' /\ Subdued
  BY <1>1, <1>5, RecoverClaimLife, RecoverPutLife, PassiveLife DEF Recover
<1>6. CASE Tick \/ UNCHANGED vars
  <2>1. UNCHANGED <<rec, wpc, wproc, claimed>>
    BY <1>6 DEF Tick, vars, storeVars, workVars, recVars
  <2>2. Tokens' /\ Owners' /\ Subdued
    BY <1>1, <2>1, QuietLife
  <2> QED BY <1>1, <2>2 DEF LifeInv
<1> QED BY <1>1, <1>2, <1>3, <1>4, <1>5, <1>6 DEF Next, LifeInv

LEMMA LifeInit == Init => LifeInv
<1> SUFFICES ASSUME Init PROVE LifeInv
  OBVIOUS
<1>1. Tokens /\ Owners
  BY DEF Init, Tokens, RecordTokens, WorkTokens, ClaimTokens, Owners, EarlyPc
<1> QED BY <1>1, TypeInit DEF LifeInv

-----------------------------------------------------------------------------
(* Verdicts *)

StoredVerdicts == VerdictsMatchPushes /\ FailuresAreReviewed

\* A verdict a human must see is put with a review state.
NeedsReview(status, out) == status = "error" \/ (status = "done" /\ out \in {"unverifiable", "error"})

LEMMA PutVerdicts ==
  ASSUME TypeInv, StoredVerdicts, NEW e \in Exec, NEW status, NEW out, NEW review, NEW g,
         PutEffect(e, status, out, review, g), pushed' = pushed,
         status = "done" /\ out = "fixed" => e \in pushed,
         e \in pushed /\ status = "done" => out \in {"fixed", "error"},
         NeedsReview(status, out) => review \in {"pending", "invalid"}
  PROVE  StoredVerdicts'
<1>1. VerdictsMatchPushes'
  <2> SUFFICES ASSUME NEW j \in Job, Terminal(rec'[j])
               PROVE  /\ rec'[j].status = "done" /\ rec'[j].outcome = "fixed"
                           => <<j, rec'[j].tok>> \in pushed
                      /\ <<j, rec'[j].tok>> \in pushed
                           => \/ rec'[j].status = "done" /\ rec'[j].outcome = "fixed"
                              \/ rec'[j].review # "not_needed"
    BY DEF VerdictsMatchPushes
  <2>1. CASE rec'[j] = rec[j]
    BY <2>1 DEF StoredVerdicts, VerdictsMatchPushes
  <2>2. CASE /\ j = JobOf(e) /\ PutAllowed(e) /\ rec[j] # None
             /\ MergeOf(rec[j], rec'[j], status, out, review)
    <3>1. <<j, rec'[j].tok>> = e /\ rec'[j].status = status /\ rec'[j].outcome = out
      BY <2>2, ExecShape DEF MergeOf, PutAllowed
    <3>2. NeedsReview(status, out) => rec'[j].review # "not_needed"
      <4>1. rec[j].msg # None => rec[j].review \in Handoff \cup {"queued"}
        BY <2>2 DEF TypeInv, EventShape
      <4> QED BY <2>2, <4>1 DEF MergeOf, Handoff
    <3>3. status \in {"done", "error"}
      BY <3>1 DEF Terminal
    <3> QED BY <3>1, <3>2, <3>3 DEF NeedsReview
  <2> QED BY <2>1, <2>2, PutChanges
<1>2. FailuresAreReviewed'
  <2> SUFFICES ASSUME NEW j \in Job, Terminal(rec'[j]),
                      rec'[j].status = "error" \/ rec'[j].outcome \in {"unverifiable", "error"}
               PROVE  rec'[j].review # "not_needed"
    BY DEF FailuresAreReviewed
  <2>1. CASE rec'[j] = rec[j]
    BY <2>1 DEF StoredVerdicts, FailuresAreReviewed
  <2>2. CASE /\ rec[j] # None /\ MergeOf(rec[j], rec'[j], status, out, review)
    <3>1. NeedsReview(status, out)
      BY <2>2 DEF MergeOf, NeedsReview, Terminal
    <3>2. rec[j].msg # None => rec[j].review \in Handoff \cup {"queued"}
      BY <2>2 DEF TypeInv, EventShape
    <3> QED BY <2>2, <3>1, <3>2 DEF MergeOf, Handoff
  <2> QED BY <2>1, <2>2, PutChanges
<1> QED BY <1>1, <1>2 DEF StoredVerdicts

LEMMA QuietVerdicts ==
  ASSUME StoredVerdicts, \A j \in Job : rec'[j] = rec[j] \/ HandedOver(j), pushed' = pushed
  PROVE  StoredVerdicts'
<1>1. VerdictsMatchPushes'
  BY DEF StoredVerdicts, VerdictsMatchPushes, HandedOver, Terminal, Handoff
<1>2. FailuresAreReviewed'
  BY DEF StoredVerdicts, FailuresAreReviewed, HandedOver, Terminal, Handoff
<1> QED BY <1>1, <1>2 DEF StoredVerdicts

LEMMA BeliefsKept ==
  ASSUME Beliefs, pushed \subseteq pushed',
         \A e \in Exec : wout'[e] = "fixed" \/ wpc'[e] = "confirm" =>
           wout[e] = "fixed" \/ wpc[e] = "confirm" \/ e \in pushed'
  PROVE  Beliefs'
BY DEF Beliefs

LEMMA NotesKept ==
  ASSUME PushesNoted, pushed' = pushed,
         \A e \in pushed : Noted(e)' \/ (wpc'[e] = wpc[e] /\ wout'[e] = wout[e])
  PROVE  PushesNoted'
BY DEF PushesNoted, Noted

LEMMA RunningVerdicts ==
  ASSUME LifeInv, Verdicts, NEW e \in Exec, NEW next, NEW onError, NEW out,
         next # "confirm", onError # "confirm", out = "fixed" => wpc[e] = "confirm",
         e \in pushed => next = "final" /\ onError = "final" /\ out = "fixed",
         RunningPut(e, next, onError, out)
  PROVE  Verdicts'
<1>1. TypeInv /\ StoredVerdicts /\ Beliefs /\ pushed' = pushed
  BY DEF LifeInv, Verdicts, StoredVerdicts, RunningPut, outVars
<1>2. StoredVerdicts'
  BY <1>1, RunningPutHasEffect, PutVerdicts DEF NeedsReview
<1>3. /\ wout \in [Exec -> Outcome] /\ wpc \in [Exec -> WorkPc]
  BY DEF LifeInv, TypeInv, TypeOK, WorkType
<1>4. /\ \A d \in Exec : d # e => wout'[d] = wout[d] /\ wpc'[d] = wpc[d]
      /\ wout'[e] \in {out, "none", "error", wout[e]} /\ wpc'[e] \in {next, "end", onError}
  BY <1>3 DEF RunningPut, Goto
<1>5. Beliefs'
  BY <1>1, <1>4, BeliefsKept
<1>6. e \in pushed => Noted(e)'
  BY <1>3 DEF RunningPut, Goto, Noted
<1>7. PushesNoted'
  BY <1>1, <1>4, <1>6, NotesKept DEF Verdicts, outVars, LifeInv, TypeInv, TypeOK, BoundType
<1> QED BY <1>2, <1>5, <1>7 DEF Verdicts, StoredVerdicts

LEMMA WorkVerdicts ==
  ASSUME LifeInv, Verdicts, NEW e \in Exec, Work(e) \/ Progress(e)
  PROVE  Verdicts'
<1>0. /\ TypeInv /\ StoredVerdicts /\ Beliefs /\ PushesNoted /\ pushed \subseteq Exec
      /\ wout \in [Exec -> Outcome] /\ wpc \in [Exec -> WorkPc]
  BY DEF LifeInv, Verdicts, StoredVerdicts, TypeInv, TypeOK, WorkType, BoundType
<1>a. e \in pushed => Noted(e)
  BY <1>0 DEF PushesNoted
<1>1. CASE Start(e) \/ Progress(e) \/ Confirm(e)
  BY <1>a, <1>1, RunningVerdicts DEF Start, Progress, Confirm, Noted
<1>2. CASE Verdict(e)
  <2>1. UNCHANGED <<rec, pushed>>
    BY <1>2 DEF Verdict, storeVars, outVars
  <2>2. \A d \in Exec : wout'[d] = "fixed" \/ wpc'[d] = "confirm" => wout[d] = "fixed" \/ wpc[d] = "confirm"
    BY <1>0, <1>2 DEF Verdict, Goto
  <2>3. e \notin pushed /\ \A d \in Exec : d # e => wpc'[d] = wpc[d] /\ wout'[d] = wout[d]
    BY <1>0, <1>a, <1>2 DEF Verdict, Goto, Noted
  <2>4. PushesNoted'
    BY <1>0, <2>1, <2>3, NotesKept
  <2> QED BY <1>0, <2>1, <2>2, <2>4, QuietVerdicts, BeliefsKept DEF Verdicts, StoredVerdicts
<1>3. CASE Guard(e)
  <2>1. rec' = rec /\ pushed' = pushed
    BY <1>0, <1>3, GuardTyped DEF Guard, outVars
  <2>2. \A d \in Exec : wout'[d] = "fixed" \/ wpc'[d] = "confirm" => wout[d] = "fixed" \/ wpc[d] = "confirm"
    BY <1>0, <1>3 DEF Guard, Goto
  <2>3. e \notin pushed /\ \A d \in Exec : d # e => wpc'[d] = wpc[d] /\ wout'[d] = wout[d]
    BY <1>0, <1>a, <1>3 DEF Guard, Goto, Noted
  <2>4. PushesNoted'
    BY <1>0, <2>1, <2>3, NotesKept
  <2> QED BY <1>0, <2>1, <2>2, <2>4, QuietVerdicts, BeliefsKept DEF Verdicts, StoredVerdicts
<1>4. CASE Push(e)
  <2>1. rec' = rec /\ pushed \subseteq pushed' /\ pushed' \subseteq pushed \cup {e}
    BY <1>4 DEF Push, storeVars
  <2>2. \A d \in Exec : wout'[d] = "fixed" \/ wpc'[d] = "confirm"
          => wout[d] = "fixed" \/ wpc[d] = "confirm" \/ d \in pushed'
    BY <1>0, <1>4 DEF Push, Goto
  <2>3. PushesNoted'
    <3>1. Noted(e)' /\ \A d \in Exec : d # e => wpc'[d] = wpc[d] /\ wout'[d] = wout[d]
      BY <1>0, <1>4 DEF Push, Goto, Noted
    <3> QED BY <1>0, <2>1, <3>1 DEF PushesNoted, Noted
  <2>4. VerdictsMatchPushes'
    <3>1. \A j \in Job : Terminal(rec[j]) => <<j, rec[j].tok>> # e
      BY <1>4, ExecShape DEF Push, LifeInv, Owners, EarlyPc, PutAllowed, Active, Terminal
    <3> QED BY <1>0, <2>1, <3>1 DEF StoredVerdicts, VerdictsMatchPushes
  <2>5. FailuresAreReviewed'
    BY <1>0, <2>1 DEF StoredVerdicts, FailuresAreReviewed
  <2> QED BY <1>0, <2>1, <2>2, <2>3, <2>4, <2>5, BeliefsKept DEF Verdicts
<1>5. CASE Final(e)
  <2>1. PICK review \in ReviewOf(wout[e], FALSE) : PutEffect(e, "done", wout[e], review, 0)
    BY <1>0, <1>5, FinalTyped
  <2>2. pushed' = pushed
    BY <1>5 DEF Final, outVars
  <2>3. NeedsReview("done", wout[e]) => review \in {"pending", "invalid"}
    BY <2>1 DEF NeedsReview, ReviewOf
  <2>4. /\ wout[e] = "fixed" => e \in pushed
        /\ e \in pushed => wout[e] \in {"fixed", "error"}
    BY <1>0, <1>a, <1>5 DEF Beliefs, Final, Noted
  <2>5. StoredVerdicts'
    BY <1>0, <2>1, <2>2, <2>3, <2>4, PutVerdicts
  <2>6. \A d \in Exec : wout'[d] = "fixed" \/ wpc'[d] = "confirm" => wout[d] = "fixed" \/ wpc[d] = "confirm"
    BY <1>0, <1>5 DEF Final, Goto
  <2>7. Noted(e)' /\ \A d \in Exec : d # e => wpc'[d] = wpc[d] /\ wout'[d] = wout[d]
    BY <1>0, <1>5 DEF Final, Goto, Noted
  <2>8. PushesNoted'
    BY <1>0, <2>2, <2>7, NotesKept
  <2> QED BY <1>0, <2>2, <2>5, <2>6, <2>8, BeliefsKept DEF Verdicts, StoredVerdicts
<1>6. CASE Fail(e)
  <2>1. PICK review \in {"pending", "invalid"} : PutEffect(e, "error", wout[e], review, 0)
    BY <1>0, <1>6, FailTyped
  <2>2. pushed' = pushed
    BY <1>6 DEF Fail, outVars
  <2>3. StoredVerdicts'
    BY <1>0, <2>1, <2>2, PutVerdicts
  <2>4. \A d \in Exec : wpc'[d] = wpc[d] \/ wpc'[d] = "end"
    BY <1>0, <1>6, FailEnds
  <2>5. \A d \in Exec : wout'[d] = wout[d] \/ wout'[d] = "none"
    BY <1>0, <1>6 DEF Fail
  <2>6. wpc'[e] = "end" /\ \A d \in Exec : d # e => wout'[d] = wout[d]
    BY <1>0, <1>6 DEF Fail, Goto
  <2>7. PushesNoted'
    BY <1>0, <2>2, <2>4, <2>6, NotesKept DEF Noted
  <2> QED BY <1>0, <2>2, <2>3, <2>4, <2>5, <2>7, BeliefsKept DEF Verdicts, StoredVerdicts
<1> QED BY <1>1, <1>2, <1>3, <1>4, <1>5, <1>6 DEF Work

LEMMA RecoverVerdicts ==
  ASSUME LifeInv, Verdicts, NEW p \in Proc, RecoverClaim(p) \/ RecoverPut(p)
  PROVE  Verdicts'
<1>0. /\ TypeInv /\ StoredVerdicts /\ Beliefs /\ PushesNoted
      /\ pushed \subseteq Exec /\ wpc \in [Exec -> WorkPc]
  BY DEF LifeInv, Verdicts, StoredVerdicts, TypeInv, TypeOK, WorkType, BoundType
<1>1. CASE RecoverClaim(p)
  <2>1. UNCHANGED <<wpc, wout, pushed>> /\ (NoStore \/ \E j \in Job : Reclaimed(p, j))
    BY <1>0, <1>1, RecoverClaimSteps
  <2>a. PushesNoted'
    BY <1>0, <2>1, NotesKept
  <2>2. CASE NoStore
    BY <1>0, <2>1, <2>a, <2>2, QuietVerdicts, BeliefsKept DEF NoStore, Verdicts, StoredVerdicts
  <2>3. ASSUME NEW j \in Job, Reclaimed(p, j) PROVE Verdicts'
    <3>1. rec'[j].status = "pending" /\ \A k \in Job : k # j => rec'[k] = rec[k]
      BY <1>0, <2>3, ReclaimChanges
    <3>2. VerdictsMatchPushes'
      BY <2>1, <3>1 DEF Verdicts, VerdictsMatchPushes, Terminal
    <3>3. FailuresAreReviewed'
      BY <3>1 DEF Verdicts, FailuresAreReviewed, Terminal
    <3>4. Beliefs'
      BY <1>0, <2>1, BeliefsKept
    <3> QED BY <2>a, <3>2, <3>3, <3>4 DEF Verdicts
  <2> QED BY <2>1, <2>2, <2>3
<1>2. CASE RecoverPut(p)
  <2>1. claimed[p] \in Exec /\ UNCHANGED <<wout, pushed>>
    BY <1>0, <1>2, RecoverPutSteps
  <2>2. StoredVerdicts'
    <3>1. CASE \E g \in 0..StaleAfter : PutEffect(claimed[p], "pending", "none", "not_needed", g)
      BY <1>0, <2>1, <3>1, PutVerdicts DEF NeedsReview
    <3>2. CASE \E review \in {"pending", "invalid"} : PutEffect(claimed[p], "error", "none", review, 0)
      BY <1>0, <2>1, <3>2, PutVerdicts
    <3> QED BY <1>0, <1>2, <3>1, <3>2, RecoverPutSteps
  <2>3. \A d \in Exec : wpc'[d] = wpc[d] \/ wpc'[d] \in {"queued", "unlaunched"}
    BY <1>0, <1>2, <2>1, RecoverPutSteps
  <2>4. Beliefs'
    BY <1>0, <2>1, <2>3, BeliefsKept
  <2>5. wpc[claimed[p]] = "none" /\ claimed[p] # None
    BY <2>1, Distinct DEF LifeInv, Tokens, ClaimTokens
  <2>6. claimed[p] \notin pushed
    BY <1>0, <2>5 DEF PushesNoted, Noted
  <2>7. \A d \in Exec : d # claimed[p] => wpc'[d] = wpc[d]
    BY <1>0, <1>2, <2>1, RecoverPutSteps
  <2>8. PushesNoted'
    BY <1>0, <2>1, <2>6, <2>7, NotesKept
  <2> QED BY <2>2, <2>4, <2>8 DEF Verdicts, StoredVerdicts
<1> QED BY <1>1, <1>2

LEMMA EnqueueVerdicts ==
  ASSUME LifeInv, Verdicts, NEW p \in Proc, NEW B \in SUBSET Job, Enqueue(p, B)
  PROVE  Verdicts'
<1>1. TypeInv /\ UNCHANGED <<wout, pushed>> /\ NewRec.status = "pending"
  BY DEF LifeInv, Enqueue, outVars, NewRec
<1>2. \A j \in Job : rec'[j] \in {NewRec, None, rec[j]}
  BY <1>1, EnqueueRecords
<1>3. VerdictsMatchPushes'
  BY <1>1, <1>2 DEF Verdicts, VerdictsMatchPushes, Terminal
<1>4. FailuresAreReviewed'
  BY <1>1, <1>2 DEF Verdicts, FailuresAreReviewed, Terminal
<1>5. \A e \in Exec : wpc'[e] = wpc[e] \/ wpc'[e] # "confirm"
  BY <1>1, EnqueueWork
<1>6. Beliefs'
  BY <1>1, <1>5, BeliefsKept DEF Verdicts
<1>7. \A e \in pushed : e \in Exec /\ wpc[e] # "none"
  BY DEF Verdicts, PushesNoted, Noted, LifeInv, TypeInv, TypeOK, BoundType
<1>8. \A e \in pushed : JobOf(e) \notin B
  BY <1>7 DEF Enqueue, LifeInv, Tokens, WorkTokens, Known
<1>9. PushesNoted'
  BY <1>1, <1>7, <1>8, EnqueueWork, NotesKept DEF Verdicts
<1> QED BY <1>3, <1>4, <1>6, <1>9 DEF Verdicts

LEMMA PassiveVerdicts ==
  ASSUME LifeInv, Verdicts, \A j \in Job : rec'[j] = rec[j] \/ HandedOver(j), pushed' = pushed,
         \A e \in Exec : /\ wpc'[e] \in {wpc[e], "end"} /\ wout'[e] \in {wout[e], "none"}
                         /\ wout'[e] = wout[e] \/ wpc'[e] = "end"
  PROVE  Verdicts'
<1>1. StoredVerdicts'
  BY QuietVerdicts DEF Verdicts, StoredVerdicts
<1>2. Beliefs'
  BY BeliefsKept DEF Verdicts
<1>3. PushesNoted'
  BY NotesKept DEF Verdicts, Noted, LifeInv, TypeInv, TypeOK, BoundType
<1> QED BY <1>1, <1>2, <1>3 DEF Verdicts, StoredVerdicts

LEMMA VerdictStep ==
  ASSUME LifeInv, Verdicts, [Next]_vars
  PROVE  Verdicts'
<1>1. ASSUME NEW p \in Proc, NEW B \in (SUBSET Job) \ {{}}, Enqueue(p, B) PROVE Verdicts'
  BY <1>1, EnqueueVerdicts
<1>2. ASSUME NEW e \in Exec, Work(e) \/ Progress(e) PROVE Verdicts'
  BY <1>2, WorkVerdicts
<1>3. ASSUME NEW x \in Actor, Publish(x) PROVE Verdicts'
  BY <1>3, HandoffChanges, PassiveVerdicts DEF LifeInv
<1>4. ASSUME NEW p \in Proc, RecoverScan(p) \/ RecoverHandoff(p) PROVE Verdicts'
  <2>1. UNCHANGED <<rec, wpc, wout, pushed>>
    BY <1>4 DEF RecoverScan, RecoverHandoff, storeVars, workVars, outVars
  <2> QED BY <2>1, PassiveVerdicts
<1>5. ASSUME NEW p \in Proc, RecoverClaim(p) \/ RecoverPut(p) PROVE Verdicts'
  BY <1>5, RecoverVerdicts
<1>6. ASSUME NEW p \in Proc, Shutdown(p) PROVE Verdicts'
  <2>1. UNCHANGED <<rec, wout, pushed>> /\ \A e \in Exec : wpc'[e] \in {wpc[e], "end"}
    BY <1>6 DEF Shutdown, storeVars, outVars
  <2> QED BY <2>1, PassiveVerdicts
<1>7. ASSUME NEW p \in Proc, Crash(p) PROVE Verdicts'
  <2>1. /\ UNCHANGED <<rec, pushed>>
        /\ \A e \in Exec : /\ wpc'[e] \in {wpc[e], "end"} /\ wout'[e] \in {wout[e], "none"}
                           /\ wout'[e] = wout[e] \/ wpc'[e] = "end"
    BY <1>7 DEF Crash, storeVars, outVars
  <2> QED BY <2>1, PassiveVerdicts
<1>8. CASE Tick \/ UNCHANGED vars
  <2>1. UNCHANGED <<rec, wpc, wout, pushed>>
    BY <1>8 DEF Tick, vars, storeVars, workVars, outVars
  <2> QED BY <2>1, PassiveVerdicts
<1> QED BY <1>1, <1>2, <1>3, <1>4, <1>5, <1>6, <1>7, <1>8 DEF Next, Recover

-----------------------------------------------------------------------------
(* Review events and claims *)

\* What every step that is no handoff does to the review of a job.
ReviewKept(j) ==
  /\ rec[j] # None /\ rec[j].review \in Handoff =>
       /\ rec'[j] # None /\ rec'[j].review = rec[j].review
       /\ rec'[j].msg = rec[j].msg /\ rec'[j].claim = rec[j].claim
  /\ rec'[j] # None /\ rec'[j].review \in {"publishing", "queued"} =>
       rec[j] # None /\ rec[j].review = rec'[j].review /\ rec'[j].msg = rec[j].msg
  /\ rec[j] # None /\ rec[j].review = "queued" =>
       rec'[j] = None \/ (rec'[j].review = "queued" /\ rec'[j].msg = rec[j].msg)

LEMMA PutKeepsReview ==
  ASSUME TypeInv, NEW e \in Exec, NEW status, NEW out, NEW review \in NewReview, NEW g,
         PutEffect(e, status, out, review, g)
  PROVE  \A j \in Job : ReviewKept(j)
<1> SUFFICES ASSUME NEW j \in Job PROVE ReviewKept(j)
  OBVIOUS
<1>1. CASE rec'[j] = rec[j]
  BY <1>1 DEF ReviewKept
<1>2. CASE /\ rec[j] # None /\ rec'[j] # None /\ MergeOf(rec[j], rec'[j], status, out, review)
  <2>1. rec[j].msg # None <=> rec[j].review \in Handoff \cup {"queued"}
    BY <1>2 DEF TypeInv, EventShape
  <2> QED BY <1>2, <2>1 DEF MergeOf, ReviewKept, NewReview, Handoff
<1> QED BY <1>1, <1>2, PutChanges

LEMMA ReclaimKeepsReview ==
  ASSUME TypeInv, NEW p \in Proc, NEW j \in Job, Reclaimed(p, j)
  PROVE  \A k \in Job : ReviewKept(k)
BY ReclaimChanges DEF ReviewKept

LEMMA EnqueueKeepsReview ==
  ASSUME LifeInv, NEW p \in Proc, NEW B \in SUBSET Job, Enqueue(p, B)
  PROVE  \A j \in Job : ReviewKept(j)
<1>1. TypeInv /\ \A j \in B : rec[j] = None
  BY DEF LifeInv, Enqueue, Tokens, RecordTokens
<1>2. NewRec.review = "not_needed"
  BY DEF NewRec
<1> SUFFICES ASSUME NEW j \in Job PROVE ReviewKept(j)
  OBVIOUS
<1>3. CASE j \in B
  BY <1>1, <1>2, <1>3, EnqueueRecords DEF ReviewKept
<1>4. CASE j \notin B
  BY <1>1, <1>4, EnqueueRecords DEF ReviewKept, Removable
<1> QED BY <1>3, <1>4

LEMMA SameKeepsReview ==
  ASSUME UNCHANGED rec
  PROVE  \A j \in Job : ReviewKept(j)
BY DEF ReviewKept

\* What the claims need of a step that is no handoff: handoffs begin or end, or stay
\* with their job, their event and, up to aging, their time stamps.
HandoffKept(x) ==
  \/ hpc'[x] \notin {"publish", "queued"}
  \/ /\ hpc'[x] = hpc[x] /\ hmsg'[x] = hmsg[x] /\ JobOfActor(x)' = JobOfActor(x)
     /\ hpc[x] = "publish" /\ hAge[x] = LeaseFor => hAge'[x] = LeaseFor
     /\ hpc[x] = "publish" /\ Holds(x) /\ claimAge[JobOfActor(x)] <= hAge[x]
          => claimAge'[JobOfActor(x)] <= hAge'[x]

LEMMA ClaimsKept ==
  ASSUME TypeInv, TypeInv', Claims, \A j \in Job : ReviewKept(j), delivered' = delivered,
         \A x \in Actor : HandoffKept(x)
  PROVE  Claims'
<1>1. QueuedMeansDelivered'
  BY DEF Claims, QueuedMeansDelivered, ReviewKept
<1>2. ASSUME NEW x \in Actor PROVE ClaimIsTrue(x)'
  <2>1. CASE hpc'[x] \notin {"publish", "queued"}
    BY <2>1 DEF ClaimIsTrue
  <2>2. CASE hpc'[x] \in {"publish", "queued"}
    <3>1. HandoffKept(x)
      OBVIOUS
    <3>2. PICK j \in Job : j = JobOfActor(x) /\ j = JobOfActor(x)'
      BY <2>2, <3>1, ActorJob DEF HandoffKept
    <3>3. Holds(x)' <=> FinishAllowed(x, j)'
      BY <3>2 DEF Holds
    <3>4. Holds(x) <=> FinishAllowed(x, j)
      BY <3>2 DEF Holds
    <3>5. /\ FinishAllowed(x, j)' <=> FinishAllowed(x, j)
          /\ FinishAllowed(x, j) => rec'[j].msg = rec[j].msg
      BY DEF FinishAllowed, ReviewKept, Handoff
    <3>6. ClaimIsTrue(x)
      BY DEF Claims
    <3>7. /\ hpc'[x] = "publish" /\ Holds(x)' => hmsg'[x] = rec'[j].msg
          /\ hpc'[x] = "queued" /\ Holds(x)' => <<j, rec'[j].msg>> \in delivered'
      BY <2>2, <3>1, <3>2, <3>3, <3>4, <3>5, <3>6 DEF ClaimIsTrue, HandoffKept
    <3>8. hpc'[x] = "publish" => hAge'[x] = LeaseFor \/ (Holds(x)' /\ claimAge'[j] <= hAge'[x])
      BY <2>2, <3>1, <3>2, <3>3, <3>4, <3>5, <3>6 DEF ClaimIsTrue, HandoffKept
    <3> QED BY <3>2, <3>7, <3>8 DEF ClaimIsTrue
  <2> QED BY <2>1, <2>2
<1> QED BY <1>1, <1>2 DEF Claims

\* Handoffs are untouched, up to one that begins.
LEMMA HandoffUntouched ==
  ASSUME TypeInv, NEW x \in Actor, UNCHANGED <<hAge, hmsg, claimAge, hjob>>,
         hpc'[x] = hpc[x] \/ hpc'[x] \in {"idle", "claim"}
  PROVE  HandoffKept(x)
BY DEF HandoffKept, JobOfActor

LEMMA WorkClaims ==
  ASSUME LifeInv, TypeInv', Claims, NEW e \in Exec, Work(e) \/ Progress(e)
  PROVE  Claims' /\ (\A j \in Job : ReviewKept(j)) /\ (\A x \in Actor : HandoffKept(x))
<1>0. TypeInv /\ hpc \in [Actor -> {"idle", "claim", "publish", "queued", "failed"}]
  BY DEF LifeInv, TypeInv, TypeOK, HandoffType
<1>1. \A j \in Job : ReviewKept(j)
  <2>1. CASE Start(e) \/ Progress(e) \/ Confirm(e)
    <3>1. PutEffect(e, "running", wout[e], "not_needed", 0)
      BY <1>0, <2>1, RunningPutHasEffect DEF Start, Progress, Confirm
    <3> QED BY <1>0, <3>1, PutKeepsReview DEF NewReview
  <2>2. CASE Verdict(e) \/ Push(e)
    <3>1. UNCHANGED rec
      BY <2>2 DEF Verdict, Push, storeVars
    <3> QED BY <3>1, SameKeepsReview
  <2>3. CASE Guard(e)
    BY <1>0, <2>3, GuardTyped, SameKeepsReview
  <2>4. CASE Final(e)
    BY <1>0, <2>4, FinalTyped, ReviewOfIsNew, PutKeepsReview
  <2>5. CASE Fail(e)
    BY <1>0, <2>5, FailTyped, PutKeepsReview DEF NewReview
  <2> QED BY <2>1, <2>2, <2>3, <2>4, <2>5 DEF Work
<1>2. UNCHANGED <<hAge, hmsg, claimAge, hjob, delivered>>
  <2>1. CASE Start(e) \/ Progress(e) \/ Confirm(e)
    BY <2>1 DEF Start, Progress, Confirm, RunningPut, handoffVars, outVars
  <2>2. CASE Verdict(e) \/ Push(e) \/ Guard(e)
    BY <2>2 DEF Verdict, Push, Guard, storeVars, handoffVars, outVars
  <2>3. CASE Final(e) \/ Fail(e)
    BY <2>3 DEF Final, Fail, outVars
  <2> QED BY <2>1, <2>2, <2>3 DEF Work
<1>3. hpc' = hpc \/ hpc' = [hpc EXCEPT ![e] = "claim"]
  <2>1. CASE Start(e) \/ Progress(e) \/ Confirm(e)
    BY <2>1 DEF Start, Progress, Confirm, RunningPut, handoffVars
  <2>2. CASE Verdict(e) \/ Push(e) \/ Guard(e)
    BY <2>2 DEF Verdict, Push, Guard, handoffVars
  <2>3. CASE Final(e) \/ Fail(e)
    <3>1. BeginHandoff(e, JobOf(e)) \/ UNCHANGED hpc
      BY <2>3 DEF Final, Fail
    <3> QED BY <3>1, BeginHandoffStep
  <2> QED BY <2>1, <2>2, <2>3 DEF Work
<1>4. \A x \in Actor : hpc'[x] = hpc[x] \/ hpc'[x] \in {"idle", "claim"}
  BY <1>0, <1>3
<1>5. \A x \in Actor : HandoffKept(x)
  BY <1>0, <1>2, <1>4, HandoffUntouched
<1> QED BY <1>0, <1>1, <1>2, <1>5, ClaimsKept

LEMMA RecoverClaims ==
  ASSUME LifeInv, TypeInv', Claims, NEW p \in Proc, Recover(p)
  PROVE  Claims' /\ (\A j \in Job : ReviewKept(j)) /\ (\A x \in Actor : HandoffKept(x))
<1>0. /\ TypeInv /\ hpc \in [Actor -> {"idle", "claim", "publish", "queued", "failed"}]
      /\ hjob \in [Proc -> Job \cup {None}] /\ p \in Actor
  BY Distinct DEF LifeInv, TypeInv, TypeOK, HandoffType
<1>1. CASE RecoverScan(p)
  <2>1. UNCHANGED <<rec, hpc, hAge, hmsg, claimAge, hjob, delivered>>
    BY <1>1 DEF RecoverScan, storeVars, handoffVars, outVars
  <2> QED BY <1>0, <2>1, HandoffUntouched, SameKeepsReview, ClaimsKept
<1>2. CASE RecoverHandoff(p)
  <2>1. UNCHANGED <<rec, hAge, hmsg, claimAge, delivered>> /\ hpc[p] = "idle"
    BY <1>2 DEF RecoverHandoff, storeVars, outVars
  <2>2. \/ \E j : hpc' = [hpc EXCEPT ![p] = "claim"] /\ hjob' = [hjob EXCEPT ![p] = j]
        \/ UNCHANGED <<hpc, hjob>>
    BY <1>2 DEF RecoverHandoff
  <2>3. \A x \in Actor : x # p => hpc'[x] = hpc[x] /\ (x \in Proc => hjob'[x] = hjob[x])
    BY <1>0, <2>2
  <2>4. hpc'[p] \in {"idle", "claim"}
    BY <1>0, <2>1, <2>2
  <2>5. \A x \in Actor : HandoffKept(x)
    BY <2>1, <2>3, <2>4 DEF HandoffKept, JobOfActor
  <2> QED BY <1>0, <2>1, <2>5, SameKeepsReview, ClaimsKept
<1>3. CASE RecoverClaim(p)
  <2>1. /\ UNCHANGED <<hpc, hAge, hmsg, claimAge, hjob, delivered>>
        /\ NoStore \/ \E j \in Job : Reclaimed(p, j)
    BY <1>0, <1>3, RecoverClaimSteps
  <2>2. \A j \in Job : ReviewKept(j)
    BY <1>0, <2>1, SameKeepsReview, ReclaimKeepsReview DEF NoStore
  <2>3. \A x \in Actor : HandoffKept(x)
    BY <1>0, <2>1, HandoffUntouched
  <2> QED BY <1>0, <2>1, <2>2, <2>3, ClaimsKept
<1>4. CASE RecoverPut(p)
  <2>1. UNCHANGED <<hAge, hmsg, claimAge, delivered>> /\ hpc[p] = "idle" /\ claimed[p] \in Exec
    BY <1>0, <1>4, RecoverPutSteps
  <2>2. \A j \in Job : ReviewKept(j)
    <3>1. CASE \E g \in 0..StaleAfter : PutEffect(claimed[p], "pending", "none", "not_needed", g)
      BY <1>0, <2>1, <3>1, PutKeepsReview DEF NewReview
    <3>2. CASE \E review \in {"pending", "invalid"} : PutEffect(claimed[p], "error", "none", review, 0)
      BY <1>0, <2>1, <3>2, PutKeepsReview DEF NewReview
    <3> QED BY <1>0, <1>4, <3>1, <3>2, RecoverPutSteps
  <2>3. /\ hpc' = hpc \/ hpc' = [hpc EXCEPT ![p] = "claim"]
        /\ hjob' = hjob \/ hjob' = [hjob EXCEPT ![p] = JobOf(claimed[p])]
    BY <1>0, <1>4, RecoverPutSteps
  <2>4. \A x \in Actor : x # p => hpc'[x] = hpc[x] /\ (x \in Proc => hjob'[x] = hjob[x])
    BY <1>0, <2>3
  <2>5. hpc'[p] \in {"idle", "claim"}
    BY <1>0, <2>1, <2>3
  <2>6. \A x \in Actor : HandoffKept(x)
    BY <2>1, <2>4, <2>5 DEF HandoffKept, JobOfActor
  <2> QED BY <1>0, <2>1, <2>2, <2>6, ClaimsKept
<1> QED BY <1>1, <1>2, <1>3, <1>4 DEF Recover

LEMMA EnvironmentClaims ==
  ASSUME LifeInv, TypeInv', Claims,
         NEW p \in Proc, NEW B \in SUBSET Job, Enqueue(p, B) \/ Shutdown(p) \/ Crash(p)
  PROVE  Claims' /\ (\A j \in Job : ReviewKept(j)) /\ (\A x \in Actor : HandoffKept(x))
<1>0. TypeInv
  BY DEF LifeInv
<1>1. CASE Enqueue(p, B)
  <2>1. UNCHANGED <<hpc, hAge, hmsg, claimAge, hjob, delivered>>
    BY <1>1 DEF Enqueue, handoffVars, outVars
  <2> QED BY <1>0, <1>1, <2>1, EnqueueKeepsReview, HandoffUntouched, ClaimsKept
<1>2. CASE Shutdown(p)
  <2>1. UNCHANGED <<rec, hpc, hAge, hmsg, claimAge, hjob, delivered>>
    BY <1>2 DEF Shutdown, storeVars, handoffVars, outVars
  <2> QED BY <1>0, <2>1, SameKeepsReview, HandoffUntouched, ClaimsKept
<1>3. CASE Crash(p)
  <2>1. UNCHANGED <<rec, claimAge, hjob, delivered>>
    BY <1>3 DEF Crash, storeVars, outVars
  <2>2. \A x \in Actor : \/ hpc'[x] = "idle"
                         \/ hpc'[x] = hpc[x] /\ hAge'[x] = hAge[x] /\ hmsg'[x] = hmsg[x]
    BY <1>3 DEF Crash
  <2>3. \A x \in Actor : HandoffKept(x)
    BY <2>1, <2>2 DEF HandoffKept, JobOfActor
  <2> QED BY <1>0, <2>1, <2>3, SameKeepsReview, ClaimsKept
<1> QED BY <1>1, <1>2, <1>3

LEMMA TickClaims ==
  ASSUME LifeInv, TypeInv', Claims, Tick
  PROVE  Claims' /\ (\A j \in Job : ReviewKept(j)) /\ (\A x \in Actor : HandoffKept(x))
<1>1. TypeInv /\ UNCHANGED <<rec, hpc, hmsg, hjob, delivered>>
  BY DEF LifeInv, Tick, outVars
<1>2. ASSUME NEW x \in Actor, hpc[x] = "publish" PROVE HandoffKept(x)
  <2>1. PICK j \in Job : j = JobOfActor(x) /\ j = JobOfActor(x)'
    BY <1>1, <1>2, ActorJob DEF JobOfActor
  <2>2. hAge[x] \in 0..LeaseFor /\ claimAge[j] \in 0..LeaseFor /\ LeaseFor \in Nat
    BY <1>1, PageCheckAssumption DEF TypeInv, TypeOK, StoreType, HandoffType
  <2>3. hAge'[x] = Older(hAge[x], LeaseFor)
    BY <1>2 DEF Tick
  <2>4. claimAge'[j] = claimAge[j] \/ claimAge'[j] = Older(claimAge[j], LeaseFor)
    BY DEF Tick
  <2>5. hAge[x] = LeaseFor => hAge'[x] = LeaseFor
    BY <2>2, <2>3 DEF Older
  <2>6. claimAge[j] <= hAge[x] => claimAge'[j] <= hAge'[x]
    BY <2>2, <2>3, <2>4 DEF Older
  <2> QED BY <1>1, <2>1, <2>5, <2>6 DEF HandoffKept
<1>3. ASSUME NEW x \in Actor, hpc[x] # "publish" PROVE HandoffKept(x)
  BY <1>1, <1>3 DEF HandoffKept, JobOfActor
<1>4. \A x \in Actor : HandoffKept(x)
  BY <1>2, <1>3
<1> QED BY <1>1, <1>4, SameKeepsReview, ClaimsKept

\* A claim: the new holder has the stored event, and whoever held the claim before
\* let its whole lease pass.
LEMMA HandoffClaimClaims ==
  ASSUME LifeInv, TypeInv', Claims, NEW x \in Actor, HandoffClaim(x)
  PROVE  Claims'
<1>0. /\ TypeInv /\ hpc[x] = "claim"
      /\ hpc \in [Actor -> {"idle", "claim", "publish", "queued", "failed"}]
      /\ hmsg \in [Actor -> Token \cup {None}] /\ hAge \in [Actor -> 0..LeaseFor]
      /\ UNCHANGED <<hjob, delivered>>
  BY DEF LifeInv, TypeInv, TypeOK, HandoffType, HandoffClaim, outVars
<1>1. PICK j \in Job : j = JobOfActor(x) /\ j = JobOfActor(x)'
  BY <1>0, ActorJob DEF JobOfActor
<1>2. \A y \in Actor : y # x => hpc'[y] = hpc[y] /\ hmsg'[y] = hmsg[y] /\ hAge'[y] = hAge[y]
                                /\ JobOfActor(y)' = JobOfActor(y)
  BY <1>0, HandoffClaimSteps DEF JobOfActor
<1>3. CASE UNCHANGED <<rec, claimAge>>
  <2>1. hpc'[x] = "idle" \/ Took(x, j)
    BY <1>0, <1>1, HandoffClaimSteps
  <2>2. CASE hpc'[x] = "idle"
    <3>1. \A y \in Actor : HandoffKept(y)
      BY <1>2, <1>3, <2>2 DEF HandoffKept
    <3> QED BY <1>0, <1>3, <3>1, SameKeepsReview, ClaimsKept
  <2>3. CASE hpc'[x] # "idle"
    <3>1. Took(x, j) /\ hpc'[x] = "publish" /\ hmsg'[x] = rec[j].msg /\ hAge' = hAge
      BY <1>0, <1>1, <2>3, HandoffClaimSteps
    <3>2. rec'[j] # None /\ rec'[j].review = "publishing" /\ rec'[j].claim = x
          /\ rec'[j].msg = rec[j].msg /\ claimAge'[j] = hAge[x]
      BY <1>0, <3>1, TookChanges DEF HandedOver
    <3>3. hAge[x] \in Nat
      BY <1>0, PageCheckAssumption
    <3>4. ClaimIsTrue(x)'
      BY <1>1, <3>1, <3>2, <3>3 DEF ClaimIsTrue, Holds, FinishAllowed
    <3>5. ASSUME NEW y \in Actor, y # x PROVE ClaimIsTrue(y)'
      BY <1>0, <1>2, <1>3, <3>5 DEF Claims, ClaimIsTrue, Holds, FinishAllowed
    <3>6. QueuedMeansDelivered'
      BY <1>0, <1>3 DEF Claims, QueuedMeansDelivered
    <3> QED BY <3>4, <3>5, <3>6 DEF Claims
  <2> QED BY <2>2, <2>3
<1>4. CASE Took(x, j)
  <2>1. /\ HandedOver(j) /\ rec'[j].review = "publishing" /\ rec'[j].claim = x
        /\ \A k \in Job : k # j => rec'[k] = rec[k] /\ claimAge'[k] = claimAge[k]
        /\ claimAge'[j] = hAge[x] /\ Claimable(j)
    BY <1>0, <1>4, TookChanges
  <2>2. QueuedMeansDelivered'
    BY <1>0, <2>1 DEF Claims, QueuedMeansDelivered
  <2>3. ClaimIsTrue(x)'
    <3>1. CASE hpc'[x] = "idle"
      BY <3>1 DEF ClaimIsTrue
    <3>2. CASE hpc'[x] = "publish" /\ hmsg'[x] = rec[j].msg /\ hAge'[x] = hAge[x]
      <4>1. hAge[x] \in Nat
        BY <1>0, PageCheckAssumption
      <4> QED BY <1>1, <2>1, <3>2, <4>1 DEF ClaimIsTrue, Holds, FinishAllowed, HandedOver
    <3>3. \/ hpc' = [hpc EXCEPT ![x] = "publish"] /\ hmsg' = [hmsg EXCEPT ![x] = rec[j].msg] /\ hAge' = hAge
          \/ hpc' = [hpc EXCEPT ![x] = "idle"]
      BY <1>0, <1>1, HandoffClaimSteps
    <3>4. \/ hpc'[x] = "publish" /\ hmsg'[x] = rec[j].msg /\ hAge'[x] = hAge[x]
          \/ hpc'[x] = "idle"
      BY <1>0, <3>3
    <3> QED BY <3>1, <3>2, <3>4
  <2>4. ASSUME NEW y \in Actor, y # x, hpc[y] \in {"publish", "queued"} PROVE ClaimIsTrue(y)'
    <3>1. PICK k \in Job : k = JobOfActor(y) /\ k = JobOfActor(y)'
      BY <1>0, <1>2, <2>4, ActorJob
    <3>2. CASE k # j
      BY <1>0, <1>2, <2>1, <2>4, <3>1, <3>2 DEF Claims, ClaimIsTrue, Holds, FinishAllowed
    <3>3. CASE k = j
      <4>1. ~Holds(y)'
        BY <2>1, <2>4, <3>1, <3>3 DEF Holds, FinishAllowed
      <4>2. hpc[y] = "publish" /\ Holds(y) /\ claimAge[k] <= hAge[y] => hAge[y] = LeaseFor
        <5> SUFFICES ASSUME Holds(y), claimAge[k] <= hAge[y] PROVE hAge[y] = LeaseFor
          OBVIOUS
        <5>1. rec[k].review = "publishing"
          BY <3>1 DEF Holds, FinishAllowed
        <5>2. claimAge[k] = LeaseFor
          BY <2>1, <3>3, <5>1 DEF Claimable, Waiting
        <5> QED BY <1>0, <5>2, PageCheckAssumption
      <4>3. hpc[y] = "publish" => hAge[y] = LeaseFor
        BY <3>1, <4>2 DEF Claims, ClaimIsTrue
      <4> QED BY <1>2, <2>4, <4>1, <4>3 DEF ClaimIsTrue
    <3> QED BY <3>2, <3>3
  <2>5. ASSUME NEW y \in Actor, y # x, hpc[y] \notin {"publish", "queued"} PROVE ClaimIsTrue(y)'
    BY <1>2, <2>5 DEF ClaimIsTrue
  <2> QED BY <2>2, <2>3, <2>4, <2>5 DEF Claims
<1> QED BY <1>0, <1>1, <1>3, <1>4, HandoffClaimSteps

LEMMA HandoffPublishClaims ==
  ASSUME LifeInv, Claims, NEW x \in Actor, HandoffPublish(x)
  PROVE  Claims'
<1>0. /\ TypeInv /\ hpc[x] = "publish"
      /\ hpc \in [Actor -> {"idle", "claim", "publish", "queued", "failed"}]
      /\ hmsg \in [Actor -> Token \cup {None}] /\ hAge \in [Actor -> 0..LeaseFor]
      /\ UNCHANGED <<rec, claimAge, hjob>> /\ delivered \subseteq delivered'
  BY DEF LifeInv, TypeInv, TypeOK, HandoffType, HandoffPublish, storeVars
<1>1. \A y \in Actor : y # x => hpc'[y] = hpc[y] /\ hmsg'[y] = hmsg[y] /\ hAge'[y] = hAge[y]
  BY <1>0 DEF HandoffPublish, HandoffGoto
<1>2. \A y \in Actor : JobOfActor(y)' = JobOfActor(y) /\ (Holds(y)' <=> Holds(y))
  BY <1>0 DEF JobOfActor, Holds, FinishAllowed
<1>3. QueuedMeansDelivered'
  BY <1>0 DEF Claims, QueuedMeansDelivered
<1>4. \/ hpc'[x] = "queued" /\ Event(x) \in delivered'
      \/ hpc'[x] = "failed"
  BY <1>0 DEF HandoffPublish, HandoffGoto
<1>5. ClaimIsTrue(x)'
  BY <1>0, <1>2, <1>4 DEF Claims, ClaimIsTrue, Event
<1>6. ASSUME NEW y \in Actor, y # x PROVE ClaimIsTrue(y)'
  BY <1>0, <1>1, <1>2, <1>6 DEF Claims, ClaimIsTrue
<1> QED BY <1>3, <1>5, <1>6 DEF Claims

LEMMA HandoffFinishClaims ==
  ASSUME LifeInv, TypeInv', Claims, NEW x \in Actor, HandoffFinish(x)
  PROVE  Claims'
<1>0. /\ TypeInv /\ hpc[x] \in {"queued", "failed"}
      /\ hpc \in [Actor -> {"idle", "claim", "publish", "queued", "failed"}]
      /\ UNCHANGED <<hjob, hAge, hmsg, delivered>>
  BY DEF LifeInv, TypeInv, TypeOK, HandoffType, HandoffFinish, outVars
<1>1. PICK j \in Job : j = JobOfActor(x) /\ j = JobOfActor(x)'
  BY <1>0, ActorJob DEF JobOfActor
<1>2. hpc'[x] = "idle" /\ \A y \in Actor : y # x => hpc'[y] = hpc[y]
  BY <1>0, HandoffFinishSteps
<1>3. \A y \in Actor : JobOfActor(y)' = JobOfActor(y)
  BY <1>0 DEF JobOfActor
<1>4. CASE UNCHANGED <<rec, claimAge>>
  <2>1. \A y \in Actor : HandoffKept(y)
    BY <1>0, <1>2, <1>3, <1>4 DEF HandoffKept
  <2> QED BY <1>0, <1>4, <2>1, SameKeepsReview, ClaimsKept
<1>5. CASE Finished(x, j)
  <2>1. /\ HandedOver(j) /\ rec'[j].review = hpc[x] /\ rec'[j].claim = None
        /\ \A k \in Job : k # j => rec'[k] = rec[k] /\ claimAge'[k] = claimAge[k]
        /\ FinishAllowed(x, j)
    BY <1>0, <1>5, FinishedChanges
  <2>2. hpc[x] = "queued" => <<j, rec[j].msg>> \in delivered
    BY <1>1, <2>1 DEF Claims, ClaimIsTrue, Holds
  <2>3. QueuedMeansDelivered'
    BY <1>0, <2>1, <2>2 DEF Claims, QueuedMeansDelivered, HandedOver
  <2>4. ASSUME NEW y \in Actor, y # x, hpc[y] \in {"publish", "queued"} PROVE ClaimIsTrue(y)'
    <3>1. PICK k \in Job : k = JobOfActor(y) /\ k = JobOfActor(y)'
      BY <1>0, <1>3, <2>4, ActorJob
    <3>2. CASE k # j
      <4>1. rec'[k] = rec[k] /\ claimAge'[k] = claimAge[k] /\ hpc'[y] = hpc[y]
        BY <1>2, <2>1, <2>4, <3>2
      <4>2. Holds(y)' <=> Holds(y)
        BY <3>1, <4>1 DEF Holds, FinishAllowed
      <4>3. ClaimIsTrue(y)
        BY DEF Claims
      <4> QED BY <1>0, <3>1, <4>1, <4>2, <4>3 DEF ClaimIsTrue
    <3>3. CASE k = j
      <4>1. ~Holds(y)' /\ ~Holds(y)
        BY <2>1, <2>4, <3>1, <3>3, Distinct DEF Holds, FinishAllowed
      <4> QED BY <1>0, <1>2, <2>4, <4>1 DEF Claims, ClaimIsTrue
    <3> QED BY <3>2, <3>3
  <2>5. ASSUME NEW y \in Actor, y = x \/ hpc[y] \notin {"publish", "queued"} PROVE ClaimIsTrue(y)'
    BY <1>2, <2>5 DEF ClaimIsTrue
  <2> QED BY <2>3, <2>4, <2>5 DEF Claims
<1> QED BY <1>0, <1>1, <1>4, <1>5, HandoffFinishSteps

\* The claims stay true, and a step that touches the review of a job is a handoff.
LEMMA ClaimStep ==
  ASSUME LifeInv, Claims, [Next]_vars
  PROVE  Claims' /\ \A j \in Job : ReviewKept(j) \/ HandedOver(j)
<1>0. TypeInv /\ TypeInv'
  BY TypeStep DEF LifeInv
<1>1. ASSUME NEW p \in Proc, NEW B \in (SUBSET Job) \ {{}}, Enqueue(p, B)
      PROVE  Claims' /\ \A j \in Job : ReviewKept(j)
  BY <1>0, <1>1, EnvironmentClaims
<1>2. ASSUME NEW e \in Exec, Work(e) \/ Progress(e) PROVE Claims' /\ \A j \in Job : ReviewKept(j)
  BY <1>0, <1>2, WorkClaims
<1>3. ASSUME NEW x \in Actor, Publish(x)
      PROVE  Claims' /\ \A j \in Job : ReviewKept(j) \/ HandedOver(j)
  <2>1. Claims'
    BY <1>0, <1>3, HandoffClaimClaims, HandoffPublishClaims, HandoffFinishClaims DEF Publish
  <2>2. \A j \in Job : rec'[j] = rec[j] \/ HandedOver(j)
    BY <1>0, <1>3, HandoffChanges
  <2>3. \A j \in Job : rec'[j] = rec[j] => ReviewKept(j)
    BY DEF ReviewKept
  <2> QED BY <2>1, <2>2, <2>3
<1>4. ASSUME NEW p \in Proc, Recover(p) PROVE Claims' /\ \A j \in Job : ReviewKept(j)
  BY <1>0, <1>4, RecoverClaims
<1>5. ASSUME NEW p \in Proc, Shutdown(p) \/ Crash(p) PROVE Claims' /\ \A j \in Job : ReviewKept(j)
  <2>1. {} \in SUBSET Job
    OBVIOUS
  <2> QED BY <1>0, <1>5, <2>1, EnvironmentClaims
<1>6. CASE Tick
  BY <1>0, <1>6, TickClaims
<1>7. CASE UNCHANGED vars
  <2>1. UNCHANGED <<rec, hpc, hAge, hmsg, claimAge, hjob, delivered>>
    BY <1>7 DEF vars, storeVars, handoffVars, outVars
  <2> QED BY <1>0, <2>1, SameKeepsReview, HandoffUntouched, ClaimsKept
<1> QED BY <1>1, <1>2, <1>3, <1>4, <1>5, <1>6, <1>7 DEF Next

-----------------------------------------------------------------------------
(* The fence around a push *)

\* Time stamps that a scan saw are still there; and a pushing worker keeps its guard,
\* its job and the stamp it put there, or stalled for the whole timeout.
StampsKept ==
  \A p \in Proc : \A j \in seen'[p] :
    /\ j \in seen[p] /\ Created(j)'
    /\ Active(rec'[j]) => Active(rec[j]) /\ updAge'[j] = updAge[j]

GuardKept(e) ==
  wpc'[e] = "push" =>
    /\ wpc[e] = "push" /\ guardAge'[e] = guardAge[e]
    /\ \/ guardAge[e] = StaleAfter \/ ~TouchAllowed(e)
       \/ TouchAllowed(e)' /\ updAge'[JobOf(e)] = updAge[JobOf(e)]

LEMMA FencesKept ==
  ASSUME Fences, StampsKept, \A e \in Exec : GuardKept(e)
  PROVE  Fences'
<1>1. SeenIsStale'
  BY DEF Fences, SeenIsStale, StampsKept
<1>2. PushFence'
  BY DEF Fences, PushFence, GuardKept
<1> QED BY <1>1, <1>2 DEF Fences

LEMMA CreatedStays ==
  ASSUME TypeInv, \A e \in Exec : wpc[e] # "none" => wpc'[e] # "none"
  PROVE  \A j \in Job : Created(j) => Created(j)'
BY Distinct DEF Created, Exec

\* Nobody but a reclaim or another execution's put touches what a guard relies on.
LEMMA PutKeepsGuards ==
  ASSUME LifeInv, NEW e \in Exec, NEW status, NEW out, NEW review, NEW g,
         PutEffect(e, status, out, review, g), Subdued, Fences,
         wpc'[e] # "push", guardAge' = guardAge,
         \A d \in Exec : /\ d # e => wpc'[d] = wpc[d] \/ wpc'[d] # "push"
                         /\ wpc[d] # "none" => wpc'[d] # "none"
  PROVE  Fences'
<1>0. /\ TypeInv /\ rec \in [Job -> JobRec \cup {None}] /\ updAge \in [Job -> 0..StaleAfter]
      /\ seen \in [Proc -> SUBSET Job] /\ JobOf(e) \in Job
  BY ExecShape DEF LifeInv, TypeInv, TypeOK, StoreType, RecoveryType
<1>1. \/ NoStore
      \/ PutAllowed(e) /\ \E m \in JobRec : Store(JobOf(e), m, g)
  BY DEF PutEffect
<1>2. \A j \in Job : j # JobOf(e) => rec'[j] = rec[j] /\ updAge'[j] = updAge[j]
  BY <1>0, <1>1 DEF NoStore, Store
<1>3. \A p \in Proc : \A j \in seen'[p] : j \in Job /\ j \in seen[p] /\ updAge'[j] = updAge[j]
  <2>1. CASE NoStore
    BY <1>0, <2>1 DEF NoStore
  <2>2. CASE \E m \in JobRec : Store(JobOf(e), m, g)
    BY <1>0, <1>2, <2>2 DEF Store
  <2> QED BY <1>1, <2>1, <2>2
<1>4. StampsKept
  BY <1>0, <1>3, CreatedStays DEF StampsKept, Subdued, Fences, SeenIsStale
<1>5. ASSUME NEW d \in Exec, wpc'[d] = "push", TouchAllowed(d)
      PROVE  TouchAllowed(d)' /\ updAge'[JobOf(d)] = updAge[JobOf(d)]
  <2>1. d # e
    BY <1>5
  <2>2. CASE JobOf(d) # JobOf(e)
    BY <1>2, <1>5, <2>2, ExecShape DEF TouchAllowed, PutAllowed
  <2>3. CASE JobOf(d) = JobOf(e)
    <3>1. ~PutAllowed(e)
      BY <1>5, <2>1, <2>3, ExecShape DEF TouchAllowed, PutAllowed
    <3>2. NoStore
      BY <1>1, <3>1
    <3> QED BY <1>5, <3>2 DEF NoStore, TouchAllowed, PutAllowed
  <2> QED BY <2>2, <2>3
<1>6. \A d \in Exec : GuardKept(d)
  BY <1>5 DEF GuardKept
<1> QED BY <1>4, <1>6, FencesKept

\* A step that writes no time stamp.
LEMMA QuietFences ==
  ASSUME LifeInv, Fences, \A j \in Job : rec'[j] = rec[j] \/ HandedOver(j),
         UNCHANGED updAge, \A p \in Proc : seen'[p] \subseteq seen[p],
         \A e \in Exec : /\ wpc'[e] = "push" => wpc[e] = "push" /\ guardAge'[e] = guardAge[e]
                         /\ wpc[e] # "none" => wpc'[e] # "none"
  PROVE  Fences'
<1>0. TypeInv /\ seen \in [Proc -> SUBSET Job]
  BY DEF LifeInv, TypeInv, TypeOK, RecoveryType
<1>1. \A j \in Job : Active(rec'[j]) <=> Active(rec[j])
  BY DEF HandedOver, Active
<1>2. StampsKept
  BY <1>0, <1>1, CreatedStays DEF StampsKept, Fences, SeenIsStale
<1>3. \A e \in Exec : TouchAllowed(e) => TouchAllowed(e)'
  BY <1>1, ExecShape DEF TouchAllowed, PutAllowed, HandedOver
<1>4. \A e \in Exec : GuardKept(e)
  BY <1>3 DEF GuardKept
<1> QED BY <1>2, <1>4, FencesKept

LEMMA GuardFences ==
  ASSUME LifeInv, Fences, NEW e \in Exec, Guard(e)
  PROVE  Fences'
<1>0. /\ TypeInv /\ UNCHANGED rec /\ updAge \in [Job -> 0..StaleAfter]
      /\ seen \in [Proc -> SUBSET Job] /\ JobOf(e) \in Job /\ wpc[e] = "guard"
      /\ wpc \in [Exec -> WorkPc] /\ guardAge \in [Exec -> 0..StaleAfter]
  BY ExecShape, GuardTyped DEF LifeInv, TypeInv, TypeOK, StoreType, WorkType, RecoveryType, Guard
<1>1. \/ NoStore
      \/ TouchAllowed(e) /\ Store(JobOf(e), rec[JobOf(e)], guardAge[e])
  BY DEF Guard, Touch
<1>2. \A j \in Job : j # JobOf(e) => updAge'[j] = updAge[j]
  BY <1>0, <1>1 DEF NoStore, Store
<1>3. \A p \in Proc : \A j \in seen'[p] : j \in Job /\ j \in seen[p] /\ updAge'[j] = updAge[j]
  BY <1>0, <1>1, <1>2 DEF NoStore, Store
<1>4. \A d \in Exec : /\ d # e => wpc'[d] = wpc[d] /\ guardAge'[d] = guardAge[d]
                      /\ wpc[d] # "none" => wpc'[d] # "none"
  BY <1>0 DEF Guard, Goto
<1>5. \A j \in Job : Created(j) => Created(j)'
  BY <1>0, <1>4, CreatedStays
<1>6. SeenIsStale'
  BY <1>0, <1>3, <1>5 DEF Fences, SeenIsStale
<1>7. ASSUME wpc'[e] = "push"
      PROVE  TouchAllowed(e)' /\ guardAge'[e] = guardAge[e] /\ updAge'[JobOf(e)] = guardAge[e]
  <2>1. TouchAllowed(e) /\ Touch(e, guardAge[e]) /\ guardAge' = [guardAge EXCEPT ![e] = guardAge[e]]
    BY <1>0, <1>7 DEF Guard, Goto
  <2>2. updAge'[JobOf(e)] = guardAge[e]
    BY <1>0, <2>1 DEF Touch, Store
  <2> QED BY <1>0, <2>1, <2>2 DEF TouchAllowed, PutAllowed
<1>8. ASSUME NEW d \in Exec, d # e, wpc'[d] = "push"
      PROVE  guardAge'[d] = StaleAfter \/ (TouchAllowed(d)' /\ updAge'[JobOf(d)] <= guardAge'[d])
  <2>1. wpc[d] = "push" /\ guardAge'[d] = guardAge[d]
    BY <1>4, <1>8
  <2>2. guardAge[d] = StaleAfter \/ (TouchAllowed(d) /\ updAge[JobOf(d)] <= guardAge[d])
    BY <2>1 DEF Fences, PushFence
  <2>3. TouchAllowed(d) => TouchAllowed(d)'
    BY <1>0 DEF TouchAllowed, PutAllowed
  <2>4. TouchAllowed(d) => updAge'[JobOf(d)] = updAge[JobOf(d)]
    <3>1. CASE JobOf(d) # JobOf(e)
      BY <1>2, <3>1, ExecShape
    <3>2. CASE JobOf(d) = JobOf(e)
      BY <1>1, <1>8, <3>2, ExecShape DEF TouchAllowed, PutAllowed, NoStore
    <3> QED BY <3>1, <3>2
  <2> QED BY <2>1, <2>2, <2>3, <2>4
<1>9. PushFence'
  <2> SUFFICES ASSUME NEW d \in Exec, wpc'[d] = "push"
               PROVE  guardAge'[d] = StaleAfter \/ (TouchAllowed(d)' /\ updAge'[JobOf(d)] <= guardAge'[d])
    BY DEF PushFence
  <2>1. CASE d = e
    <3>1. guardAge[e] \in Nat
      BY <1>0, PageCheckAssumption
    <3> QED BY <1>7, <2>1, <3>1
  <2>2. CASE d # e
    BY <1>8, <2>2
  <2> QED BY <2>1, <2>2
<1> QED BY <1>6, <1>9 DEF Fences

LEMMA WorkFences ==
  ASSUME LifeInv, LifeInv', Fences, Subdued, NEW e \in Exec, Work(e) \/ Progress(e)
  PROVE  Fences'
<1>0. TypeInv /\ wpc \in [Exec -> WorkPc] /\ guardAge \in [Exec -> 0..StaleAfter]
  BY DEF LifeInv, TypeInv, TypeOK, WorkType
<1>1. CASE Start(e) \/ Progress(e) \/ Confirm(e)
  <2>1. PutEffect(e, "running", wout[e], "not_needed", 0) /\ guardAge' = guardAge
    BY <1>0, <1>1, RunningPutHasEffect DEF Start, Progress, Confirm, RunningPut
  <2>2. \E w \in {"check", "final", "fail", "end"} : wpc' = [wpc EXCEPT ![e] = w]
    BY <1>1 DEF Start, Progress, Confirm, RunningPut, Goto
  <2>3. wpc'[e] # "push" /\ \A d \in Exec : /\ d # e => wpc'[d] = wpc[d]
                                            /\ wpc[d] # "none" => wpc'[d] # "none"
    BY <1>0, <2>2
  <2> QED BY <2>1, <2>3, PutKeepsGuards
<1>2. CASE Verdict(e) \/ Push(e)
  <2>1. UNCHANGED <<rec, updAge, seen>>
    BY <1>2 DEF Verdict, Push, storeVars, recVars
  <2>2. \A d \in Exec : d # e => wpc'[d] = wpc[d] /\ guardAge'[d] = guardAge[d]
    BY <1>0, <1>2 DEF Verdict, Push, Goto
  <2>3. wpc'[e] \in {"final", "guard", "confirm"}
    BY <1>0, <1>2 DEF Verdict, Push, Goto
  <2> QED BY <2>1, <2>2, <2>3, QuietFences
<1>3. CASE Guard(e)
  BY <1>3, GuardFences
<1>4. CASE Final(e)
  <2>1. PICK review : PutEffect(e, "done", wout[e], review, 0)
    BY <1>0, <1>4, FinalTyped
  <2>2. guardAge' = guardAge /\ \E w \in {"fail", "end"} : wpc' = [wpc EXCEPT ![e] = w]
    BY <1>4 DEF Final, Goto
  <2>3. wpc'[e] # "push" /\ \A d \in Exec : /\ d # e => wpc'[d] = wpc[d]
                                            /\ wpc[d] # "none" => wpc'[d] # "none"
    BY <1>0, <2>2
  <2> QED BY <2>1, <2>2, <2>3, PutKeepsGuards
<1>5. CASE Fail(e)
  <2>1. PICK review : PutEffect(e, "error", wout[e], review, 0)
    BY <1>0, <1>5, FailTyped
  <2>2. guardAge' = guardAge
    BY <1>5 DEF Fail
  <2>3. wpc'[e] # "push" /\ \A d \in Exec : /\ d # e => wpc'[d] = wpc[d] \/ wpc'[d] # "push"
                                            /\ wpc[d] # "none" => wpc'[d] # "none"
    BY <1>0, <1>5, FailEnds
  <2> QED BY <2>1, <2>2, <2>3, PutKeepsGuards
<1> QED BY <1>1, <1>2, <1>3, <1>4, <1>5 DEF Work

\* Recovery takes over only a job whose stamp it saw expired and nobody renewed.
LEMMA RecoverClaimFences ==
  ASSUME LifeInv, Fences, NEW p \in Proc, RecoverClaim(p)
  PROVE  Fences'
<1>0. /\ TypeInv /\ UNCHANGED <<wpc, guardAge>> /\ seen \in [Proc -> SUBSET Job]
      /\ guardAge \in [Exec -> 0..StaleAfter] /\ updAge \in [Job -> 0..StaleAfter]
  BY RecoverClaimSteps DEF LifeInv, TypeInv, TypeOK, StoreType, WorkType, RecoveryType
<1>1. CASE NoStore
  BY <1>0, <1>1, QuietFences DEF NoStore
<1>2. ASSUME NEW j \in Job, Reclaimed(p, j) PROVE Fences'
  <2>1. /\ Active(rec[j]) /\ j \in seen[p] /\ seen' = [q \in Proc |-> seen[q] \ {j}]
        /\ \A k \in Job : k # j => rec'[k] = rec[k] /\ updAge'[k] = updAge[k]
    BY <1>0, <1>2, ReclaimChanges
  <2>2. updAge[j] = StaleAfter
    BY <2>1 DEF Fences, SeenIsStale
  <2>3. StampsKept
    BY <1>0, <2>1, CreatedStays DEF StampsKept, Fences, SeenIsStale
  <2>4. ASSUME NEW e \in Exec, wpc[e] = "push", JobOf(e) = j PROVE GuardKept(e)
    <3>1. guardAge[e] = StaleAfter \/ updAge[j] <= guardAge[e]
      BY <2>4 DEF Fences, PushFence
    <3>2. guardAge[e] = StaleAfter
      BY <1>0, <2>2, <3>1, PageCheckAssumption
    <3> QED BY <1>0, <3>2 DEF GuardKept
  <2>5. ASSUME NEW e \in Exec, JobOf(e) # j PROVE GuardKept(e)
    BY <1>0, <2>1, <2>5, ExecShape DEF GuardKept, TouchAllowed, PutAllowed
  <2>6. \A e \in Exec : GuardKept(e)
    BY <1>0, <2>4, <2>5 DEF GuardKept
  <2> QED BY <2>3, <2>6, FencesKept
<1> QED BY <1>0, <1>1, <1>2, RecoverClaimSteps

LEMMA RecoverPutFences ==
  ASSUME LifeInv, Fences, Subdued, NEW p \in Proc, RecoverPut(p)
  PROVE  Fences'
<1>0. TypeInv /\ wpc \in [Exec -> WorkPc] /\ guardAge' = guardAge
  BY RecoverPutSteps DEF LifeInv, TypeInv, TypeOK, WorkType
<1>1. PICK e \in Exec : e = claimed[p]
  BY <1>0, RecoverPutSteps
<1>2. wpc[e] = "none"
  BY <1>1, Distinct DEF LifeInv, Tokens, ClaimTokens
<1>3. \E status, review, g : PutEffect(e, status, "none", review, g)
  BY <1>0, <1>1, RecoverPutSteps
<1>4. wpc' = wpc \/ \E w \in {"queued", "unlaunched"} : wpc' = [wpc EXCEPT ![e] = w]
  BY <1>0, <1>1, RecoverPutSteps
<1>5. wpc'[e] # "push" /\ \A d \in Exec : /\ d # e => wpc'[d] = wpc[d]
                                          /\ wpc[d] # "none" => wpc'[d] # "none"
  BY <1>0, <1>2, <1>4
<1> QED BY <1>0, <1>3, <1>5, PutKeepsGuards

LEMMA EnqueueFences ==
  ASSUME LifeInv, Fences, NEW p \in Proc, NEW B \in SUBSET Job, Enqueue(p, B)
  PROVE  Fences'
<1>0. TypeInv /\ UNCHANGED <<seen, guardAge>> /\ seen \in [Proc -> SUBSET Job]
      /\ \A j \in B : ~Created(j)
  BY DEF LifeInv, TypeInv, TypeOK, RecoveryType, Enqueue, recVars
<1>1. \A e \in Exec : /\ wpc[e] # "none" => wpc'[e] # "none"
                      /\ wpc'[e] = "push" => wpc[e] = "push"
  BY <1>0, EnqueueWork
<1>2. \A j \in Job : Created(j) /\ Active(rec'[j]) => rec'[j] = rec[j] /\ updAge'[j] = updAge[j]
  BY <1>0, EnqueueRecords DEF Active
<1>3. \A j \in Job : Created(j) /\ Active(rec[j]) => rec'[j] = rec[j] /\ updAge'[j] = updAge[j]
  <2> SUFFICES ASSUME NEW j \in Job, Created(j), Active(rec[j])
               PROVE  rec'[j] = rec[j] /\ updAge'[j] = updAge[j]
    OBVIOUS
  <2>1. ~Removable(j) /\ j \notin B
    BY <1>0 DEF Removable, Terminal, Active
  <2> QED BY <1>0, <2>1, EnqueueRecords
<1>4. StampsKept
  BY <1>0, <1>1, <1>2, CreatedStays DEF StampsKept, Fences, SeenIsStale
<1>5. ASSUME NEW e \in Exec, wpc[e] = "push", TouchAllowed(e)
      PROVE  TouchAllowed(e)' /\ updAge'[JobOf(e)] = updAge[JobOf(e)]
  <2>1. Created(JobOf(e)) /\ JobOf(e) \in Job
    BY <1>5, ExecShape DEF LifeInv, Tokens, WorkTokens, Known
  <2> QED BY <1>3, <1>5, <2>1 DEF TouchAllowed, PutAllowed
<1>6. \A e \in Exec : GuardKept(e)
  BY <1>0, <1>1, <1>5 DEF GuardKept
<1> QED BY <1>4, <1>6, FencesKept

LEMMA TickFences ==
  ASSUME LifeInv, Fences, Tick
  PROVE  Fences'
<1>0. /\ UNCHANGED <<rec, wpc, seen>> /\ seen \in [Proc -> SUBSET Job] /\ StaleAfter \in Nat
      /\ guardAge \in [Exec -> 0..StaleAfter] /\ updAge \in [Job -> 0..StaleAfter]
  BY PageCheckAssumption DEF LifeInv, TypeInv, TypeOK, StoreType, WorkType, RecoveryType, Tick
<1>1. \A j \in Job : updAge'[j] = IF Active(rec[j]) THEN Older(updAge[j], StaleAfter) ELSE updAge[j]
  BY DEF Tick
<1>2. \A e \in Exec : wpc[e] = "push" => guardAge'[e] = Older(guardAge[e], StaleAfter)
  BY DEF Tick
<1>3. SeenIsStale'
  <2>1. \A j \in Job : Created(j)' <=> Created(j)
    BY <1>0 DEF Created
  <2>2. Older(StaleAfter, StaleAfter) = StaleAfter
    BY <1>0 DEF Older
  <2>3. ASSUME NEW p \in Proc, NEW j \in seen[p]
        PROVE  Created(j)' /\ (Active(rec[j]) => updAge'[j] = StaleAfter)
    <3>1. j \in Job /\ Created(j) /\ (Active(rec[j]) => updAge[j] = StaleAfter)
      BY <1>0, <2>3 DEF Fences, SeenIsStale
    <3> QED BY <1>1, <2>1, <2>2, <3>1
  <2> QED BY <1>0, <2>3 DEF SeenIsStale
<1>4. ASSUME NEW e \in Exec, wpc'[e] = "push"
      PROVE  guardAge'[e] = StaleAfter \/ (TouchAllowed(e)' /\ updAge'[JobOf(e)] <= guardAge'[e])
  <2>1. /\ JobOf(e) \in Job /\ guardAge[e] \in 0..StaleAfter /\ updAge[JobOf(e)] \in 0..StaleAfter
        /\ guardAge'[e] = Older(guardAge[e], StaleAfter)
    BY <1>0, <1>2, <1>4, ExecShape
  <2>2. CASE guardAge[e] = StaleAfter
    BY <2>1, <2>2 DEF Older
  <2>3. CASE TouchAllowed(e) /\ updAge[JobOf(e)] <= guardAge[e]
    <3>1. TouchAllowed(e)'
      BY <1>0, <2>3 DEF TouchAllowed, PutAllowed
    <3>2. updAge'[JobOf(e)] = Older(updAge[JobOf(e)], StaleAfter)
      BY <1>1, <2>1, <2>3 DEF TouchAllowed
    <3> QED BY <1>0, <2>1, <2>3, <3>1, <3>2 DEF Older
  <2> QED BY <1>0, <1>4, <2>2, <2>3 DEF Fences, PushFence
<1> QED BY <1>3, <1>4 DEF Fences, PushFence

LEMMA RecoverScanFences ==
  ASSUME LifeInv, Fences, NEW p \in Proc, RecoverScan(p)
  PROVE  Fences'
<1>0. /\ UNCHANGED <<rec, updAge, wpc, guardAge>> /\ seen \in [Proc -> SUBSET Job]
      /\ stale \in [Proc -> SUBSET Job]
  BY DEF LifeInv, TypeInv, TypeOK, RecoveryType, RecoverScan, storeVars, workVars
<1>1. /\ seen'[p] = {j \in Job : Active(rec[j]) /\ updAge[j] = StaleAfter}
      /\ \A q \in Proc : q # p => seen'[q] = seen[q]
  BY <1>0 DEF RecoverScan
<1>2. \A j \in Job : /\ Created(j)' <=> Created(j)
                     /\ Active(rec[j]) => Created(j)
  BY <1>0 DEF Created, Active, LifeInv, Tokens, RecordTokens
<1>3. SeenIsStale'
  BY <1>0, <1>1, <1>2 DEF Fences, SeenIsStale
<1>4. PushFence'
  BY <1>0 DEF Fences, PushFence, TouchAllowed, PutAllowed
<1> QED BY <1>3, <1>4 DEF Fences

LEMMA FenceStep ==
  ASSUME LifeInv, Fences, [Next]_vars
  PROVE  Fences'
<1>0. LifeInv' /\ TypeInv
  BY LifeStep DEF LifeInv
<1>1. ASSUME NEW p \in Proc, NEW B \in (SUBSET Job) \ {{}}, Enqueue(p, B) PROVE Fences'
  BY <1>1, EnqueueFences
<1>2. ASSUME NEW e \in Exec, Work(e) \/ Progress(e) PROVE Fences'
  BY <1>0, <1>2, WorkFences, WorkLife DEF LifeInv
<1>3. ASSUME NEW x \in Actor, Publish(x) PROVE Fences'
  BY <1>0, <1>3, HandoffChanges, QuietFences
<1>4. ASSUME NEW p \in Proc, RecoverHandoff(p) PROVE Fences'
  <2>1. UNCHANGED <<rec, updAge, seen, wpc, guardAge>>
    BY <1>4 DEF RecoverHandoff, storeVars, workVars
  <2> QED BY <2>1, QuietFences
<1>5. ASSUME NEW p \in Proc, RecoverPut(p) PROVE Fences'
  BY <1>0, <1>5, RecoverPutFences, RecoverPutLife DEF LifeInv
<1>6. ASSUME NEW p \in Proc, Shutdown(p) PROVE Fences'
  <2>1. UNCHANGED <<rec, updAge, seen, guardAge>> /\ \A e \in Exec : wpc'[e] \in {wpc[e], "end"}
    BY <1>6 DEF Shutdown, storeVars, recVars
  <2> QED BY <2>1, QuietFences
<1>7. ASSUME NEW p \in Proc, Crash(p) PROVE Fences'
  <2>1. /\ UNCHANGED <<rec, updAge>>
        /\ \A e \in Exec : wpc'[e] = "end" \/ (wpc'[e] = wpc[e] /\ guardAge'[e] = guardAge[e])
    BY <1>7 DEF Crash, storeVars
  <2>2. \A q \in Proc : seen'[q] \subseteq seen[q]
    BY <1>0, <1>7 DEF Crash, TypeInv, TypeOK, RecoveryType
  <2> QED BY <2>1, <2>2, QuietFences
<1>8. CASE UNCHANGED vars
  <2>1. UNCHANGED <<rec, updAge, seen, wpc, guardAge>>
    BY <1>8 DEF vars, storeVars, workVars, recVars
  <2> QED BY <2>1, QuietFences
<1> QED BY <1>1, <1>2, <1>3, <1>4, <1>5, <1>6, <1>7, <1>8, RecoverScanFences, RecoverClaimFences,
         TickFences DEF Next, Recover

-----------------------------------------------------------------------------
(* Capacity *)

LEMMA JobSetsAreFinite ==
  ASSUME NEW S \in SUBSET Job
  PROVE  IsFiniteSet(S) /\ Cardinality(S) \in Nat
BY PageCheckAssumption, FS_Subset, FS_CardinalityType

\* The removed jobs are stored ones and the new jobs are not, so the history grows by
\* the batch and shrinks by its excess.
LEMMA EnqueueCapacity ==
  ASSUME LifeInv, NEW p \in Proc, NEW B \in SUBSET Job, Enqueue(p, B)
  PROVE  WithinCapacity'
<1>0. TypeInv /\ \A j \in B : rec[j] = None
  BY DEF LifeInv, Enqueue, Tokens, RecordTokens
<1>1. PICK V \in SUBSET {j \in Job : Removable(j)} :
        /\ Cardinality(V) = Excess(Cardinality(B))
        /\ rec' = [j \in Job |-> IF j \in B THEN NewRec ELSE IF j \in V THEN None ELSE rec[j]]
  BY DEF Enqueue, PutManyBounded
<1>2. NewRec # None /\ \A j \in V : j \in Job /\ rec[j] # None /\ Terminal(rec[j])
  <2>1. NewRec \in JobRec
    BY Distinct DEF NewRec, JobRec, Status, Outcome, Review
  <2>2. \A j \in V : j \in Job /\ Removable(j)
    BY <1>1
  <2> QED BY <2>1, <2>2, Distinct DEF Removable, Terminal
<1>3. V \subseteq Stored /\ B \cap Stored = {}
  BY <1>0, <1>2 DEF Stored
<1>4. Stored' = (Stored \ V) \cup B
  BY <1>1, <1>2 DEF Stored
<1>5. Unfinished' \subseteq Unfinished \cup B
  BY <1>1 DEF Unfinished, Active
<1>6. /\ Stored \in SUBSET Job /\ Unfinished \in SUBSET Job /\ V \in SUBSET Job
      /\ Unfinished' \in SUBSET Job /\ Stored \ V \in SUBSET Job
      /\ Unfinished \cup B \in SUBSET Job
  BY <1>2 DEF Stored, Unfinished
<1>7. Cardinality(Stored') = Cardinality(Stored) - Cardinality(V) + Cardinality(B)
  <2>1. IsFiniteSet(Stored) /\ IsFiniteSet(V) /\ IsFiniteSet(B) /\ IsFiniteSet(Stored \ V)
    BY <1>6, JobSetsAreFinite
  <2>2. Stored \cap V = V /\ (Stored \ V) \cap B = {}
    BY <1>3
  <2>3. Cardinality(Stored \ V) = Cardinality(Stored) - Cardinality(V)
    <3>1. Cardinality(Stored \ V) = Cardinality(Stored) - Cardinality(Stored \cap V)
      BY <2>1, FS_Difference
    <3> QED BY <2>2, <3>1
  <2>4. Cardinality((Stored \ V) \cup B) = Cardinality(Stored \ V) + Cardinality(B) - 0
    BY <2>1, <2>2, FS_Union, FS_EmptySet
  <2>5. Cardinality(Stored \ V) \in Nat /\ Cardinality(B) \in Nat
    BY <1>6, JobSetsAreFinite
  <2> QED BY <1>4, <2>3, <2>4, <2>5
<1>8. Cardinality(Stored') <= MaxKept
  <2>1. Cardinality(Stored) \in Nat /\ Cardinality(B) \in Nat /\ MaxKept \in Nat
    BY <1>6, JobSetsAreFinite, PageCheckAssumption
  <2> QED BY <1>1, <1>7, <2>1 DEF Excess
<1>9. Cardinality(Unfinished') <= MaxUnfinished
  <2>1. Cardinality(Unfinished) + Cardinality(B) <= MaxUnfinished
    BY DEF Enqueue, Admitted
  <2>2. IsFiniteSet(Unfinished) /\ IsFiniteSet(B) /\ IsFiniteSet(Unfinished \cup B)
    BY <1>6, JobSetsAreFinite
  <2>3. Cardinality(Unfinished') <= Cardinality(Unfinished \cup B)
    BY <1>5, <2>2, FS_Subset
  <2>4. Cardinality(Unfinished \cup B)
          = Cardinality(Unfinished) + Cardinality(B) - Cardinality(Unfinished \cap B)
    BY <2>2, FS_Union
  <2>5. /\ Cardinality(Unfinished) \in Nat /\ Cardinality(B) \in Nat
        /\ Cardinality(Unfinished \cap B) \in Nat /\ Cardinality(Unfinished') \in Nat
    BY <1>6, JobSetsAreFinite
  <2> QED BY <2>1, <2>3, <2>4, <2>5, PageCheckAssumption
<1> QED BY <1>8, <1>9 DEF WithinCapacity

LEMMA CapacityStep ==
  ASSUME LifeInv, WithinCapacity, [Next]_vars
  PROVE  WithinCapacity'
<1>1. CASE Subdued
  <2>1. Stored' = Stored
    BY <1>1 DEF Subdued, Stored
  <2>2. Unfinished' \in SUBSET Unfinished /\ Unfinished \in SUBSET Job
    BY <1>1 DEF Subdued, Unfinished
  <2>3. Cardinality(Unfinished') <= Cardinality(Unfinished)
    BY <2>2, JobSetsAreFinite, FS_Subset
  <2>4. Cardinality(Unfinished) \in Nat /\ Cardinality(Unfinished') \in Nat
    BY <2>2, JobSetsAreFinite
  <2> QED BY <2>1, <2>3, <2>4, PageCheckAssumption DEF WithinCapacity
<1>2. CASE \E p \in Proc, B \in SUBSET Job : Enqueue(p, B)
  BY <1>2, EnqueueCapacity
<1> QED BY <1>1, <1>2, LifeStep

-----------------------------------------------------------------------------
(* The theorems *)

CheckInv == LifeInv /\ Verdicts /\ Claims /\ Fences

LEMMA CheckInit == Init => CheckInv /\ WithinCapacity
<1> SUFFICES ASSUME Init PROVE CheckInv /\ WithinCapacity
  OBVIOUS
<1>1. /\ \A j \in Job : rec[j] = None
      /\ \A e \in Exec : wpc[e] = "none" /\ wout[e] = "none"
      /\ \A x \in Actor : hpc[x] = "idle"
      /\ \A p \in Proc : seen[p] = {}
      /\ pushed = {}
  BY DEF Init
<1>2. Verdicts
  BY <1>1 DEF Verdicts, Beliefs, PushesNoted, VerdictsMatchPushes, FailuresAreReviewed, Terminal
<1>3. Claims
  BY <1>1 DEF Claims, ClaimIsTrue, QueuedMeansDelivered
<1>4. Fences
  BY <1>1 DEF Fences, SeenIsStale, PushFence
<1>5. Stored = {} /\ Unfinished = {}
  BY <1>1 DEF Stored, Unfinished, Active
<1>6. WithinCapacity
  BY <1>5, FS_EmptySet, PageCheckAssumption DEF WithinCapacity
<1> QED BY <1>2, <1>3, <1>4, <1>6, LifeInit DEF CheckInv

\* The layered invariant is inductive: no interleaving of executions, handoffs,
\* recoveries, crashes and store errors breaks it.
THEOREM CheckInvariance == Spec => [](CheckInv /\ WithinCapacity)
<1>1. CheckInv /\ WithinCapacity /\ [Next]_vars => (CheckInv /\ WithinCapacity)'
  BY LifeStep, VerdictStep, ClaimStep, FenceStep, CapacityStep DEF CheckInv
<1> QED BY <1>1, CheckInit, PTL DEF Spec

\* Every variable of the page-check jobs keeps the shape the code gives it.
THEOREM ChecksAreTyped == Spec => []TypeOK
<1>1. CheckInv => TypeOK
  BY DEF CheckInv, LifeInv, TypeInv
<1> QED BY <1>1, CheckInvariance, PTL

\* A job that reports a fixed page pushed that fix under its own token, and a finished
\* job whose execution pushed reports it or is reviewed.
THEOREM ChecksReportTheirPushes == Spec => []VerdictsMatchPushes
<1>1. CheckInv => VerdictsMatchPushes
  BY DEF CheckInv, Verdicts
<1> QED BY <1>1, CheckInvariance, PTL

\* Every verdict a human has to look at carries a review event or a build error.
THEOREM FailuresReachReview == Spec => []FailuresAreReviewed
<1>1. CheckInv => FailuresAreReviewed
  BY DEF CheckInv, Verdicts
<1> QED BY <1>1, CheckInvariance, PTL

\* A review event recorded as queued reached RabbitMQ.
THEOREM QueuedEventsWereDelivered == Spec => []QueuedMeansDelivered
<1>1. CheckInv => QueuedMeansDelivered
  BY DEF CheckInv, Claims
<1> QED BY <1>1, CheckInvariance, PTL

\* The Redis hash stays within both limits of the admission script.
THEOREM StoreStaysWithinCapacity == Spec => []WithinCapacity
BY CheckInvariance, PTL

\* An undelivered review event stays, unchanged, until it is queued.
THEOREM EventsSurvive == Spec => EventSurvives
<1>1. CheckInv /\ [Next]_vars =>
        [\A j \in Job : rec[j] # None /\ rec[j].review \in Handoff =>
           /\ rec'[j] # None /\ rec'[j].msg = rec[j].msg
           /\ rec'[j].review \in Handoff \cup {"queued"}]_vars
  BY ClaimStep DEF CheckInv, ReviewKept, HandedOver
<1> QED BY <1>1, CheckInvariance, PTL DEF Spec, EventSurvives

\* A queued review event is never handed off again.
THEOREM QueuedEventsAreFinal == Spec => QueuedIsFinal
<1>1. CheckInv /\ [Next]_vars =>
        [\A j \in Job : rec[j] # None /\ rec[j].review = "queued" =>
           rec'[j] = None \/ (rec'[j].review = "queued" /\ rec'[j].msg = rec[j].msg)]_vars
  BY ClaimStep DEF CheckInv, ReviewKept, HandedOver, Handoff
<1> QED BY <1>1, CheckInvariance, PTL DEF Spec, QueuedIsFinal

\* A finished or removed job never becomes active again.
THEOREM FinishedJobsStayFinished == Spec => FinishedStaysFinished
<1>1. ASSUME LifeInv, [Next]_vars, NEW j \in Job, Created(j), ~Active(rec[j])
      PROVE  ~Active(rec'[j])
  <2>1. CASE Subdued
    BY <1>1, <2>1 DEF Subdued
  <2>2. ASSUME NEW p \in Proc, NEW B \in SUBSET Job, Enqueue(p, B) PROVE ~Active(rec'[j])
    <3>1. j \notin B /\ TypeInv
      BY <1>1, <2>2 DEF Enqueue, LifeInv
    <3> QED BY <1>1, <2>2, <3>1, EnqueueRecords DEF Active
  <2> QED BY <1>1, <2>1, <2>2, LifeStep
<1>2. CheckInv /\ [Next]_vars =>
        [\A j \in Job : Created(j) /\ ~Active(rec[j]) => ~Active(rec'[j])]_vars
  BY <1>1 DEF CheckInv
<1> QED BY <1>2, CheckInvariance, PTL DEF Spec, FinishedStaysFinished

\* Only an execution that still owns its job, or stalled for the whole stale timeout
\* after its guard, pushes a fix.
THEOREM FixesAreFenced == Spec => FixFenced
<1>1. ASSUME CheckInv, [Next]_vars, NEW e \in pushed' \ pushed
      PROVE  TouchAllowed(e) \/ guardAge[e] = StaleAfter
  <2>1. PICK d \in Exec : Push(d)
    <3>1. ASSUME NEW p \in Proc, NEW B \in SUBSET Job, Enqueue(p, B) PROVE FALSE
      BY <1>1, <3>1 DEF Enqueue, outVars
    <3>2. ASSUME NEW d \in Exec, Work(d) \/ Progress(d) PROVE Push(d)
      BY <1>1, <3>2 DEF Work, Start, Progress, Verdict, Guard, Confirm, Final, Fail, RunningPut, outVars
    <3>3. ASSUME NEW x \in Actor, Publish(x) PROVE FALSE
      BY <1>1, <3>3, HandoffChanges DEF CheckInv, LifeInv
    <3>4. ASSUME NEW p \in Proc, Recover(p) \/ Shutdown(p) \/ Crash(p) PROVE FALSE
      BY <1>1, <3>4 DEF Recover, RecoverScan, RecoverHandoff, RecoverClaim, RecoverPut, Shutdown,
         Crash, outVars
    <3>5. CASE Tick \/ UNCHANGED vars
      BY <1>1, <3>5 DEF Tick, vars, outVars
    <3> QED BY <1>1, <3>1, <3>2, <3>3, <3>4, <3>5 DEF Next
  <2>2. e = d /\ wpc[d] = "push"
    BY <1>1, <2>1 DEF Push
  <2> QED BY <1>1, <2>2 DEF CheckInv, Fences, PushFence
<1>2. CheckInv /\ [Next]_vars =>
        [\A e \in pushed' \ pushed : TouchAllowed(e) \/ guardAge[e] = StaleAfter]_vars
  BY <1>1
<1> QED BY <1>2, CheckInvariance, PTL DEF Spec, FixFenced

\* Only the holder of the claim, or a publisher that stalled for the whole lease,
\* publishes a review event.
THEOREM HandoffsAreFenced == Spec => HandoffFenced
<1>1. CheckInv /\ [Next]_vars =>
        [\A x \in Actor : hpc[x] = "publish" /\ hpc'[x] \in {"queued", "failed"} =>
           FinishAllowed(x, JobOfActor(x)) \/ hAge[x] = LeaseFor]_vars
  BY DEF CheckInv, Claims, ClaimIsTrue, Holds
<1> QED BY <1>1, CheckInvariance, PTL DEF Spec, HandoffFenced

-----------------------------------------------------------------------------
(* The store implements Handover *)

\* Whatever RabbitMQ has of a job, and whatever a publisher is about to send, is the
\* job's one event, also when the record is gone.
OneEvent ==
  /\ \A j \in Job, m \in Token : <<j, m>> \in delivered => Created(j) /\ EventOf(j) = m
  /\ \A x \in Actor : hpc[x] = "publish" =>
       Created(JobOfActor(x)) /\ EventOf(JobOfActor(x)) = hmsg[x]

LEMMA SentIsEvent ==
  ASSUME OneEvent, NEW j \in Job
  PROVE  /\ SentOf(j) # {} => SentOf(j) = {EventOf(j)} /\ EventOf(j) \in Token
         /\ \A m \in SentOf(j) : m = EventOf(j)
         /\ rec[j] = None => (EventOf(j) # None => EventOf(j) \in SentOf(j))
<1>1. \A m \in SentOf(j) : m = EventOf(j) /\ m \in Token
  BY DEF OneEvent, SentOf
<1>2. ASSUME rec[j] = None, EventOf(j) # None PROVE EventOf(j) \in SentOf(j)
  BY <1>2 DEF EventOf
<1> QED BY <1>1, <1>2

LEMMA UncreatedHasNone ==
  ASSUME LifeInv, OneEvent, NEW j \in Job, ~Created(j)
  PROVE  rec[j] = None /\ SentOf(j) = {} /\ EventOf(j) = None
<1>1. rec[j] = None
  BY DEF LifeInv, Tokens, RecordTokens
<1>2. SentOf(j) = {}
  BY DEF SentOf, OneEvent
<1> QED BY <1>1, <1>2 DEF EventOf

\* Started executions stay started, so created jobs stay created.
LEMMA StartedStays ==
  ASSUME LifeInv, [Next]_vars
  PROVE  \A j \in Job : Created(j) => Created(j)'
<1>0. TypeInv /\ wpc \in [Exec -> WorkPc]
  BY DEF LifeInv, TypeInv, TypeOK, WorkType
<1> SUFFICES \A d \in Exec : wpc[d] # "none" => wpc'[d] # "none"
  BY <1>0, CreatedStays
<1>1. ASSUME NEW p \in Proc, NEW B, Enqueue(p, B)
      PROVE  \A d \in Exec : wpc[d] # "none" => wpc'[d] # "none"
  BY <1>1 DEF Enqueue
<1>2. ASSUME NEW e \in Exec, \E w : w # "none" /\ wpc' = [wpc EXCEPT ![e] = w]
      PROVE  \A d \in Exec : wpc[d] # "none" => wpc'[d] # "none"
  BY <1>0, <1>2
<1>3. ASSUME NEW e \in Exec, Work(e) \/ Progress(e)
      PROVE  \A d \in Exec : wpc[d] # "none" => wpc'[d] # "none"
  <2>1. CASE Start(e) \/ Progress(e) \/ Confirm(e)
    BY <1>2, <2>1 DEF Start, Progress, Confirm, RunningPut, Goto
  <2>2. CASE Verdict(e) \/ Guard(e) \/ Push(e)
    BY <1>2, <2>2 DEF Verdict, Guard, Push, Goto
  <2>3. CASE Final(e)
    BY <1>2, <2>3 DEF Final, Goto
  <2>4. CASE Fail(e)
    BY <1>0, <2>4, FailEnds
  <2> QED BY <1>3, <2>1, <2>2, <2>3, <2>4 DEF Work
<1>4. ASSUME NEW x \in Actor, Publish(x) PROVE wpc' = wpc
  BY <1>0, <1>4, HandoffChanges
<1>5. ASSUME NEW p \in Proc, Recover(p)
      PROVE  \A d \in Exec : wpc[d] # "none" => wpc'[d] # "none"
  <2>1. CASE RecoverScan(p) \/ RecoverHandoff(p)
    BY <2>1 DEF RecoverScan, RecoverHandoff, workVars
  <2>2. CASE RecoverClaim(p)
    BY <1>0, <2>2, RecoverClaimSteps
  <2>3. CASE RecoverPut(p)
    BY <1>0, <1>2, <2>3, RecoverPutSteps
  <2> QED BY <1>5, <2>1, <2>2, <2>3 DEF Recover
<1>6. ASSUME NEW p \in Proc, Shutdown(p) \/ Crash(p)
      PROVE  \A d \in Exec : wpc[d] # "none" => wpc'[d] # "none"
  BY <1>6 DEF Shutdown, Crash
<1>7. CASE Tick \/ UNCHANGED vars
  BY <1>7 DEF Tick, vars, workVars
<1> QED BY <1>1, <1>3, <1>4, <1>5, <1>6, <1>7 DEF Next

\* Nothing about the event of a job changes.
SameEvent(j) == EventOf(j)' = EventOf(j) /\ (j \in Concluded' <=> j \in Concluded)

LEMMA RecordKeepsEvent ==
  ASSUME NEW j \in Job, delivered' = delivered,
         \/ rec'[j] = rec[j]
         \/ /\ rec[j] # None /\ rec'[j] # None /\ rec'[j].msg = rec[j].msg
            /\ rec'[j].review = "queued" <=> rec[j].review = "queued"
  PROVE  SameEvent(j)
<1>1. SentOf(j)' = SentOf(j)
  BY DEF SentOf
<1>2. CASE rec'[j] = rec[j]
  BY <1>1, <1>2 DEF SameEvent, EventOf, Concluded
<1>3. CASE rec[j] # None /\ rec'[j] # None /\ rec'[j].msg = rec[j].msg
           /\ (rec'[j].review = "queued" <=> rec[j].review = "queued")
  BY <1>3 DEF SameEvent, EventOf, Concluded
<1> QED BY <1>2, <1>3

\* Admission: a job that is removed had no event, or RabbitMQ has it.
LEMMA EnqueueKeepsEvents ==
  ASSUME LifeInv, OneEvent, Claims, NEW p \in Proc, NEW B \in SUBSET Job, Enqueue(p, B)
  PROVE  \A j \in Job : SameEvent(j)
<1>0. /\ TypeInv /\ delivered' = delivered /\ \A j \in B : ~Created(j)
  BY DEF LifeInv, Enqueue, outVars
<1> SUFFICES ASSUME NEW j \in Job PROVE SameEvent(j)
  OBVIOUS
<1>1. SentOf(j)' = SentOf(j)
  BY <1>0 DEF SentOf
<1>2. CASE j \in B /\ rec'[j] = NewRec
  <2>1. rec[j] = None /\ SentOf(j) = {} /\ EventOf(j) = None
    BY <1>0, <1>2, UncreatedHasNone
  <2>2. NewRec # None /\ NewRec.msg = None /\ NewRec.review = "not_needed"
    <3>1. NewRec \in JobRec
      BY Distinct DEF NewRec, JobRec, Status, Outcome, Review, Handoff
    <3> QED BY <3>1, Distinct DEF NewRec
  <2> QED BY <1>2, <2>1, <2>2 DEF SameEvent, EventOf, Concluded
<1>3. CASE Removable(j) /\ rec'[j] = None
  <2>1. /\ rec[j] # None /\ rec[j].review \notin Handoff
        /\ rec[j].msg # None <=> rec[j].review = "queued"
    BY <1>0, <1>3 DEF Removable, Terminal, TypeInv, EventShape
  <2>2. EventOf(j) = rec[j].msg /\ (j \in Concluded <=> rec[j].review = "queued")
    BY <2>1 DEF EventOf, Concluded
  <2>3. CASE rec[j].review = "queued"
    <3>1. <<j, rec[j].msg>> \in delivered /\ rec[j].msg \in Token
      <4>1. rec[j].msg \in Token
        BY <1>0, <2>1, <2>3 DEF TypeInv, TypeOK, StoreType, JobRec
      <4> QED BY <2>1, <2>3, <4>1 DEF Claims, QueuedMeansDelivered
    <3>2. rec[j].msg \in SentOf(j)
      BY <3>1 DEF SentOf
    <3>3. SentOf(j) = {rec[j].msg}
      BY <2>2, <3>2, SentIsEvent
    <3>4. EventOf(j)' = rec[j].msg /\ j \in Concluded'
      BY <1>1, <1>3, <3>3 DEF EventOf, Concluded
    <3> QED BY <2>2, <2>3, <3>4 DEF SameEvent
  <2>4. CASE rec[j].review # "queued"
    <3>1. rec[j].msg = None
      BY <2>1, <2>4
    <3>2. SentOf(j) = {}
      BY <2>2, <3>1, SentIsEvent, Distinct
    <3>3. EventOf(j)' = None /\ j \notin Concluded'
      BY <1>1, <1>3, <3>2 DEF EventOf, Concluded
    <3> QED BY <2>2, <2>4, <3>1, <3>3 DEF SameEvent
  <2> QED BY <2>3, <2>4
<1>4. CASE rec'[j] = rec[j]
  BY <1>0, <1>4, RecordKeepsEvent
<1> QED BY <1>0, <1>2, <1>3, <1>4, EnqueueRecords

\* A put records the first event of its job, or keeps what there is.
NewEvent(j) ==
  /\ EventOf(j) = None /\ EventOf(j)' \in Token
  /\ j \in Concluded' <=> j \in Concluded

LEMMA PutRecordsEvent ==
  ASSUME TypeInv, delivered' = delivered, NEW e \in Exec, NEW status, NEW out,
         NEW review \in NewReview, NEW g, PutEffect(e, status, out, review, g)
  PROVE  \A j \in Job : SameEvent(j) \/ (j = JobOf(e) /\ NewEvent(j))
<1> SUFFICES ASSUME NEW j \in Job PROVE SameEvent(j) \/ (j = JobOf(e) /\ NewEvent(j))
  OBVIOUS
<1>1. CASE rec'[j] = rec[j]
  BY <1>1, RecordKeepsEvent
<1>2. CASE /\ j = JobOf(e) /\ rec[j] # None /\ rec'[j] # None
           /\ MergeOf(rec[j], rec'[j], status, out, review)
  <2>1. rec[j].msg # None <=> rec[j].review \in Handoff \cup {"queued"}
    BY <1>2 DEF TypeInv, EventShape
  <2>2. CASE rec'[j].msg = rec[j].msg
    <3>1. rec'[j].review = "queued" <=> rec[j].review = "queued"
      BY <1>2, <2>1 DEF MergeOf, NewReview
    <3> QED BY <1>2, <2>2, <3>1, RecordKeepsEvent
  <2>3. CASE rec'[j].msg # rec[j].msg
    <3>1. rec[j].msg = None /\ rec'[j].msg \in Token
      BY <1>2, <2>3 DEF MergeOf, JobRec
    <3>2. rec[j].review # "queued" /\ rec'[j].review # "queued"
      BY <1>2, <2>1, <2>3, <3>1 DEF MergeOf, NewReview
    <3> QED BY <1>2, <3>1, <3>2 DEF NewEvent, EventOf, Concluded
  <2> QED BY <2>2, <2>3
<1> QED BY <1>1, <1>2, PutChanges

\* What a step does to events and to publishers: nothing; one event is recorded; a
\* publisher sends its event; or the holder of a claim reports a delivery.
PublisherKept(x) ==
  hpc'[x] = "publish" =>
    hpc[x] = "publish" /\ hmsg'[x] = hmsg[x] /\ JobOfActor(x)' = JobOfActor(x)

EventMove ==
  \/ /\ delivered' = delivered /\ \A x \in Actor : PublisherKept(x)
     /\ \/ \A j \in Job : SameEvent(j)
        \/ \E k \in Job : NewEvent(k) /\ \A j \in Job : j # k => SameEvent(j)
  \/ \E x \in Actor : HandoffClaim(x) \/ HandoffPublish(x) \/ HandoffFinish(x)

LEMMA EventMoves ==
  ASSUME LifeInv, Claims, OneEvent, [Next]_vars
  PROVE  EventMove
<1>0. TypeInv /\ TypeInv'
  BY TypeStep DEF LifeInv
<1>1. \A x \in Actor : HandoffKept(x) => PublisherKept(x)
  BY DEF HandoffKept, PublisherKept
<1>2. ASSUME UNCHANGED <<rec, delivered>> PROVE \A j \in Job : SameEvent(j)
  BY <1>2, RecordKeepsEvent
<1>3. ASSUME delivered' = delivered, NEW e \in Exec, NEW status, NEW out, NEW review \in NewReview,
             NEW g, PutEffect(e, status, out, review, g)
      PROVE  \/ \A j \in Job : SameEvent(j)
             \/ \E k \in Job : NewEvent(k) /\ \A j \in Job : j # k => SameEvent(j)
  <2>1. \A j \in Job : SameEvent(j) \/ (j = JobOf(e) /\ NewEvent(j))
    BY <1>0, <1>3, PutRecordsEvent
  <2>2. JobOf(e) \in Job
    BY ExecShape
  <2> QED BY <2>1, <2>2
<1>4. ASSUME NEW e \in Exec, Work(e) \/ Progress(e) PROVE EventMove
  <2>1. \A x \in Actor : PublisherKept(x)
    BY <1>0, <1>1, <1>4, WorkClaims
  <2>2. delivered' = delivered
    BY <1>4 DEF Work, Start, Progress, Verdict, Guard, Push, Confirm, Final, Fail, RunningPut, outVars
  <2>3. CASE Start(e) \/ Progress(e) \/ Confirm(e)
    <3>1. PutEffect(e, "running", wout[e], "not_needed", 0)
      BY <1>0, <2>3, RunningPutHasEffect DEF Start, Progress, Confirm
    <3>2. "not_needed" \in NewReview
      BY DEF NewReview
    <3> QED BY <1>3, <2>1, <2>2, <3>1, <3>2 DEF EventMove
  <2>4. CASE Verdict(e) \/ Push(e) \/ Guard(e)
    <3>1. UNCHANGED rec
      BY <1>0, <2>4, GuardTyped DEF Verdict, Push, storeVars
    <3> QED BY <1>2, <2>1, <2>2, <3>1 DEF EventMove
  <2>5. CASE Final(e)
    <3>1. \E review \in NewReview : PutEffect(e, "done", wout[e], review, 0)
      BY <1>0, <2>5, FinalTyped, ReviewOfIsNew
    <3> QED BY <1>3, <2>1, <2>2, <3>1 DEF EventMove
  <2>6. CASE Fail(e)
    <3>1. \E review \in NewReview : PutEffect(e, "error", wout[e], review, 0)
      BY <1>0, <2>6, FailTyped DEF NewReview
    <3> QED BY <1>3, <2>1, <2>2, <3>1 DEF EventMove
  <2> QED BY <1>4, <2>3, <2>4, <2>5, <2>6 DEF Work
<1>5. ASSUME NEW p \in Proc, Recover(p) PROVE EventMove
  <2>1. \A x \in Actor : PublisherKept(x)
    BY <1>0, <1>1, <1>5, RecoverClaims
  <2>2. CASE RecoverScan(p) \/ RecoverHandoff(p)
    <3>1. UNCHANGED <<rec, delivered>>
      BY <2>2 DEF RecoverScan, RecoverHandoff, storeVars, outVars
    <3> QED BY <1>2, <2>1, <3>1 DEF EventMove
  <2>3. CASE RecoverClaim(p)
    <3>1. delivered' = delivered /\ (NoStore \/ \E j \in Job : Reclaimed(p, j))
      BY <1>0, <2>3, RecoverClaimSteps
    <3>2. \A j \in Job : SameEvent(j)
      <4>1. ASSUME NEW k \in Job, Reclaimed(p, k) PROVE \A j \in Job : SameEvent(j)
        BY <1>0, <3>1, <4>1, ReclaimChanges, RecordKeepsEvent
      <4> QED BY <1>2, <3>1, <4>1 DEF NoStore
    <3> QED BY <2>1, <3>1, <3>2 DEF EventMove
  <2>4. CASE RecoverPut(p)
    <3>1. delivered' = delivered /\ claimed[p] \in Exec
      BY <1>0, <2>4, RecoverPutSteps
    <3>2. CASE \E g \in 0..StaleAfter : PutEffect(claimed[p], "pending", "none", "not_needed", g)
      <4>1. "not_needed" \in NewReview
        BY DEF NewReview
      <4> QED BY <1>3, <2>1, <3>1, <3>2, <4>1 DEF EventMove
    <3>3. CASE \E review \in {"pending", "invalid"} : PutEffect(claimed[p], "error", "none", review, 0)
      <4>1. \E review \in NewReview : PutEffect(claimed[p], "error", "none", review, 0)
        BY <3>3 DEF NewReview
      <4> QED BY <1>3, <2>1, <3>1, <4>1 DEF EventMove
    <3> QED BY <1>0, <2>4, <3>2, <3>3, RecoverPutSteps
  <2> QED BY <1>5, <2>2, <2>3, <2>4 DEF Recover
<1>6. ASSUME NEW p \in Proc, NEW B \in SUBSET Job, Enqueue(p, B) PROVE EventMove
  <2>1. \A x \in Actor : PublisherKept(x)
    BY <1>0, <1>1, <1>6, EnvironmentClaims
  <2>2. delivered' = delivered
    BY <1>6 DEF Enqueue, outVars
  <2> QED BY <1>6, <2>1, <2>2, EnqueueKeepsEvents DEF EventMove
<1>7. ASSUME NEW p \in Proc, Shutdown(p) \/ Crash(p) PROVE EventMove
  <2>1. {} \in SUBSET Job
    OBVIOUS
  <2>2. \A x \in Actor : PublisherKept(x)
    BY <1>0, <1>1, <1>7, <2>1, EnvironmentClaims
  <2>3. UNCHANGED <<rec, delivered>>
    BY <1>7 DEF Shutdown, Crash, storeVars, outVars
  <2> QED BY <1>2, <2>2, <2>3 DEF EventMove
<1>8. CASE Tick
  <2>1. UNCHANGED <<rec, delivered>>
    BY <1>8 DEF Tick, outVars
  <2> QED BY <1>0, <1>1, <1>2, <1>8, <2>1, TickClaims DEF EventMove
<1>9. CASE UNCHANGED vars
  <2>1. UNCHANGED <<rec, delivered, hpc, hmsg, hjob>>
    BY <1>9 DEF vars, storeVars, handoffVars, outVars
  <2>2. \A x \in Actor : PublisherKept(x)
    BY <2>1 DEF PublisherKept, JobOfActor
  <2> QED BY <1>2, <2>1, <2>2 DEF EventMove
<1>10. ASSUME NEW x \in Actor, Publish(x) PROVE EventMove
  BY <1>10 DEF EventMove, Publish
<1> QED BY <1>4, <1>5, <1>6, <1>7, <1>8, <1>9, <1>10 DEF Next

\* The three steps of a handoff.
LEMMA ClaimMoves ==
  ASSUME TypeInv, NEW x \in Actor, HandoffClaim(x)
  PROVE  /\ delivered' = delivered /\ \A j \in Job : SameEvent(j)
         /\ \A y \in Actor : \/ PublisherKept(y)
                             \/ /\ JobOfActor(y) \in Job /\ rec[JobOfActor(y)] # None
                                /\ JobOfActor(y)' = JobOfActor(y)
                                /\ hmsg'[y] = EventOf(JobOfActor(y))
<1>0. /\ UNCHANGED <<hjob, delivered>> /\ hmsg \in [Actor -> Token \cup {None}]
      /\ hpc \in [Actor -> {"idle", "claim", "publish", "queued", "failed"}]
  BY DEF HandoffClaim, outVars, TypeInv, TypeOK, HandoffType
<1>1. \A y \in Actor : JobOfActor(y)' = JobOfActor(y)
  BY <1>0 DEF JobOfActor
<1>2. JobOfActor(x) \in Job /\ (Took(x, JobOfActor(x)) \/ UNCHANGED rec)
  BY HandoffClaimSteps
<1>3. \A j \in Job : SameEvent(j)
  <2>1. CASE Took(x, JobOfActor(x))
    BY <1>0, <1>2, <2>1, TookChanges, RecordKeepsEvent DEF HandedOver, Handoff
  <2>2. CASE UNCHANGED rec
    BY <1>0, <2>2, RecordKeepsEvent
  <2> QED BY <1>2, <2>1, <2>2
<1>4. \A y \in Actor : y # x => PublisherKept(y)
  BY <1>0, <1>1, HandoffClaimSteps DEF PublisherKept
<1>5. CASE Took(x, JobOfActor(x)) /\ hmsg' = [hmsg EXCEPT ![x] = rec[JobOfActor(x)].msg]
  <2>1. rec[JobOfActor(x)] # None
    BY <1>5 DEF Took, Claimable
  <2>2. hmsg'[x] = EventOf(JobOfActor(x))
    BY <1>0, <1>5, <2>1 DEF EventOf
  <2> QED BY <1>0, <1>1, <1>2, <1>3, <1>4, <2>1, <2>2
<1>6. CASE hpc' = [hpc EXCEPT ![x] = "idle"]
  <2>1. PublisherKept(x)
    BY <1>0, <1>6 DEF PublisherKept
  <2> QED BY <1>0, <1>3, <1>4, <2>1
<1> QED BY <1>5, <1>6, HandoffClaimSteps

LEMMA PublishMoves ==
  ASSUME TypeInv, OneEvent, NEW x \in Actor, HandoffPublish(x)
  PROVE  /\ JobOfActor(x) \in Job /\ Created(JobOfActor(x)) /\ EventOf(JobOfActor(x)) \in Token
         /\ delivered' \in {delivered, delivered \cup {<<JobOfActor(x), EventOf(JobOfActor(x))>>}}
         /\ \A y \in Actor : PublisherKept(y)
         /\ \A j \in Job : SameEvent(j)
<1> DEFINE k == JobOfActor(x)
<1>0. /\ UNCHANGED <<rec, hjob>> /\ hpc[x] = "publish" /\ hmsg \in [Actor -> Token \cup {None}]
      /\ hpc \in [Actor -> {"idle", "claim", "publish", "queued", "failed"}]
      /\ delivered' \in {delivered, delivered \cup {<<k, hmsg[x]>>}}
      /\ hmsg' = [hmsg EXCEPT ![x] = None]
      /\ \E w \in {"queued", "failed"} : hpc' = [hpc EXCEPT ![x] = w]
  BY DEF HandoffPublish, HandoffGoto, Event, storeVars, TypeInv, TypeOK, HandoffType
<1>1. k \in Job /\ Created(k) /\ EventOf(k) = hmsg[x] /\ hmsg[x] \in Token
  BY <1>0, ActorJob DEF OneEvent, TypeInv, PublishShape
<1>2. \A y \in Actor : PublisherKept(y)
  BY <1>0 DEF PublisherKept, JobOfActor
<1>3. ASSUME NEW j \in Job PROVE SameEvent(j)
  <2>1. CASE delivered' = delivered
    BY <1>0, <2>1, RecordKeepsEvent
  <2>2. CASE rec[j] # None
    BY <1>0, <2>2 DEF SameEvent, EventOf, Concluded
  <2>3. CASE rec[j] = None /\ j = k
    <3>1. SentOf(j) = {hmsg[x]}
      BY <1>1, <2>3, SentIsEvent, Distinct
    <3>2. SentOf(j)' = {hmsg[x]}
      BY <1>0, <1>1, <3>1, <2>3 DEF SentOf
    <3> QED BY <1>0, <2>3, <3>1, <3>2 DEF SameEvent, EventOf, Concluded
  <2>4. CASE j # k
    <3>1. SentOf(j)' = SentOf(j)
      BY <1>0, <2>4 DEF SentOf
    <3> QED BY <1>0, <3>1 DEF SameEvent, EventOf, Concluded
  <2> QED BY <1>0, <2>1, <2>2, <2>3, <2>4
<1> QED BY <1>0, <1>1, <1>2, <1>3

LEMMA FinishMoves ==
  ASSUME TypeInv, Claims, NEW x \in Actor, HandoffFinish(x)
  PROVE  /\ delivered' = delivered /\ JobOfActor(x) \in Job
         /\ \A y \in Actor : PublisherKept(y)
         /\ \A j \in Job : EventOf(j)' = EventOf(j)
         /\ \/ \A j \in Job : SameEvent(j)
            \/ /\ <<JobOfActor(x), EventOf(JobOfActor(x))>> \in delivered
               /\ Concluded' = Concluded \cup {JobOfActor(x)}
<1>a. PICK k \in Job : k = JobOfActor(x)
  BY ActorJob DEF HandoffFinish
<1>0. /\ UNCHANGED <<hjob, hmsg, delivered>>
      /\ hpc \in [Actor -> {"idle", "claim", "publish", "queued", "failed"}]
  BY DEF HandoffFinish, outVars, TypeInv, TypeOK, HandoffType
<1>1. /\ k \in Job /\ hpc[x] \in {"queued", "failed"} /\ hpc' = [hpc EXCEPT ![x] = "idle"]
      /\ Finished(x, k) \/ UNCHANGED rec
  BY <1>a, HandoffFinishSteps
<1>2. \A y \in Actor : PublisherKept(y)
  BY <1>0, <1>1 DEF PublisherKept, JobOfActor
<1>3. CASE UNCHANGED rec
  <2>1. \A j \in Job : SameEvent(j)
    BY <1>0, <1>3, RecordKeepsEvent
  <2> QED BY <1>a, <1>0, <1>1, <1>2, <2>1 DEF SameEvent
<1>4. CASE Finished(x, k)
  <2>1. /\ HandedOver(k) /\ rec'[k].review = hpc[x] /\ FinishAllowed(x, k)
        /\ \A j \in Job : j # k => rec'[j] = rec[j]
    BY <1>1, <1>4, FinishedChanges
  <2>2. \A j \in Job : j # k => SameEvent(j)
    BY <1>0, <2>1, RecordKeepsEvent
  <2>3. rec[k] # None /\ rec'[k] # None /\ EventOf(k) = rec[k].msg /\ EventOf(k)' = rec[k].msg
    BY <2>1 DEF HandedOver, EventOf
  <2>4. \A j \in Job : EventOf(j)' = EventOf(j)
    BY <2>2, <2>3 DEF SameEvent
  <2>5. CASE hpc[x] = "queued"
    <3>1. <<k, EventOf(k)>> \in delivered
      BY <1>a, <2>1, <2>3, <2>5 DEF Claims, ClaimIsTrue, Holds
    <3>2. k \in Concluded'
      BY <1>1, <2>1, <2>3, <2>5 DEF Concluded
    <3>3. Concluded' \subseteq Job /\ Concluded \subseteq Job
      BY DEF Concluded
    <3>4. Concluded' = Concluded \cup {k}
      BY <1>1, <2>2, <3>2, <3>3 DEF SameEvent
    <3> QED BY <1>a, <1>0, <1>1, <1>2, <2>4, <3>1, <3>4
  <2>6. CASE hpc[x] = "failed"
    <3>1. rec'[k].review # "queued" /\ rec[k].review # "queued"
      BY <2>1, <2>6 DEF HandedOver, Handoff
    <3>2. SameEvent(k)
      BY <1>0, <1>1, <2>1, <2>3, <3>1, RecordKeepsEvent DEF HandedOver
    <3> QED BY <1>a, <1>0, <1>1, <1>2, <2>2, <2>4, <3>2
  <2> QED BY <1>1, <2>5, <2>6
<1> QED BY <1>1, <1>3, <1>4

\* The events of a job stay one.
LEMMA OneEventKept ==
  ASSUME LifeInv, Claims, OneEvent, [Next]_vars
  PROVE  OneEvent'
<1>0. /\ TypeInv /\ \A j \in Job : Created(j) => Created(j)'
      /\ \A x \in Actor : hpc[x] = "publish" => JobOfActor(x) \in Job /\ hmsg[x] \in Token
  BY StartedStays, ActorJob DEF LifeInv, TypeInv, TypeOK, HandoffType, PublishShape
<1>1. ASSUME \A j \in Job : EventOf(j) # None => EventOf(j)' = EventOf(j),
             \A x \in Actor : PublisherKept(x),
             \A j \in Job, m \in Token : <<j, m>> \in delivered' =>
                <<j, m>> \in delivered \/ (Created(j) /\ EventOf(j) = m)
      PROVE  OneEvent'
  <2>1. ASSUME NEW j \in Job, NEW m \in Token, <<j, m>> \in delivered'
        PROVE  Created(j)' /\ EventOf(j)' = m
    <3>1. Created(j) /\ EventOf(j) = m
      BY <1>1, <2>1 DEF OneEvent
    <3> QED BY <1>0, <1>1, <3>1, Distinct
  <2>2. ASSUME NEW x \in Actor, hpc'[x] = "publish"
        PROVE  Created(JobOfActor(x))' /\ EventOf(JobOfActor(x))' = hmsg'[x]
    <3>1. hpc[x] = "publish" /\ hmsg'[x] = hmsg[x] /\ JobOfActor(x)' = JobOfActor(x)
      BY <1>1, <2>2 DEF PublisherKept
    <3>2. PICK j \in Job : j = JobOfActor(x)
      BY <1>0, <3>1
    <3>3. Created(j) /\ EventOf(j) = hmsg[x] /\ hmsg[x] # None
      BY <1>0, <3>1, <3>2, Distinct DEF OneEvent
    <3>4. Created(j)' /\ EventOf(j)' = hmsg'[x]
      BY <1>0, <1>1, <3>1, <3>3
    <3> QED BY <3>1, <3>2, <3>4
  <2> QED BY <2>1, <2>2 DEF OneEvent
<1>2. CASE /\ delivered' = delivered /\ \A x \in Actor : PublisherKept(x)
           /\ \/ \A j \in Job : SameEvent(j)
              \/ \E k \in Job : NewEvent(k) /\ \A j \in Job : j # k => SameEvent(j)
  BY <1>1, <1>2 DEF SameEvent, NewEvent
<1>3. ASSUME NEW x \in Actor, HandoffPublish(x) PROVE OneEvent'
  <2>1. \A j \in Job : EventOf(j)' = EventOf(j)
    BY <1>0, <1>3, PublishMoves DEF SameEvent
  <2>2. \A j \in Job, m \in Token : <<j, m>> \in delivered' =>
          <<j, m>> \in delivered \/ (Created(j) /\ EventOf(j) = m)
    BY <1>0, <1>3, PublishMoves
  <2> QED BY <1>0, <1>1, <1>3, <2>1, <2>2, PublishMoves
<1>4. ASSUME NEW x \in Actor, HandoffFinish(x) PROVE OneEvent'
  BY <1>0, <1>1, <1>4, FinishMoves
<1>5. ASSUME NEW x \in Actor, HandoffClaim(x) PROVE OneEvent'
  <2>1. /\ delivered' = delivered /\ \A j \in Job : EventOf(j)' = EventOf(j)
    BY <1>0, <1>5, ClaimMoves DEF SameEvent
  <2>2. ASSUME NEW j \in Job, NEW m \in Token, <<j, m>> \in delivered'
        PROVE  Created(j)' /\ EventOf(j)' = m
    BY <1>0, <2>1, <2>2 DEF OneEvent
  <2>3. ASSUME NEW y \in Actor, hpc'[y] = "publish"
        PROVE  Created(JobOfActor(y))' /\ EventOf(JobOfActor(y))' = hmsg'[y]
    <3>1. CASE PublisherKept(y)
      <4>1. hpc[y] = "publish" /\ hmsg'[y] = hmsg[y] /\ JobOfActor(y)' = JobOfActor(y)
        BY <2>3, <3>1 DEF PublisherKept
      <4>2. PICK j \in Job : j = JobOfActor(y)
        BY <1>0, <4>1
      <4>3. Created(j)' /\ EventOf(j)' = hmsg'[y]
        BY <1>0, <2>1, <4>1, <4>2 DEF OneEvent
      <4> QED BY <4>1, <4>2, <4>3
    <3>2. CASE /\ JobOfActor(y) \in Job /\ rec[JobOfActor(y)] # None
               /\ JobOfActor(y)' = JobOfActor(y) /\ hmsg'[y] = EventOf(JobOfActor(y))
      <4>1. PICK j \in Job : j = JobOfActor(y)
        BY <3>2
      <4>2. Created(j)
        BY <3>2, <4>1 DEF LifeInv, Tokens, RecordTokens
      <4>3. Created(j)' /\ EventOf(j)' = hmsg'[y]
        BY <1>0, <2>1, <3>2, <4>1, <4>2
      <4> QED BY <3>2, <4>1, <4>3
    <3> QED BY <1>0, <1>5, <3>1, <3>2, ClaimMoves
  <2> QED BY <2>2, <2>3 DEF OneEvent
<1> QED BY <1>2, <1>3, <1>4, <1>5, EventMoves DEF EventMove

\* Every step of the page-check jobs records one event, sends one, concludes one, or
\* leaves them all alone.
LEMMA HandoverStep ==
  ASSUME LifeInv, Claims, OneEvent, [Next]_vars
  PROVE  [handover!Next]_handover!vars
<1> DEFINE E == [j \in Job |-> EventOf(j)]
<1>0. /\ TypeInv /\ Concluded \subseteq Job /\ Concluded' \subseteq Job
      /\ E' = [j \in Job |-> EventOf(j)']
  BY DEF LifeInv, Concluded
<1>1. ASSUME \A j \in Job : SameEvent(j) PROVE E' = E /\ Concluded' = Concluded
  BY <1>0, <1>1 DEF SameEvent
<1>2. CASE delivered' = delivered /\ \A j \in Job : SameEvent(j)
  BY <1>1, <1>2 DEF handover!vars
<1>3. ASSUME delivered' = delivered, NEW k \in Job, NewEvent(k), \A j \in Job : j # k => SameEvent(j)
      PROVE  handover!Next
  <2>1. Concluded' = Concluded
    BY <1>0, <1>3 DEF SameEvent, NewEvent
  <2>2. PICK m \in Token : m = EventOf(k)'
    BY <1>3 DEF NewEvent
  <2>3. \A j \in Job : EventOf(j)' = IF j = k THEN m ELSE EventOf(j)
    BY <1>3, <2>2 DEF SameEvent
  <2>4. E' = [E EXCEPT ![k] = m] /\ E[k] = None
    BY <1>0, <1>3, <2>3 DEF NewEvent
  <2>5. handover!Record(k, m)
    BY <1>3, <2>1, <2>4 DEF handover!Record
  <2> QED BY <2>5 DEF handover!Next
<1>4. ASSUME NEW x \in Actor, HandoffClaim(x) PROVE UNCHANGED handover!vars
  BY <1>0, <1>1, <1>4, ClaimMoves DEF handover!vars
<1>5. ASSUME NEW x \in Actor, HandoffPublish(x) PROVE [handover!Next]_handover!vars
  <2>1. PICK k \in Job : /\ k = JobOfActor(x) /\ EventOf(k) \in Token
                         /\ delivered' \in {delivered, delivered \cup {<<k, EventOf(k)>>}}
    BY <1>0, <1>5, PublishMoves
  <2>2. E' = E /\ Concluded' = Concluded
    BY <1>0, <1>1, <1>5, PublishMoves
  <2>3. CASE delivered' = delivered
    BY <2>2, <2>3 DEF handover!vars
  <2>4. CASE delivered' = delivered \cup {<<k, EventOf(k)>>}
    <3>1. E[k] = EventOf(k) /\ E[k] # None
      BY <2>1, Distinct
    <3>2. handover!Send(k)
      BY <2>2, <2>4, <3>1 DEF handover!Send
    <3> QED BY <3>2 DEF handover!Next
  <2> QED BY <2>1, <2>3, <2>4
<1>6. ASSUME NEW x \in Actor, HandoffFinish(x) PROVE [handover!Next]_handover!vars
  <2>1. delivered' = delivered /\ E' = E
    BY <1>0, <1>6, FinishMoves
  <2>2. CASE \A j \in Job : SameEvent(j)
    BY <1>2, <2>1, <2>2
  <2>3. ASSUME NEW k \in Job, <<k, EventOf(k)>> \in delivered, Concluded' = Concluded \cup {k}
        PROVE  handover!Next
    <3>1. handover!Conclude(k)
      BY <2>1, <2>3 DEF handover!Conclude
    <3> QED BY <3>1 DEF handover!Next
  <2> QED BY <1>0, <1>6, <2>2, <2>3, FinishMoves
<1> QED BY <1>2, <1>3, <1>4, <1>5, <1>6, EventMoves DEF EventMove

\* The job store implements the abstract handover: whatever is retried, recovered, lost
\* or removed, a job has one review event, nothing else is ever published for it, and
\* the job counts as handed over, or is forgotten, only after RabbitMQ has its event.
THEOREM ChecksImplementHandover == Spec => ChecksHandOver
<1>1. Init => OneEvent /\ handover!Init
  <2> SUFFICES ASSUME Init PROVE OneEvent /\ handover!Init
    OBVIOUS
  <2>1. /\ \A j \in Job : rec[j] = None
        /\ \A x \in Actor : hpc[x] = "idle"
        /\ delivered = {}
    BY DEF Init
  <2>2. \A j \in Job : SentOf(j) = {}
    BY <2>1 DEF SentOf
  <2>3. \A j \in Job : EventOf(j) = None
    BY <2>1, <2>2 DEF EventOf
  <2>4. Concluded = {}
    BY <2>1, <2>2 DEF Concluded
  <2>5. OneEvent
    BY <2>1 DEF OneEvent
  <2>6. handover!Init
    BY <2>1, <2>3, <2>4 DEF handover!Init
  <2> QED BY <2>5, <2>6
<1>2. CheckInv /\ OneEvent /\ [Next]_vars => OneEvent'
  BY OneEventKept DEF CheckInv
<1>3. CheckInv /\ OneEvent /\ [Next]_vars => [handover!Next]_handover!vars
  BY HandoverStep DEF CheckInv
<1> QED BY <1>1, <1>2, <1>3, CheckInvariance, PTL DEF Spec, ChecksHandOver, handover!Spec
=============================================================================
