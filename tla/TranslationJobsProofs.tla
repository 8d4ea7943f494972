------------------------ MODULE TranslationJobsProofs ------------------------
(* Proofs about TranslationJobs, for every value of its constants. *)
EXTENDS TranslationJobs, FiniteSetTheorems, TLAPS

\* A call that is under way knows its process and its request; a reader about
\* to fence has a snapshot; only an attempt past Spawn has a heartbeat.
CallShape ==
  /\ \A x \in Thread : pc[x] # "idle" => proc[x] \in Proc /\ req[x] \in Req
  /\ \A x \in Thread : pc[x] \in {"owns", "fence"} => view[x] # None
  /\ \A a \in Attempt :
       hbOn[a] \/ beat[a] # None => pc[a] \in {"submit", "end"} \cup TaskPc

TypeInv == TypeOK /\ CallShape

\* Growing older keeps an age within the bound it saturates at.
LEMMA OlderType == \A g \in Age : Older(g) \in Age
  BY ConstantsAssumption DEF Age, Older

\* The initial state has the shape the code gives it.
LEMMA InitTypeInv == Init => TypeInv
  <1> SUFFICES ASSUME Init PROVE TypeInv
    OBVIOUS
  <1>1. TypeOK
    BY ConstantsAssumption
    DEF Init, TypeOK, RedisType, CallType, TaskType, ProcType, RecoveryType, BoundType,
        Age, Pc, ReaderPc, AdmitPc, TaskPc, PubState, Stage, PublishStage, LockedStage,
        TerminalStage
  <1>2. CallShape
    BY DEF Init, CallShape, Thread
  <1> QED
    BY <1>1, <1>2 DEF TypeInv

\* The groups of variables are only abbreviations in UNCHANGED.
USE DEF redisVars, callVars, procVars, recVars, outVars, boundVars

\* Every step preserves the type invariant, action by action.
LEMMA NextTypeInv == TypeInv /\ [Next]_vars => TypeInv'
  <1> SUFFICES ASSUME TypeInv, [Next]_vars PROVE TypeInv'
    OBVIOUS
  <1> USE DEF TypeInv, TypeOK
  <1>1. ASSUME NEW q \in Poller, NEW p \in Proc, NEW r \in Req, Poll(q, p, r) PROVE TypeInv'
    <2>1. CallType'
      BY <1>1 DEF CallType, Poll, Goto, Thread, Pc, ReaderPc, AdmitPc, TaskPc
    <2>2. CallShape'
      BY <1>1 DEF CallShape, CallType, TaskType, Poll, Goto, Thread, TaskPc
    <2>3. RedisType' /\ TaskType' /\ ProcType' /\ RecoveryType' /\ BoundType'
      BY <1>1 DEF RedisType, TaskType, ProcType, RecoveryType, BoundType, Poll
    <2> QED
      BY <2>1, <2>2, <2>3
  <1>2. ASSUME NEW a \in Attempt, NEW p \in Proc, NEW r \in Req, Enqueue(a, p, r) PROVE TypeInv'
    <2>1. CallType'
      BY <1>2 DEF CallType, Enqueue, Goto, Thread, Pc, ReaderPc, AdmitPc, TaskPc
    <2>2. CallShape'
      BY <1>2 DEF CallShape, CallType, TaskType, Enqueue, Goto, Thread, TaskPc
    <2>3. RedisType' /\ TaskType' /\ ProcType' /\ RecoveryType' /\ BoundType'
      BY <1>2 DEF RedisType, TaskType, ProcType, RecoveryType, BoundType, Enqueue
    <2> QED
      BY <2>1, <2>2, <2>3
  <1>3. ASSUME NEW x \in Thread, Get(x) PROVE TypeInv'
    <2>1. CallType'
      BY <1>3 DEF CallType, Get, Goto, Thread, Pc, ReaderPc, AdmitPc, TaskPc,
         AfterMiss, Active, RedisType, JobRec, Snapshot, CallShape
    <2>2. BoundType'
      BY <1>3, ConstantsAssumption DEF BoundType, Get, RedisFault
    <2>3. CallShape'
      <3>1. pc'[x] \in {"owns", "fence"} => view'[x] \in Snapshot
        BY <1>3 DEF CallType, RedisType, Get, Goto, AfterMiss, Active, JobRec,
           Snapshot, CallShape
      <3> QED
        BY <1>3, <3>1, NoneAssumption DEF CallType, TaskType, Get, Goto, Thread,
           TaskPc, AfterMiss, CallShape
    <2>4. RedisType' /\ TaskType' /\ ProcType' /\ RecoveryType'
      BY <1>3 DEF RedisType, TaskType, ProcType, RecoveryType, Get
    <2> QED
      BY <2>1, <2>2, <2>3, <2>4
  <1>4. ASSUME NEW x \in Thread, Owns(x) PROVE TypeInv'
    <2>1. CallType'
      BY <1>4 DEF CallType, Owns, Goto, Thread, Pc, ReaderPc, AdmitPc, TaskPc
    <2>2. BoundType'
      BY <1>4, ConstantsAssumption DEF BoundType, Owns, RedisFault
    <2>3. CallShape'
      BY <1>4 DEF CallShape, CallType, TaskType, Owns, Goto, Thread, TaskPc
    <2>4. RedisType' /\ TaskType' /\ ProcType' /\ RecoveryType'
      BY <1>4 DEF RedisType, TaskType, ProcType, RecoveryType, Owns
    <2> QED
      BY <2>1, <2>2, <2>3, <2>4
  <1>5. ASSUME NEW x \in Thread, Fence(x) PROVE TypeInv'
    <2>1. RedisType'
      BY <1>5, ConstantsAssumption DEF RedisType, Fence, PutScript, PutAllowed,
         CallType, CallShape, JobRec, Snapshot, Status, Age
    <2>2. CallType'
      BY <1>5 DEF CallType, Fence, Goto, Thread, Pc, ReaderPc, AdmitPc, TaskPc
    <2>3. BoundType'
      BY <1>5, ConstantsAssumption DEF BoundType, Fence, RedisFault
    <2>4. CallShape'
      BY <1>5 DEF CallShape, CallType, TaskType, Fence, Goto, Thread, TaskPc
    <2>5. TaskType' /\ ProcType' /\ RecoveryType'
      BY <1>5 DEF TaskType, ProcType, RecoveryType, Fence
    <2> QED
      BY <2>1, <2>2, <2>3, <2>4, <2>5
  <1>6. ASSUME NEW a \in Attempt, Reserve(a) PROVE TypeInv'
    <2>1. CallType'
      BY <1>6 DEF CallType, Reserve, Goto, Thread, Pc, ReaderPc, AdmitPc, TaskPc
    <2>2. ProcType'
      BY <1>6 DEF ProcType, Reserve, CallType, CallShape, Thread
    <2>3. CallShape'
      BY <1>6 DEF CallShape, CallType, TaskType, Reserve, Goto, Thread, TaskPc
    <2>4. RedisType' /\ TaskType' /\ RecoveryType' /\ BoundType'
      BY <1>6 DEF RedisType, TaskType, RecoveryType, BoundType, Reserve
    <2> QED
      BY <2>1, <2>2, <2>3, <2>4
  <1>7. ASSUME NEW a \in Attempt, Claim(a) PROVE TypeInv'
    <2>1. RedisType'
      BY <1>7, ConstantsAssumption DEF RedisType, Claim, ClaimScript, WriteHeartbeat,
         Age
    <2>2. CallType'
      BY <1>7 DEF CallType, Claim, Goto, Thread, Pc, ReaderPc, AdmitPc, TaskPc
    <2>3. ProcType'
      BY <1>7 DEF ProcType, Claim, CallType, CallShape, Thread
    <2>4. RecoveryType'
      BY <1>7 DEF RecoveryType, Claim, ClaimScript, WriteHeartbeat, CallShape, Thread
    <2>5. BoundType'
      BY <1>7, ConstantsAssumption DEF BoundType, Claim, RedisFault
    <2>6. CallShape'
      BY <1>7 DEF CallShape, CallType, TaskType, Claim, Goto, Thread, TaskPc
    <2>7. TaskType'
      BY <1>7 DEF TaskType, Claim
    <2> QED
      BY <2>1, <2>2, <2>3, <2>4, <2>5, <2>6, <2>7
  <1>8. ASSUME NEW a \in Attempt, Create(a) PROVE TypeInv'
    <2>1. RedisType'
      BY <1>8, ConstantsAssumption DEF RedisType, Create, CreateScript, NewJob,
         JobRec, Status, PubState, Age
    <2>2. CallType'
      BY <1>8 DEF CallType, Create, Goto, Thread, Pc, ReaderPc, AdmitPc, TaskPc
    <2>3. BoundType'
      BY <1>8, ConstantsAssumption DEF BoundType, Create, RedisFault
    <2>4. CallShape'
      BY <1>8 DEF CallShape, CallType, TaskType, Create, Goto, Thread, TaskPc
    <2>5. TaskType' /\ ProcType' /\ RecoveryType'
      BY <1>8 DEF TaskType, ProcType, RecoveryType, Create
    <2> QED
      BY <2>1, <2>2, <2>3, <2>4, <2>5
  <1>9. ASSUME NEW a \in Attempt, Spawn(a) PROVE TypeInv'
    <2>1. CallType'
      BY <1>9 DEF CallType, Spawn, Goto, Thread, Pc, ReaderPc, AdmitPc, TaskPc
    <2>2. TaskType'
      BY <1>9 DEF TaskType, Spawn
    <2>3. CallShape'
      BY <1>9 DEF CallShape, CallType, TaskType, Spawn, Goto, Thread, TaskPc
    <2>4. RedisType' /\ ProcType' /\ RecoveryType' /\ BoundType'
      BY <1>9 DEF RedisType, ProcType, RecoveryType, BoundType, Spawn
    <2> QED
      BY <2>1, <2>2, <2>3, <2>4
  <1>10. ASSUME NEW a \in Attempt, SpawnFailed(a) PROVE TypeInv'
    <2>1. RedisType'
      BY <1>10, ConstantsAssumption DEF RedisType, SpawnFailed, PutScript, PutAllowed,
         TaskType, JobRec, Status, Age
    <2>2. CallType'
      BY <1>10 DEF CallType, SpawnFailed, Goto, Thread, Pc, ReaderPc, AdmitPc, TaskPc
    <2>3. BoundType'
      BY <1>10, ConstantsAssumption DEF BoundType, SpawnFailed, RedisFault
    <2>4. CallShape'
      BY <1>10 DEF CallShape, CallType, TaskType, SpawnFailed, Goto, Thread, TaskPc
    <2>5. TaskType' /\ ProcType' /\ RecoveryType'
      BY <1>10 DEF TaskType, ProcType, RecoveryType, SpawnFailed
    <2> QED
      BY <2>1, <2>2, <2>3, <2>4, <2>5
  <1>11. ASSUME NEW a \in Attempt, Submit(a) PROVE TypeInv'
    <2>1. CallType'
      BY <1>11 DEF CallType, Submit, Goto, Thread, Pc, ReaderPc, AdmitPc, TaskPc
    <2>2. TaskType'
      BY <1>11 DEF TaskType, Submit, Stage, PublishStage, LockedStage, TerminalStage
    <2>3. CallShape'
      BY <1>11 DEF CallShape, CallType, TaskType, Submit, Goto, Thread, TaskPc
    <2>4. RedisType' /\ ProcType' /\ RecoveryType' /\ BoundType'
      BY <1>11 DEF RedisType, ProcType, RecoveryType, BoundType, Submit
    <2> QED
      BY <2>1, <2>2, <2>3, <2>4
  <1>12. ASSUME NEW p \in Proc, Shutdown(p) PROVE TypeInv'
    <2>1. CallType'
      BY <1>12 DEF CallType, Shutdown, Pc, ReaderPc, AdmitPc, TaskPc
    <2>2. TaskType'
      BY <1>12 DEF TaskType, Shutdown, Stage, PublishStage, LockedStage, TerminalStage
    <2>3. ProcType'
      BY <1>12 DEF ProcType, Shutdown
    <2>4. BoundType'
      BY <1>12, ConstantsAssumption DEF BoundType, Shutdown
    <2>5. CallShape'
      BY <1>12 DEF CallShape, CallType, TaskType, Shutdown, Thread, TaskPc
    <2>6. RedisType' /\ RecoveryType'
      BY <1>12 DEF RedisType, RecoveryType, Shutdown
    <2> QED
      BY <2>1, <2>2, <2>3, <2>4, <2>5, <2>6
  <1>13. ASSUME NEW a \in Attempt, StartTask(a) PROVE TypeInv'
    <2>1. CallType'
      BY <1>13 DEF CallType, StartTask, Goto, Thread, Pc, ReaderPc, AdmitPc, TaskPc
    <2>2. TaskType'
      BY <1>13 DEF TaskType, StartTask, Stage, PublishStage, LockedStage,
         TerminalStage
    <2>3. ProcType'
      BY <1>13 DEF ProcType, StartTask, CallType, CallShape, Thread
    <2>4. CallShape'
      BY <1>13 DEF CallShape, CallType, TaskType, StartTask, Goto, Thread, TaskPc
    <2>5. RedisType' /\ RecoveryType' /\ BoundType'
      BY <1>13 DEF RedisType, RecoveryType, BoundType, StartTask
    <2> QED
      BY <2>1, <2>2, <2>3, <2>4, <2>5
  <1>14. ASSUME NEW a \in Attempt, Touch(a) PROVE TypeInv'
    <2>1. RedisType'
      BY <1>14, ConstantsAssumption DEF RedisType, Touch, TouchScript, WriteHeartbeat,
         Age
    <2>2. CallType'
      BY <1>14 DEF CallType, Touch, Goto, Thread, Pc, ReaderPc, AdmitPc, TaskPc,
         Raise, Update
    <2>3. TaskType'
      BY <1>14 DEF TaskType, Touch, Raise, Update, Unlock, Stage, PublishStage,
         LockedStage, TerminalStage
    <2>4. ProcType'
      BY <1>14 DEF ProcType, Touch, Raise, Update, Unlock
    <2>5. RecoveryType'
      BY <1>14 DEF RecoveryType, Touch, TouchScript, WriteHeartbeat, CallShape, Thread
    <2>6. BoundType'
      BY <1>14, ConstantsAssumption DEF BoundType, Touch, RedisFault
    <2>7. CallShape'
      BY <1>14 DEF CallShape, CallType, TaskType, Touch, Goto, Thread, TaskPc, Raise,
         Update
    <2> QED
      BY <2>1, <2>2, <2>3, <2>4, <2>5, <2>6, <2>7
  <1>15. ASSUME NEW a \in Attempt, Put(a) PROVE TypeInv'
    <2>1. RedisType'
      BY <1>15, ConstantsAssumption DEF RedisType, Put, PutScript, PutAllowed,
         StageStatus, TaskType, JobRec, Status, Age
    <2>2. CallType'
      BY <1>15 DEF CallType, Put, Goto, Thread, Pc, ReaderPc, AdmitPc, TaskPc, Raise,
         Update, AfterPut
    <2>3. TaskType'
      BY <1>15 DEF TaskType, Put, Raise, Update, Unlock, Stage, PublishStage,
         LockedStage, TerminalStage
    <2>4. ProcType'
      BY <1>15 DEF ProcType, Put, Raise, Update, Unlock
    <2>5. BoundType'
      BY <1>15, ConstantsAssumption DEF BoundType, Put, RedisFault
    <2>6. CallShape'
      BY <1>15 DEF CallShape, CallType, TaskType, Put, Goto, Thread, TaskPc, Raise,
         Update, AfterPut
    <2>7. RecoveryType'
      BY <1>15 DEF RecoveryType, Put
    <2> QED
      BY <2>1, <2>2, <2>3, <2>4, <2>5, <2>6, <2>7
  <1>16. ASSUME NEW a \in Attempt, Fetch(a) PROVE TypeInv'
    <2>1. CallType'
      BY <1>16 DEF CallType, Fetch, Goto, Thread, Pc, ReaderPc, AdmitPc, TaskPc,
         Raise, Update, Local
    <2>2. TaskType'
      BY <1>16 DEF TaskType, Fetch, Raise, Update, Unlock, Local, Stage, PublishStage,
         LockedStage, TerminalStage
    <2>3. ProcType'
      BY <1>16 DEF ProcType, Fetch, Raise, Update, Unlock, Local
    <2>4. CallShape'
      BY <1>16 DEF CallShape, CallType, TaskType, Fetch, Goto, Thread, TaskPc, Raise,
         Update, Local
    <2>5. RedisType' /\ RecoveryType' /\ BoundType'
      BY <1>16 DEF RedisType, RecoveryType, BoundType, Fetch, Local
    <2> QED
      BY <2>1, <2>2, <2>3, <2>4, <2>5
  <1>17. ASSUME NEW a \in Attempt, Process(a) PROVE TypeInv'
    <2>1. CallType'
      BY <1>17 DEF CallType, Process, Goto, Thread, Pc, ReaderPc, AdmitPc, TaskPc,
         Update, Local
    <2>2. TaskType'
      BY <1>17 DEF TaskType, Process, Update, Local, Stage, PublishStage, LockedStage,
         TerminalStage
    <2>3. CallShape'
      BY <1>17 DEF CallShape, CallType, TaskType, Process, Goto, Thread, TaskPc,
         Update, Local
    <2>4. RedisType' /\ ProcType' /\ RecoveryType' /\ BoundType'
      BY <1>17 DEF RedisType, ProcType, RecoveryType, BoundType, Process, Local
    <2> QED
      BY <2>1, <2>2, <2>3, <2>4
  <1>18. ASSUME NEW a \in Attempt, Lock(a) PROVE TypeInv'
    <2>1. CallType'
      BY <1>18 DEF CallType, Lock, Goto, Thread, Pc, ReaderPc, AdmitPc, TaskPc,
         Update, Local
    <2>2. TaskType'
      BY <1>18 DEF TaskType, Lock, Update, Local, Stage, PublishStage, LockedStage,
         TerminalStage
    <2>3. ProcType'
      BY <1>18 DEF ProcType, Lock, Local
    <2>4. CallShape'
      BY <1>18 DEF CallShape, CallType, TaskType, Lock, Goto, Thread, TaskPc, Update,
         Local
    <2>5. RedisType' /\ RecoveryType' /\ BoundType'
      BY <1>18 DEF RedisType, RecoveryType, BoundType, Lock, Local
    <2> QED
      BY <2>1, <2>2, <2>3, <2>4, <2>5
  <1>19. ASSUME NEW a \in Attempt, Assemble(a) PROVE TypeInv'
    <2>1. CallType'
      BY <1>19 DEF CallType, Assemble, Goto, Thread, Pc, ReaderPc, AdmitPc, TaskPc,
         Raise, Update, Local
    <2>2. TaskType'
      BY <1>19 DEF TaskType, Assemble, Raise, Update, Unlock, Local, Stage,
         PublishStage, LockedStage, TerminalStage
    <2>3. ProcType'
      BY <1>19 DEF ProcType, Assemble, Raise, Update, Unlock, Local
    <2>4. CallShape'
      BY <1>19 DEF CallShape, CallType, TaskType, Assemble, Goto, Thread, TaskPc,
         Raise, Update, Local
    <2>5. RedisType' /\ RecoveryType' /\ BoundType'
      BY <1>19 DEF RedisType, RecoveryType, BoundType, Assemble, Local
    <2> QED
      BY <2>1, <2>2, <2>3, <2>4, <2>5
  <1>20. ASSUME NEW a \in Attempt, Filter(a) PROVE TypeInv'
    <2>1. CallType'
      BY <1>20 DEF CallType, Filter, Goto, Thread, Pc, ReaderPc, AdmitPc, TaskPc,
         Raise, Update, Local
    <2>2. TaskType'
      BY <1>20 DEF TaskType, Filter, Raise, Update, Unlock, Local, PubState, Stage,
         PublishStage, LockedStage, TerminalStage
    <2>3. ProcType'
      BY <1>20 DEF ProcType, Filter, Raise, Update, Unlock, Local
    <2>4. CallShape'
      BY <1>20 DEF CallShape, CallType, TaskType, Filter, Goto, Thread, TaskPc, Raise,
         Update, Local
    <2>5. RedisType' /\ RecoveryType' /\ BoundType'
      BY <1>20 DEF RedisType, RecoveryType, BoundType, Filter, Local
    <2> QED
      BY <2>1, <2>2, <2>3, <2>4, <2>5
  <1>21. ASSUME NEW a \in Attempt, Guard(a) PROVE TypeInv'
    <2>1. RedisType'
      BY <1>21 DEF RedisType, TaskType, Guard, TouchScript, WriteHeartbeat
    <2>2. CallType'
      BY <1>21 DEF CallType, Guard, Goto, Thread, Pc, ReaderPc, AdmitPc, TaskPc,
         Raise, Update
    <2>3. TaskType'
      BY <1>21, ConstantsAssumption DEF TaskType, Guard, Raise, Update, Unlock, Age,
         Stage, PublishStage, LockedStage, TerminalStage
    <2>4. ProcType'
      BY <1>21 DEF ProcType, Guard, Raise, Update, Unlock
    <2>5. RecoveryType'
      BY <1>21 DEF RecoveryType, Guard, TouchScript, WriteHeartbeat, CallShape, Thread
    <2>6. BoundType'
      BY <1>21, ConstantsAssumption DEF BoundType, Guard, RedisFault
    <2>7. CallShape'
      BY <1>21 DEF CallShape, CallType, TaskType, Guard, Goto, Thread, TaskPc, Raise,
         Update
    <2> QED
      BY <2>1, <2>2, <2>3, <2>4, <2>5, <2>6, <2>7
  <1>22. ASSUME NEW a \in Attempt, Push(a) PROVE TypeInv'
    <2>1. CallType'
      BY <1>22 DEF CallType, Push, Goto, Thread, Pc, ReaderPc, AdmitPc, TaskPc, Raise,
         Update, Local
    <2>2. TaskType'
      BY <1>22 DEF TaskType, Push, Raise, Update, Unlock, Local, PubState, Stage,
         PublishStage, LockedStage, TerminalStage
    <2>3. ProcType'
      BY <1>22 DEF ProcType, Push, Raise, Update, Unlock, Local
    <2>4. BoundType'
      BY <1>22 DEF BoundType, Push, Local
    <2>5. CallShape'
      BY <1>22 DEF CallShape, CallType, TaskType, Push, Goto, Thread, TaskPc, Raise,
         Update, Local
    <2>6. RedisType' /\ RecoveryType'
      BY <1>22 DEF RedisType, RecoveryType, Push, Local
    <2> QED
      BY <2>1, <2>2, <2>3, <2>4, <2>5, <2>6
  <1>23. ASSUME NEW a \in Attempt, Save(a) PROVE TypeInv'
    <2>1. CallType'
      BY <1>23 DEF CallType, Save, Goto, Thread, Pc, ReaderPc, AdmitPc, TaskPc, Raise,
         Update, Local
    <2>2. TaskType'
      BY <1>23 DEF TaskType, Save, Raise, Update, Unlock, Local, Stage, PublishStage,
         LockedStage, TerminalStage
    <2>3. ProcType'
      BY <1>23 DEF ProcType, Save, Raise, Update, Unlock, Local
    <2>4. BoundType'
      BY <1>23 DEF BoundType, Save, Local
    <2>5. CallShape'
      BY <1>23 DEF CallShape, CallType, TaskType, Save, Goto, Thread, TaskPc, Raise,
         Update, Local
    <2>6. RedisType' /\ RecoveryType'
      BY <1>23 DEF RedisType, RecoveryType, Save, Local
    <2> QED
      BY <2>1, <2>2, <2>3, <2>4, <2>5, <2>6
  <1>24. ASSUME NEW a \in Attempt, Finish(a) PROVE TypeInv'
    <2>1. RedisType'
      BY <1>24 DEF RedisType, Finish, FinishScript
    <2>2. CallType'
      BY <1>24 DEF CallType, Finish, Goto, Thread, Pc, ReaderPc, AdmitPc, TaskPc
    <2>3. TaskType'
      BY <1>24 DEF TaskType, Finish
    <2>4. BoundType'
      BY <1>24, ConstantsAssumption DEF BoundType, Finish, RedisFault
    <2>5. CallShape'
      BY <1>24 DEF CallShape, CallType, TaskType, Finish, Goto, Thread, TaskPc
    <2>6. ProcType' /\ RecoveryType'
      BY <1>24 DEF ProcType, RecoveryType, Finish
    <2> QED
      BY <2>1, <2>2, <2>3, <2>4, <2>5, <2>6
  <1>25. ASSUME NEW a \in Attempt, Cleanup(a) PROVE TypeInv'
    <2>1. CallType'
      BY <1>25 DEF CallType, Cleanup, Goto, Thread, Pc, ReaderPc, AdmitPc, TaskPc
    <2>2. TaskType'
      BY <1>25 DEF TaskType, Cleanup, Stage, PublishStage, LockedStage, TerminalStage
    <2>3. ProcType'
      BY <1>25 DEF ProcType, Cleanup, ForgetLocal, CallType, CallShape, Thread
    <2>4. CallShape'
      BY <1>25 DEF CallShape, CallType, TaskType, Cleanup, Goto, Thread, TaskPc
    <2>5. RedisType' /\ RecoveryType' /\ BoundType'
      BY <1>25 DEF RedisType, RecoveryType, BoundType, Cleanup, Local
    <2> QED
      BY <2>1, <2>2, <2>3, <2>4, <2>5
  <1>26. ASSUME NEW a \in Attempt, BeatSend(a) PROVE TypeInv'
    <2>1. TaskType'
      BY <1>26, ConstantsAssumption DEF TaskType, BeatSend, Age
    <2>2. CallShape'
      BY <1>26 DEF CallShape, CallType, TaskType, BeatSend, Thread, TaskPc
    <2>3. RedisType' /\ CallType' /\ ProcType' /\ RecoveryType' /\ BoundType'
      BY <1>26 DEF RedisType, CallType, ProcType, RecoveryType, BoundType, BeatSend
    <2> QED
      BY <2>1, <2>2, <2>3
  <1>27. ASSUME NEW a \in Attempt, BeatArrive(a) PROVE TypeInv'
    <2>1. RedisType'
      BY <1>27 DEF RedisType, BeatArrive, TouchScript, WriteHeartbeat, TaskType,
         CallShape, Thread
    <2>2. TaskType'
      BY <1>27 DEF TaskType, BeatArrive
    <2>3. RecoveryType'
      BY <1>27 DEF RecoveryType, BeatArrive, TouchScript, WriteHeartbeat, CallShape,
         Thread, TaskPc
    <2>4. BoundType'
      BY <1>27, ConstantsAssumption DEF BoundType, BeatArrive, RedisFault
    <2>5. CallShape'
      BY <1>27 DEF CallShape, CallType, TaskType, BeatArrive, Thread
    <2>6. CallType' /\ ProcType'
      BY <1>27 DEF CallType, ProcType, BeatArrive
    <2> QED
      BY <2>1, <2>2, <2>3, <2>4, <2>5, <2>6
  <1>28. ASSUME NEW p \in Proc, RecoverScan(p) PROVE TypeInv'
    <2>1. RecoveryType'
      BY <1>28 DEF RecoveryType, RecoverScan, RedisType
    <2>2. RedisType' /\ CallType' /\ TaskType' /\ ProcType' /\ BoundType' /\ CallShape'
      BY <1>28 DEF RedisType, CallType, TaskType, ProcType, BoundType, CallShape,
         RecoverScan
    <2> QED
      BY <2>1, <2>2
  <1>29. ASSUME NEW p \in Proc, RecoverEvict(p) PROVE TypeInv'
    <2>1. RedisType'
      BY <1>29 DEF RedisType, RecoverEvict
    <2>2. RecoveryType'
      BY <1>29 DEF RecoveryType, RecoverEvict
    <2>3. BoundType'
      BY <1>29, ConstantsAssumption DEF BoundType, RecoverEvict, RedisFault
    <2>4. CallType' /\ TaskType' /\ ProcType' /\ CallShape'
      BY <1>29 DEF CallType, TaskType, ProcType, CallShape, RecoverEvict
    <2> QED
      BY <2>1, <2>2, <2>3, <2>4
  <1>30. ASSUME NEW p \in Proc, RecoverRead(p) PROVE TypeInv'
    <2>1. RecoveryType'
      BY <1>30 DEF RecoveryType, RecoverRead, RedisType, Active, Marking, JobRec
    <2>2. BoundType'
      BY <1>30, ConstantsAssumption DEF BoundType, RecoverRead, RedisFault
    <2>3. RedisType' /\ CallType' /\ TaskType' /\ ProcType' /\ CallShape'
      BY <1>30 DEF RedisType, CallType, TaskType, ProcType, CallShape, RecoverRead
    <2> QED
      BY <2>1, <2>2, <2>3
  <1>31. ASSUME NEW p \in Proc, RecoverMark(p) PROVE TypeInv'
    <2>1. RedisType'
      BY <1>31, ConstantsAssumption DEF RedisType, RecoverMark, PutScript, PutAllowed,
         RecoveryType, Marking, JobRec, Status, Age
    <2>2. RecoveryType'
      BY <1>31 DEF RecoveryType, RecoverMark
    <2>3. BoundType'
      BY <1>31, ConstantsAssumption DEF BoundType, RecoverMark, RedisFault
    <2>4. CallType' /\ TaskType' /\ ProcType' /\ CallShape'
      BY <1>31 DEF CallType, TaskType, ProcType, CallShape, RecoverMark
    <2> QED
      BY <2>1, <2>2, <2>3, <2>4
  <1>32. CASE Tick
    <2>1. RedisType'
      BY <1>32, OlderType DEF RedisType, Tick
    <2>2. CallType'
      BY <1>32, OlderType DEF CallType, Tick, Snapshot
    <2>3. TaskType'
      BY <1>32, OlderType DEF TaskType, Tick
    <2>4. CallShape'
      <3>1. \A x \in Thread : view[x] # None => view'[x] \in Snapshot
        BY <1>32, OlderType DEF CallType, Tick, Snapshot
      <3> QED
        BY <1>32, <3>1, NoneAssumption DEF CallType, TaskType, Tick, CallShape, Thread
    <2>5. ProcType' /\ RecoveryType' /\ BoundType'
      BY <1>32 DEF ProcType, RecoveryType, BoundType, Tick
    <2> QED
      BY <2>1, <2>2, <2>3, <2>4, <2>5
  <1>33. ASSUME NEW p \in Proc, Crash(p) PROVE TypeInv'
    <2>1. CallType'
      BY <1>33 DEF CallType, Crash, Pc, ReaderPc, AdmitPc, TaskPc
    <2>2. TaskType'
      BY <1>33 DEF TaskType, Crash, Stage, PublishStage, LockedStage, TerminalStage
    <2>3. ProcType'
      BY <1>33 DEF ProcType, Crash
    <2>4. RecoveryType'
      BY <1>33 DEF RecoveryType, Crash
    <2>5. BoundType'
      BY <1>33, ConstantsAssumption DEF BoundType, Crash
    <2>6. CallShape'
      BY <1>33 DEF CallShape, CallType, TaskType, Crash, Thread, TaskPc
    <2>7. RedisType'
      BY <1>33 DEF RedisType, Crash
    <2> QED
      BY <2>1, <2>2, <2>3, <2>4, <2>5, <2>6, <2>7
  <1>34. CASE UNCHANGED vars
    BY <1>34 DEF CallShape, RedisType, CallType, TaskType, ProcType, RecoveryType, BoundType,
       vars
  <1> QED
    BY <1>1, <1>2, <1>3, <1>4, <1>5, <1>6, <1>7, <1>8, <1>9, <1>10, <1>11, <1>12,
       <1>13, <1>14, <1>15, <1>16, <1>17, <1>18, <1>19, <1>20, <1>21, <1>22, <1>23,
       <1>24, <1>25, <1>26, <1>27, <1>28, <1>29, <1>30, <1>31, <1>32, <1>33, <1>34 DEF
       Next, Read, Step, Recover

\* The type invariant of the asynchronous translation jobs holds for any number
\* of processes, requests, attempts, faults, crashes and shutdowns.
THEOREM TypeCorrect == Spec => []TypeOK
  <1>1. TypeInv /\ [Next]_vars => TypeInv'
    BY NextTypeInv
  <1>2. TypeInv => TypeOK
    BY DEF TypeInv
  <1> QED
    BY InitTypeInv, <1>1, <1>2, PTL DEF Spec

\* TypeOK and the shape of a call under way hold together in every state.
THEOREM TypeInvariant == Spec => []TypeInv
  BY InitTypeInv, NextTypeInv, PTL DEF Spec

\* A store write under a token: the job keeps the token, and a finished job or
\* the job of another token is left alone.
LEMMA PutStep ==
  ASSUME RedisType, NEW q \in Req, NEW t \in Attempt, NEW s \in Status, NEW u \in PubState,
         PutScript(q, t, s, u)
  PROVE  \A r \in Req : /\ Terminal(job[r]) => job'[r] = job[r]
                        /\ job[r] # None => job'[r] # None /\ job'[r].tok = job[r].tok
  <1>1. [status |-> s, tok |-> t, pub |-> u] \in JobRec
    BY DEF JobRec
  <1> QED
    BY <1>1, NoneAssumption DEF RedisType, PutScript, PutAllowed, Active, Terminal

\* What a step may do to a durable job: a finished job stays as it is, and a job
\* keeps the token it was created under.
LEMMA JobStep ==
  ASSUME TypeInv, [Next]_vars
  PROVE  \A r \in Req : /\ Terminal(job[r]) => job'[r] = job[r]
                        /\ job[r] # None => job'[r] # None /\ job'[r].tok = job[r].tok
  <1> DEFINE Goal == \A r \in Req : /\ Terminal(job[r]) => job'[r] = job[r]
                                    /\ job[r] # None => job'[r] # None /\ job'[r].tok = job[r].tok
  <1>1. ASSUME NEW q \in Poller, NEW p \in Proc, NEW r \in Req, Poll(q, p, r) PROVE Goal
    BY <1>1 DEF Poll
  <1>2. ASSUME NEW a \in Attempt, NEW p \in Proc, NEW r \in Req, Enqueue(a, p, r) PROVE Goal
    BY <1>2 DEF Enqueue
  <1>3. ASSUME NEW x \in Thread,
              Get(x) \/ Owns(x)
       PROVE  Goal
    BY <1>3 DEF Get, Owns
  <1>4. ASSUME NEW a \in Attempt,
              Reserve(a) \/ Claim(a) \/ Spawn(a) \/ Submit(a) \/ StartTask(a) \/
                 Touch(a) \/ Fetch(a) \/ Process(a) \/ Lock(a) \/ Assemble(a) \/
                 Filter(a) \/ Guard(a) \/ Push(a) \/ Save(a) \/ Finish(a) \/
                 Cleanup(a) \/ BeatSend(a) \/ BeatArrive(a)
       PROVE  Goal
    BY <1>4 DEF Reserve, Claim, Spawn, Submit, StartTask, Touch, Fetch, Process, Lock,
       Assemble, Filter, Guard, Push, Save, Finish, Cleanup, BeatSend, BeatArrive,
       Local
  <1>5. ASSUME NEW p \in Proc,
              RecoverScan(p) \/ RecoverEvict(p) \/ RecoverRead(p) \/ Shutdown(p) \/
                 Crash(p)
       PROVE  Goal
    BY <1>5 DEF RecoverScan, RecoverEvict, RecoverRead, Shutdown, Crash
  <1>6. CASE Tick
    BY <1>6 DEF Tick
  <1>7. ASSUME NEW x \in Thread, Fence(x) PROVE Goal
    <2>1. req[x] \in Req /\ view[x].tok \in Attempt /\ "error" \in Status /\ view[x].pub \in PubState
      BY <1>7 DEF TypeInv, TypeOK, CallType, CallShape, Snapshot, Status, Fence
    <2>2. PutScript(req[x], view[x].tok, "error", view[x].pub) \/ UNCHANGED job
      BY <1>7 DEF Fence
    <2> QED
      BY <2>1, <2>2, PutStep DEF TypeInv, TypeOK
  <1>8. ASSUME NEW a \in Attempt, SpawnFailed(a) PROVE Goal
    <2>1. req[a] \in Req /\ a \in Attempt /\ "error" \in Status /\ pub[a] \in PubState
      BY <1>8 DEF TypeInv, TypeOK, TaskType, CallShape, Thread, Status, SpawnFailed
    <2>2. PutScript(req[a], a, "error", pub[a]) \/ UNCHANGED job
      BY <1>8 DEF SpawnFailed
    <2> QED
      BY <2>1, <2>2, PutStep DEF TypeInv, TypeOK
  <1>9. ASSUME NEW a \in Attempt, Put(a) PROVE Goal
    <2>1. req[a] \in Req /\ a \in Attempt /\ StageStatus(stage[a]) \in Status /\ pub[a] \in PubState
      BY <1>9 DEF TypeInv, TypeOK, TaskType, CallShape, Thread, Status, StageStatus, Put
    <2>2. PutScript(req[a], a, StageStatus(stage[a]), pub[a]) \/ UNCHANGED job
      BY <1>9 DEF Put
    <2> QED
      BY <2>1, <2>2, PutStep DEF TypeInv, TypeOK
  <1>10. ASSUME NEW p \in Proc, RecoverMark(p) PROVE Goal
    <2>1. mark[p].req \in Req /\ mark[p].tok \in Attempt /\ "error" \in Status /\ mark[p].pub \in PubState
      BY <1>10 DEF TypeInv, TypeOK, RecoveryType, Marking, Status, RecoverMark
    <2>2. PutScript(mark[p].req, mark[p].tok, "error", mark[p].pub) \/ UNCHANGED job
      BY <1>10 DEF RecoverMark
    <2> QED
      BY <2>1, <2>2, PutStep DEF TypeInv, TypeOK
  <1>11. ASSUME NEW a \in Attempt, Create(a) PROVE Goal
    BY <1>11, NoneAssumption DEF Create, CreateAllowed, CreateScript, Terminal, TypeInv,
       TypeOK, RedisType
  <1>12. CASE UNCHANGED vars
    BY <1>12 DEF vars
  <1> QED
    BY <1>1, <1>2, <1>3, <1>4, <1>5, <1>6, <1>7, <1>8, <1>9, <1>10, <1>11, <1>12 DEF
       Next, Read, Step, Recover

\* A finished durable job never changes again, whichever process, reader or
\* recovery writes with whatever snapshot.
THEOREM FinishedJobsAreFinal == Spec => TerminalIsFinal
  <1>1. TypeInv /\ [Next]_vars => [\A r \in Req : Terminal(job[r]) => job'[r] = job[r]]_vars
    BY JobStep
  <1> QED
    BY TypeInvariant, <1>1, PTL DEF Spec, TerminalIsFinal

-----------------------------------------------------------------------------
(* One publication per request id.  OnePublication alone is not inductive:    *)
(* what makes a second push impossible is that an attempt past Create owns     *)
(* the durable record of its request, and that no step takes a record away.    *)

OwnerPc == {"spawn", "spawn_failed", "submit"} \cup (TaskPc \ {"finish", "cleanup"})

Ownership ==
  /\ \A a \in Attempt : pc[a] \in OwnerPc \/ a \in pushed =>
        job[req[a]] # None /\ job[req[a]].tok = a
  /\ \A a \in pushed : pc[a] \in TaskPc \cup {"end"}

\* A step that pushes nothing and moves attempts only forward keeps Ownership.
Forward ==
  \A a \in Attempt : /\ pc'[a] \in OwnerPc => pc[a] \in OwnerPc
                     /\ pc[a] \in TaskPc \cup {"end"} => pc'[a] \in TaskPc \cup {"end"}

LEMMA OwnershipForward ==
  ASSUME TypeInv, Ownership, [Next]_vars, UNCHANGED <<req, pushed>>, Forward
  PROVE  Ownership'
  <1>1. \A a \in Attempt : pc[a] \in OwnerPc \cup TaskPc \cup {"end"} => req[a] \in Req
    BY DEF TypeInv, CallShape, Thread, OwnerPc, TaskPc
  <1> QED
    BY <1>1, JobStep DEF Ownership, Forward, TypeInv, TypeOK, BoundType

\* Ownership is preserved by every step.
LEMMA OwnershipStep ==
  ASSUME TypeInv, Ownership, [Next]_vars
  PROVE  Ownership'
  <1>1. ASSUME NEW q \in Poller, NEW p \in Proc, NEW r \in Req, Poll(q, p, r) PROVE Ownership'
    BY <1>1, JobStep, ConstantsAssumption DEF TypeInv, TypeOK, CallShape, CallType,
       BoundType, Ownership, OwnerPc, TaskPc,
       Thread, Poll, Goto
  <1>2. ASSUME NEW a \in Attempt, NEW p \in Proc, NEW r \in Req, Enqueue(a, p, r) PROVE Ownership'
    BY <1>2, JobStep DEF TypeInv, TypeOK, CallShape, CallType, BoundType, Ownership, OwnerPc,
       TaskPc,
       Thread, Enqueue, Goto
  <1>3. ASSUME NEW x \in Thread, Get(x) PROVE Ownership'
    <2>1. UNCHANGED <<req, pushed>>
      BY <1>3 DEF Get
    <2>2. Forward
      BY <1>3 DEF Forward, OwnerPc, TaskPc, Thread, TypeInv, TypeOK, CallType, Get,
         Goto, AfterMiss
    <2> QED
      BY <2>1, <2>2, OwnershipForward
  <1>4. ASSUME NEW x \in Thread, Owns(x) PROVE Ownership'
    <2>1. UNCHANGED <<req, pushed>>
      BY <1>4 DEF Owns
    <2>2. Forward
      BY <1>4 DEF Forward, OwnerPc, TaskPc, Thread, TypeInv, TypeOK, CallType, Owns, Goto
    <2> QED
      BY <2>1, <2>2, OwnershipForward
  <1>5. ASSUME NEW x \in Thread, Fence(x) PROVE Ownership'
    <2>1. UNCHANGED <<req, pushed>>
      BY <1>5 DEF Fence
    <2>2. Forward
      BY <1>5 DEF Forward, OwnerPc, TaskPc, Thread, TypeInv, TypeOK, CallType, Fence, Goto
    <2> QED
      BY <2>1, <2>2, OwnershipForward
  <1>6. ASSUME NEW a \in Attempt,
              Reserve(a) \/ Claim(a)
       PROVE  Ownership'
    <2>1. UNCHANGED <<req, pushed>>
      BY <1>6 DEF Reserve, Claim
    <2>2. Forward
      BY <1>6 DEF Forward, OwnerPc, TaskPc, Thread, TypeInv, TypeOK, CallType, Reserve,
         Claim, Goto
    <2> QED
      BY <2>1, <2>2, OwnershipForward
  <1>7. ASSUME NEW a \in Attempt, Create(a) PROVE Ownership'
    <2>1. req[a] \in Req
      BY <1>7 DEF Create, TypeInv, CallShape, Thread
    <2>2. CASE CreateAllowed(req[a]) /\ CreateScript(req[a], a) /\ Goto(a, "spawn")
      <3>1. job'[req[a]] = NewJob(a) /\ NewJob(a) # None /\ NewJob(a).tok = a
        BY <2>1, <2>2, NoneAssumption
        DEF CreateScript, NewJob, TypeInv, TypeOK, RedisType, JobRec, Status, PubState
      <3> QED
        BY <1>7, <2>1, <2>2, <3>1, JobStep
        DEF Create, Goto, Ownership, OwnerPc, TaskPc, Thread, TypeInv, TypeOK, CallType,
            CallShape, BoundType
    <2>3. CASE ~(CreateAllowed(req[a]) /\ CreateScript(req[a], a) /\ Goto(a, "spawn"))
      <3>1. UNCHANGED <<req, pushed>>
        BY <1>7 DEF Create
      <3>2. Forward
        BY <1>7, <2>3 DEF Create, Goto, Forward, OwnerPc, TaskPc, Thread, TypeInv, TypeOK,
           CallType
      <3> QED
        BY <3>1, <3>2, OwnershipForward
    <2> QED
      BY <2>2, <2>3
  <1>8. ASSUME NEW a \in Attempt,
              Spawn(a) \/ SpawnFailed(a) \/ Submit(a) \/ StartTask(a)
       PROVE  Ownership'
    <2>1. UNCHANGED <<req, pushed>>
      BY <1>8 DEF Spawn, SpawnFailed, Submit, StartTask
    <2>2. Forward
      BY <1>8 DEF Forward, OwnerPc, TaskPc, Thread, TypeInv, TypeOK, CallType, Spawn,
         SpawnFailed, Submit, StartTask, Goto
    <2> QED
      BY <2>1, <2>2, OwnershipForward
  <1>9. ASSUME NEW a \in Attempt, Touch(a) PROVE Ownership'
    <2>1. UNCHANGED <<req, pushed>>
      BY <1>9 DEF Touch
    <2>2. Forward
      BY <1>9 DEF Forward, OwnerPc, TaskPc, Thread, TypeInv, TypeOK, CallType, Touch,
         Goto, Raise, Update
    <2> QED
      BY <2>1, <2>2, OwnershipForward
  <1>10. ASSUME NEW a \in Attempt, Put(a) PROVE Ownership'
    <2>1. UNCHANGED <<req, pushed>>
      BY <1>10 DEF Put
    <2>2. Forward
      BY <1>10 DEF Forward, OwnerPc, TaskPc, Thread, TypeInv, TypeOK, CallType, Put,
         Goto, AfterPut, Raise, Update
    <2> QED
      BY <2>1, <2>2, OwnershipForward
  <1>11. ASSUME NEW a \in Attempt,
              Fetch(a) \/ Process(a) \/ Lock(a)
       PROVE  Ownership'
    <2>1. UNCHANGED <<req, pushed>>
      BY <1>11 DEF Fetch, Process, Lock, Local
    <2>2. Forward
      BY <1>11 DEF Forward, OwnerPc, TaskPc, Thread, TypeInv, TypeOK, CallType, Fetch,
         Process, Lock, Goto, Raise, Update, Local
    <2> QED
      BY <2>1, <2>2, OwnershipForward
  <1>12. ASSUME NEW a \in Attempt,
              Assemble(a) \/ Filter(a) \/ Save(a)
       PROVE  Ownership'
    <2>1. UNCHANGED <<req, pushed>>
      BY <1>12 DEF Assemble, Filter, Save, Local
    <2>2. Forward
      BY <1>12 DEF Forward, OwnerPc, TaskPc, Thread, TypeInv, TypeOK, CallType, Assemble,
         Filter, Save, Goto, Raise, Update, Local
    <2> QED
      BY <2>1, <2>2, OwnershipForward
  <1>13. ASSUME NEW a \in Attempt, Guard(a) PROVE Ownership'
    <2>1. UNCHANGED <<req, pushed>>
      BY <1>13 DEF Guard
    <2>2. Forward
      BY <1>13 DEF Forward, OwnerPc, TaskPc, Thread, TypeInv, TypeOK, CallType, Guard,
         Goto, Raise, Update
    <2> QED
      BY <2>1, <2>2, OwnershipForward
  <1>14. ASSUME NEW a \in Attempt, Push(a) PROVE Ownership'
    BY <1>14, JobStep
    DEF Push, Local, Goto, Raise, Update, Ownership, OwnerPc, TaskPc, Thread, TypeInv,
        TypeOK, CallType, CallShape, BoundType
  <1>15. ASSUME NEW a \in Attempt,
              Finish(a) \/ Cleanup(a)
       PROVE  Ownership'
    <2>1. UNCHANGED <<req, pushed>>
      BY <1>15 DEF Finish, Cleanup
    <2>2. Forward
      BY <1>15 DEF Forward, OwnerPc, TaskPc, Thread, TypeInv, TypeOK, CallType, Finish,
         Cleanup, Goto
    <2> QED
      BY <2>1, <2>2, OwnershipForward
  <1>16. ASSUME NEW p \in Proc, Shutdown(p) PROVE Ownership'
    <2>1. UNCHANGED <<req, pushed>>
      BY <1>16 DEF Shutdown
    <2>2. Forward
      BY <1>16 DEF Forward, OwnerPc, TaskPc, Thread, TypeInv, TypeOK, CallType, Shutdown
    <2> QED
      BY <2>1, <2>2, OwnershipForward
  <1>17. ASSUME NEW p \in Proc, Crash(p) PROVE Ownership'
    <2>1. UNCHANGED <<req, pushed>>
      BY <1>17 DEF Crash
    <2>2. Forward
      BY <1>17, ConstantsAssumption DEF Forward, OwnerPc, TaskPc, Thread, TypeInv,
         TypeOK, CallType, Crash
    <2> QED
      BY <2>1, <2>2, OwnershipForward
  <1>18. ASSUME NEW a \in Attempt,
              BeatSend(a) \/ BeatArrive(a)
       PROVE  Ownership'
    <2>1. UNCHANGED <<req, pushed>>
      BY <1>18 DEF BeatSend, BeatArrive
    <2>2. Forward
      BY <1>18 DEF Forward, OwnerPc, TaskPc, Thread, TypeInv, TypeOK, CallType, BeatSend,
         BeatArrive
    <2> QED
      BY <2>1, <2>2, OwnershipForward
  <1>19. ASSUME NEW p \in Proc,
              RecoverScan(p) \/ RecoverEvict(p) \/ RecoverRead(p) \/ RecoverMark(p)
       PROVE  Ownership'
    <2>1. UNCHANGED <<req, pushed>>
      BY <1>19 DEF RecoverScan, RecoverEvict, RecoverRead, RecoverMark
    <2>2. Forward
      BY <1>19 DEF Forward, OwnerPc, TaskPc, Thread, TypeInv, TypeOK, CallType,
         RecoverScan, RecoverEvict, RecoverRead, RecoverMark
    <2> QED
      BY <2>1, <2>2, OwnershipForward
  <1>20. CASE Tick
    <2>1. UNCHANGED <<req, pushed>>
      BY <1>20 DEF Tick
    <2>2. Forward
      BY <1>20 DEF Forward, Tick
    <2> QED
      BY <2>1, <2>2, OwnershipForward
  <1>21. CASE UNCHANGED vars
    BY <1>21 DEF Ownership, vars
  <1> QED
    BY <1>1, <1>2, <1>3, <1>4, <1>5, <1>6, <1>7, <1>8, <1>9, <1>10, <1>11, <1>12,
       <1>13, <1>14, <1>15, <1>16, <1>17, <1>18, <1>19, <1>20, <1>21 DEF Next, Read,
       Step, Recover

\* No attempt is past Create and nothing is pushed at the start.
LEMMA InitOwnership == Init => Ownership
  BY DEF Init, Ownership, OwnerPc, TaskPc, Thread

\* An attempt past Create, and one that pushed, owns the durable job of its
\* request for ever: put_owned keeps the token and create never overwrites.
THEOREM OwnershipInvariant == Spec => []Ownership
  <1>1. TypeInv /\ Ownership /\ [Next]_vars => Ownership'
    BY OwnershipStep
  <1> QED
    BY InitOwnership, TypeInvariant, <1>1, PTL DEF Spec

\* However often a request id is posted and on whatever process, its page
\* reaches RabbitMQ from one attempt only.
THEOREM RequestsPublishOnce == Spec => []OnePublication
  <1>1. TypeInv /\ Ownership => OnePublication
    BY DEF TypeInv, TypeOK, BoundType, Ownership, OnePublication
  <1> QED
    BY TypeInvariant, OwnershipInvariant, <1>1, PTL

-----------------------------------------------------------------------------
(* What a durable job says about its publication.  The record is written by    *)
(* the worker, and written back by readers and recovery from snapshots, so the *)
(* snapshots carry the same claim.                                             *)

Truthful(t, s) == /\ s = "queued" => t \in pushed
                  /\ s = "filtered_out" => pub[t] = "filtered_out"

\* The attempt is past every publishing step.
Settled(a) ==
  \/ pc[a] \in {"save", "finish", "cleanup", "end"}
  \/ /\ pc[a] \in {"touch", "put"}
     /\ stage[a] \in {"publication_filtered", "publication_queued"} \cup TerminalStage

WorkerRecord ==
  \A a \in Attempt : /\ pub[a] = "queued" => a \in pushed
                     /\ pub[a] = "filtered_out" => a \notin pushed /\ Settled(a)
                     /\ a \in pushed => Settled(a)
JobRecord == \A r \in Req : job[r] # None => Truthful(job[r].tok, job[r].pub)
ViewRecord == \A x \in Thread : view[x] # None => Truthful(view[x].tok, view[x].pub)
MarkRecord ==
  \A p \in Proc : mark[p] # None =>
    job[mark[p].req] # None /\ Truthful(job[mark[p].req].tok, mark[p].pub)

Record == WorkerRecord /\ JobRecord /\ ViewRecord /\ MarkRecord

\* The worker's own record stays true: it is set by the push and by the filter only.
LEMMA WorkerRecordStep ==
  ASSUME TypeInv, WorkerRecord, [Next]_vars
  PROVE  WorkerRecord'
  <1>1. ASSUME NEW q \in Poller, NEW p \in Proc, NEW r \in Req, Poll(q, p, r) PROVE WorkerRecord'
    BY <1>1, ConstantsAssumption DEF Poll, WorkerRecord, Settled, TypeInv, TypeOK,
       TaskType, CallType, Thread, Goto
  <1>2. ASSUME NEW a \in Attempt, NEW p \in Proc, NEW r \in Req, Enqueue(a, p, r) PROVE WorkerRecord'
    BY <1>2 DEF Enqueue, WorkerRecord, Settled, TypeInv, TypeOK, TaskType, CallType,
       Thread, Goto
  <1>3. ASSUME NEW x \in Thread, Get(x) PROVE WorkerRecord'
    BY <1>3 DEF Get, WorkerRecord, Settled, TypeInv, TypeOK, TaskType, CallType,
       Thread, Goto, AfterMiss
  <1>4. ASSUME NEW x \in Thread,
              Owns(x) \/ Fence(x)
       PROVE  WorkerRecord'
    BY <1>4 DEF Owns, Fence, WorkerRecord, Settled, TypeInv, TypeOK, TaskType,
       CallType, Thread, Goto
  <1>5. ASSUME NEW a \in Attempt,
              Reserve(a) \/ Claim(a) \/ Create(a) \/ Spawn(a) \/ SpawnFailed(a) \/
                 Submit(a) \/ StartTask(a)
       PROVE  WorkerRecord'
    BY <1>5 DEF Reserve, Claim, Create, Spawn, SpawnFailed, Submit, StartTask,
       WorkerRecord, Settled, TypeInv, TypeOK, TaskType, CallType, Thread, Goto
  <1>6. ASSUME NEW a \in Attempt, Touch(a) PROVE WorkerRecord'
    BY <1>6 DEF Touch, WorkerRecord, Settled, TypeInv, TypeOK, TaskType, CallType,
       Thread, Goto, Raise, Update, LockedStage, PublishStage, TerminalStage, Stage
  <1>7. ASSUME NEW a \in Attempt, Put(a) PROVE WorkerRecord'
    BY <1>7 DEF Put, WorkerRecord, Settled, TypeInv, TypeOK, TaskType, CallType,
       Thread, Goto, Raise, Update, AfterPut, LockedStage, PublishStage,
       TerminalStage, Stage
  <1>8. ASSUME NEW a \in Attempt,
              Fetch(a) \/ Process(a) \/ Lock(a)
       PROVE  WorkerRecord'
    BY <1>8 DEF Fetch, Process, Lock, WorkerRecord, Settled, TypeInv, TypeOK,
       TaskType, CallType, Thread, Goto, Raise, Update, Local, LockedStage,
       PublishStage, TerminalStage, Stage
  <1>9. ASSUME NEW a \in Attempt, Assemble(a) PROVE WorkerRecord'
    BY <1>9 DEF Assemble, WorkerRecord, Settled, TypeInv, TypeOK, TaskType, CallType,
       Thread, Goto, Raise, Update, Local, LockedStage, PublishStage, TerminalStage,
       Stage
  <1>10. ASSUME NEW a \in Attempt, Filter(a) PROVE WorkerRecord'
    BY <1>10 DEF Filter, WorkerRecord, Settled, TypeInv, TypeOK, TaskType, CallType,
       Thread, Goto, Raise, Update, Local, LockedStage, PublishStage, TerminalStage,
       Stage
  <1>11. ASSUME NEW a \in Attempt, Guard(a) PROVE WorkerRecord'
    BY <1>11 DEF Guard, WorkerRecord, Settled, TypeInv, TypeOK, TaskType, CallType,
       Thread, Goto, Raise, Update, LockedStage, PublishStage, TerminalStage, Stage
  <1>12. ASSUME NEW a \in Attempt, Push(a) PROVE WorkerRecord'
    BY <1>12 DEF Push, WorkerRecord, Settled, TypeInv, TypeOK, TaskType, CallType,
       Thread, Goto, Raise, Update, Local, LockedStage, PublishStage, TerminalStage,
       Stage
  <1>13. ASSUME NEW a \in Attempt, Save(a) PROVE WorkerRecord'
    BY <1>13 DEF Save, WorkerRecord, Settled, TypeInv, TypeOK, TaskType, CallType,
       Thread, Goto, Raise, Update, Local, LockedStage, PublishStage, TerminalStage,
       Stage
  <1>14. ASSUME NEW a \in Attempt,
              Finish(a) \/ Cleanup(a)
       PROVE  WorkerRecord'
    BY <1>14 DEF Finish, Cleanup, WorkerRecord, Settled, TypeInv, TypeOK, TaskType,
       CallType, Thread, Goto
  <1>15. ASSUME NEW p \in Proc,
              Shutdown(p) \/ Crash(p)
       PROVE  WorkerRecord'
    BY <1>15, ConstantsAssumption DEF Shutdown, Crash, WorkerRecord, Settled, TypeInv,
       TypeOK, TaskType, CallType, Thread
  <1>16. ASSUME NEW a \in Attempt,
              BeatSend(a) \/ BeatArrive(a)
       PROVE  WorkerRecord'
    BY <1>16 DEF BeatSend, BeatArrive, WorkerRecord, Settled, TypeInv, TypeOK,
       TaskType, CallType, Thread
  <1>17. ASSUME NEW p \in Proc,
              RecoverScan(p) \/ RecoverEvict(p) \/ RecoverRead(p) \/ RecoverMark(p)
       PROVE  WorkerRecord'
    BY <1>17 DEF RecoverScan, RecoverEvict, RecoverRead, RecoverMark, WorkerRecord,
       Settled, TypeInv, TypeOK, TaskType, CallType, Thread
  <1>18. CASE Tick
    BY <1>18 DEF Tick, WorkerRecord, Settled, TypeInv, TypeOK, TaskType, CallType,
       Thread
  <1>19. CASE UNCHANGED vars
    BY <1>19 DEF WorkerRecord, Settled, vars
  <1> QED
    BY <1>1, <1>2, <1>3, <1>4, <1>5, <1>6, <1>7, <1>8, <1>9, <1>10, <1>11, <1>12,
       <1>13, <1>14, <1>15, <1>16, <1>17, <1>18, <1>19 DEF Next, Read, Step, Recover

\* What no step takes back: a push, and the verdict that filtered a candidate.
LEMMA VerdictStable ==
  ASSUME TypeInv, WorkerRecord, [Next]_vars
  PROVE  /\ pushed \subseteq pushed'
         /\ \A a \in Attempt : pub[a] = "filtered_out" => pub'[a] = "filtered_out"
  <1> DEFINE Goal == /\ pushed \subseteq pushed'
                     /\ \A a \in Attempt : pub[a] = "filtered_out" => pub'[a] = "filtered_out"
  <1>1. ASSUME NEW q \in Poller, NEW p \in Proc, NEW r \in Req, Poll(q, p, r) PROVE Goal
    BY <1>1 DEF Poll
  <1>2. ASSUME NEW a \in Attempt, NEW p \in Proc, NEW r \in Req, Enqueue(a, p, r) PROVE Goal
    BY <1>2 DEF Enqueue
  <1>3. ASSUME NEW x \in Thread,
              Get(x) \/ Owns(x) \/ Fence(x)
       PROVE  Goal
    BY <1>3 DEF Get, Owns, Fence
  <1>4. ASSUME NEW a \in Attempt,
              Reserve(a) \/ Claim(a) \/ Create(a) \/ Spawn(a) \/ SpawnFailed(a) \/
                 Submit(a) \/ StartTask(a) \/ Touch(a) \/ Put(a) \/ Fetch(a) \/
                 Process(a) \/ Lock(a) \/ Assemble(a) \/ Guard(a) \/ Save(a) \/
                 Finish(a) \/ Cleanup(a) \/ BeatSend(a) \/ BeatArrive(a)
       PROVE  Goal
    BY <1>4 DEF Reserve, Claim, Create, Spawn, SpawnFailed, Submit, StartTask, Touch,
       Put, Fetch, Process, Lock, Assemble, Guard, Save, Finish, Cleanup, BeatSend,
       BeatArrive, Local
  <1>5. ASSUME NEW p \in Proc,
              RecoverScan(p) \/ RecoverEvict(p) \/ RecoverRead(p) \/ RecoverMark(p)
                 \/ Shutdown(p) \/ Crash(p)
       PROVE  Goal
    BY <1>5 DEF RecoverScan, RecoverEvict, RecoverRead, RecoverMark, Shutdown, Crash
  <1>6. CASE Tick
    BY <1>6 DEF Tick
  <1>7. ASSUME NEW a \in Attempt,
              Filter(a) \/ Push(a)
       PROVE  Goal
    BY <1>7 DEF Filter, Push, WorkerRecord, Settled, TypeInv, TypeOK, TaskType, Local
  <1>8. CASE UNCHANGED vars
    BY <1>8 DEF vars
  <1> QED
    BY <1>1, <1>2, <1>3, <1>4, <1>5, <1>6, <1>7, <1>8 DEF Next, Read, Step, Recover

\* A write under token t of a state that is true of t keeps the durable jobs true.
LEMMA PutTruthful ==
  ASSUME TypeInv, Record, [Next]_vars,
         NEW q \in Req, NEW t \in Attempt, NEW s \in Status, NEW u \in PubState,
         PutScript(q, t, s, u) \/ UNCHANGED job,
         job[q] # None /\ job[q].tok = t => Truthful(t, u)
  PROVE  JobRecord'
  <1> SUFFICES ASSUME NEW r \in Req, job'[r] # None PROVE Truthful(job[r].tok, job[r].pub)'
    BY DEF JobRecord
  <1>0. pushed \subseteq pushed' /\ \A a \in Attempt : pub[a] = "filtered_out" => pub'[a] = "filtered_out"
    BY VerdictStable DEF Record
  <1>1. CASE job'[r] = job[r]
    BY <1>0, <1>1 DEF Record, JobRecord, TypeInv, TypeOK, RedisType, JobRec, Truthful
  <1>2. CASE job'[r] # job[r]
    <2>1. /\ r = q /\ job[q] # None /\ job[q].tok = t
          /\ job'[r] = [status |-> s, tok |-> t, pub |-> u]
      BY <1>2 DEF PutScript, PutAllowed, Active, TypeInv, TypeOK, RedisType
    <2> QED
      BY <1>0, <2>1 DEF Truthful
  <1> QED
    BY <1>1, <1>2

\* The durable jobs stay true, whoever writes them.
LEMMA JobRecordStep ==
  ASSUME TypeInv, Record, [Next]_vars
  PROVE  JobRecord'
  <1>1. ASSUME NEW q \in Poller, NEW p \in Proc, NEW r \in Req, Poll(q, p, r) PROVE JobRecord'
    BY <1>1, VerdictStable DEF Poll, Record, JobRecord, Truthful, TypeInv, TypeOK,
       RedisType, JobRec
  <1>2. ASSUME NEW a \in Attempt, NEW p \in Proc, NEW r \in Req, Enqueue(a, p, r) PROVE JobRecord'
    BY <1>2, VerdictStable DEF Enqueue, Record, JobRecord, Truthful, TypeInv, TypeOK,
       RedisType, JobRec
  <1>3. ASSUME NEW x \in Thread,
              Get(x) \/ Owns(x)
       PROVE  JobRecord'
    BY <1>3, VerdictStable DEF Get, Owns, Record, JobRecord, Truthful, TypeInv,
       TypeOK, RedisType, JobRec
  <1>4. ASSUME NEW a \in Attempt,
              Reserve(a) \/ Claim(a) \/ Spawn(a) \/ Submit(a) \/ StartTask(a) \/
                 Touch(a) \/ Fetch(a) \/ Process(a) \/ Lock(a) \/ Assemble(a) \/
                 Filter(a) \/ Guard(a) \/ Push(a) \/ Save(a) \/ Finish(a) \/
                 Cleanup(a) \/ BeatSend(a) \/ BeatArrive(a)
       PROVE  JobRecord'
    BY <1>4, VerdictStable DEF Reserve, Claim, Spawn, Submit, StartTask, Touch, Fetch,
       Process, Lock, Assemble, Filter, Guard, Push, Save, Finish, Cleanup, BeatSend,
       BeatArrive, Local, Record, JobRecord, Truthful, TypeInv, TypeOK, RedisType,
       JobRec
  <1>5. ASSUME NEW p \in Proc,
              RecoverScan(p) \/ RecoverEvict(p) \/ RecoverRead(p) \/ Shutdown(p) \/
                 Crash(p)
       PROVE  JobRecord'
    BY <1>5, VerdictStable DEF RecoverScan, RecoverEvict, RecoverRead, Shutdown,
       Crash, Record, JobRecord, Truthful, TypeInv, TypeOK, RedisType, JobRec
  <1>6. CASE Tick
    BY <1>6, VerdictStable DEF Tick, Record, JobRecord, Truthful, TypeInv, TypeOK,
       RedisType, JobRec
  <1>7. ASSUME NEW x \in Thread, Fence(x) PROVE JobRecord'
    <2>1. req[x] \in Req /\ view[x].tok \in Attempt /\ "error" \in Status /\
       view[x].pub \in PubState
      BY <1>7 DEF TypeInv, TypeOK, CallType, CallShape, Snapshot, Status, Fence
    <2>2. PutScript(req[x], view[x].tok, "error", view[x].pub) \/ UNCHANGED job
      BY <1>7 DEF Fence
    <2>3. job[req[x]] # None /\ job[req[x]].tok = view[x].tok => Truthful(view[x].tok,
       view[x].pub)
      BY <1>7 DEF Fence, Record, ViewRecord, TypeInv, CallShape
    <2> QED
      BY <2>1, <2>2, <2>3, PutTruthful
  <1>8. ASSUME NEW a \in Attempt, SpawnFailed(a) PROVE JobRecord'
    <2>1. req[a] \in Req /\ a \in Attempt /\ "error" \in Status /\ pub[a] \in PubState
      BY <1>8 DEF TypeInv, TypeOK, TaskType, CallShape, Thread, Status, SpawnFailed
    <2>2. PutScript(req[a], a, "error", pub[a]) \/ UNCHANGED job
      BY <1>8 DEF SpawnFailed
    <2>3. job[req[a]] # None /\ job[req[a]].tok = a => Truthful(a, pub[a])
      BY <1>8 DEF Record, WorkerRecord, Truthful
    <2> QED
      BY <2>1, <2>2, <2>3, PutTruthful
  <1>9. ASSUME NEW a \in Attempt, Put(a) PROVE JobRecord'
    <2>1. req[a] \in Req /\ a \in Attempt /\ StageStatus(stage[a]) \in Status /\
       pub[a] \in PubState
      BY <1>9 DEF TypeInv, TypeOK, TaskType, CallShape, Thread, Status, StageStatus, Put
    <2>2. PutScript(req[a], a, StageStatus(stage[a]), pub[a]) \/ UNCHANGED job
      BY <1>9 DEF Put
    <2>3. job[req[a]] # None /\ job[req[a]].tok = a => Truthful(a, pub[a])
      BY <1>9 DEF Record, WorkerRecord, Truthful
    <2> QED
      BY <2>1, <2>2, <2>3, PutTruthful
  <1>10. ASSUME NEW p \in Proc, RecoverMark(p) PROVE JobRecord'
    <2>1. mark[p].req \in Req /\ mark[p].tok \in Attempt /\ "error" \in Status /\
       mark[p].pub \in PubState
      BY <1>10 DEF TypeInv, TypeOK, RecoveryType, Marking, Status, RecoverMark
    <2>2. PutScript(mark[p].req, mark[p].tok, "error", mark[p].pub) \/ UNCHANGED job
      BY <1>10 DEF RecoverMark
    <2>3. job[mark[p].req] # None /\ job[mark[p].req].tok = mark[p].tok =>
       Truthful(mark[p].tok, mark[p].pub)
      BY <1>10 DEF RecoverMark, Record, MarkRecord
    <2> QED
      BY <2>1, <2>2, <2>3, PutTruthful
  <1>11. ASSUME NEW a \in Attempt, Create(a) PROVE JobRecord'
    BY <1>11, VerdictStable
    DEF Create, CreateScript, NewJob, Record, JobRecord, Truthful, TypeInv, TypeOK,
        RedisType, JobRec
  <1>12. CASE UNCHANGED vars
    BY <1>12 DEF Record, JobRecord, Truthful, vars
  <1> QED
    BY <1>1, <1>2, <1>3, <1>4, <1>5, <1>6, <1>7, <1>8, <1>9, <1>10, <1>11, <1>12 DEF
       Next, Read, Step, Recover

\* A snapshot taken from a true job stays true while the reader holds it.
LEMMA ViewRecordStep ==
  ASSUME TypeInv, Record, [Next]_vars
  PROVE  ViewRecord'
  <1>1. ASSUME NEW q \in Poller, NEW p \in Proc, NEW r \in Req, Poll(q, p, r) PROVE ViewRecord'
    BY <1>1, VerdictStable DEF Poll, Record, ViewRecord, Truthful, TypeInv, TypeOK,
       CallType, Snapshot
  <1>2. ASSUME NEW a \in Attempt, NEW p \in Proc, NEW r \in Req, Enqueue(a, p, r) PROVE ViewRecord'
    BY <1>2, VerdictStable DEF Enqueue, Record, ViewRecord, Truthful, TypeInv, TypeOK,
       CallType, Snapshot
  <1>3. ASSUME NEW a \in Attempt,
              Reserve(a) \/ Claim(a) \/ Create(a) \/ Spawn(a) \/ SpawnFailed(a) \/
                 Submit(a) \/ StartTask(a) \/ Touch(a) \/ Put(a) \/ Fetch(a) \/
                 Process(a) \/ Lock(a) \/ Assemble(a) \/ Filter(a) \/ Guard(a) \/
                 Push(a) \/ Save(a) \/ Finish(a) \/ Cleanup(a) \/ BeatSend(a) \/
                 BeatArrive(a)
       PROVE  ViewRecord'
    BY <1>3, VerdictStable DEF Reserve, Claim, Create, Spawn, SpawnFailed, Submit,
       StartTask, Touch, Put, Fetch, Process, Lock, Assemble, Filter, Guard, Push,
       Save, Finish, Cleanup, BeatSend, BeatArrive, Local, Record, ViewRecord,
       Truthful, TypeInv, TypeOK, CallType, Snapshot
  <1>4. ASSUME NEW p \in Proc,
              RecoverScan(p) \/ RecoverEvict(p) \/ RecoverRead(p) \/ RecoverMark(p)
                 \/ Shutdown(p)
       PROVE  ViewRecord'
    BY <1>4, VerdictStable DEF RecoverScan, RecoverEvict, RecoverRead, RecoverMark,
       Shutdown, Record, ViewRecord, Truthful, TypeInv, TypeOK, CallType, Snapshot
  <1>5. ASSUME NEW x \in Thread, Get(x) PROVE ViewRecord'
    BY <1>5, VerdictStable DEF Get, Record, ViewRecord, Truthful, TypeInv, TypeOK,
       CallType, Snapshot, JobRecord, RedisType, JobRec, CallShape, Active, Goto
  <1>6. ASSUME NEW x \in Thread,
              Owns(x) \/ Fence(x)
       PROVE  ViewRecord'
    BY <1>6, VerdictStable DEF Owns, Fence, Record, ViewRecord, Truthful, TypeInv,
       TypeOK, CallType, Snapshot
  <1>7. ASSUME NEW p \in Proc, Crash(p) PROVE ViewRecord'
    BY <1>7, VerdictStable DEF Crash, Record, ViewRecord, Truthful, TypeInv, TypeOK,
       CallType, Snapshot
  <1>8. CASE Tick
    BY <1>8, VerdictStable DEF Tick, Record, ViewRecord, Truthful, TypeInv, TypeOK,
       CallType, Snapshot
  <1>9. CASE UNCHANGED vars
    BY <1>9 DEF Record, ViewRecord, Truthful, vars
  <1> QED
    BY <1>1, <1>2, <1>3, <1>4, <1>5, <1>6, <1>7, <1>8, <1>9 DEF Next, Read, Step,
       Recover

\* What recovery read of a job stays true of that job.
LEMMA MarkRecordStep ==
  ASSUME TypeInv, Record, [Next]_vars
  PROVE  MarkRecord'
  <1>0. ASSUME UNCHANGED mark PROVE MarkRecord'
    BY <1>0, VerdictStable, JobStep DEF Record, MarkRecord, Truthful, TypeInv, TypeOK,
       RecoveryType, RedisType, JobRec, Marking
  <1>1. ASSUME NEW q \in Poller, NEW p \in Proc, NEW r \in Req, Poll(q, p, r) PROVE MarkRecord'
    BY <1>1, VerdictStable, JobStep DEF Poll, Record, MarkRecord, Truthful, TypeInv,
       TypeOK, RecoveryType, RedisType, JobRec, Marking
  <1>2. ASSUME NEW a \in Attempt, NEW p \in Proc, NEW r \in Req, Enqueue(a, p, r) PROVE MarkRecord'
    BY <1>2, VerdictStable, JobStep DEF Enqueue, Record, MarkRecord, Truthful,
       TypeInv, TypeOK, RecoveryType, RedisType, JobRec, Marking
  <1>3. ASSUME NEW x \in Thread,
              Get(x) \/ Owns(x) \/ Fence(x)
       PROVE  MarkRecord'
    BY <1>3, VerdictStable, JobStep DEF Get, Owns, Fence, Record, MarkRecord,
       Truthful, TypeInv, TypeOK, RecoveryType, RedisType, JobRec, Marking
  <1>4. ASSUME NEW a \in Attempt,
              Reserve(a) \/ Claim(a) \/ Create(a) \/ Spawn(a) \/ SpawnFailed(a) \/
                 Submit(a) \/ StartTask(a) \/ Touch(a) \/ Put(a) \/ Fetch(a) \/
                 Process(a) \/ Lock(a) \/ Assemble(a) \/ Filter(a) \/ Guard(a) \/
                 Push(a) \/ Save(a) \/ Finish(a) \/ Cleanup(a) \/ BeatSend(a) \/
                 BeatArrive(a)
       PROVE  MarkRecord'
    <2>1. UNCHANGED mark
      BY <1>4 DEF Reserve, Claim, Create, Spawn, SpawnFailed, Submit, StartTask, Touch, Put,
         Fetch, Process, Lock, Assemble, Filter, Guard, Push, Save, Finish, Cleanup, BeatSend,
         BeatArrive, Local
    <2> QED BY <1>0, <2>1
  <1>5. ASSUME NEW p \in Proc,
              RecoverScan(p) \/ RecoverEvict(p) \/ Shutdown(p)
       PROVE  MarkRecord'
    BY <1>5, VerdictStable, JobStep DEF RecoverScan, RecoverEvict, Shutdown, Record,
       MarkRecord, Truthful, TypeInv, TypeOK, RecoveryType, RedisType, JobRec, Marking
  <1>6. CASE Tick
    BY <1>6, VerdictStable, JobStep DEF Tick, Record, MarkRecord, Truthful, TypeInv,
       TypeOK, RecoveryType, RedisType, JobRec, Marking
  <1>7. ASSUME NEW p \in Proc, RecoverRead(p) PROVE MarkRecord'
    BY <1>7, VerdictStable, JobStep DEF RecoverRead, Record, MarkRecord, Truthful,
       TypeInv, TypeOK, RecoveryType, RedisType, JobRec, Marking, JobRecord, Active
  <1>8. ASSUME NEW p \in Proc,
              RecoverMark(p) \/ Crash(p)
       PROVE  MarkRecord'
    BY <1>8, VerdictStable, JobStep DEF RecoverMark, Crash, Record, MarkRecord,
       Truthful, TypeInv, TypeOK, RecoveryType, RedisType, JobRec, Marking
  <1>9. CASE UNCHANGED vars
    BY <1>9 DEF Record, MarkRecord, Truthful, vars
  <1> QED
    BY <1>1, <1>2, <1>3, <1>4, <1>5, <1>6, <1>7, <1>8, <1>9 DEF Next, Read, Step,
       Recover

\* The worker's, the durable, the observed and the recovered state of a
\* publication are true together.
THEOREM RecordInvariant == Spec => []Record
  <1>1. Init => Record
    BY DEF Init, Record, WorkerRecord, JobRecord, ViewRecord, MarkRecord
  <1>2. TypeInv /\ Record /\ [Next]_vars => Record'
    BY WorkerRecordStep, JobRecordStep, ViewRecordStep, MarkRecordStep DEF Record
  <1> QED
    BY TypeInvariant, <1>1, <1>2, PTL DEF Spec

\* A durable job that says its publication was queued belongs to an attempt whose
\* message RabbitMQ accepted, and one recorded as filtered out sent no page.
THEOREM RecordedPublicationsAreTrue == Spec => []PublicationIsTrue
  <1>1. Record => QueuedMeansPushed
    BY DEF Record, JobRecord, Truthful, QueuedMeansPushed
  <1>2. TypeInv /\ Record => FilteredMeansNotPushed
    BY DEF Record, JobRecord, WorkerRecord, Truthful, FilteredMeansNotPushed,
           TypeInv, TypeOK, RedisType, JobRec
  <1>3. TypeInv /\ Record => PublicationIsTrue
    BY <1>1, <1>2 DEF PublicationIsTrue
  <1> QED
    BY TypeInvariant, RecordInvariant, <1>3, PTL

-----------------------------------------------------------------------------
(* The publication fence.  While an attempt is between its guard and its push *)
(* the heartbeat it last wrote bounds how long it has stalled, and recovery    *)
(* evicts only a record whose heartbeat it saw expired and nobody renewed.     *)

PushFence ==
  \A a \in Attempt : pc[a] = "push" =>
    \/ lease[req[a]] = a /\ hbAge[req[a]] <= guardAge[a]
    \/ guardAge[a] = StaleAfter

ScanFence ==
  \A p \in Proc : \A c \in cand[p] :
    rpc[p] = "evict" /\ c[1] \notin fresh[p] => lease[c[1]] = None \/ hbAge[c[1]] = StaleAfter

\* The bound on a stalled publisher is preserved by every step.
LEMMA PushFenceStep ==
  ASSUME TypeInv, PushFence, ScanFence, [Next]_vars
  PROVE  PushFence'
  <1>1. ASSUME NEW q \in Poller, NEW p \in Proc, NEW r \in Req, Poll(q, p, r) PROVE PushFence'
    BY <1>1, ConstantsAssumption DEF Poll, PushFence, ScanFence, TypeInv, TypeOK,
       RedisType, CallType, TaskType, CallShape, Thread, Goto
  <1>2. ASSUME NEW x \in Thread,
              Get(x) \/ Owns(x) \/ Fence(x)
       PROVE  PushFence'
    BY <1>2, ConstantsAssumption DEF Get, Owns, Fence, PushFence, ScanFence, TypeInv,
       TypeOK, RedisType, CallType, TaskType, CallShape, Thread, Goto, AfterMiss
  <1>3. ASSUME NEW a \in Attempt, NEW p \in Proc, NEW r \in Req, Enqueue(a, p, r) PROVE PushFence'
    BY <1>3 DEF Enqueue, PushFence, ScanFence, TypeInv, TypeOK, RedisType, CallType,
       TaskType, CallShape, Thread, Goto
  <1>4. ASSUME NEW a \in Attempt,
              Reserve(a) \/ Create(a) \/ Spawn(a) \/ SpawnFailed(a) \/ Submit(a) \/
                 StartTask(a) \/ Cleanup(a)
       PROVE  PushFence'
    BY <1>4 DEF Reserve, Create, Spawn, SpawnFailed, Submit, StartTask, Cleanup,
       PushFence, ScanFence, TypeInv, TypeOK, RedisType, CallType, TaskType,
       CallShape, Thread, Goto
  <1>5. ASSUME NEW a \in Attempt, Claim(a) PROVE PushFence'
    BY <1>5, NoneAssumption DEF Claim, PushFence, ScanFence, TypeInv, TypeOK,
       RedisType, CallType, TaskType, CallShape, Thread, Goto, ClaimScript,
       WriteHeartbeat, RedisFault
  <1>6. ASSUME NEW a \in Attempt, Touch(a) PROVE PushFence'
    BY <1>6 DEF Touch, PushFence, ScanFence, TypeInv, TypeOK, RedisType, CallType,
       TaskType, CallShape, Thread, Goto, TouchScript, WriteHeartbeat, Raise, Update,
       RedisFault
  <1>7. ASSUME NEW a \in Attempt, Put(a) PROVE PushFence'
    BY <1>7 DEF Put, PushFence, ScanFence, TypeInv, TypeOK, RedisType, CallType,
       TaskType, CallShape, Thread, Goto, Raise, Update, AfterPut
  <1>8. ASSUME NEW a \in Attempt,
              Fetch(a) \/ Process(a) \/ Lock(a) \/ Assemble(a) \/ Filter(a) \/
                 Push(a) \/ Save(a)
       PROVE  PushFence'
    BY <1>8 DEF Fetch, Process, Lock, Assemble, Filter, Push, Save, PushFence,
       ScanFence, TypeInv, TypeOK, RedisType, CallType, TaskType, CallShape, Thread,
       Goto, Raise, Update, Local
  <1>9. ASSUME NEW a \in Attempt, Guard(a) PROVE PushFence'
    BY <1>9, ConstantsAssumption DEF Guard, PushFence, ScanFence, TypeInv, TypeOK,
       RedisType, CallType, TaskType, CallShape, Thread, Goto, TouchScript,
       WriteHeartbeat, Raise, Update, RedisFault, Age
  <1>10. ASSUME NEW a \in Attempt, Finish(a) PROVE PushFence'
    BY <1>10 DEF Finish, PushFence, ScanFence, TypeInv, TypeOK, RedisType, CallType,
       TaskType, CallShape, Thread, Goto, FinishScript, RedisFault
  <1>11. ASSUME NEW a \in Attempt, BeatSend(a) PROVE PushFence'
    BY <1>11 DEF BeatSend, PushFence, ScanFence, TypeInv, TypeOK, RedisType, CallType,
       TaskType, CallShape, Thread
  <1>12. ASSUME NEW a \in Attempt, BeatArrive(a) PROVE PushFence'
    BY <1>12, NoneAssumption, ConstantsAssumption DEF BeatArrive, PushFence,
       ScanFence, TypeInv, TypeOK, RedisType, CallType, TaskType, CallShape, Thread,
       TouchScript, WriteHeartbeat, RedisFault, Age, TaskPc
  <1>13. ASSUME NEW p \in Proc, RecoverEvict(p) PROVE PushFence'
    <2> SUFFICES ASSUME NEW a \in Attempt, pc[a] = "push"
                 PROVE  \/ lease'[req[a]] = a /\ hbAge[req[a]] <= guardAge[a]
                        \/ guardAge[a] = StaleAfter
      BY <1>13 DEF RecoverEvict, PushFence
    <2>1. req[a] \in Req /\ hbAge[req[a]] \in Age /\ guardAge[a] \in Age
      BY DEF TypeInv, TypeOK, RedisType, TaskType, CallShape, Thread
    <2>2. CASE lease' = lease
      BY <2>2 DEF PushFence
    <2>3. CASE \E c \in cand[p] : lease' = [lease EXCEPT ![c[1]] =
                                   IF EvictAllowed(p, c[1]) THEN None ELSE @]
      <3> PICK c \in cand[p] : lease' = [lease EXCEPT ![c[1]] =
                                   IF EvictAllowed(p, c[1]) THEN None ELSE @]
        BY <2>3
      <3>1. EvictAllowed(p, c[1]) => hbAge[c[1]] = StaleAfter
        BY <1>13 DEF RecoverEvict, EvictAllowed, ScanFence
      <3>2. lease'[req[a]] # lease[req[a]] => c[1] = req[a] /\ EvictAllowed(p, c[1])
        BY DEF TypeInv, TypeOK, RedisType
      <3> QED
        BY <2>1, <3>1, <3>2, ConstantsAssumption DEF PushFence, Age
    <2> QED
      BY <1>13, <2>2, <2>3 DEF RecoverEvict
  <1>14. ASSUME NEW p \in Proc,
              RecoverScan(p) \/ RecoverRead(p) \/ RecoverMark(p)
       PROVE  PushFence'
    BY <1>14 DEF RecoverScan, RecoverRead, RecoverMark, PushFence, ScanFence, TypeInv,
       TypeOK, RedisType, CallType, TaskType, CallShape, Thread
  <1>15. ASSUME NEW p \in Proc, Shutdown(p) PROVE PushFence'
    BY <1>15 DEF Shutdown, PushFence, ScanFence, TypeInv, TypeOK, RedisType, CallType,
       TaskType, CallShape, Thread
  <1>16. ASSUME NEW p \in Proc, Crash(p) PROVE PushFence'
    BY <1>16, ConstantsAssumption DEF Crash, PushFence, ScanFence, TypeInv, TypeOK,
       RedisType, CallType, TaskType, CallShape, Thread
  <1>17. CASE Tick
    BY <1>17, ConstantsAssumption DEF Tick, PushFence, ScanFence, TypeInv, TypeOK,
       RedisType, CallType, TaskType, CallShape, Thread, Older, Age
  <1>18. CASE UNCHANGED vars
    BY <1>18 DEF PushFence, vars
  <1> QED
    BY <1>1, <1>2, <1>3, <1>4, <1>5, <1>6, <1>7, <1>8, <1>9, <1>10, <1>11, <1>12,
       <1>13, <1>14, <1>15, <1>16, <1>17, <1>18 DEF Next, Read, Step, Recover

\* What recovery observed of a heartbeat is preserved by every step.
LEMMA ScanFenceStep ==
  ASSUME TypeInv, ScanFence, [Next]_vars
  PROVE  ScanFence'
  <1>1. ASSUME NEW q \in Poller, NEW p \in Proc, NEW r \in Req, Poll(q, p, r) PROVE ScanFence'
    BY <1>1 DEF Poll, ScanFence, TypeInv, TypeOK, RedisType, RecoveryType
  <1>2. ASSUME NEW a \in Attempt, NEW p \in Proc, NEW r \in Req, Enqueue(a, p, r) PROVE ScanFence'
    BY <1>2 DEF Enqueue, ScanFence, TypeInv, TypeOK, RedisType, RecoveryType
  <1>3. ASSUME NEW x \in Thread,
              Get(x) \/ Owns(x) \/ Fence(x)
       PROVE  ScanFence'
    BY <1>3 DEF Get, Owns, Fence, ScanFence, TypeInv, TypeOK, RedisType, RecoveryType
  <1>4. ASSUME NEW a \in Attempt,
              Reserve(a) \/ Create(a) \/ Spawn(a) \/ SpawnFailed(a) \/ Submit(a) \/
                 StartTask(a) \/ Put(a) \/ Fetch(a) \/ Process(a) \/ Lock(a) \/
                 Assemble(a) \/ Filter(a) \/ Push(a) \/ Save(a) \/ Cleanup(a) \/
                 BeatSend(a)
       PROVE  ScanFence'
    BY <1>4 DEF Reserve, Create, Spawn, SpawnFailed, Submit, StartTask, Put, Fetch,
       Process, Lock, Assemble, Filter, Push, Save, Cleanup, BeatSend, ScanFence,
       TypeInv, TypeOK, RedisType, RecoveryType, Local
  <1>5. ASSUME NEW p \in Proc,
              RecoverRead(p) \/ RecoverMark(p) \/ Shutdown(p)
       PROVE  ScanFence'
    BY <1>5 DEF RecoverRead, RecoverMark, Shutdown, ScanFence, TypeInv, TypeOK,
       RedisType, RecoveryType
  <1>6. ASSUME NEW a \in Attempt, Claim(a) PROVE ScanFence'
    BY <1>6 DEF Claim, ScanFence, TypeInv, TypeOK, RedisType, RecoveryType,
       ClaimScript, WriteHeartbeat
  <1>7. ASSUME NEW a \in Attempt,
              Touch(a) \/ Guard(a) \/ BeatArrive(a)
       PROVE  ScanFence'
    BY <1>7 DEF Touch, Guard, BeatArrive, ScanFence, TypeInv, TypeOK, RedisType,
       RecoveryType, TouchScript, WriteHeartbeat
  <1>8. ASSUME NEW a \in Attempt, Finish(a) PROVE ScanFence'
    BY <1>8 DEF Finish, ScanFence, TypeInv, TypeOK, RedisType, RecoveryType,
       FinishScript
  <1>9. ASSUME NEW p \in Proc, RecoverScan(p) PROVE ScanFence'
    BY <1>9, NoneAssumption DEF RecoverScan, ScanFence, TypeInv, TypeOK, RedisType,
       RecoveryType
  <1>10. ASSUME NEW p \in Proc, RecoverEvict(p) PROVE ScanFence'
    BY <1>10 DEF RecoverEvict, ScanFence, TypeInv, TypeOK, RedisType, RecoveryType,
       EvictAllowed
  <1>11. ASSUME NEW p \in Proc, Crash(p) PROVE ScanFence'
    BY <1>11 DEF Crash, ScanFence, TypeInv, TypeOK, RedisType, RecoveryType
  <1>12. CASE Tick
    BY <1>12, ConstantsAssumption DEF Tick, ScanFence, TypeInv, TypeOK, RedisType,
       RecoveryType, Older, Age
  <1>13. CASE UNCHANGED vars
    BY <1>13 DEF ScanFence, vars
  <1> QED
    BY <1>1, <1>2, <1>3, <1>4, <1>5, <1>6, <1>7, <1>8, <1>9, <1>10, <1>11, <1>12,
       <1>13 DEF Next, Read, Step, Recover

\* Only Push lets a page leave the process.
LEMMA PushedOnlyAtPush ==
  ASSUME TypeInv, [Next]_vars
  PROVE  \A b \in pushed' \ pushed : b \in Attempt /\ pc[b] = "push"
  <1> DEFINE Goal == \A b \in pushed' \ pushed : b \in Attempt /\ pc[b] = "push"
  <1>1. ASSUME NEW q \in Poller, NEW p \in Proc, NEW r \in Req, Poll(q, p, r) PROVE Goal
    BY <1>1 DEF Poll
  <1>2. ASSUME NEW a \in Attempt, NEW p \in Proc, NEW r \in Req, Enqueue(a, p, r) PROVE Goal
    BY <1>2 DEF Enqueue
  <1>3. ASSUME NEW x \in Thread,
              Get(x) \/ Owns(x) \/ Fence(x)
       PROVE  Goal
    BY <1>3 DEF Get, Owns, Fence
  <1>4. ASSUME NEW a \in Attempt,
              Reserve(a) \/ Claim(a) \/ Create(a) \/ Spawn(a) \/ SpawnFailed(a) \/
                 Submit(a) \/ StartTask(a) \/ Touch(a) \/ Put(a) \/ Fetch(a) \/
                 Process(a) \/ Lock(a) \/ Assemble(a) \/ Filter(a) \/ Guard(a) \/
                 Push(a) \/ Save(a) \/ Finish(a) \/ Cleanup(a) \/ BeatSend(a) \/
                 BeatArrive(a)
       PROVE  Goal
    BY <1>4 DEF Reserve, Claim, Create, Spawn, SpawnFailed, Submit, StartTask, Touch,
       Put, Fetch, Process, Lock, Assemble, Filter, Guard, Push, Save, Finish,
       Cleanup, BeatSend, BeatArrive, Local
  <1>5. ASSUME NEW p \in Proc,
              RecoverScan(p) \/ RecoverEvict(p) \/ RecoverRead(p) \/ RecoverMark(p)
                 \/ Shutdown(p) \/ Crash(p)
       PROVE  Goal
    BY <1>5 DEF RecoverScan, RecoverEvict, RecoverRead, RecoverMark, Shutdown, Crash
  <1>6. CASE Tick
    BY <1>6 DEF Tick
  <1>7. CASE UNCHANGED vars
    BY <1>7 DEF vars
  <1> QED
    BY <1>1, <1>2, <1>3, <1>4, <1>5, <1>6, <1>7 DEF Next, Read, Step, Recover

\* A page is pushed without the lease only by an attempt that stalled for the
\* whole stale timeout after its guard.
THEOREM PublicationsAreFenced == Spec => PublicationFenced
  <1>1. Init => PushFence /\ ScanFence
    BY DEF Init, PushFence, ScanFence, Thread
  <1>2. TypeInv /\ PushFence /\ ScanFence /\ [Next]_vars => PushFence' /\ ScanFence'
    BY PushFenceStep, ScanFenceStep
  <1>3. TypeInv /\ PushFence /\ [Next]_vars =>
          [\A a \in pushed' \ pushed : lease[req[a]] = a \/ guardAge[a] = StaleAfter]_vars
    <2> SUFFICES ASSUME TypeInv, PushFence, [Next]_vars, NEW b \in pushed' \ pushed
                 PROVE  b \in Attempt /\ pc[b] = "push"
      BY DEF PushFence
    <2> QED
      BY PushedOnlyAtPush
  <1> QED
    BY TypeInvariant, <1>1, <1>2, <1>3, PTL DEF Spec, PublicationFenced

-----------------------------------------------------------------------------
(* The refinement of the ledger.  A record names the attempt that made it, and *)
(* that attempt is past Create, where it can make no other.                     *)

MadePc == {"spawn", "spawn_failed", "submit", "end"} \cup TaskPc

Makers ==
  \A r \in Req : job[r] # None => req[job[r].tok] = r /\ pc[job[r].tok] \in MadePc

\* An attempt past Create stays there, with its request.
LEMMA MadeStays ==
  ASSUME TypeInv, [Next]_vars
  PROVE  \A b \in Attempt : pc[b] \in MadePc => pc'[b] \in MadePc /\ req'[b] = req[b]
  <1> DEFINE Goal == \A b \in Attempt : pc[b] \in MadePc => pc'[b] \in MadePc /\ req'[b] = req[b]
  <1>0. pc \in [Thread -> Pc] /\ req \in [Thread -> Req \cup {None}] /\ Attempt \subseteq Thread
    BY DEF TypeInv, TypeOK, CallType, Thread
  <1>1. ASSUME NEW q \in Poller, NEW p \in Proc, NEW r \in Req, Poll(q, p, r) PROVE Goal
    BY <1>0, <1>1, ConstantsAssumption DEF Poll, Goto
  <1>2. ASSUME NEW a \in Attempt, NEW p \in Proc, NEW r \in Req, Enqueue(a, p, r) PROVE Goal
    BY <1>0, <1>2 DEF Enqueue, Goto, MadePc, TaskPc
  <1>3. ASSUME NEW x \in Thread, Get(x) \/ Owns(x) \/ Fence(x) PROVE Goal
    <2>1. UNCHANGED req /\ pc[x] \notin MadePc /\ \E where : Goto(x, where)
      BY <1>3 DEF Get, Owns, Fence, MadePc, TaskPc
    <2> QED
      BY <1>0, <2>1 DEF Goto
  <1>4. ASSUME NEW a \in Attempt, Reserve(a) \/ Claim(a) \/ Create(a) PROVE Goal
    <2>1. UNCHANGED req /\ pc[a] \notin MadePc /\ \E where : Goto(a, where)
      BY <1>4 DEF Reserve, Claim, Create, MadePc, TaskPc
    <2> QED
      BY <1>0, <2>1 DEF Goto
  <1>5. ASSUME NEW a \in Attempt, NEW where \in MadePc, Goto(a, where), UNCHANGED req PROVE Goal
    BY <1>0, <1>5 DEF Goto
  <1>6. ASSUME NEW a \in Attempt, Spawn(a) \/ SpawnFailed(a) \/ Submit(a) \/ StartTask(a)
        PROVE  Goal
    <2>1. UNCHANGED req /\ \E where \in MadePc : Goto(a, where)
      BY <1>6 DEF Spawn, SpawnFailed, Submit, StartTask, MadePc, TaskPc
    <2> QED
      BY <1>5, <2>1
  <1>7. ASSUME NEW a \in Attempt, Raise(a) PROVE \E where \in MadePc : Goto(a, where)
    BY <1>7 DEF Raise, Update, MadePc, TaskPc
  <1>8. \A t : AfterPut(t) \in MadePc
    BY DEF AfterPut, MadePc, TaskPc
  <1>9. ASSUME NEW a \in Attempt, Touch(a) \/ Put(a) \/ Guard(a) PROVE Goal
    <2>1. UNCHANGED req /\ (Raise(a) \/ \E where \in MadePc : Goto(a, where))
      BY <1>8, <1>9 DEF Touch, Put, Guard, MadePc, TaskPc
    <2> QED
      BY <1>5, <1>7, <2>1
  <1>10. ASSUME NEW a \in Attempt, Fetch(a) \/ Process(a) \/ Lock(a) \/ Assemble(a) \/ Filter(a)
         PROVE  Goal
    <2>1. UNCHANGED req /\ (Raise(a) \/ \E where \in MadePc : Goto(a, where))
      BY <1>10 DEF Fetch, Process, Lock, Assemble, Filter, Update, Local, MadePc, TaskPc
    <2> QED
      BY <1>5, <1>7, <2>1
  <1>11. ASSUME NEW a \in Attempt, Push(a) \/ Save(a) \/ Finish(a) \/ Cleanup(a)
         PROVE  Goal
    <2>1. UNCHANGED req /\ (Raise(a) \/ \E where \in MadePc : Goto(a, where))
      BY <1>11 DEF Push, Save, Finish, Cleanup, Update, Local, MadePc, TaskPc
    <2> QED
      BY <1>5, <1>7, <2>1
  <1>12. ASSUME NEW a \in Attempt, BeatSend(a) \/ BeatArrive(a) PROVE Goal
    BY <1>12 DEF BeatSend, BeatArrive
  <1>13. ASSUME NEW p \in Proc, Recover(p) PROVE Goal
    BY <1>13 DEF Recover, RecoverScan, RecoverEvict, RecoverRead, RecoverMark, callVars
  <1>14. ASSUME NEW p \in Proc, Shutdown(p) PROVE Goal
    BY <1>0, <1>14 DEF Shutdown, MadePc, TaskPc
  <1>15. ASSUME NEW p \in Proc, Crash(p) PROVE Goal
    BY <1>0, <1>15, ConstantsAssumption DEF Crash, MadePc
  <1>16. CASE Tick \/ UNCHANGED vars
    BY <1>16 DEF Tick, vars, callVars
  <1> QED
    BY <1>1, <1>2, <1>3, <1>4, <1>6, <1>9, <1>10, <1>11, <1>12, <1>13, <1>14, <1>15, <1>16
       DEF Next, Read, Step

\* A store write is the ledger's, or nothing.
Stored ==
  \E r \in Req : \E status \in {"running", "done", "error"} : \E state \in PubState :
    /\ Active(job[r])
    /\ job' = [job EXCEPT ![r] = [status |-> status, tok |-> job[r].tok, pub |-> state]]

LEMMA PutStores ==
  ASSUME NEW r \in Req, NEW t, NEW status \in {"running", "done", "error"}, NEW state \in PubState,
         PutScript(r, t, status, state)
  PROVE  UNCHANGED job \/ Stored
  BY DEF PutScript, PutAllowed, Stored

\* What a step does to the records and to RabbitMQ, never both.
Accepted ==
  \E a \in Attempt :
    /\ pc[a] = "create" /\ req[a] \in Req /\ job[req[a]] = None
    /\ job' = [job EXCEPT ![req[a]] = NewJob(a)] /\ pc'[a] \in MadePc /\ req'[a] = req[a]

LEMMA LedgerMoves ==
  ASSUME TypeInv, [Next]_vars
  PROVE  \/ UNCHANGED <<job, pushed>>
         \/ UNCHANGED pushed /\ (Stored \/ Accepted)
         \/ UNCHANGED job /\ \E a \in Attempt : pc[a] = "push" /\ pushed' = pushed \cup {a}
  <1> DEFINE Goal == \/ UNCHANGED <<job, pushed>>
                     \/ UNCHANGED pushed /\ (Stored \/ Accepted)
                     \/ UNCHANGED job /\ \E a \in Attempt : pc[a] = "push" /\ pushed' = pushed \cup {a}
  <1>1. ASSUME NEW q \in Thread, NEW p \in Proc, NEW r \in Req, Poll(q, p, r) \/ Enqueue(q, p, r)
        PROVE  Goal
    BY <1>1 DEF Poll, Enqueue, redisVars, outVars
  <1>2. ASSUME NEW x \in Thread, Get(x) \/ Owns(x) PROVE Goal
    BY <1>2 DEF Get, Owns, redisVars, outVars
  <1>3. ASSUME NEW a \in Attempt,
               \/ Reserve(a) \/ Claim(a) \/ Spawn(a) \/ Submit(a) \/ StartTask(a) \/ Touch(a)
               \/ Fetch(a) \/ Process(a) \/ Lock(a)
        PROVE  Goal
    BY <1>3 DEF Reserve, Claim, Spawn, Submit, StartTask, Touch, Fetch, Process, Lock, Local,
                redisVars, outVars
  <1>4. ASSUME NEW a \in Attempt,
               \/ Assemble(a) \/ Filter(a) \/ Guard(a) \/ Save(a) \/ Finish(a) \/ Cleanup(a)
               \/ BeatSend(a) \/ BeatArrive(a)
        PROVE  Goal
    BY <1>4 DEF Assemble, Filter, Guard, Save, Finish, Cleanup, BeatSend, BeatArrive, Local,
                redisVars, outVars
  <1>5. ASSUME NEW p \in Proc, RecoverScan(p) \/ RecoverEvict(p) \/ RecoverRead(p) \/ Shutdown(p) \/ Crash(p)
        PROVE  Goal
    BY <1>5 DEF RecoverScan, RecoverEvict, RecoverRead, Shutdown, Crash, redisVars, outVars
  <1>6. CASE Tick \/ UNCHANGED vars
    BY <1>6 DEF Tick, vars, redisVars, outVars
  <1>7. ASSUME NEW x \in Thread, Fence(x) PROVE Goal
    <2>1. req[x] \in Req /\ view[x].pub \in PubState
      BY <1>7 DEF TypeInv, TypeOK, CallType, CallShape, Snapshot, Fence
    <2>2. UNCHANGED pushed /\ (PutScript(req[x], view[x].tok, "error", view[x].pub) \/ UNCHANGED job)
      BY <1>7 DEF Fence, outVars
    <2> QED
      BY <2>1, <2>2, PutStores
  <1>8. ASSUME NEW a \in Attempt, SpawnFailed(a) PROVE Goal
    <2>1. req[a] \in Req /\ pub[a] \in PubState
      BY <1>8 DEF TypeInv, TypeOK, TaskType, CallShape, Thread, SpawnFailed
    <2>2. UNCHANGED pushed /\ (PutScript(req[a], a, "error", pub[a]) \/ UNCHANGED job)
      BY <1>8 DEF SpawnFailed, outVars
    <2> QED
      BY <2>1, <2>2, PutStores
  <1>9. ASSUME NEW a \in Attempt, Put(a) PROVE Goal
    <2>1. req[a] \in Req /\ pub[a] \in PubState /\ StageStatus(stage[a]) \in {"running", "done", "error"}
      BY <1>9 DEF TypeInv, TypeOK, TaskType, CallShape, Thread, StageStatus, Put
    <2>2. UNCHANGED pushed /\ (PutScript(req[a], a, StageStatus(stage[a]), pub[a]) \/ UNCHANGED job)
      BY <1>9 DEF Put, outVars
    <2> QED
      BY <2>1, <2>2, PutStores
  <1>10. ASSUME NEW p \in Proc, RecoverMark(p) PROVE Goal
    <2>1. mark[p].req \in Req /\ mark[p].pub \in PubState
      BY <1>10 DEF TypeInv, TypeOK, RecoveryType, Marking, RecoverMark
    <2>2. UNCHANGED pushed /\ (PutScript(mark[p].req, mark[p].tok, "error", mark[p].pub) \/ UNCHANGED job)
      BY <1>10 DEF RecoverMark, outVars
    <2> QED
      BY <2>1, <2>2, PutStores
  <1>11. ASSUME NEW a \in Attempt, Create(a) PROVE Goal
    <2>1. UNCHANGED <<pushed, req>> /\ pc[a] = "create" /\ req[a] \in Req
      BY <1>11 DEF Create, outVars, TypeInv, CallShape, Thread
    <2>2. \/ UNCHANGED job
          \/ /\ job[req[a]] = None /\ CreateScript(req[a], a)
             /\ Goto(a, "spawn") \/ Goto(a, "finish")
      BY <1>11 DEF Create, CreateAllowed
    <2>3. pc \in [Thread -> Pc] /\ a \in Thread
      BY DEF TypeInv, TypeOK, CallType, Thread
    <2> QED
      BY <2>1, <2>2, <2>3 DEF CreateScript, Goto, Accepted, MadePc, TaskPc
  <1>12. ASSUME NEW a \in Attempt, Push(a) PROVE Goal
    BY <1>12 DEF Push, Local, redisVars
  <1> QED
    BY <1>1, <1>2, <1>3, <1>4, <1>5, <1>6, <1>7, <1>8, <1>9, <1>10, <1>11, <1>12
       DEF Next, Read, Step, Recover, Thread

\* The maker of a record is the attempt it names.
LEMMA MakersStep ==
  ASSUME TypeInv, Makers, [Next]_vars
  PROVE  Makers'
  <1> SUFFICES ASSUME NEW r \in Req, job'[r] # None
               PROVE  req'[job'[r].tok] = r /\ pc'[job'[r].tok] \in MadePc
    BY DEF Makers
  <1>0. job \in [Req -> JobRec \cup {None}] /\ \A j \in JobRec : j.tok \in Attempt
    BY DEF TypeInv, TypeOK, RedisType, JobRec
  <1>1. CASE job[r] # None
    <2>1. job'[r].tok = job[r].tok /\ job[r].tok \in Attempt
      BY <1>0, <1>1, JobStep
    <2> QED
      BY <1>1, <2>1, MadeStays DEF Makers
  <1>2. CASE job[r] = None
    <2>1. ~ UNCHANGED job /\ ~ Stored
      BY <1>0, <1>2 DEF Stored, Active
    <2>2. Accepted
      BY <2>1, LedgerMoves
    <2>3. PICK a \in Attempt :
            /\ req[a] \in Req /\ job' = [job EXCEPT ![req[a]] = NewJob(a)]
            /\ pc'[a] \in MadePc /\ req'[a] = req[a]
      BY <2>2 DEF Accepted
    <2>4. r = req[a] /\ job'[r] = NewJob(a)
      BY <1>0, <1>2, <2>3
    <2> QED
      BY <2>3, <2>4 DEF NewJob
  <1> QED
    BY <1>1, <1>2

\* An accepted record, a store or a push is a step of the ledger.
LEMMA LedgerStep ==
  ASSUME TypeInv, Ownership, Record, Makers, PublicationIsTrue', [Next]_vars
  PROVE  [ledger!Next]_ledger!vars
  <1>0. /\ job \in [Req -> JobRec \cup {None}] /\ None \notin JobRec
        /\ \A j \in JobRec : j.tok \in Attempt /\ j.pub \in PubState
    BY NoneAssumption DEF TypeInv, TypeOK, RedisType, JobRec
  <1>1. CASE UNCHANGED <<job, pushed>>
    BY <1>1 DEF ledger!vars
  <1>2. CASE UNCHANGED pushed /\ Accepted
    <2>1. PICK a \in Attempt :
            /\ pc[a] = "create" /\ req[a] \in Req /\ job[req[a]] = None
            /\ job' = [job EXCEPT ![req[a]] = NewJob(a)]
      BY <1>2 DEF Accepted
    <2>2. ~ ledger!Owned(a)
      BY <2>1 DEF ledger!Owned, Makers, MadePc, TaskPc
    <2>3. ledger!Accept(req[a], a)
      BY <1>2, <2>1, <2>2 DEF ledger!Accept, NewJob
    <2> QED
      BY <2>1, <2>3 DEF ledger!Next
  <1>3. CASE UNCHANGED pushed /\ Stored
    <2>1. PICK r \in Req, status \in {"running", "done", "error"}, state \in PubState :
            /\ Active(job[r])
            /\ job' = [job EXCEPT ![r] = [status |-> status, tok |-> job[r].tok, pub |-> state]]
      BY <1>3 DEF Stored
    <2> DEFINE new == [status |-> status, tok |-> job[r].tok, pub |-> state]
    <2>2. job[r] # None /\ job[r] \in JobRec
      BY <1>0, <2>1 DEF Active
    <2>3. new \in JobRec /\ new.tok = job[r].tok /\ new.pub = state
      BY <1>0, <2>2 DEF JobRec, Status
    <2>4. job'[r] = new /\ job'[r] # None
      BY <1>0, <2>1, <2>3
    <2>5. /\ state = "queued" => job[r].tok \in pushed
          /\ state = "filtered_out" => job[r].tok \notin pushed
      BY <1>3, <2>3, <2>4 DEF PublicationIsTrue, QueuedMeansPushed, FilteredMeansNotPushed
    <2>6. ledger!Store(r, status, state)
      BY <1>3, <2>1, <2>5 DEF ledger!Store, ledger!Unfinished, Active
    <2> QED
      BY <2>6 DEF ledger!Next, PubState
  <1>4. ASSUME UNCHANGED job, NEW a \in Attempt, pc[a] = "push", pushed' = pushed \cup {a}
        PROVE  [ledger!Next]_ledger!vars
    <2>1. req[a] \in Req /\ job[req[a]] # None /\ job[req[a]].tok = a
      BY <1>4 DEF TypeInv, CallShape, Thread, Ownership, OwnerPc, TaskPc
    <2>2. a \notin pushed
      BY <1>4 DEF Record, WorkerRecord, Settled
    <2>3. job[req[a]].pub # "filtered_out"
      BY <1>4, <2>1 DEF PublicationIsTrue, FilteredMeansNotPushed
    <2>4. ledger!Send(req[a])
      BY <1>4, <2>1, <2>2, <2>3 DEF ledger!Send
    <2> QED
      BY <2>1, <2>4 DEF ledger!Next
  <1> QED
    BY <1>1, <1>2, <1>3, <1>4, LedgerMoves

\* Every step of the job service is a step of the ledger or leaves it alone: a request id is
\* accepted once, only the accepted attempt pushes, once, and the record of the request stays
\* true under every writer and final once it is finished.
THEOREM JobsImplementLedger == Spec => JobsAreLedger
  <1>1. Init => ledger!Init
    BY DEF Init, ledger!Init
  <1>2. Init => Makers
    BY DEF Init, Makers
  <1>3. TypeInv /\ Makers /\ [Next]_vars => Makers'
    BY MakersStep
  <1>4. TypeInv /\ Ownership /\ Record /\ Makers /\ PublicationIsTrue' /\ [Next]_vars =>
          [ledger!Next]_ledger!vars
    BY LedgerStep
  <1> QED
    BY <1>1, <1>2, <1>3, <1>4, TypeInvariant, OwnershipInvariant, RecordInvariant,
       RecordedPublicationsAreTrue, PTL DEF Spec, JobsAreLedger, ledger!Spec

-----------------------------------------------------------------------------
(* Slots.  The counters of a process agree with the attempts only because an   *)
(* attempt that is not admitted has nothing to return to, and only a task that *)
(* left the queue counts as running.                                           *)

Held(a) == \/ pc[a] \in AdmitPc \cup TaskPc \cup {"release"}
           \/ pc[a] \in ReaderPc /\ ret[a] # "idle"

Runs(a) == started[a] /\ pc[a] # "end"

SlotShape ==
  \A a \in Attempt : /\ ret[a] \in {"idle", "release", "finish"}
                     /\ pc[a] \in {"idle", "reserve"} => ret[a] = "idle"
                     /\ started[a] => pc[a] \in (TaskPc \ {"queued"}) \cup {"end"}

SlotsFinite == \A p \in Proc : IsFiniteSet(Holding(p)) /\ IsFiniteSet(Busy(p))

Slots == SlotShape /\ SlotsFinite /\ SlotAccounting

\* The slots of attempt a are as before.
SameSlots(a) ==
  /\ Held(a)' <=> Held(a)
  /\ Runs(a)' <=> Runs(a)
  /\ proc'[a] = proc[a] \/ (~Held(a) /\ ~Runs(a))

LEMMA SlotsKept ==
  ASSUME Slots, SlotShape', UNCHANGED <<admitted, running>>, \A a \in Attempt : SameSlots(a)
  PROVE  Slots'
  <1>1. \A p \in Proc : Holding(p)' = Holding(p) /\ Busy(p)' = Busy(p)
    BY DEF Holding, Busy, Held, Runs, SameSlots
  <1> QED
    BY <1>1 DEF Slots, SlotsFinite, SlotAccounting

\* A step that touches neither calls nor counters.
LEMMA SlotsUnchanged ==
  ASSUME Slots, UNCHANGED <<pc, proc, ret, started, admitted, running>>
  PROVE  Slots'
  <1>1. SlotShape'
    BY DEF Slots, SlotShape
  <1>2. \A a \in Attempt : SameSlots(a)
    BY DEF SameSlots, Held, Runs
  <1> QED
    BY <1>1, <1>2, SlotsKept

\* One thread goes on; an attempt that is admitted stays admitted, one that is not stays
\* outside, and a task that runs goes on running.
Moves(x) ==
  /\ UNCHANGED <<proc, started, admitted, running>>
  /\ \A y \in Thread : y # x => pc'[y] = pc[y] /\ ret'[y] = ret[y]
  /\ x \in Attempt =>
       /\ Held(x)' <=> Held(x)
       /\ ret'[x] \in {"idle", "release", "finish"}
       /\ pc'[x] \in {"idle", "reserve"} => ret'[x] = "idle"
       /\ started[x] => pc'[x] \in TaskPc \ {"queued"}

LEMMA SlotsMoved ==
  ASSUME Slots, NEW x \in Thread, Moves(x), x \in Attempt => pc[x] # "end"
  PROVE  Slots'
  <1>1. \A a \in Attempt : a # x => pc'[a] = pc[a] /\ ret'[a] = ret[a]
    BY DEF Moves, Thread
  <1>2. SlotShape'
    BY <1>1 DEF Moves, Slots, SlotShape
  <1>3. \A a \in Attempt : SameSlots(a)
    <2>1. ASSUME NEW a \in Attempt, a # x PROVE SameSlots(a)
      BY <1>1, <2>1 DEF Moves, SameSlots, Held, Runs
    <2>2. ASSUME x \in Attempt PROVE SameSlots(x)
      BY <2>2 DEF Moves, SameSlots, Runs, TaskPc
    <2> QED
      BY <2>1, <2>2
  <1> QED
    BY <1>2, <1>3, SlotsKept DEF Moves

\* A step of one admitted attempt that stays within its task.
LEMMA TaskMoves ==
  ASSUME TypeInv, Slots, NEW a \in Attempt, NEW w \in TaskPc \ {"queued"},
         pc[a] \in AdmitPc \cup TaskPc, pc' = [pc EXCEPT ![a] = w],
         UNCHANGED <<proc, started, ret, admitted, running>>
  PROVE  Slots'
  <1>1. a \in Thread /\ pc \in [Thread -> Pc] /\ pc[a] # "end"
    BY DEF Thread, TypeInv, TypeOK, CallType, AdmitPc, TaskPc
  <1>2. Moves(a)
    BY <1>1 DEF Moves, Held, Slots, SlotShape, AdmitPc, TaskPc, ReaderPc
  <1> QED
    BY <1>1, <1>2, SlotsMoved

LEMMA SlotsStep ==
  ASSUME TypeInv, Slots, [Next]_vars
  PROVE  Slots'
  <1>0. /\ pc \in [Thread -> Pc] /\ ret \in [Thread -> {"idle", "release", "finish"}]
        /\ started \in [Attempt -> BOOLEAN]
        /\ admitted \in [Proc -> Int] /\ running \in [Proc -> Int]
        /\ \A a \in Attempt : a \in Thread /\ a \notin Poller
        /\ \A x \in Thread : pc[x] # "idle" => proc[x] \in Proc
    BY ConstantsAssumption DEF TypeInv, TypeOK, CallType, TaskType, ProcType, CallShape, Thread
  <1>1. ASSUME NEW q \in Poller, NEW p \in Proc, NEW r \in Req, Poll(q, p, r) PROVE Slots'
    <2>1. \A a \in Attempt : pc'[a] = pc[a] /\ proc'[a] = proc[a]
      BY <1>0, <1>1 DEF Poll, Goto
    <2>2. SlotShape'
      BY <1>1, <2>1 DEF Poll, Slots, SlotShape
    <2>3. \A a \in Attempt : SameSlots(a)
      BY <1>1, <2>1 DEF Poll, SameSlots, Held, Runs
    <2> QED
      BY <1>1, <2>2, <2>3, SlotsKept DEF Poll
  <1>2. ASSUME NEW b \in Attempt, NEW p \in Proc, NEW r \in Req, Enqueue(b, p, r) PROVE Slots'
    <2>1. /\ pc'[b] = "get" /\ pc[b] = "idle" /\ ret[b] = "idle" /\ ~started[b]
          /\ \A a \in Attempt : a # b => pc'[a] = pc[a] /\ proc'[a] = proc[a]
      BY <1>0, <1>2 DEF Enqueue, Goto, Slots, SlotShape, TaskPc
    <2>2. SlotShape'
      BY <1>2, <2>1 DEF Enqueue, Slots, SlotShape
    <2>3. ASSUME NEW a \in Attempt PROVE SameSlots(a)
      BY <1>2, <2>1 DEF Enqueue, SameSlots, Held, Runs, AdmitPc, TaskPc, ReaderPc
    <2> QED
      BY <1>2, <2>2, <2>3, SlotsKept DEF Enqueue
  <1>3. ASSUME NEW x \in Thread, Read(x) PROVE Slots'
    <2>1. /\ UNCHANGED <<proc, started, ret, admitted, running>>
          /\ \E w \in {"owns", "fence", ret[x], AfterMiss(x)} : pc' = [pc EXCEPT ![x] = w]
          /\ pc[x] \in ReaderPc
      <3>1. CASE Get(x)
        BY <3>1 DEF Get, Goto, ReaderPc
      <3>2. CASE Owns(x)
        BY <3>2 DEF Owns, Goto, ReaderPc
      <3>3. CASE Fence(x)
        BY <3>3 DEF Fence, Goto, ReaderPc
      <3> QED
        BY <1>3, <3>1, <3>2, <3>3 DEF Read
    <2>2. PICK w \in {"owns", "fence", ret[x], AfterMiss(x)} : pc' = [pc EXCEPT ![x] = w]
      BY <2>1
    <2>3. pc'[x] = w /\ \A y \in Thread : y # x => pc'[y] = pc[y]
      BY <1>0, <2>2
    <2>4. ASSUME x \in Attempt
          PROVE  /\ Held(x)' <=> Held(x)
                 /\ ret[x] \in {"idle", "release", "finish"}
                 /\ pc'[x] \in {"idle", "reserve"} => ret[x] = "idle"
                 /\ ~started[x] /\ pc[x] # "end"
      BY <2>1, <2>3, <2>4 DEF Held, AfterMiss, Slots, SlotShape, AdmitPc, TaskPc, ReaderPc
    <2>5. Moves(x)
      BY <2>1, <2>3, <2>4 DEF Moves
    <2> QED
      BY <2>4, <2>5, SlotsMoved
  <1>4. ASSUME NEW a \in Attempt, Reserve(a) PROVE Slots'
    <2>1. /\ pc[a] = "reserve" /\ ret[a] = "idle" /\ ~started[a] /\ proc[a] \in Proc
          /\ UNCHANGED <<proc, started, ret, running>>
      BY <1>0, <1>4 DEF Reserve, Slots, SlotShape, TaskPc
    <2>2. CASE UNCHANGED admitted /\ Goto(a, "idle")
      <3>1. Moves(a) /\ pc[a] # "end"
        BY <1>0, <2>1, <2>2 DEF Moves, Goto, Held, AdmitPc, TaskPc, ReaderPc
      <3> QED
        BY <1>0, <3>1, SlotsMoved
    <2>3. CASE admitted' = [admitted EXCEPT ![proc[a]] = @ + 1] /\ Goto(a, "claim")
      <3>1. pc'[a] = "claim" /\ \A b \in Attempt : b # a => pc'[b] = pc[b]
        BY <1>0, <2>3 DEF Goto
      <3>2. SlotShape'
        BY <2>1, <3>1 DEF Slots, SlotShape
      <3>3. \A p \in Proc : Busy(p)' = Busy(p)
        BY <2>1, <3>1 DEF Busy
      <3>4. /\ Holding(proc[a])' = Holding(proc[a]) \cup {a} /\ a \notin Holding(proc[a])
            /\ \A p \in Proc : p # proc[a] => Holding(p)' = Holding(p)
        BY <2>1, <3>1 DEF Holding, AdmitPc, TaskPc, ReaderPc
      <3>5. IsFiniteSet(Holding(proc[a]))
        BY <2>1 DEF Slots, SlotsFinite
      <3>6. /\ IsFiniteSet(Holding(proc[a])')
            /\ Cardinality(Holding(proc[a])') = Cardinality(Holding(proc[a])) + 1
        BY <3>4, <3>5, FS_AddElement
      <3> QED
        BY <1>0, <2>1, <2>3, <3>2, <3>3, <3>4, <3>6 DEF Slots, SlotsFinite, SlotAccounting
    <2> QED
      BY <1>4, <2>2, <2>3 DEF Reserve
  <1>5. ASSUME NEW a \in Attempt, Claim(a) \/ Create(a) PROVE Slots'
    <2>1. /\ pc[a] \in {"claim", "create"} /\ ~started[a]
          /\ UNCHANGED <<proc, started, admitted, running>>
      BY <1>5 DEF Claim, Create, Slots, SlotShape, TaskPc
    <2>2. \/ ret' = ret /\ \E w \in {"create", "release", "spawn", "finish"} : pc' = [pc EXCEPT ![a] = w]
          \/ /\ pc' = [pc EXCEPT ![a] = "get"]
             /\ \E w \in {"release", "finish"} : ret' = [ret EXCEPT ![a] = w]
      BY <1>5 DEF Claim, Create, Goto
    <2>3. Moves(a) /\ pc[a] # "end"
      BY <1>0, <2>1, <2>2 DEF Moves, Held, Slots, SlotShape, AdmitPc, TaskPc, ReaderPc
    <2> QED
      BY <1>0, <2>3, SlotsMoved
  <1>6. ASSUME NEW a \in Attempt, Spawn(a) \/ SpawnFailed(a) \/ Submit(a) PROVE Slots'
    <2>1. /\ pc[a] \in AdmitPc /\ ~started[a] /\ UNCHANGED <<proc, started, ret, admitted, running>>
      BY <1>6 DEF Spawn, SpawnFailed, Submit, Slots, SlotShape, AdmitPc, TaskPc
    <2>2. \E w \in {"submit", "spawn_failed", "finish", "queued", "touch"} : pc' = [pc EXCEPT ![a] = w]
      BY <1>6 DEF Spawn, SpawnFailed, Submit, Goto
    <2>3. Moves(a) /\ pc[a] # "end"
      BY <1>0, <2>1, <2>2 DEF Moves, Held, Slots, SlotShape, AdmitPc, TaskPc, ReaderPc
    <2> QED
      BY <1>0, <2>3, SlotsMoved
  <1>7. ASSUME NEW a \in Attempt, StartTask(a) PROVE Slots'
    <2>1. /\ pc[a] = "queued" /\ ~started[a] /\ proc[a] \in Proc
          /\ running' = [running EXCEPT ![proc[a]] = @ + 1]
          /\ UNCHANGED <<proc, ret, admitted>>
      BY <1>0, <1>7 DEF StartTask, Slots, SlotShape
    <2>2. /\ pc'[a] = "touch" /\ started'[a]
          /\ \A b \in Attempt : b # a => pc'[b] = pc[b] /\ started'[b] = started[b]
      BY <1>0, <1>7 DEF StartTask, Goto
    <2>3. SlotShape'
      BY <2>1, <2>2 DEF Slots, SlotShape, TaskPc
    <2>4. \A p \in Proc : Holding(p)' = Holding(p)
      BY <2>1, <2>2 DEF Holding, TaskPc
    <2>5. /\ Busy(proc[a])' = Busy(proc[a]) \cup {a} /\ a \notin Busy(proc[a])
          /\ \A p \in Proc : p # proc[a] => Busy(p)' = Busy(p)
      BY <2>1, <2>2 DEF Busy
    <2>6. IsFiniteSet(Busy(proc[a])') /\ Cardinality(Busy(proc[a])') = Cardinality(Busy(proc[a])) + 1
      BY <2>1, <2>5, FS_AddElement DEF Slots, SlotsFinite
    <2> QED
      BY <1>0, <2>1, <2>3, <2>4, <2>5, <2>6 DEF Slots, SlotsFinite, SlotAccounting
  <1>8. ASSUME NEW a \in Attempt, Touch(a) \/ Put(a) \/ Guard(a) PROVE Slots'
    <2>1. pc[a] \in TaskPc /\ UNCHANGED <<proc, started, ret, admitted, running>>
      BY <1>8 DEF Touch, Put, Guard, TaskPc
    <2>2. AfterPut(stage[a]) \in TaskPc \ {"queued"}
      BY DEF AfterPut, TaskPc
    <2>3. \E w \in TaskPc \ {"queued"} : pc' = [pc EXCEPT ![a] = w]
      BY <1>8, <2>2 DEF Touch, Put, Guard, Raise, Update, Goto, TaskPc
    <2> QED
      BY <2>1, <2>3, TaskMoves
  <1>9. ASSUME NEW a \in Attempt,
              Fetch(a) \/ Process(a) \/ Lock(a) \/ Assemble(a) \/ Filter(a) \/ Push(a) \/ Save(a)
       PROVE  Slots'
    <2>1. pc[a] \in TaskPc /\ UNCHANGED <<proc, started, ret, admitted, running>>
      BY <1>9 DEF Fetch, Process, Lock, Assemble, Filter, Push, Save, Local, TaskPc
    <2>2. \E w \in TaskPc \ {"queued"} : pc' = [pc EXCEPT ![a] = w]
      BY <1>9 DEF Fetch, Process, Lock, Assemble, Filter, Push, Save, Raise, Update, Goto, TaskPc
    <2> QED
      BY <2>1, <2>2, TaskMoves
  <1>10. ASSUME NEW a \in Attempt, Finish(a) PROVE Slots'
    BY <1>10, TaskMoves DEF Finish, Goto, TaskPc
  <1>11. ASSUME NEW a \in Attempt, Cleanup(a) PROVE Slots'
    <2>1. /\ pc[a] \in {"cleanup", "release"} /\ proc[a] \in Proc /\ UNCHANGED <<proc, ret, started>>
          /\ admitted' = [admitted EXCEPT ![proc[a]] = @ - 1]
          /\ running' = [running EXCEPT ![proc[a]] = IF started[a] THEN @ - 1 ELSE @]
      BY <1>0, <1>11 DEF Cleanup
    <2>2. pc'[a] = "end" /\ \A b \in Attempt : b # a => pc'[b] = pc[b]
      BY <1>0, <1>11 DEF Cleanup, Goto
    <2>3. SlotShape'
      BY <2>1, <2>2 DEF Slots, SlotShape
    <2>4. /\ Holding(proc[a])' = Holding(proc[a]) \ {a} /\ a \in Holding(proc[a])
          /\ \A p \in Proc : p # proc[a] => Holding(p)' = Holding(p)
      BY <2>1, <2>2 DEF Holding, AdmitPc, TaskPc, ReaderPc
    <2>5. /\ Busy(proc[a])' = Busy(proc[a]) \ {a} /\ (a \in Busy(proc[a]) <=> started[a])
          /\ \A p \in Proc : p # proc[a] => Busy(p)' = Busy(p)
      BY <2>1, <2>2 DEF Busy
    <2>6. /\ IsFiniteSet(Holding(proc[a])')
          /\ Cardinality(Holding(proc[a])') = Cardinality(Holding(proc[a])) - 1
      BY <2>1, <2>4, FS_RemoveElement DEF Slots, SlotsFinite
    <2>7. /\ IsFiniteSet(Busy(proc[a])')
          /\ Cardinality(Busy(proc[a])')
               = IF started[a] THEN Cardinality(Busy(proc[a])) - 1 ELSE Cardinality(Busy(proc[a]))
      <3>0. IsFiniteSet(Busy(proc[a]))
        BY <2>1 DEF Slots, SlotsFinite
      <3>1. CASE started[a]
        BY <2>5, <3>0, <3>1, FS_RemoveElement
      <3>2. CASE ~started[a]
        <4>1. Busy(proc[a])' = Busy(proc[a])
          BY <2>5, <3>2
        <4> QED BY <3>0, <3>2, <4>1
      <3> QED BY <3>1, <3>2
    <2> QED
      BY <1>0, <2>1, <2>3, <2>4, <2>5, <2>6, <2>7 DEF Slots, SlotsFinite, SlotAccounting
  <1>12. ASSUME NEW a \in Attempt, BeatSend(a) \/ BeatArrive(a) PROVE Slots'
    BY <1>12, SlotsUnchanged DEF BeatSend, BeatArrive
  <1>13. ASSUME NEW p \in Proc, Recover(p) PROVE Slots'
    BY <1>13, SlotsUnchanged DEF Recover, RecoverScan, RecoverEvict, RecoverRead, RecoverMark
  <1>14. ASSUME NEW p \in Proc, Shutdown(p) PROVE Slots'
    <2>1. /\ UNCHANGED <<proc, ret, started, admitted, running>>
          /\ \A a \in Attempt : pc'[a] = pc[a] \/ (pc[a] = "queued" /\ pc'[a] = "touch")
      BY <1>0, <1>14 DEF Shutdown
    <2>2. SlotShape'
      BY <2>1 DEF Slots, SlotShape, TaskPc
    <2>3. \A a \in Attempt : SameSlots(a)
      BY <2>1 DEF SameSlots, Held, Runs, TaskPc
    <2> QED
      BY <2>1, <2>2, <2>3, SlotsKept
  <1>15. ASSUME NEW p \in Proc, Crash(p) PROVE Slots'
    <2>1. /\ UNCHANGED <<proc, ret, started>>
          /\ admitted' = [admitted EXCEPT ![p] = 0] /\ running' = [running EXCEPT ![p] = 0]
          /\ \A a \in Attempt : pc'[a] = IF proc[a] = p /\ pc[a] # "idle" THEN "end" ELSE pc[a]
      BY <1>0, <1>15 DEF Crash
    <2>2. SlotShape'
      BY <2>1 DEF Slots, SlotShape
    <2>3. Holding(p)' = {} /\ \A q \in Proc : q # p => Holding(q)' = Holding(q)
      BY <2>1 DEF Holding, AdmitPc, TaskPc, ReaderPc
    <2>4. Busy(p)' = {} /\ \A q \in Proc : q # p => Busy(q)' = Busy(q)
      BY <2>1 DEF Busy, Slots, SlotShape, TaskPc
    <2>5. /\ IsFiniteSet(Holding(p)') /\ Cardinality(Holding(p)') = 0
          /\ IsFiniteSet(Busy(p)') /\ Cardinality(Busy(p)') = 0
      BY <2>3, <2>4, FS_EmptySet
    <2> QED
      BY <1>0, <2>1, <2>2, <2>3, <2>4, <2>5 DEF Slots, SlotsFinite, SlotAccounting
  <1>16. CASE Tick \/ UNCHANGED vars
    BY <1>16, SlotsUnchanged DEF Tick, vars
  <1> QED
    BY <1>1, <1>2, <1>3, <1>4, <1>5, <1>6, <1>7, <1>8, <1>9, <1>10, <1>11, <1>12, <1>13, <1>14,
       <1>15, <1>16 DEF Next, Step

\* Whatever path an admitted attempt ends on, on any number of processes, the counters of
\* _reserve_job_slot and cleanup agree with the attempts that hold a slot or a thread.
THEOREM SlotsAreAccounted == Spec => []SlotAccounting
  <1>1. Init => Slots
    <2> SUFFICES ASSUME Init PROVE Slots
      OBVIOUS
    <2>1. \A p \in Proc : Holding(p) = {} /\ Busy(p) = {}
      BY DEF Init, Holding, Busy, AdmitPc, TaskPc, ReaderPc, Thread
    <2>2. SlotShape
      BY DEF Init, SlotShape, Thread
    <2> QED
      BY <2>1, <2>2, FS_EmptySet DEF Init, Slots, SlotsFinite, SlotAccounting
  <1>2. TypeInv /\ Slots /\ [Next]_vars => Slots'
    BY SlotsStep
  <1>3. Slots => SlotAccounting
    BY DEF Slots
  <1> QED
    BY TypeInvariant, <1>1, <1>2, <1>3, PTL DEF Spec
=============================================================================
