-------------------------- MODULE OperationsProofs --------------------------
(***************************************************************************)
(* The operations around the bot: the control service of the supervisor, and  *)
(* the agents that turn page checks into issues and assignments.             *)
(***************************************************************************)
EXTENDS ServiceControl, IssueAgents, TLAPS

-----------------------------------------------------------------------------
\* The control service. Its journal matches what its handlers did, for any number of
\* programs, users, requests and operations. The invariant adds whose turn it is with the
\* settings: the lock belongs to the one request that writes or activates an endpoint, and
\* file and endpoint in use differ only between these two steps.

ReqPc == {"answered", "inspect", "refresh", "lock", "call", "listing", "write", "activate", "complete"}
ReqRecord ==
  [pc : ReqPc, op : Nat, kind : OpKind \cup {"none"}, outcome : {"none", "succeeded", "failed"}]
JournalRow ==
  [user : User, kind : OpKind \cup {"elsewhere"}, program : Program, url : Url,
   outcome : {"pending", "succeeded", "failed"}, first : {"pending", "succeeded", "failed"},
   done : BOOLEAN]

ControlTypeOK ==
  /\ journal \in Seq(JournalRow)
  /\ reqs \in [Request -> ReqRecord]
  /\ configFile \in Url /\ active \in Url
  /\ settingsLock \in Request \cup {NoRequest}

\* A request under way has a row; the lock and the two copies of the endpoint.
RequestsHaveRows ==
  \A r \in Request :
    /\ reqs[r].pc # "answered" => reqs[r].op \in DOMAIN journal
    /\ reqs[r].pc = "complete" => reqs[r].outcome # "none"
LockDiscipline ==
  /\ \A r \in Request : reqs[r].pc \in {"write", "activate"} <=> settingsLock = r
  /\ \A r \in Request :
       /\ reqs[r].pc = "write" => active = configFile
       /\ reqs[r].pc = "activate" => configFile = journal[reqs[r].op].url

ControlInv == ControlTypeOK /\ RequestsHaveRows /\ LockDiscipline /\ JournalMatchesEffects

\* The journal only grows, and its rows keep their endpoint, their agreement and their
\* effect.
JournalGrows ==
  /\ journal' \in Seq(JournalRow)
  /\ \A i \in DOMAIN journal :
       /\ i \in DOMAIN journal' /\ journal'[i].url = journal[i].url
       /\ journal[i].done => journal'[i].done
  /\ \A i \in DOMAIN journal' : journal'[i].outcome = journal'[i].first

LEMMA JournalStays ==
  ASSUME ControlInv, UNCHANGED journal
  PROVE  JournalGrows
BY DEF ControlInv, ControlTypeOK, JournalMatchesEffects, JournalGrows

\* begin.
LEMMA JournalAppended ==
  ASSUME ControlInv, NEW row \in JournalRow, row.outcome = row.first,
         journal' = Append(journal, row)
  PROVE  JournalGrows /\ Len(journal) + 1 \in DOMAIN journal'
<1>1. journal \in Seq(JournalRow) /\ Len(journal) \in Nat
  BY DEF ControlInv, ControlTypeOK
<1>2. /\ journal' \in Seq(JournalRow) /\ Len(journal') = Len(journal) + 1
      /\ \A i \in 1..Len(journal) : journal'[i] = journal[i]
      /\ journal'[Len(journal) + 1] = row
  BY <1>1
<1>3. DOMAIN journal' = 1..(Len(journal) + 1) /\ DOMAIN journal = 1..Len(journal)
  BY <1>1, <1>2
<1>4. \A i \in DOMAIN journal' : i \in DOMAIN journal \/ i = Len(journal) + 1
  BY <1>1, <1>3
<1> QED BY <1>1, <1>2, <1>3, <1>4 DEF JournalGrows, ControlInv, JournalMatchesEffects

\* One row is replaced.
LEMMA JournalReplaced ==
  ASSUME ControlInv, NEW i \in DOMAIN journal, NEW row \in JournalRow,
         row.outcome = row.first, row.url = journal[i].url, journal[i].done => row.done,
         journal' = [journal EXCEPT ![i] = row]
  PROVE  JournalGrows
<1>1. journal \in Seq(JournalRow)
  BY DEF ControlInv, ControlTypeOK
<1>2. /\ journal' \in Seq(JournalRow) /\ DOMAIN journal' = DOMAIN journal
      /\ journal'[i] = row /\ \A k \in DOMAIN journal : k # i => journal'[k] = journal[k]
  BY <1>1
<1> QED BY <1>2 DEF JournalGrows, ControlInv, JournalMatchesEffects

\* The row of a request, seen through.
LEMMA SeenThroughGrows ==
  ASSUME ControlInv, NEW r \in Request, reqs[r].pc # "answered", journal' = SeenThrough(r)
  PROVE  JournalGrows /\ journal'[reqs[r].op].done
<1> DEFINE i == reqs[r].op
           row == [journal[i] EXCEPT !.done = TRUE]
<1>1. i \in DOMAIN journal /\ journal \in Seq(JournalRow) /\ journal[i] \in JournalRow
  BY DEF ControlInv, RequestsHaveRows, ControlTypeOK
<1>2. /\ row \in JournalRow /\ row.outcome = journal[i].outcome /\ row.first = journal[i].first
      /\ row.url = journal[i].url /\ row.done = TRUE
  BY <1>1 DEF JournalRow
<1>3. journal' = [journal EXCEPT ![i] = row]
  BY <1>1 DEF SeenThrough
<1>4. journal[i].outcome = journal[i].first
  BY <1>1 DEF ControlInv, JournalMatchesEffects
<1>5. /\ row.outcome = row.first /\ row.url = journal[i].url
      /\ journal[i].done => row.done
  BY <1>2, <1>4
<1>6. i \in DOMAIN journal /\ row \in JournalRow
  BY <1>1, <1>2
<1>7. row.done
  BY <1>2
<1> HIDE DEF row, i
<1>8. JournalGrows
  BY <1>3, <1>5, <1>6, JournalReplaced
<1>9. journal'[i] = row
  BY <1>1, <1>3
<1> QED BY <1>7, <1>8, <1>9 DEF i

\* complete: only a pending row gets an outcome.
LEMMA CompletedGrows ==
  ASSUME ControlInv, NEW i \in DOMAIN journal, NEW user,
         NEW outcome \in {"succeeded", "failed"}, journal' = Completed(i, user, outcome)
  PROVE  JournalGrows
<1>1. journal \in Seq(JournalRow) /\ journal[i] \in JournalRow /\ journal[i].outcome = journal[i].first
  BY DEF ControlInv, ControlTypeOK, JournalMatchesEffects
<1>2. CASE ~Completable(i, user)
  BY <1>2, JournalStays DEF Completed
<1>3. CASE Completable(i, user)
  <2> DEFINE row == [journal[i] EXCEPT !.outcome = outcome, !.first = outcome]
  <2>1. journal[i].first = "pending"
    BY <1>1, <1>3 DEF Completable
  <2>2. journal' = [journal EXCEPT ![i] = row]
    BY <1>1, <1>3, <2>1 DEF Completed
  <2>3. /\ row \in JournalRow /\ row.outcome = row.first /\ row.url = journal[i].url
        /\ row.done = journal[i].done
    BY <1>1 DEF JournalRow
  <2> HIDE DEF row
  <2> QED BY <2>2, <2>3, JournalReplaced
<1> QED BY <1>2, <1>3

-----------------------------------------------------------------------------
\* A step of one request that does not touch the settings.
LEMMA RequestStep ==
  ASSUME ControlInv, JournalGrows, NEW r \in Request, NEW rec \in ReqRecord,
         reqs' = [reqs EXCEPT ![r] = rec],
         UNCHANGED <<configFile, active, settingsLock>>,
         reqs[r].pc \notin {"write", "activate"}, rec.pc \notin {"write", "activate"},
         rec.pc # "answered" => rec.op \in DOMAIN journal',
         rec.pc = "complete" => rec.outcome # "none",
         rec.pc = "complete" /\ rec.outcome = "succeeded" => journal'[rec.op].done
  PROVE  ControlInv'
<1>1. reqs \in [Request -> ReqRecord]
  BY DEF ControlInv, ControlTypeOK
<1>2. reqs'[r] = rec /\ \A q \in Request : q # r => reqs'[q] = reqs[q]
  BY <1>1
<1>3. ControlTypeOK'
  BY <1>1 DEF ControlInv, ControlTypeOK, JournalGrows
<1>4. RequestsHaveRows'
  BY <1>2 DEF ControlInv, RequestsHaveRows, JournalGrows
<1>5. LockDiscipline'
  <2>1. \A q \in Request : reqs'[q].pc \in {"write", "activate"} <=> settingsLock = q
    BY <1>2 DEF ControlInv, LockDiscipline
  <2>2. ASSUME NEW q \in Request
        PROVE  /\ reqs'[q].pc = "write" => active = configFile
               /\ reqs'[q].pc = "activate" => configFile = journal'[reqs'[q].op].url
    BY <1>2 DEF ControlInv, LockDiscipline, RequestsHaveRows, JournalGrows
  <2> QED BY <2>1, <2>2 DEF LockDiscipline
<1>6. JournalMatchesEffects'
  <2>1. ASSUME NEW q \in Request, reqs'[q].pc = "complete", reqs'[q].outcome = "succeeded"
        PROVE  journal'[reqs'[q].op].done
    <3>1. CASE q = r
      BY <1>2, <2>1, <3>1
    <3>2. CASE q # r
      BY <1>2, <2>1, <3>2
         DEF ControlInv, JournalMatchesEffects, RowOf, RequestsHaveRows, JournalGrows
    <3> QED BY <3>1, <3>2
  <2>2. settingsLock' = NoRequest => active' = configFile'
    BY DEF ControlInv, JournalMatchesEffects
  <2> QED BY <2>1, <2>2 DEF JournalMatchesEffects, JournalGrows, RowOf
<1> QED BY <1>3, <1>4, <1>5, <1>6 DEF ControlInv

\* A step of the browser or of Supervisor.
LEMMA OutsideStep ==
  ASSUME ControlInv, JournalGrows, UNCHANGED <<reqs, configFile, active, settingsLock>>
  PROVE  ControlInv'
<1>1. ControlTypeOK'
  BY DEF ControlInv, ControlTypeOK, JournalGrows
<1>2. RequestsHaveRows'
  BY DEF ControlInv, RequestsHaveRows, JournalGrows
<1>3. LockDiscipline'
  BY DEF ControlInv, LockDiscipline, RequestsHaveRows, JournalGrows
<1>4. JournalMatchesEffects'
  BY DEF ControlInv, JournalMatchesEffects, RowOf, RequestsHaveRows, JournalGrows
<1> QED BY <1>1, <1>2, <1>3, <1>4 DEF ControlInv

\* The record of a request that goes on, or concludes.
LEMMA GoesOnFacts ==
  ASSUME ControlInv, NEW r \in Request, NEW pc \in ReqPc
  PROVE  /\ [reqs[r] EXCEPT !.pc = pc] \in ReqRecord /\ [reqs[r] EXCEPT !.pc = pc].pc = pc
         /\ [reqs[r] EXCEPT !.pc = pc].op = reqs[r].op
BY DEF ControlInv, ControlTypeOK, ReqRecord

LEMMA ConcludesFacts ==
  ASSUME ControlInv, NEW r \in Request, NEW outcome \in {"succeeded", "failed"}
  PROVE  LET rec == [reqs[r] EXCEPT !.pc = "complete", !.outcome = outcome] IN
         /\ rec \in ReqRecord /\ rec.pc = "complete" /\ rec.outcome = outcome
         /\ rec.op = reqs[r].op
BY DEF ControlInv, ControlTypeOK, ReqRecord, ReqPc

\* A handler goes on, outside the settings.
LEMMA GoesOn ==
  ASSUME ControlInv, JournalGrows, NEW r \in Request,
         NEW pc \in ReqPc \ {"write", "activate", "complete", "answered"},
         reqs' = [reqs EXCEPT ![r].pc = pc],
         UNCHANGED <<configFile, active, settingsLock>>,
         reqs[r].pc \notin {"answered", "write", "activate"}
  PROVE  ControlInv'
<1> DEFINE rec == [reqs[r] EXCEPT !.pc = pc]
<1>1. rec \in ReqRecord /\ rec.pc = pc /\ rec.op = reqs[r].op
  BY GoesOnFacts DEF ReqPc
<1>2. reqs' = [reqs EXCEPT ![r] = rec]
  BY DEF ControlInv, ControlTypeOK
<1>3. rec.op \in DOMAIN journal'
  BY <1>1 DEF ControlInv, RequestsHaveRows, JournalGrows
<1> HIDE DEF rec
<1> QED BY <1>1, <1>2, <1>3, RequestStep

\* A handler concludes, outside the settings.
LEMMA Concludes ==
  ASSUME ControlInv, JournalGrows, NEW r \in Request, NEW outcome \in {"succeeded", "failed"},
         reqs' = Conclude(r, outcome),
         UNCHANGED <<configFile, active, settingsLock>>,
         reqs[r].pc \notin {"answered", "write", "activate"},
         outcome = "succeeded" => journal'[reqs[r].op].done
  PROVE  ControlInv'
<1> DEFINE rec == [reqs[r] EXCEPT !.pc = "complete", !.outcome = outcome]
<1>1. rec \in ReqRecord /\ rec.pc = "complete" /\ rec.op = reqs[r].op /\ rec.outcome = outcome
  BY ConcludesFacts
<1>2. reqs' = [reqs EXCEPT ![r] = rec]
  BY DEF ControlInv, ControlTypeOK, Conclude
<1>3. rec.op \in DOMAIN journal'
  BY <1>1 DEF ControlInv, RequestsHaveRows, JournalGrows
<1> HIDE DEF rec
<1> QED BY <1>1, <1>2, <1>3, RequestStep

\* A step of the request that holds the lock.
LEMMA SettingsStep ==
  ASSUME ControlInv, JournalGrows, NEW r \in Request, NEW rec \in ReqRecord,
         reqs' = [reqs EXCEPT ![r] = rec], rec.op = reqs[r].op, reqs[r].pc # "answered",
         \A q \in Request : q # r => settingsLock # q,
         configFile' \in Url, active' \in Url,
         \/ /\ settingsLock' = r /\ rec.pc = "write" /\ active' = configFile'
         \/ /\ settingsLock' = r /\ rec.pc = "activate" /\ configFile' = journal'[rec.op].url
         \/ /\ settingsLock' = NoRequest /\ rec.pc = "complete" /\ active' = configFile'
            /\ rec.outcome # "none"
            /\ rec.outcome = "succeeded" => journal'[rec.op].done
  PROVE  ControlInv'
<1> USE ControlAssumption
<1>1. reqs \in [Request -> ReqRecord]
  BY DEF ControlInv, ControlTypeOK
<1>2. reqs'[r] = rec /\ \A q \in Request : q # r => reqs'[q] = reqs[q]
  BY <1>1
<1>3. ControlTypeOK'
  BY <1>1 DEF ControlInv, ControlTypeOK, JournalGrows
<1>4. RequestsHaveRows'
  BY <1>2 DEF ControlInv, RequestsHaveRows, JournalGrows
<1>5. \A q \in Request : q # r => reqs'[q].pc \notin {"write", "activate"} /\ settingsLock' # q
  BY <1>2 DEF ControlInv, LockDiscipline
<1>6. LockDiscipline'
  <2>1. ASSUME NEW q \in Request
        PROVE  /\ reqs'[q].pc \in {"write", "activate"} <=> settingsLock' = q
               /\ reqs'[q].pc = "write" => active' = configFile'
               /\ reqs'[q].pc = "activate" => configFile' = journal'[reqs'[q].op].url
    <3>1. CASE q = r
      BY <1>2, <3>1
    <3>2. CASE q # r
      BY <1>5, <3>2
    <3> QED BY <3>1, <3>2
  <2> QED BY <2>1 DEF LockDiscipline
<1>7. JournalMatchesEffects'
  <2>1. ASSUME NEW q \in Request, reqs'[q].pc = "complete", reqs'[q].outcome = "succeeded"
        PROVE  journal'[reqs'[q].op].done
    <3>1. CASE q = r
      BY <1>2, <2>1, <3>1
    <3>2. CASE q # r
      BY <1>2, <2>1, <3>2
         DEF ControlInv, JournalMatchesEffects, RowOf, RequestsHaveRows, JournalGrows
    <3> QED BY <3>1, <3>2
  <2>2. settingsLock' = NoRequest => active' = configFile'
    OBVIOUS
  <2> QED BY <2>1, <2>2 DEF JournalMatchesEffects, JournalGrows, RowOf
<1> QED BY <1>3, <1>4, <1>6, <1>7 DEF ControlInv

-----------------------------------------------------------------------------
LEMMA ControlInitially == ControlInit => ControlInv
<1> SUFFICES ASSUME ControlInit PROVE ControlInv
  OBVIOUS
<1>1. Answered \in ReqRecord /\ Answered.pc = "answered"
  BY DEF Answered, ReqRecord, ReqPc
<1>2. \A r \in Request : reqs[r].pc = "answered"
  BY <1>1 DEF ControlInit
<1>3. journal = <<>> /\ DOMAIN journal = {}
  BY DEF ControlInit
<1>4. ControlTypeOK
  BY <1>1 DEF ControlInit, ControlTypeOK
<1>5. RequestsHaveRows /\ LockDiscipline /\ JournalMatchesEffects
  BY <1>2, <1>3, ControlAssumption
     DEF ControlInit, RequestsHaveRows, LockDiscipline, JournalMatchesEffects
<1> QED BY <1>4, <1>5 DEF ControlInv

\* begin, in a handler and for the browser.
LEMMA BeginKeeps ==
  ASSUME ControlInv, NEW user \in User
  PROVE  /\ BeginElsewhere(user) => ControlInv'
         /\ \A r \in Request, kind \in OpKind, program \in Program, url \in Url :
              BeginOperation(r, user, kind, program, url) => ControlInv'
<1> USE ControlAssumption
<1>1. \A kind \in OpKind \cup {"elsewhere"}, program \in Program, url \in Url :
        /\ Row(user, kind, program, url) \in JournalRow
        /\ Row(user, kind, program, url).outcome = Row(user, kind, program, url).first
  BY DEF Row, JournalRow
<1>2. ASSUME BeginElsewhere(user) PROVE ControlInv'
  <2> DEFINE row == Row(user, "elsewhere", CHOOSE p \in Program : TRUE, CHOOSE u \in Url : TRUE)
  <2>1. row \in JournalRow /\ row.outcome = row.first
    BY <1>1
  <2>2. journal' = Append(journal, row) /\ UNCHANGED <<reqs, configFile, active, settingsLock>>
    BY <1>2 DEF BeginElsewhere
  <2> HIDE DEF row
  <2>3. JournalGrows
    BY <2>1, <2>2, JournalAppended
  <2> QED BY <2>2, <2>3, OutsideStep
<1>3. ASSUME NEW r \in Request, NEW kind \in OpKind, NEW program \in Program, NEW url \in Url,
             BeginOperation(r, user, kind, program, url)
      PROVE  ControlInv'
  <2> DEFINE row == Row(user, kind, program, url)
             rec == [pc |-> FirstStep(kind), op |-> Len(journal) + 1, kind |-> kind, outcome |-> "none"]
  <2>1. row \in JournalRow /\ row.outcome = row.first
    BY <1>1
  <2>2. /\ journal' = Append(journal, row) /\ reqs' = [reqs EXCEPT ![r] = rec]
        /\ UNCHANGED <<configFile, active, settingsLock>> /\ reqs[r].pc = "answered"
    BY <1>3 DEF BeginOperation
  <2> HIDE DEF row
  <2>3. JournalGrows /\ Len(journal) + 1 \in DOMAIN journal'
    BY <2>1, <2>2, JournalAppended
  <2>4. FirstStep(kind) \in {"inspect", "refresh", "lock"}
    BY DEF FirstStep, OpKind
  <2>5. Len(journal) \in Nat
    BY DEF ControlInv, ControlTypeOK
  <2>6. /\ rec \in ReqRecord /\ rec.pc \in {"inspect", "refresh", "lock"}
        /\ rec.op = Len(journal) + 1
    BY <2>4, <2>5 DEF ReqRecord, ReqPc
  <2> HIDE DEF rec
  <2> QED BY <2>2, <2>3, <2>6, RequestStep
<1> QED BY <1>2, <1>3

\* The handlers of services and views.
LEMMA HandlerKeeps ==
  ASSUME ControlInv, NEW r \in Request, Inspect(r) \/ Supervise(r) \/ Finish(r)
  PROVE  ControlInv'
<1>1. /\ UNCHANGED <<configFile, active, settingsLock>>
      /\ reqs[r].pc \in {"inspect", "call", "listing", "refresh"}
  BY DEF Inspect, Supervise, Finish
<1>2. CASE Inspect(r) \/ Supervise(r)
  <2>1. UNCHANGED journal
    BY <1>2 DEF Inspect, Supervise
  <2>2. JournalGrows
    BY <2>1, JournalStays
  <2>3. CASE reqs' = Conclude(r, "failed")
    BY <1>1, <2>2, <2>3, Concludes
  <2>4. ASSUME NEW pc \in {"call", "listing"}, reqs' = [reqs EXCEPT ![r].pc = pc]
        PROVE  ControlInv'
    <3>1. pc \in ReqPc \ {"write", "activate", "complete", "answered"}
      BY DEF ReqPc
    <3> QED BY <1>1, <2>2, <2>4, <3>1, GoesOn
  <2> QED BY <1>2, <2>3, <2>4 DEF Inspect, Supervise
<1>3. CASE Finish(r)
  <2>1. CASE reqs' = Conclude(r, "succeeded") /\ journal' = SeenThrough(r)
    <3>1. JournalGrows /\ journal'[reqs[r].op].done
      BY <1>1, <2>1, SeenThroughGrows
    <3> QED BY <1>1, <2>1, <3>1, Concludes
  <2>2. CASE reqs' = Conclude(r, "failed") /\ UNCHANGED journal
    BY <1>1, <2>2, JournalStays, Concludes
  <2> QED BY <1>3, <2>1, <2>2 DEF Finish
<1> QED BY <1>2, <1>3

\* update_api_url.
LEMMA SettingsKeep ==
  ASSUME ControlInv, NEW r \in Request,
         LockSettings(r) \/ WriteSettings(r) \/ ActivateSettings(r)
  PROVE  ControlInv'
<1> USE ControlAssumption
<1>1. /\ reqs \in [Request -> ReqRecord] /\ configFile \in Url /\ active \in Url
      /\ reqs[r].pc # "answered" /\ reqs[r].op \in DOMAIN journal
      /\ journal \in Seq(JournalRow) /\ journal[reqs[r].op].url \in Url
  <2>1. reqs[r].pc # "answered"
    BY DEF LockSettings, WriteSettings, ActivateSettings
  <2>2. reqs[r].op \in DOMAIN journal /\ journal \in Seq(JournalRow)
    BY <2>1 DEF ControlInv, RequestsHaveRows, ControlTypeOK
  <2>3. journal[reqs[r].op] \in JournalRow
    BY <2>2
  <2> QED BY <2>1, <2>2, <2>3 DEF ControlInv, ControlTypeOK, JournalRow
<1>2. CASE LockSettings(r)
  <2> DEFINE rec == [reqs[r] EXCEPT !.pc = "write"]
  <2>1. rec \in ReqRecord /\ rec.pc = "write" /\ rec.op = reqs[r].op
    BY GoesOnFacts DEF ReqPc
  <2>2. /\ reqs' = [reqs EXCEPT ![r] = rec] /\ settingsLock' = r /\ settingsLock = NoRequest
        /\ UNCHANGED <<journal, configFile, active>>
    BY <1>1, <1>2 DEF LockSettings
  <2> HIDE DEF rec
  <2>3. active' = configFile' /\ \A q \in Request : settingsLock # q
    BY <2>2 DEF ControlInv, JournalMatchesEffects
  <2>4. JournalGrows
    BY <2>2, JournalStays
  <2> QED BY <1>1, <2>1, <2>2, <2>3, <2>4, SettingsStep
<1>3. CASE WriteSettings(r)
  <2>1. /\ settingsLock = r /\ active = configFile /\ active' = active /\ UNCHANGED journal
    BY <1>3 DEF WriteSettings, ActiveDuringWrite, ControlInv, LockDiscipline
  <2>2. JournalGrows
    BY <2>1, JournalStays
  <2>3. CASE /\ configFile' = RowOf(r).url /\ reqs' = [reqs EXCEPT ![r].pc = "activate"]
             /\ UNCHANGED settingsLock
    <3> DEFINE rec == [reqs[r] EXCEPT !.pc = "activate"]
    <3>1. rec \in ReqRecord /\ rec.pc = "activate" /\ rec.op = reqs[r].op
      BY GoesOnFacts DEF ReqPc
    <3>2. /\ reqs' = [reqs EXCEPT ![r] = rec] /\ configFile' = journal'[rec.op].url
      BY <1>1, <2>1, <2>3, <3>1 DEF RowOf
    <3> HIDE DEF rec
    <3> QED BY <1>1, <2>1, <2>2, <2>3, <3>1, <3>2, SettingsStep
  <2>4. CASE reqs' = Conclude(r, "failed") /\ settingsLock' = NoRequest /\ UNCHANGED configFile
    <3> DEFINE rec == [reqs[r] EXCEPT !.pc = "complete", !.outcome = "failed"]
    <3>1. rec \in ReqRecord /\ rec.pc = "complete" /\ rec.op = reqs[r].op /\ rec.outcome = "failed"
      BY ConcludesFacts
    <3>2. reqs' = [reqs EXCEPT ![r] = rec]
      BY <1>1, <2>4 DEF Conclude
    <3> HIDE DEF rec
    <3> QED BY <1>1, <2>1, <2>2, <2>4, <3>1, <3>2, SettingsStep
  <2> QED BY <1>3, <2>3, <2>4 DEF WriteSettings
<1>4. CASE ActivateSettings(r)
  <2>1. /\ settingsLock = r /\ configFile = journal[reqs[r].op].url
        /\ active' = configFile /\ UNCHANGED configFile
    BY <1>4 DEF ActivateSettings, ControlInv, LockDiscipline, RowOf
  <2>2. JournalGrows /\ journal'[reqs[r].op].done
    BY <1>1, <1>4, SeenThroughGrows DEF ActivateSettings
  <2> DEFINE rec == [reqs[r] EXCEPT !.pc = "complete", !.outcome = "succeeded"]
  <2>3. rec \in ReqRecord /\ rec.pc = "complete" /\ rec.op = reqs[r].op
        /\ rec.outcome = "succeeded"
    BY ConcludesFacts
  <2>4. reqs' = [reqs EXCEPT ![r] = rec] /\ settingsLock' = NoRequest
    BY <1>1, <1>4 DEF ActivateSettings, Conclude
  <2> HIDE DEF rec
  <2> QED BY <1>1, <2>1, <2>2, <2>3, <2>4, SettingsStep
<1> QED BY <1>2, <1>3, <1>4

\* complete, at the end of a handler and by the browser.
LEMMA CompleteKeeps ==
  ASSUME ControlInv
  PROVE  /\ \A r \in Request : CompleteOperation(r) => ControlInv'
         /\ \A user \in User, i \in DOMAIN journal, outcome \in {"succeeded", "failed"} :
              CompleteElsewhere(user, i, outcome) => ControlInv'
<1>1. ASSUME NEW r \in Request, CompleteOperation(r) PROVE ControlInv'
  <2>1. /\ reqs[r].pc = "complete" /\ reqs[r].op \in DOMAIN journal
        /\ UNCHANGED <<configFile, active, settingsLock>>
        /\ reqs' = [reqs EXCEPT ![r] = Answered]
    BY <1>1 DEF CompleteOperation, ControlInv, RequestsHaveRows
  <2>2. PICK outcome \in {"none", "succeeded", "failed"} : reqs[r].outcome = outcome
    BY DEF ControlInv, ControlTypeOK, ReqRecord
  <2>3. JournalGrows
    <3>1. CASE UNCHANGED journal
      BY <3>1, JournalStays
    <3>2. CASE outcome # "none" /\ journal' = Completed(reqs[r].op, RowOf(r).user, outcome)
      BY <2>1, <3>2, CompletedGrows
    <3>3. outcome # "none"
      BY <2>1, <2>2 DEF ControlInv, RequestsHaveRows
    <3> QED BY <1>1, <2>2, <3>1, <3>2, <3>3 DEF CompleteOperation
  <2>4. Answered \in ReqRecord /\ Answered.pc = "answered"
    BY DEF Answered, ReqRecord, ReqPc
  <2> QED BY <2>1, <2>3, <2>4, RequestStep
<1>2. ASSUME NEW user \in User, NEW i \in DOMAIN journal, NEW outcome \in {"succeeded", "failed"},
             CompleteElsewhere(user, i, outcome)
      PROVE  ControlInv'
  <2>1. journal' = Completed(i, user, outcome) /\ UNCHANGED <<reqs, configFile, active, settingsLock>>
    BY <1>2 DEF CompleteElsewhere
  <2>2. JournalGrows
    BY <2>1, CompletedGrows
  <2> QED BY <2>1, <2>2, OutsideStep
<1> QED BY <1>1, <1>2

\* A restart drops every request and reads the file.
LEMMA RestartKeeps ==
  ASSUME ControlInv, Restart
  PROVE  ControlInv'
<1>1. Answered \in ReqRecord /\ Answered.pc = "answered"
  BY DEF Answered, ReqRecord, ReqPc
<1>2. reqs' \in [Request -> ReqRecord] /\ \A r \in Request : reqs'[r].pc = "answered"
  BY <1>1 DEF Restart
<1>3. ControlTypeOK'
  BY <1>2 DEF Restart, ControlInv, ControlTypeOK
<1>4. RequestsHaveRows' /\ LockDiscipline'
  BY <1>2, ControlAssumption DEF Restart, RequestsHaveRows, LockDiscipline
<1>5. JournalMatchesEffects'
  BY <1>2 DEF Restart, ControlInv, JournalMatchesEffects
<1> QED BY <1>3, <1>4, <1>5 DEF ControlInv

\* Every step of handlers, browsers, Supervisor and restarts keeps the invariant.
THEOREM ControlInvariance == ControlSpec => []ControlInv
<1>1. ControlInv /\ [ControlNext]_controlVars => ControlInv'
  <2> SUFFICES ASSUME ControlInv, [ControlNext]_controlVars PROVE ControlInv'
    OBVIOUS
  <2>1. CASE UNCHANGED controlVars
    BY <2>1, JournalStays, OutsideStep DEF controlVars
  <2>2. ASSUME NEW r \in Request, Handle(r) PROVE ControlInv'
    <3>1. configFile \in Url
      BY DEF ControlInv, ControlTypeOK
    <3>2. "configure" \in OpKind
      BY DEF OpKind
    <3> QED BY <2>2, <3>1, <3>2, HandlerKeeps, SettingsKeep, CompleteKeeps, BeginKeeps DEF Handle
  <2>3. ASSUME NEW user \in User,
               BeginElsewhere(user) \/ \E i \in DOMAIN journal : \E outcome \in {"succeeded", "failed"} :
                 CompleteElsewhere(user, i, outcome)
        PROVE  ControlInv'
    BY <2>3, BeginKeeps, CompleteKeeps
  <2>4. CASE Restart
    BY <2>4, RestartKeeps
  <2>5. ASSUME NEW p \in Program, ProgramMoves(p) PROVE ControlInv'
    BY <2>5, JournalStays, OutsideStep DEF ProgramMoves
  <2> QED BY <2>1, <2>2, <2>3, <2>4, <2>5 DEF ControlNext
<1> QED BY <1>1, ControlInitially, PTL DEF ControlSpec

\* begin, complete and update_api_url: outcomes are final, success was seen through, and
\* without a holder of the lock the endpoint in use is the one in the file.
THEOREM JournalAlwaysMatches == ControlSpec => []JournalMatchesEffects
<1>1. ControlInv => JournalMatchesEffects
  BY DEF ControlInv
<1> QED BY <1>1, ControlInvariance, PTL

-----------------------------------------------------------------------------
\* The agents. An issue is created for a job that the listing did not know, and nobody else
\* creates one meanwhile; an issue is assigned after a listing that showed it without an
\* assignee, and only this run assigns. So what both runs remember of the issues stays true.

IssueLabel == {"queued", "assigned", "invalid"}
IssueRow == [job : Job \cup {NoJob}, labels : SUBSET IssueLabel, open : BOOLEAN,
             copilot : BOOLEAN, assignments : Nat]
ListedIssue == [number : Nat, job : Job \cup {NoJob}, copilot : BOOLEAN]
TriageRun == [pc : {"idle", "known", "list", "next", "setting", "queue", "plain"},
              queueFixes : BOOLEAN, known : SUBSET (Job \cup {NoJob}), todo : SUBSET Job,
              job : Job \cup {NoJob}, made : Nat]
DispatchRun == [pc : {"idle", "list", "next", "setting", "assign", "label", "unqueue"},
                required : BOOLEAN, todo : SUBSET ListedIssue, number : Nat, label : IssueLabel \cup {"none"},
                made : Nat]

AgentsTypeOK ==
  /\ autonomous \in BOOLEAN /\ issues \in Seq(IssueRow)
  /\ triage \in TriageRun /\ dispatch \in DispatchRun

\* One issue: it is assigned once at most, for a job, and labelled after that.
RowSound(row) ==
  /\ row.assignments = IF row.copilot THEN 1 ELSE 0
  /\ row.copilot => row.job # NoJob
  /\ "assigned" \in row.labels => row.copilot

IssuesSound ==
  /\ \A i \in DOMAIN issues : RowSound(issues[i])
  /\ \A i, k \in DOMAIN issues : issues[i].job = issues[k].job /\ issues[i].job # NoJob => i = k

\* The issue agent knows every job that has an issue, and works on others.
TriageSound ==
  /\ triage.pc \notin {"idle", "known"} => KnownJobs \ {NoJob} \subseteq triage.known
  /\ triage.pc \notin {"idle", "known", "list"} => triage.todo \cap triage.known = {}
  /\ triage.pc \in {"setting", "queue", "plain"} =>
       triage.job \in Job /\ triage.job \notin triage.known /\ triage.job \notin triage.todo

\* The fix agent's listing is still true of the issues it has not come to.
DispatchSound ==
  /\ \A x \in dispatch.todo :
       /\ x.number \in DOMAIN issues
       /\ x.job = issues[x.number].job /\ x.copilot = issues[x.number].copilot
  /\ dispatch.pc \in {"setting", "assign", "label", "unqueue"} =>
       dispatch.number \in DOMAIN issues /\ \A x \in dispatch.todo : x.number # dispatch.number
  /\ dispatch.pc \in {"setting", "assign"} =>
       issues[dispatch.number].job # NoJob /\ ~issues[dispatch.number].copilot
  /\ dispatch.pc = "label" =>
       /\ dispatch.label \in {"assigned", "invalid"}
       /\ dispatch.label = "assigned" => issues[dispatch.number].copilot

AgentsInv == AgentsTypeOK /\ IssuesSound /\ TriageSound /\ DispatchSound

LEMMA IdleRuns ==
  /\ IdleTriage \in TriageRun /\ IdleTriage.pc = "idle"
  /\ IdleDispatch \in DispatchRun /\ IdleDispatch.pc = "idle" /\ IdleDispatch.todo = {}
BY DEF IdleTriage, TriageRun, IdleDispatch, DispatchRun, IssueLabel

LEMMA AgentsInitially == AgentsInit => AgentsInv
BY IdleRuns DEF AgentsInit, AgentsInv, AgentsTypeOK, IssuesSound, TriageSound, DispatchSound

\* Issues are added, and those that were there keep their job and their assignee.
IssuesKept ==
  /\ issues' \in Seq(IssueRow) /\ IssuesSound'
  /\ \A i \in DOMAIN issues :
       /\ i \in DOMAIN issues' /\ issues'[i].job = issues[i].job
       /\ issues'[i].copilot = issues[i].copilot

\* An issue is opened.
LEMMA IssueOpened ==
  ASSUME AgentsInv, NEW j \in Job \cup {NoJob}, NEW labels \in SUBSET {"queued"},
         j = NoJob \/ j \notin KnownJobs, issues' = Append(issues, NewIssue(j, labels))
  PROVE  IssuesKept /\ KnownJobs' = KnownJobs \cup {j}
<1> DEFINE row == NewIssue(j, labels)
<1>1. issues \in Seq(IssueRow) /\ IssuesSound
  BY DEF AgentsInv, AgentsTypeOK
<1>2. /\ row \in IssueRow /\ row.job = j /\ RowSound(row)
  BY DEF NewIssue, IssueRow, IssueLabel, RowSound
<1> HIDE DEF row
<1>3. /\ issues' \in Seq(IssueRow) /\ Len(issues') = Len(issues) + 1 /\ Len(issues) \in Nat
      /\ DOMAIN issues = 1..Len(issues) /\ DOMAIN issues' = 1..(Len(issues) + 1)
      /\ \A i \in DOMAIN issues : issues'[i] = issues[i]
      /\ issues'[Len(issues) + 1] = row
  BY <1>1, <1>2 DEF row
<1>4. /\ \A i \in DOMAIN issues : i \in DOMAIN issues'
      /\ \A i \in DOMAIN issues' : i \in DOMAIN issues \/ i = Len(issues) + 1
      /\ Len(issues) + 1 \in DOMAIN issues'
  BY <1>3
<1>5. IssuesSound'
  <2>1. \A i \in DOMAIN issues' : RowSound(issues'[i])
    BY <1>1, <1>2, <1>3, <1>4 DEF IssuesSound
  <2>2. \A i, k \in DOMAIN issues' : issues'[i].job = issues'[k].job /\ issues'[i].job # NoJob => i = k
    BY <1>1, <1>2, <1>3, <1>4 DEF IssuesSound, KnownJobs
  <2> QED BY <2>1, <2>2 DEF IssuesSound, RowSound
<1>6. KnownJobs' = KnownJobs \cup {j}
  BY <1>2, <1>3, <1>4 DEF KnownJobs
<1> QED BY <1>3, <1>4, <1>5, <1>6 DEF IssuesKept

\* An issue changes, but not the job it is about.
LEMMA IssueChanged ==
  ASSUME AgentsInv, NEW n \in DOMAIN issues, NEW row \in IssueRow, RowSound(row),
         row.job = issues[n].job, issues' = [issues EXCEPT ![n] = row]
  PROVE  /\ issues' \in Seq(IssueRow) /\ DOMAIN issues' = DOMAIN issues
         /\ issues'[n] = row /\ \A i \in DOMAIN issues : i # n => issues'[i] = issues[i]
         /\ IssuesSound' /\ KnownJobs' = KnownJobs
<1>1. issues \in Seq(IssueRow) /\ IssuesSound
  BY DEF AgentsInv, AgentsTypeOK
<1>2. /\ issues' \in Seq(IssueRow) /\ DOMAIN issues' = DOMAIN issues
      /\ issues'[n] = row /\ \A i \in DOMAIN issues : i # n => issues'[i] = issues[i]
  BY <1>1
<1>3. \A i \in DOMAIN issues : issues'[i].job = issues[i].job
  BY <1>2
<1>4. \A i \in DOMAIN issues' : RowSound(issues'[i])
  BY <1>1, <1>2 DEF IssuesSound
<1>5. IssuesSound'
  BY <1>1, <1>2, <1>3, <1>4 DEF IssuesSound, RowSound
<1>6. KnownJobs' = KnownJobs
  BY <1>2, <1>3 DEF KnownJobs
<1> QED BY <1>2, <1>5, <1>6

\* The fix agent's view survives what others do to the issues.
LEMMA DispatchUndisturbed ==
  ASSUME AgentsInv, IssuesKept, UNCHANGED dispatch
  PROVE  DispatchSound'
<1>1. DispatchSound
  BY DEF AgentsInv
<1> QED BY <1>1 DEF DispatchSound, IssuesKept

\* The issue agent's view survives what does not open an issue about a job.
LEMMA TriageUndisturbed ==
  ASSUME AgentsInv, KnownJobs' \subseteq KnownJobs \cup {NoJob}, UNCHANGED triage
  PROVE  TriageSound'
<1>1. TriageSound
  BY DEF AgentsInv
<1> QED BY <1>1 DEF TriageSound

\* The issue agent moves on without touching the issues.
LEMMA TriageMoves ==
  ASSUME AgentsInv, TriageStart \/ ReadKnown \/ ListJobs \/ ReadSetting \/ TriageEnd
                    \/ TriageFails \/ \E j \in Job : NextJob(j)
  PROVE  AgentsInv'
<1>1. AgentsTypeOK /\ IssuesSound /\ TriageSound /\ DispatchSound
  BY DEF AgentsInv
<1>2. UNCHANGED <<autonomous, issues, dispatch>> /\ KnownJobs' = KnownJobs
  <2>1. UNCHANGED <<autonomous, issues, dispatch>>
    <3>1. CASE TriageStart \/ ReadKnown \/ ListJobs
      BY <3>1 DEF TriageStart, ReadKnown, ListJobs
    <3>2. CASE ReadSetting \/ TriageEnd \/ TriageFails
      BY <3>2 DEF ReadSetting, TriageEnd, TriageFails
    <3>3. ASSUME NEW j \in Job, NextJob(j) PROVE UNCHANGED <<autonomous, issues, dispatch>>
      BY <3>3 DEF NextJob
    <3> QED BY <3>1, <3>2, <3>3
  <2> QED BY <2>1 DEF KnownJobs
<1>3. IssuesSound' /\ DispatchSound'
  BY <1>1, <1>2 DEF IssuesSound, RowSound, DispatchSound
<1>4. KnownJobs \subseteq Job \cup {NoJob}
  <2>1. \A i \in DOMAIN issues : issues[i] \in IssueRow
    BY <1>1 DEF AgentsTypeOK
  <2>2. \A row \in IssueRow : row.job \in Job \cup {NoJob}
    BY DEF IssueRow
  <2> QED BY <2>1, <2>2 DEF KnownJobs
<1>5. triage' \in TriageRun /\ TriageSound'
  <2>1. CASE triage' = IdleTriage
    BY <2>1, IdleRuns DEF TriageSound
  <2>2. CASE TriageStart
    BY <1>1, <2>2 DEF TriageStart, AgentsTypeOK, TriageRun, TriageSound
  <2>3. CASE ReadKnown
    BY <1>1, <1>2, <1>4, <2>3 DEF ReadKnown, AgentsTypeOK, TriageRun, TriageSound
  <2>4. CASE ListJobs
    <3>1. PICK todo \in SUBSET Job : /\ todo \cap triage.known = {}
                                     /\ triage' = [triage EXCEPT !.pc = "next", !.todo = todo]
      BY <2>4 DEF ListJobs
    <3> QED BY <1>1, <1>2, <2>4, <3>1 DEF ListJobs, AgentsTypeOK, TriageRun, TriageSound
  <2>5. CASE ReadSetting
    BY <1>1, <1>2, <2>5 DEF ReadSetting, AgentsTypeOK, TriageRun, TriageSound
  <2>6. ASSUME NEW j \in Job, NextJob(j), triage' # IdleTriage PROVE triage' \in TriageRun /\ TriageSound'
    <3>1. /\ triage.pc = "next" /\ j \in triage.todo
          /\ \/ triage' = [triage EXCEPT !.todo = @ \ {j}]
             \/ triage' = [triage EXCEPT !.todo = @ \ {j}, !.job = j, !.pc = "setting"]
      BY <2>6 DEF NextJob
    <3> DEFINE rest == triage.todo \ {j}
    <3>2. triage \in TriageRun /\ rest \in SUBSET Job
      BY <1>1 DEF AgentsTypeOK, TriageRun
    <3>3. \/ triage' = [triage EXCEPT !.todo = rest]
          \/ triage' = [triage EXCEPT !.todo = rest, !.job = j, !.pc = "setting"]
      BY <3>1 DEF rest
    <3> HIDE DEF rest
    <3>4. /\ triage' \in TriageRun /\ triage'.known = triage.known
          /\ triage'.todo = rest
          /\ triage'.pc = "next" \/ (triage'.pc = "setting" /\ triage'.job = j)
      <4>1. CASE triage' = [triage EXCEPT !.todo = rest]
        BY <3>1, <3>2, <4>1 DEF TriageRun
      <4>2. CASE triage' = [triage EXCEPT !.todo = rest, !.job = j, !.pc = "setting"]
        BY <3>2, <4>2 DEF TriageRun
      <4> QED BY <3>3, <4>1, <4>2
    <3> QED BY <1>1, <1>2, <3>1, <3>4 DEF TriageSound, rest
  <2> QED BY <2>1, <2>2, <2>3, <2>4, <2>5, <2>6 DEF TriageEnd, TriageFails
<1>6. AgentsTypeOK'
  BY <1>1, <1>2, <1>5 DEF AgentsTypeOK
<1> QED BY <1>3, <1>5, <1>6 DEF AgentsInv

\* create_issue
LEMMA CreateIssueKeeps ==
  ASSUME AgentsInv, CreateIssue
  PROVE  AgentsInv'
<1>1. AgentsTypeOK /\ TriageSound
  BY DEF AgentsInv
<1>2. /\ triage.pc \in {"queue", "plain"} /\ UNCHANGED <<autonomous, dispatch>>
      /\ issues' = Append(issues, NewIssue(triage.job, DraftLabels))
      /\ \/ triage' = [triage EXCEPT !.pc = "next", !.job = NoJob, !.made = @ + 1,
                                     !.known = @ \cup {triage.job}]
         \/ triage' = IdleTriage
  BY DEF CreateIssue
<1>3. /\ triage.job \in Job /\ triage.job \notin triage.known /\ triage.job \notin triage.todo
      /\ KnownJobs \ {NoJob} \subseteq triage.known /\ triage.todo \cap triage.known = {}
      /\ triage.job # NoJob
  BY <1>1, <1>2, AgentsAssumption DEF TriageSound
<1>4. triage.job \notin KnownJobs /\ DraftLabels \in SUBSET {"queued"}
  BY <1>3 DEF DraftLabels
<1>5. IssuesKept /\ KnownJobs' = KnownJobs \cup {triage.job}
  BY <1>2, <1>3, <1>4, IssueOpened
<1>6. triage' \in TriageRun /\ TriageSound'
  <2>1. CASE triage' = IdleTriage
    BY <2>1, IdleRuns DEF TriageSound
  <2>2. CASE triage' = [triage EXCEPT !.pc = "next", !.job = NoJob, !.made = @ + 1,
                                      !.known = @ \cup {triage.job}]
    <3> DEFINE known == triage.known \cup {triage.job}
               made == triage.made + 1
    <3>1. triage \in TriageRun /\ known \in SUBSET (Job \cup {NoJob}) /\ made \in Nat
      BY <1>1, <1>3 DEF AgentsTypeOK, TriageRun
    <3>2. triage' = [triage EXCEPT !.pc = "next", !.job = NoJob, !.made = made, !.known = known]
      BY <2>2 DEF known, made
    <3> HIDE DEF known, made
    <3>3. /\ triage' \in TriageRun /\ triage'.known = known
          /\ triage'.todo = triage.todo /\ triage'.pc = "next"
      BY <3>1, <3>2 DEF TriageRun
    <3> QED BY <1>3, <1>5, <3>3 DEF TriageSound, known
  <2> QED BY <1>2, <2>1, <2>2
<1>7. DispatchSound'
  BY <1>2, <1>5, DispatchUndisturbed
<1> QED BY <1>1, <1>2, <1>5, <1>6, <1>7 DEF AgentsInv, AgentsTypeOK, IssuesKept

\* What the updates of one issue leave alone.
LEMMA RowUpdates ==
  ASSUME NEW row \in IssueRow, NEW labels \in SUBSET IssueLabel
  PROVE  /\ [row EXCEPT !.labels = labels] \in IssueRow
         /\ [row EXCEPT !.labels = labels].job = row.job
         /\ [row EXCEPT !.labels = labels].labels = labels
         /\ [row EXCEPT !.labels = labels].copilot = row.copilot
         /\ [row EXCEPT !.labels = labels].assignments = row.assignments
         /\ [row EXCEPT !.open = FALSE] \in IssueRow
         /\ [row EXCEPT !.open = FALSE].job = row.job
         /\ [row EXCEPT !.open = FALSE].labels = row.labels
         /\ [row EXCEPT !.open = FALSE].copilot = row.copilot
         /\ [row EXCEPT !.open = FALSE].assignments = row.assignments
BY DEF IssueRow

LEMMA IssueRows ==
  ASSUME AgentsInv, NEW n \in DOMAIN issues
  PROVE  /\ issues[n] \in IssueRow /\ RowSound(issues[n])
         /\ issues[n].labels \in SUBSET IssueLabel /\ issues[n].assignments \in Nat
<1>1. issues[n] \in IssueRow /\ RowSound(issues[n])
  BY DEF AgentsInv, AgentsTypeOK, IssuesSound
<1> QED BY <1>1 DEF IssueRow

\* The labels of one issue change, and assigned is not put on an issue that is not.
LEMMA IssueLabelled ==
  ASSUME AgentsInv, NEW n \in DOMAIN issues, NEW labels \in SUBSET IssueLabel,
         "assigned" \in labels => issues[n].copilot,
         issues' = [issues EXCEPT ![n].labels = labels]
  PROVE  IssuesKept /\ KnownJobs' = KnownJobs
<1> DEFINE row == [issues[n] EXCEPT !.labels = labels]
<1>1. issues[n] \in IssueRow /\ RowSound(issues[n])
  BY IssueRows
<1>2. /\ row \in IssueRow /\ row.job = issues[n].job /\ row.labels = labels
      /\ row.copilot = issues[n].copilot /\ row.assignments = issues[n].assignments
  BY <1>1, RowUpdates
<1>3. issues' = [issues EXCEPT ![n] = row]
  OBVIOUS
<1> HIDE DEF row
<1>4. RowSound(row)
  BY <1>1, <1>2 DEF RowSound
<1>5. /\ issues' \in Seq(IssueRow) /\ DOMAIN issues' = DOMAIN issues
      /\ issues'[n] = row /\ \A i \in DOMAIN issues : i # n => issues'[i] = issues[i]
      /\ IssuesSound' /\ KnownJobs' = KnownJobs
  BY <1>2, <1>3, <1>4, IssueChanged
<1> QED BY <1>2, <1>5 DEF IssuesKept

\* An issue is closed.
LEMMA IssueClosed ==
  ASSUME AgentsInv, NEW n \in DOMAIN issues, issues' = [issues EXCEPT ![n].open = FALSE]
  PROVE  IssuesKept /\ KnownJobs' = KnownJobs
<1> DEFINE row == [issues[n] EXCEPT !.open = FALSE]
<1>1. issues[n] \in IssueRow /\ RowSound(issues[n])
  BY IssueRows
<1>2. /\ row \in IssueRow /\ row.job = issues[n].job /\ row.labels = issues[n].labels
      /\ row.copilot = issues[n].copilot /\ row.assignments = issues[n].assignments
  BY <1>1, RowUpdates, {} \in SUBSET IssueLabel
<1>3. issues' = [issues EXCEPT ![n] = row]
  OBVIOUS
<1> HIDE DEF row
<1>4. RowSound(row)
  BY <1>1, <1>2 DEF RowSound
<1>5. /\ issues' \in Seq(IssueRow) /\ DOMAIN issues' = DOMAIN issues
      /\ issues'[n] = row /\ \A i \in DOMAIN issues : i # n => issues'[i] = issues[i]
      /\ IssuesSound' /\ KnownJobs' = KnownJobs
  BY <1>2, <1>3, <1>4, IssueChanged
<1> QED BY <1>2, <1>5 DEF IssuesKept

\* What people do
LEMMA PersonKeeps ==
  ASSUME AgentsInv, Person
  PROVE  AgentsInv'
<1>1. AgentsTypeOK
  BY DEF AgentsInv
<1>2. UNCHANGED <<autonomous, triage, dispatch>>
  BY DEF Person
<1>3. IssuesKept /\ KnownJobs' \subseteq KnownJobs \cup {NoJob}
  <2>1. CASE issues' = Append(issues, NewIssue(NoJob, {"queued"}))
    BY <2>1, IssueOpened
  <2>2. ASSUME NEW i \in DOMAIN issues, issues' = [issues EXCEPT ![i].labels = @ \cup {"queued"}]
        PROVE  IssuesKept /\ KnownJobs' = KnownJobs
    <3>1. /\ issues[i].labels \cup {"queued"} \in SUBSET IssueLabel
          /\ "assigned" \in issues[i].labels \cup {"queued"} => issues[i].copilot
      BY IssueRows DEF RowSound, IssueLabel
    <3>2. issues' = [issues EXCEPT ![i].labels = issues[i].labels \cup {"queued"}]
      BY <2>2
    <3> QED BY <3>1, <3>2, IssueLabelled
  <2>3. ASSUME NEW i \in DOMAIN issues, issues' = [issues EXCEPT ![i].open = FALSE]
        PROVE  IssuesKept /\ KnownJobs' = KnownJobs
    BY <2>3, IssueClosed
  <2> QED BY <2>1, <2>2, <2>3 DEF Person
<1>4. DispatchSound' /\ TriageSound'
  BY <1>2, <1>3, DispatchUndisturbed, TriageUndisturbed
<1> QED BY <1>1, <1>2, <1>3, <1>4 DEF AgentsInv, AgentsTypeOK, IssuesKept

\* The listing shows every queued issue as it is, and each once.
LEMMA QueuedIssuesListed ==
  ASSUME AgentsInv
  PROVE  /\ QueuedIssues \in SUBSET ListedIssue
         /\ \A x \in QueuedIssues :
              /\ x.number \in DOMAIN issues
              /\ x.job = issues[x.number].job /\ x.copilot = issues[x.number].copilot
<1>1. DOMAIN issues \subseteq Nat
  BY DEF AgentsInv, AgentsTypeOK
<1>2. ASSUME NEW i \in DOMAIN issues,
             NEW x, x = [number |-> i, job |-> issues[i].job, copilot |-> issues[i].copilot]
      PROVE  /\ x \in ListedIssue /\ x.number \in DOMAIN issues
             /\ x.job = issues[x.number].job /\ x.copilot = issues[x.number].copilot
  <2>1. issues[i].job \in Job \cup {NoJob} /\ issues[i].copilot \in BOOLEAN
    BY IssueRows DEF IssueRow
  <2> QED BY <1>1, <1>2, <2>1 DEF ListedIssue
<1> QED BY <1>2 DEF QueuedIssues

\* The fix agent moves on without touching the issues.
LEMMA DispatchMoves ==
  ASSUME AgentsInv, dispatch' \in DispatchRun, DispatchSound', UNCHANGED <<autonomous, issues, triage>>
  PROVE  AgentsInv'
<1>1. AgentsTypeOK' /\ IssuesSound' /\ KnownJobs' = KnownJobs
  BY DEF AgentsInv, AgentsTypeOK, IssuesSound, RowSound, KnownJobs
<1> QED BY <1>1, TriageUndisturbed DEF AgentsInv

\* The loop takes the next issue of the listing.
LEMMA DispatchNextKeeps ==
  ASSUME AgentsInv, DispatchNext
  PROVE  AgentsInv'
<1>1. dispatch \in DispatchRun /\ DispatchSound
  BY DEF AgentsInv, AgentsTypeOK
<1>2. PICK issue \in dispatch.todo :
        dispatch' = [dispatch EXCEPT !.pc = NextStep(issue).pc, !.label = NextStep(issue).label,
                                     !.number = issue.number, !.todo = @ \ {issue}]
  BY DEF DispatchNext
<1> DEFINE step == NextStep(issue)
           pc == step.pc
           label == step.label
           number == issue.number
           rest == dispatch.todo \ {issue}
<1>3. dispatch.todo \in SUBSET ListedIssue /\ rest \in SUBSET ListedIssue
  BY <1>1 DEF DispatchRun
<1>4. \A x \in ListedIssue : x.number \in Nat /\ x.job \in Job \cup {NoJob} /\ x.copilot \in BOOLEAN
  BY DEF ListedIssue
<1>5. \/ issue.job = NoJob /\ pc = "label" /\ label = "invalid"
      \/ issue.job # NoJob /\ issue.copilot /\ pc = "label" /\ label = "assigned"
      \/ issue.job # NoJob /\ ~issue.copilot /\ pc \in {"setting", "next"} /\ label = "none"
  <2>1. CASE issue.job = NoJob
    BY <2>1 DEF NextStep
  <2>2. CASE issue.job # NoJob /\ issue.copilot
    BY <2>2 DEF NextStep
  <2>3. CASE issue.job # NoJob /\ ~issue.copilot
    <3>1. NextStep(issue) = [pc |-> IF dispatch.made < MaxAssignments THEN "setting" ELSE "next",
                             label |-> "none"]
      BY <2>3 DEF NextStep
    <3> QED BY <2>3, <3>1
  <2> QED BY <2>1, <2>2, <2>3
<1>6. \A x \in rest : x.number # number
  <2> SUFFICES ASSUME NEW x \in rest, x.number = number PROVE FALSE
    OBVIOUS
  <2>1. x.job = issue.job /\ x.copilot = issue.copilot
    BY <1>1 DEF DispatchSound
  <2>2. x = issue
    BY <1>3, <2>1 DEF ListedIssue
  <2> QED BY <2>2
<1>7. /\ number \in DOMAIN issues /\ issue.job = issues[number].job
      /\ issue.copilot = issues[number].copilot
  BY <1>1 DEF DispatchSound
<1>8. number \in Nat
  BY <1>3, <1>4
<1>9. dispatch' = [dispatch EXCEPT !.pc = pc, !.label = label, !.number = number, !.todo = rest]
  BY <1>2
<1>10. UNCHANGED <<autonomous, issues, triage>>
  BY DEF DispatchNext
<1>11. \A x \in rest : x \in dispatch.todo
  OBVIOUS
<1> HIDE DEF step, pc, label, number, rest
<1>12. pc \in {"setting", "label", "next"} /\ label \in IssueLabel \cup {"none"}
  BY <1>5 DEF IssueLabel
<1>13. /\ dispatch' \in DispatchRun /\ dispatch'.pc = pc /\ dispatch'.label = label
       /\ dispatch'.number = number /\ dispatch'.todo = rest
  BY <1>1, <1>3, <1>8, <1>9, <1>12 DEF DispatchRun
<1>14. DispatchSound'
  <2>1. \A x \in dispatch'.todo :
          /\ x.number \in DOMAIN issues'
          /\ x.job = issues'[x.number].job /\ x.copilot = issues'[x.number].copilot
    BY <1>1, <1>10, <1>11, <1>13 DEF DispatchSound
  <2>2. dispatch'.number \in DOMAIN issues' /\ \A x \in dispatch'.todo : x.number # dispatch'.number
    BY <1>6, <1>7, <1>10, <1>13
  <2>3. dispatch'.pc \in {"setting", "assign"} =>
          issues'[dispatch'.number].job # NoJob /\ ~issues'[dispatch'.number].copilot
    BY <1>5, <1>7, <1>10, <1>13
  <2>4. dispatch'.pc = "label" =>
          /\ dispatch'.label \in {"assigned", "invalid"}
          /\ dispatch'.label = "assigned" => issues'[dispatch'.number].copilot
    BY <1>5, <1>7, <1>10, <1>13
  <2> QED BY <2>1, <2>2, <2>3, <2>4 DEF DispatchSound
<1> QED BY <1>10, <1>13, <1>14, DispatchMoves

\* The fix agent's other steps that leave the issues alone.
LEMMA DispatchStepsKeep ==
  ASSUME AgentsInv,
         \/ \E required \in BOOLEAN : DispatchStart(required)
         \/ DispatchList \/ DispatchSetting \/ DispatchEnd \/ DispatchFails
  PROVE  AgentsInv'
<1>1. dispatch \in DispatchRun /\ DispatchSound
  BY DEF AgentsInv, AgentsTypeOK
<1>2. UNCHANGED <<autonomous, issues, triage>>
  BY DEF DispatchStart, DispatchList, DispatchSetting, DispatchEnd, DispatchFails
<1>3. dispatch' \in DispatchRun /\ DispatchSound'
  <2>1. CASE dispatch' = IdleDispatch
    BY <2>1, IdleRuns DEF DispatchSound
  <2>2. ASSUME NEW required \in BOOLEAN, DispatchStart(required)
        PROVE  dispatch' \in DispatchRun /\ DispatchSound'
    <3>1. /\ dispatch' \in DispatchRun /\ dispatch'.pc = "list" /\ dispatch'.todo = dispatch.todo
      BY <1>1, <2>2 DEF DispatchStart, DispatchRun
    <3> QED BY <1>1, <1>2, <3>1 DEF DispatchSound
  <2>3. CASE DispatchList
    <3> DEFINE listed == QueuedIssues
    <3>1. dispatch' = [dispatch EXCEPT !.pc = "next", !.todo = listed] /\ listed \in SUBSET ListedIssue
      BY <2>3, QueuedIssuesListed DEF DispatchList
    <3> HIDE DEF listed
    <3>2. dispatch' \in DispatchRun /\ dispatch'.pc = "next" /\ dispatch'.todo = listed
      BY <1>1, <3>1 DEF DispatchRun
    <3> QED BY <1>2, <3>2, QueuedIssuesListed DEF DispatchSound, listed
  <2>4. CASE DispatchSetting /\ dispatch' # IdleDispatch
    <3>1. dispatch.pc = "setting" /\ dispatch' = [dispatch EXCEPT !.pc = "assign"]
      BY <2>4 DEF DispatchSetting
    <3>2. /\ dispatch' \in DispatchRun /\ dispatch'.pc = "assign" /\ dispatch'.todo = dispatch.todo
          /\ dispatch'.number = dispatch.number
      BY <1>1, <3>1 DEF DispatchRun
    <3> QED BY <1>1, <1>2, <3>1, <3>2 DEF DispatchSound
  <2> QED BY <2>1, <2>2, <2>3, <2>4 DEF DispatchEnd, DispatchFails
<1> QED BY <1>2, <1>3, DispatchMoves

\* assign_copilot: the issue is about a job and has no assignee yet.
LEMMA AssignCopilotKeeps ==
  ASSUME AgentsInv, AssignCopilot
  PROVE  AgentsInv'
<1>1. AgentsTypeOK /\ dispatch \in DispatchRun /\ DispatchSound
  BY DEF AgentsInv, AgentsTypeOK
<1> DEFINE n == dispatch.number
           count == issues[n].assignments + 1
           row == [issues[n] EXCEPT !.copilot = TRUE, !.assignments = count]
<1>2. dispatch.pc = "assign" /\ UNCHANGED <<autonomous, triage>>
  BY DEF AssignCopilot
<1>3. /\ n \in DOMAIN issues /\ \A x \in dispatch.todo : x.number # n
      /\ issues[n].job # NoJob /\ ~issues[n].copilot
  BY <1>1, <1>2 DEF DispatchSound
<1>4. issues[n] \in IssueRow /\ RowSound(issues[n]) /\ issues[n].assignments \in Nat
  BY <1>3, IssueRows
<1>5. count \in Nat /\ count = 1
  BY <1>3, <1>4 DEF RowSound
<1>6. /\ row \in IssueRow /\ row.job = issues[n].job /\ row.labels = issues[n].labels
      /\ row.copilot = TRUE /\ row.assignments = count
  <2> HIDE DEF count, n
  <2> QED BY <1>4, <1>5 DEF IssueRow
<1>7. issues' = [issues EXCEPT ![n] = row]
  BY DEF AssignCopilot, Number
<1> HIDE DEF row
<1>8. RowSound(row)
  BY <1>3, <1>5, <1>6 DEF RowSound
<1>9. /\ issues' \in Seq(IssueRow) /\ DOMAIN issues' = DOMAIN issues
      /\ issues'[n] = row /\ \A i \in DOMAIN issues : i # n => issues'[i] = issues[i]
      /\ IssuesSound' /\ KnownJobs' = KnownJobs
  <2> HIDE DEF n
  <2> QED BY <1>3, <1>6, <1>7, <1>8, IssueChanged
<1>10. TriageSound'
  BY <1>2, <1>9, TriageUndisturbed
<1>11. dispatch' \in DispatchRun /\ DispatchSound'
  <2>1. CASE dispatch' = IdleDispatch
    BY <2>1, IdleRuns DEF DispatchSound
  <2>2. CASE dispatch' # IdleDispatch
    <3> DEFINE made == dispatch.made + 1
    <3>1. dispatch' = [dispatch EXCEPT !.pc = "label", !.label = "assigned", !.made = made]
      BY <2>2 DEF AssignCopilot
    <3>2. made \in Nat
      BY <1>1 DEF DispatchRun
    <3> HIDE DEF made
    <3>3. /\ dispatch' \in DispatchRun /\ dispatch'.pc = "label" /\ dispatch'.label = "assigned"
          /\ dispatch'.todo = dispatch.todo /\ dispatch'.number = n
      BY <1>1, <3>1, <3>2 DEF DispatchRun, IssueLabel
    <3> QED BY <1>1, <1>3, <1>6, <1>9, <3>3 DEF DispatchSound
  <2> QED BY <2>1, <2>2
<1> QED BY <1>1, <1>2, <1>9, <1>10, <1>11 DEF AgentsInv, AgentsTypeOK

\* _mark_assigned and the rejection of an issue without a job.
LEMMA LabelKeeps ==
  ASSUME AgentsInv, AddLabel \/ RemoveLabel
  PROVE  AgentsInv'
<1>1. AgentsTypeOK /\ dispatch \in DispatchRun /\ DispatchSound
  BY DEF AgentsInv, AgentsTypeOK
<1> DEFINE n == dispatch.number
<1>2. UNCHANGED <<autonomous, triage>> /\ dispatch.pc \in {"label", "unqueue"}
  BY DEF AddLabel, RemoveLabel
<1>3. n \in DOMAIN issues /\ \A x \in dispatch.todo : x.number # n
  BY <1>1, <1>2 DEF DispatchSound
<1>4. /\ RowSound(issues[n]) /\ issues[n].labels \in SUBSET IssueLabel
  BY <1>3, IssueRows
<1>5. IssuesKept /\ KnownJobs' = KnownJobs
  <2>1. CASE AddLabel
    <3> DEFINE labels == issues[n].labels \cup {dispatch.label}
    <3>1. dispatch.label \in IssueLabel /\ (dispatch.label = "assigned" => issues[n].copilot)
      BY <1>1, <2>1 DEF AddLabel, DispatchSound, IssueLabel
    <3>2. labels \in SUBSET IssueLabel /\ ("assigned" \in labels => issues[n].copilot)
      BY <1>4, <3>1 DEF RowSound
    <3>3. issues' = [issues EXCEPT ![n].labels = labels]
      BY <2>1 DEF AddLabel, Number
    <3> HIDE DEF labels, n
    <3> QED BY <1>3, <3>2, <3>3, IssueLabelled
  <2>2. CASE RemoveLabel
    <3> DEFINE labels == issues[n].labels \ {"queued"}
    <3>1. labels \in SUBSET IssueLabel /\ ("assigned" \in labels => issues[n].copilot)
      BY <1>4 DEF RowSound
    <3>2. issues' = [issues EXCEPT ![n].labels = labels]
      BY <2>2 DEF RemoveLabel, Number
    <3> HIDE DEF labels, n
    <3> QED BY <1>3, <3>1, <3>2, IssueLabelled
  <2> QED BY <2>1, <2>2
<1>6. TriageSound'
  BY <1>2, <1>5, TriageUndisturbed
<1>7. dispatch' \in DispatchRun /\ dispatch'.todo = dispatch.todo /\ dispatch'.number = n
      /\ dispatch'.pc \in {"unqueue", "next"}
  <2>1. CASE AddLabel
    BY <1>1, <2>1 DEF AddLabel, DispatchRun
  <2>2. CASE RemoveLabel
    BY <1>1, <2>2 DEF RemoveLabel, DispatchRun
  <2> QED BY <2>1, <2>2
<1>8. DispatchSound'
  BY <1>1, <1>3, <1>5, <1>7 DEF DispatchSound, IssuesKept
<1> QED BY <1>1, <1>2, <1>5, <1>6, <1>7, <1>8 DEF AgentsInv, AgentsTypeOK, IssuesKept

\* Nobody touches the issues or the runs.
LEMMA AgentsUndisturbed ==
  ASSUME AgentsInv, autonomous' \in BOOLEAN, UNCHANGED <<issues, triage, dispatch>>
  PROVE  AgentsInv'
<1>1. IssuesSound' /\ KnownJobs' = KnownJobs /\ DispatchSound'
  BY DEF AgentsInv, IssuesSound, RowSound, KnownJobs, DispatchSound
<1>2. AgentsTypeOK'
  BY DEF AgentsInv, AgentsTypeOK
<1> QED BY <1>1, <1>2, TriageUndisturbed DEF AgentsInv

\* The whole of the two agents: what either run remembers of the issues stays true of them,
\* whatever the other run, failing requests and people do.
THEOREM AgentsInvariance == AgentsSpec => []AgentsInv
<1>1. AgentsInv /\ [AgentsNext]_agentVars => AgentsInv'
  <2> SUFFICES ASSUME AgentsInv, [AgentsNext]_agentVars PROVE AgentsInv'
    OBVIOUS
  <2>0. autonomous \in BOOLEAN
    BY DEF AgentsInv, AgentsTypeOK
  <2>1. CASE UNCHANGED agentVars
    BY <2>0, <2>1, AgentsUndisturbed DEF agentVars
  <2>2. CASE TriageRuns \/ TriageFails
    BY <2>2, TriageMoves, CreateIssueKeeps DEF TriageRuns
  <2>3. CASE DispatchRuns \/ DispatchStart(FALSE) \/ DispatchFails
    BY <2>3, DispatchStepsKeep, DispatchNextKeeps, AssignCopilotKeeps, LabelKeeps DEF DispatchRuns
  <2>4. CASE Toggle
    BY <2>0, <2>4, AgentsUndisturbed DEF Toggle
  <2>5. CASE Person
    BY <2>5, PersonKeeps
  <2>6. ASSUME NEW j \in Job, CheckMoves(j) PROVE AgentsInv'
    BY <2>0, <2>6, AgentsUndisturbed DEF CheckMoves
  <2> QED BY <2>1, <2>2, <2>3, <2>4, <2>5, <2>6 DEF AgentsNext
<1> QED BY <1>1, AgentsInitially, PTL DEF AgentsSpec

\* triage_page_checks and dispatch_page_check_fixes: a job has one issue at most, and an issue
\* is handed to Copilot once at most, about a job, and before it is labelled so.
THEOREM AgentsAlwaysActOnce == AgentsSpec => []AgentsActOnce
<1>1. AgentsInv => AgentsActOnce
  BY DEF AgentsInv, IssuesSound, RowSound, AgentsActOnce
<1> QED BY <1>1, AgentsInvariance, PTL
=============================================================================
