--------------------------- MODULE ServiceControl ---------------------------
(***************************************************************************)
(* supervisor_control_service: Atlas starts and stops supervised programs,    *)
(* refreshes the materialized views and configures the Gemma endpoint. Each   *)
(* operation is entered into a journal before it is tried and completed       *)
(* afterwards; the browser does the same for operations of other services.    *)
(* Requests are handled concurrently, each blocking call in a thread.         *)
(***************************************************************************)
EXTENDS Naturals, Sequences

CONSTANTS
  Program,     \* the programs that may be controlled
  User,
  Request,     \* requests being handled
  Url,         \* Gemma endpoints that pass validation
  MaxOps,      \* bound of the operations
  NoRequest

ASSUME ControlAssumption == NoRequest \notin Request /\ Url # {} /\ Program # {}

OpKind == {"start", "stop", "refresh", "configure"}

VARIABLES
  programs,    \* the state of each program in Supervisor
  journal,     \* the table of operations, by id
  reqs,        \* what each request does
  configFile, active,  \* the endpoint in the file, and the one in use
  settingsLock         \* _settings_lock: the request that holds it

controlVars == <<programs, journal, reqs, configFile, active, settingsLock>>

Answered == [pc |-> "answered", op |-> 0, kind |-> "none", outcome |-> "none"]

ControlInit ==
  /\ programs \in [Program -> {"stopped", "running"}]
  /\ journal = <<>>
  /\ reqs = [r \in Request |-> Answered]
  /\ configFile \in Url /\ active = configFile
  /\ settingsLock = NoRequest

\* A row: who, for what, its outcome, what the first completion said, and whether the
\* gateway saw the operation through.
Row(user, kind, program, url) ==
  [user |-> user, kind |-> kind, program |-> program, url |-> url,
   outcome |-> "pending", first |-> "pending", done |-> FALSE]

FirstStep(kind) ==
  CASE kind \in {"start", "stop"} -> "inspect"
    [] kind = "refresh" -> "refresh"
    [] kind = "configure" -> "lock"

\* begin, at the head of change_service_state, refresh_views and update_gemma_settings.
BeginOperation(r, user, kind, program, url) ==
  /\ reqs[r].pc = "answered" /\ Len(journal) < MaxOps
  /\ journal' = Append(journal, Row(user, kind, program, url))
  /\ reqs' = [reqs EXCEPT ![r] = [pc |-> FirstStep(kind), op |-> Len(journal) + 1,
                                  kind |-> kind, outcome |-> "none"]]
  /\ UNCHANGED <<programs, configFile, active, settingsLock>>

\* begin_operation: the browser records what it does elsewhere.
BeginElsewhere(user) ==
  /\ Len(journal) < MaxOps
  /\ journal' = Append(journal, Row(user, "elsewhere", CHOOSE p \in Program : TRUE, CHOOSE u \in Url : TRUE))
  /\ UNCHANGED <<programs, reqs, configFile, active, settingsLock>>

Conclude(r, outcome) == [reqs EXCEPT ![r].pc = "complete", ![r].outcome = outcome]
RowOf(r) == journal[reqs[r].op]
SeenThrough(r) == [journal EXCEPT ![reqs[r].op].done = TRUE]

\* change_state, first listing: a program that runs is not started, and one that is not
\* in the state running is not stopped.
CallNeeded(kind, state) == (kind = "start" /\ state # "running") \/ (kind = "stop" /\ state = "running")
Inspect(r) ==
  /\ reqs[r].pc = "inspect"
  /\ reqs' \in {Conclude(r, "failed"),
                [reqs EXCEPT ![r].pc = IF CallNeeded(reqs[r].kind, programs[RowOf(r).program])
                                       THEN "call" ELSE "listing"]}
  /\ UNCHANGED <<programs, journal, configFile, active, settingsLock>>

\* startProcess and stopProcess, waiting for the effect. Supervisor refuses what the
\* program's state does not allow; an error may come after the effect.
Supervise(r) ==
  LET p == RowOf(r).program IN
  /\ reqs[r].pc = "call"
  /\ \/ /\ programs[p] = IF reqs[r].kind = "start" THEN "stopped" ELSE "running"
        /\ programs' = [programs EXCEPT ![p] = IF reqs[r].kind = "start" THEN "running" ELSE "stopped"]
        /\ reqs' \in {Conclude(r, "failed"), [reqs EXCEPT ![r].pc = "listing"]}
     \/ reqs' = Conclude(r, "failed") /\ UNCHANGED programs
  /\ UNCHANGED <<journal, configFile, active, settingsLock>>

\* change_state, second listing, and refresh_materialized_views.
Finish(r) ==
  /\ reqs[r].pc \in {"listing", "refresh"}
  /\ \/ reqs' = Conclude(r, "succeeded") /\ journal' = SeenThrough(r)
     \/ reqs' = Conclude(r, "failed") /\ UNCHANGED journal
  /\ UNCHANGED <<programs, configFile, active, settingsLock>>

\* update_api_url: the lock is taken.
LockSettings(r) ==
  /\ reqs[r].pc = "lock" /\ settingsLock = NoRequest
  /\ settingsLock' = r
  /\ reqs' = [reqs EXCEPT ![r].pc = "write"]
  /\ UNCHANGED <<programs, journal, configFile, active>>

\* The endpoint in use while the file is being replaced.
ActiveDuringWrite(r) == active

\* The file is replaced atomically, or cannot be read or written.
WriteSettings(r) ==
  /\ reqs[r].pc = "write" /\ active' = ActiveDuringWrite(r)
  /\ \/ /\ configFile' = RowOf(r).url
        /\ reqs' = [reqs EXCEPT ![r].pc = "activate"] /\ UNCHANGED settingsLock
     \/ /\ reqs' = Conclude(r, "failed") /\ settingsLock' = NoRequest
        /\ UNCHANGED configFile
  /\ UNCHANGED <<programs, journal>>

ActivateSettings(r) ==
  /\ reqs[r].pc = "activate"
  /\ active' = RowOf(r).url /\ settingsLock' = NoRequest
  /\ reqs' = Conclude(r, "succeeded") /\ journal' = SeenThrough(r)
  /\ UNCHANGED <<programs, configFile>>

\* Faulty: the update does not ask for a pending row.
CompletableAlways(i, user) == journal[i].user = user
\* complete: the rows its update matches.
Completable(i, user) == journal[i].user = user /\ journal[i].outcome = "pending"

Completed(i, user, outcome) ==
  IF Completable(i, user)
  THEN [journal EXCEPT ![i].outcome = outcome,
                       ![i].first = IF @ = "pending" THEN outcome ELSE @]
  ELSE journal

\* complete, at the end of a handler; an error of the store leaves the row pending.
CompleteOperation(r) ==
  /\ reqs[r].pc = "complete"
  /\ journal' \in {journal, Completed(reqs[r].op, RowOf(r).user, reqs[r].outcome)}
  /\ reqs' = [reqs EXCEPT ![r] = Answered]
  /\ UNCHANGED <<programs, configFile, active, settingsLock>>

\* complete_operation: the browser completes a row of its user, also one that a handler
\* is still working on.
CompleteElsewhere(user, i, outcome) ==
  /\ Completable(i, user) /\ journal' = Completed(i, user, outcome)
  /\ UNCHANGED <<programs, reqs, configFile, active, settingsLock>>

\* The service restarts and reads its configuration.
Restart ==
  /\ reqs' = [r \in Request |-> Answered]
  /\ active' = configFile /\ settingsLock' = NoRequest
  /\ UNCHANGED <<programs, journal, configFile>>

\* Supervisor, by itself: a program dies or is being started again.
ProgramMoves(p) ==
  /\ programs' \in {[programs EXCEPT ![p] = state] : state \in {"stopped", "starting", "running"}}
  /\ UNCHANGED <<journal, reqs, configFile, active, settingsLock>>

Handle(r) ==
  \/ Inspect(r) \/ Supervise(r) \/ Finish(r) \/ LockSettings(r) \/ WriteSettings(r)
  \/ ActivateSettings(r) \/ CompleteOperation(r)
  \/ \E user \in User, p \in Program, url \in Url :
       \/ \E kind \in OpKind \ {"configure"} : BeginOperation(r, user, kind, p, configFile)
       \/ BeginOperation(r, user, "configure", p, url)

ControlNext ==
  \/ \E r \in Request : Handle(r)
  \/ \E user \in User : BeginElsewhere(user)
       \/ \E i \in DOMAIN journal : \E outcome \in {"succeeded", "failed"} :
            CompleteElsewhere(user, i, outcome)
  \/ Restart \/ \E p \in Program : ProgramMoves(p)

ControlSpec == ControlInit /\ [][ControlNext]_controlVars

-----------------------------------------------------------------------------
\* begin, complete and update_api_url, with handlers, browsers and restarts racing: the
\* outcome a row got first stays; a handler that is about to report success has seen
\* its operation through; and whenever nobody holds the lock, the endpoint in use is
\* the one a restart would read.
JournalMatchesEffects ==
  /\ \A i \in DOMAIN journal : journal[i].outcome = journal[i].first
  /\ \A r \in Request :
       reqs[r].pc = "complete" /\ reqs[r].outcome = "succeeded" => RowOf(r).done
  /\ settingsLock = NoRequest => active = configFile
=============================================================================
