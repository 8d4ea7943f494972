----------------------------- MODULE IssueAgents -----------------------------
(***************************************************************************)
(* scripts/page_check_agents: the issue agent turns problematic page checks   *)
(* into GitHub issues, and the fix agent assigns queued issues to Copilot.    *)
(* Each agent runs at most once at a time (the concurrency groups of the two  *)
(* workflows), but the two overlap, and any request to GitHub may be applied  *)
(* although the agent sees an error and ends.                                 *)
(***************************************************************************)
EXTENDS Naturals, Sequences, FiniteSets

CONSTANTS
  Job,            \* page-check jobs
  IssueOutcomes,  \* outcomes that are worth an issue
  Finding,        \* the sets of outcomes that the pages of a job have
  MaxIssues,      \* issues one triage may create
  MaxAssignments, \* assignments one dispatch may make
  MaxApiErrors,   \* bound of the requests that fail
  MaxForeign,     \* bound of what people do to issues and settings
  NoJob

Priority == <<"error", "unverifiable", "fixed", "good">>

ASSUME AgentsAssumption ==
  NoJob \notin Job /\ IssueOutcomes \subseteq {"fixed", "unverifiable", "error"}

VARIABLES
  checks,      \* the jobs as the translator service lists them
  autonomous,  \* the server's autonomous_agent_enabled
  issues,      \* the repository's issues with the page-check label, by number
  triage,      \* the run of the issue agent
  dispatch,    \* the run of the fix agent
  apiErrors, foreign

agentVars == <<checks, autonomous, issues, triage, dispatch, apiErrors, foreign>>

IdleTriage == [pc |-> "idle", queueFixes |-> FALSE, known |-> {}, todo |-> {},
               job |-> NoJob, made |-> 0]
IdleDispatch == [pc |-> "idle", required |-> FALSE, todo |-> {}, number |-> 0, label |-> "none",
                 made |-> 0]

AgentsInit ==
  /\ checks = [j \in Job |-> [status |-> "running", found |-> {}]]
  /\ autonomous \in BOOLEAN /\ issues = <<>>
  /\ triage = IdleTriage /\ dispatch = IdleDispatch
  /\ apiErrors = 0 /\ foreign = 0

NewIssue(j, labels) ==
  [job |-> j, labels |-> labels, open |-> TRUE, copilot |-> FALSE, assignments |-> 0]

\* classify_job: the worst outcome of a job that is done; one without a result is an
\* error.
Classify(c) ==
  IF c.status # "done" THEN c.status
  ELSE LET hits == {i \in DOMAIN Priority : Priority[i] \in c.found} IN
       IF hits = {} THEN "error" ELSE Priority[CHOOSE i \in hits : \A k \in hits : i <= k]

\* The service finishes a check, or removes an old one.
CheckMoves(j) ==
  /\ \/ /\ checks[j].status = "running"
        /\ checks' \in {[checks EXCEPT ![j] = [status |-> "done", found |-> found]] :
                         found \in Finding}
                       \cup {[checks EXCEPT ![j].status = "error"]}
     \/ /\ checks[j].status \in {"done", "error"}
        /\ checks' = [checks EXCEPT ![j] = [status |-> "removed", found |-> {}]]
  /\ UNCHANGED <<autonomous, issues, triage, dispatch, apiErrors, foreign>>

-----------------------------------------------------------------------------
\* _run_triage
TriageStart ==
  /\ triage.pc = "idle"
  /\ triage' = [triage EXCEPT !.pc = "known", !.queueFixes = autonomous]
  /\ UNCHANGED <<checks, autonomous, issues, dispatch, apiErrors, foreign>>

\* Faulty: only open issues are asked for.
KnownJobsOpen == {issues[i].job : i \in {k \in DOMAIN issues : issues[k].open}}
\* existing_page_check_job_ids: the jobs that an issue, open or closed, is about.
KnownJobs == {issues[i].job : i \in DOMAIN issues}

ReadKnown ==
  /\ triage.pc = "known"
  /\ triage' = [triage EXCEPT !.pc = "list", !.known = KnownJobs]
  /\ UNCHANGED <<checks, autonomous, issues, dispatch, apiErrors, foreign>>

ListJobs ==
  /\ triage.pc = "list"
  /\ triage' = [triage EXCEPT !.pc = "next",
                  !.todo = {j \in Job \ triage.known : Classify(checks[j]) \in IssueOutcomes}]
  /\ UNCHANGED <<checks, autonomous, issues, dispatch, apiErrors, foreign>>

\* The loop of triage_page_checks up to ensure_labels: the full job is read, and may
\* need no issue any more, or be gone, which ends the run.
NextJob(j) ==
  /\ triage.pc = "next" /\ j \in triage.todo /\ triage.made < MaxIssues
  /\ triage' =
       IF checks[j].status = "removed" THEN IdleTriage
       ELSE IF Classify(checks[j]) \notin IssueOutcomes
       THEN [triage EXCEPT !.todo = @ \ {j}]
       ELSE [triage EXCEPT !.todo = @ \ {j}, !.job = j, !.pc = "setting"]
  /\ UNCHANGED <<checks, autonomous, issues, dispatch, apiErrors, foreign>>

\* The setting is read again for every issue that may be queued.
ReadSetting ==
  /\ triage.pc = "setting"
  /\ triage' = [triage EXCEPT !.pc = IF triage.queueFixes /\ autonomous THEN "queue" ELSE "plain"]
  /\ UNCHANGED <<checks, autonomous, issues, dispatch, apiErrors, foreign>>

DraftLabels == IF triage.pc = "queue" THEN {"queued"} ELSE {}

\* create_issue. The request may be applied although it fails.
CreateIssue ==
  /\ triage.pc \in {"queue", "plain"}
  /\ issues' = Append(issues, NewIssue(triage.job, DraftLabels))
  /\ \/ /\ triage' = [triage EXCEPT !.pc = "next", !.job = NoJob, !.made = @ + 1,
                                    !.known = @ \cup {triage.job}]
        /\ UNCHANGED apiErrors
     \/ apiErrors < MaxApiErrors /\ apiErrors' = apiErrors + 1 /\ triage' = IdleTriage
  /\ UNCHANGED <<checks, autonomous, dispatch, foreign>>

TriageEnd ==
  /\ triage.pc = "next" /\ (triage.todo = {} \/ triage.made >= MaxIssues)
  /\ triage' = IdleTriage
  /\ UNCHANGED <<checks, autonomous, issues, dispatch, apiErrors, foreign>>

\* A request fails without effect: main prints the error and ends.
TriageFails ==
  /\ triage.pc # "idle" /\ apiErrors < MaxApiErrors
  /\ apiErrors' = apiErrors + 1 /\ triage' = IdleTriage
  /\ UNCHANGED <<checks, autonomous, issues, dispatch, foreign>>

-----------------------------------------------------------------------------
Queued(i) == issues[i].open /\ "queued" \in issues[i].labels

\* The issues a listing shows, as they are at that moment.
QueuedIssues ==
  {[number |-> i, job |-> issues[i].job, copilot |-> issues[i].copilot] :
     i \in {k \in DOMAIN issues : Queued(k)}}

\* _run_dispatch. Only the run that follows the issue agent requires the setting; a run
\* that a label or a person starts never asks for it.
DispatchStart(required) ==
  /\ dispatch.pc = "idle" /\ (required => autonomous)
  /\ dispatch' = [dispatch EXCEPT !.pc = "list", !.required = required]
  /\ UNCHANGED <<checks, autonomous, issues, triage, apiErrors, foreign>>

DispatchList ==
  /\ dispatch.pc = "list"
  /\ dispatch' = [dispatch EXCEPT !.pc = "next", !.todo = QueuedIssues]
  /\ UNCHANGED <<checks, autonomous, issues, triage, apiErrors, foreign>>

\* Faulty: a malformed issue is counted and stays queued.
NextStepSkipping(issue) ==
  CASE issue.job = NoJob -> [pc |-> "next", label |-> "none"]
    [] issue.job # NoJob /\ issue.copilot -> [pc |-> "label", label |-> "assigned"]
    [] OTHER -> [pc |-> IF dispatch.made < MaxAssignments THEN "setting" ELSE "next", label |-> "none"]
\* What the loop does with an issue as it was listed; beyond the limit it is deferred.
NextStep(issue) ==
  CASE issue.job = NoJob -> [pc |-> "label", label |-> "invalid"]
    [] issue.job # NoJob /\ issue.copilot -> [pc |-> "label", label |-> "assigned"]
    [] OTHER -> [pc |-> IF dispatch.made < MaxAssignments THEN "setting" ELSE "next", label |-> "none"]

\* The loop, in the ascending order of the listing.
DispatchNext ==
  /\ dispatch.pc = "next"
  /\ \E issue \in dispatch.todo :
       /\ \A other \in dispatch.todo : issue.number <= other.number
       /\ dispatch' = [dispatch EXCEPT !.pc = NextStep(issue).pc, !.label = NextStep(issue).label,
                                       !.number = issue.number, !.todo = @ \ {issue}]
  /\ UNCHANGED <<checks, autonomous, issues, triage, apiErrors, foreign>>

\* A required setting is read again for every assignment and ends the run when it is off.
DispatchSetting ==
  /\ dispatch.pc = "setting"
  /\ dispatch' = IF dispatch.required => autonomous THEN [dispatch EXCEPT !.pc = "assign"]
                 ELSE IdleDispatch
  /\ UNCHANGED <<checks, autonomous, issues, triage, apiErrors, foreign>>

Number == dispatch.number

\* assign_copilot. The request may be applied although it fails.
AssignCopilot ==
  /\ dispatch.pc = "assign"
  /\ issues' = [issues EXCEPT ![Number].copilot = TRUE, ![Number].assignments = @ + 1]
  /\ \/ /\ dispatch' = [dispatch EXCEPT !.pc = "label", !.label = "assigned", !.made = @ + 1]
        /\ UNCHANGED apiErrors
     \/ apiErrors < MaxApiErrors /\ apiErrors' = apiErrors + 1 /\ dispatch' = IdleDispatch
  /\ UNCHANGED <<checks, autonomous, triage, foreign>>

\* _mark_assigned, or the rejection of a malformed issue: one label is added, and then
\* the queue label is removed.
AddLabel ==
  /\ dispatch.pc = "label"
  /\ issues' = [issues EXCEPT ![Number].labels = @ \cup {dispatch.label}]
  /\ dispatch' = [dispatch EXCEPT !.pc = "unqueue"]
  /\ UNCHANGED <<checks, autonomous, triage, apiErrors, foreign>>

RemoveLabel ==
  /\ dispatch.pc = "unqueue"
  /\ issues' = [issues EXCEPT ![Number].labels = @ \ {"queued"}]
  /\ dispatch' = [dispatch EXCEPT !.pc = "next", !.label = "none"]
  /\ UNCHANGED <<checks, autonomous, triage, apiErrors, foreign>>

DispatchEnd ==
  /\ dispatch.pc = "next" /\ dispatch.todo = {}
  /\ dispatch' = IdleDispatch
  /\ UNCHANGED <<checks, autonomous, issues, triage, apiErrors, foreign>>

DispatchFails ==
  /\ dispatch.pc # "idle" /\ apiErrors < MaxApiErrors
  /\ apiErrors' = apiErrors + 1 /\ dispatch' = IdleDispatch
  /\ UNCHANGED <<checks, autonomous, issues, triage, foreign>>

-----------------------------------------------------------------------------
\* People switch automation on or off.
Toggle ==
  /\ foreign < MaxForeign /\ foreign' = foreign + 1
  /\ autonomous' = ~autonomous
  /\ UNCHANGED <<checks, issues, triage, dispatch, apiErrors>>

\* They open an issue without a job, queue one again, or close one.
Person ==
  /\ foreign < MaxForeign /\ foreign' = foreign + 1
  /\ \/ issues' = Append(issues, NewIssue(NoJob, {"queued"}))
     \/ \E i \in DOMAIN issues :
          issues' = [issues EXCEPT ![i].labels = @ \cup {"queued"}]
     \/ \E i \in DOMAIN issues : issues' = [issues EXCEPT ![i].open = FALSE]
  /\ UNCHANGED <<checks, autonomous, triage, dispatch, apiErrors>>

TriageRuns ==
  \/ TriageStart \/ ReadKnown \/ ListJobs \/ ReadSetting \/ CreateIssue \/ TriageEnd
  \/ \E j \in Job : NextJob(j)
\* The scheduled fix agent, and what a run does once it is started.
DispatchRuns ==
  \/ DispatchStart(TRUE) \/ DispatchList \/ DispatchNext \/ DispatchSetting \/ AssignCopilot
  \/ AddLabel \/ RemoveLabel \/ DispatchEnd

AgentsNext ==
  \/ TriageRuns \/ TriageFails \/ DispatchRuns \/ DispatchStart(FALSE) \/ DispatchFails
  \/ Toggle \/ Person \/ \E j \in Job : CheckMoves(j)

AgentsSpec == AgentsInit /\ [][AgentsNext]_agentVars

-----------------------------------------------------------------------------
\* triage_page_checks and dispatch_page_check_fixes, rerun after any failure and
\* overlapping each other: a job has at most one issue, an issue is handed to Copilot
\* at most once, only an issue about a job is, and the assigned label means that it was.
AgentsActOnce ==
  /\ \A i, k \in DOMAIN issues :
       issues[i].job = issues[k].job /\ issues[i].job # NoJob => i = k
  /\ \A i \in DOMAIN issues :
       /\ issues[i].assignments <= 1
       /\ issues[i].copilot => issues[i].job # NoJob
       /\ "assigned" \in issues[i].labels => issues[i].copilot

\* dispatch_page_check_fixes: no issue stays in the queue, whatever stands before it,
\* unless it is closed or automation is switched off.
QueuedIssuesAreDispatched ==
  \A i \in 1..(Cardinality(Job) + MaxForeign) :
    []<>((i \in DOMAIN issues /\ Queued(i)) => ~autonomous)
==============================================================================
