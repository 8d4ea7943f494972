---------------------------- MODULE ReviewInbox ----------------------------
(***************************************************************************)
(* The manual review of failed page checks: review events move from         *)
(* RabbitMQ into a SQLite inbox (RabbitMqPageCheckReviewQueue.transfer_next,*)
(* SqliteWiktionaryReviewStore), an agent prepares proposals through the    *)
(* MCP server, and operators approve one in a terminal, which queues the    *)
(* edit (WiktionaryReviewService, wiktionary_review_cli).                   *)
(*                                                                          *)
(* Every store method is one SQLite transaction and so one step. The live    *)
(* pages belong to the environment: each time one is read it is, or is not,  *)
(* what was reviewed. A proposal's contract stands for the two snapshots and *)
(* the replacement it was prepared from.                                     *)
(***************************************************************************)
EXTENDS Naturals, FiniteSets

CONSTANTS
  Event,       \* event ids
  Payload,     \* what an event may say
  Invalid,     \* a message that fails validation
  Delivery,    \* messages in the review queue
  Proposal,    \* proposal ids
  Clerk,       \* tool calls of MCP servers
  Operator,    \* approval commands
  Contract,    \* what a proposal was prepared from and proposes
  None,
  Lease,       \* ticks until a queue attempt counts as abandoned
  Validity,    \* ticks until an approval expires
  MaxFaults    \* store errors, lost connections and crashes

Message == [event : Event, payload : Payload]

TaskState == {"pending", "proposed", "queueing", "queued", "queue_unknown"}
ProposalState == {"prepared", "superseded", "queueing", "queued", "queue_unknown"}
TaskRow == [payload : Payload, state : TaskState, proposal : Proposal \cup {None}]
ProposalRow ==
  [event : Event, contract : Contract, state : ProposalState,
   token : Operator \cup {None}, legacy : BOOLEAN]
Attempt == {"expiry", "verify", "push", "mark", "unknown", "release"}

ASSUME TimesAssumption == Lease \in Nat \ {0} /\ Validity \in Nat \ {0}
ASSUME BoundsAssumption == MaxFaults \in Nat
ASSUME NoneAssumption ==
  /\ None \notin Event \cup Proposal \cup Operator \cup Contract \cup Delivery
  /\ None \notin TaskRow \cup ProposalRow /\ None \notin ProposalState
  /\ Invalid \notin Message

VARIABLES
  schema,   \* version of the database
  task,     \* review_tasks
  prop,     \* fix_proposals
  age,      \* ticks since a proposal was prepared
  held,     \* ticks since a proposal was claimed
  body,     \* what a delivery contains
  queue,    \* where a delivery is
  cpc,      \* what a tool call does next
  call,     \* its local variables
  opc,      \* what an approval command does next
  chosen,   \* the proposal it approves
  pushes,   \* history: edits RabbitMQ accepted, per proposal
  faults

store == <<schema, task, prop>>
clock == <<age, held>>
broker == <<body, queue>>
clerks == <<cpc, call>>
operators == <<opc, chosen>>
vars == <<store, clock, broker, clerks, operators, pushes, faults>>

NoCall == [delivery |-> None, event |-> None, current |-> None, contract |-> None]

-----------------------------------------------------------------------------
\* The store

\* What a database of version 1 may hold about one event: the states of the task
\* and of its proposal. An attempt under way may have pushed its edit already.
LegacyStates ==
  {<<"pending", None>>, <<"proposed", "prepared">>, <<"queueing", "queueing">>,
   <<"queued", "queued">>, <<"queue_unknown", "queue_unknown">>}

LegacyRow(e, f, s) ==
  [event |-> e, contract |-> f, state |-> s, token |-> None, legacy |-> TRUE]

Fresh ==
  /\ schema = 2
  /\ task = [e \in Event |-> None] /\ prop = [p \in Proposal |-> None]
  /\ pushes = [p \in Proposal |-> 0]

Legacy ==
  /\ schema = 1
  /\ \E e \in Event, p \in Proposal, s \in LegacyStates, w \in Payload, f \in Contract :
       /\ task = [x \in Event |->
            IF x = e
            THEN [payload |-> w, state |-> s[1], proposal |-> IF s[2] = None THEN None ELSE p]
            ELSE None]
       /\ prop = [x \in Proposal |->
            IF x = p /\ s[2] # None THEN LegacyRow(e, f, s[2]) ELSE None]
       /\ \E n \in 0..1 :
            /\ s[1] \in {"pending", "proposed"} => n = 0
            /\ s[1] = "queued" => n = 1
            /\ pushes = [x \in Proposal |-> IF x = p THEN n ELSE 0]

Init ==
  /\ Fresh \/ Legacy
  /\ age = [p \in Proposal |-> 0] /\ held = [p \in Proposal |-> 0]
  /\ body \in [Delivery -> Message \cup {Invalid}]
  /\ queue = [d \in Delivery |-> "ready"]
  /\ cpc = [c \in Clerk |-> "idle"] /\ call = [c \in Clerk |-> NoCall]
  /\ opc = [o \in Operator |-> "idle"] /\ chosen = [o \in Operator |-> None]
  /\ faults = 0

\* Faulty: an attempt under way becomes a proposal that can be approved again.
MigratedReopened(s) == IF s \in {"prepared", "queueing"} THEN "superseded" ELSE s

\* The migration's states of proposals and of tasks.
Migrated(s) ==
  CASE s \in {"prepared", "superseded"} -> "superseded"
    [] s = "queueing" -> "queue_unknown"
    [] OTHER -> s
MigratedTask(t) ==
  CASE t.state = "proposed" -> [t EXCEPT !.state = "pending", !.proposal = None]
    [] t.state = "queueing" -> [t EXCEPT !.state = "queue_unknown"]
    [] OTHER -> t

\* SqliteWiktionaryReviewStore.__init__ on a database of version 1. Every process
\* opens the database before it uses it.
Open ==
  /\ schema = 1
  /\ schema' = 2
  /\ task' = [e \in Event |-> IF task[e] = None THEN None ELSE MigratedTask(task[e])]
  /\ prop' = [p \in Proposal |->
       IF prop[p] = None THEN None
       ELSE [prop[p] EXCEPT !.state = Migrated(@), !.token = None]]
  /\ UNCHANGED <<clock, broker, clerks, operators, pushes, faults>>

\* An error that changes nothing: the database is locked, a connection is lost.
Fault == faults < MaxFaults /\ faults' = faults + 1

-----------------------------------------------------------------------------
\* Taking an event from RabbitMQ

\* transfer_next, basic_get without automatic acknowledgement.
Take(c, d) ==
  /\ cpc[c] = "idle" /\ queue[d] = "ready"
  /\ queue' = [queue EXCEPT ![d] = "unacked"]
  /\ cpc' = [cpc EXCEPT ![c] = "accept"]
  /\ call' = [call EXCEPT ![c] = [NoCall EXCEPT !.delivery = d]]
  /\ UNCHANGED <<store, clock, body, operators, pushes, faults>>

CallEnds(c) == /\ cpc' = [cpc EXCEPT ![c] = "idle"]
               /\ call' = [call EXCEPT ![c] = NoCall]

\* Faulty: a message nobody can store is put back.
RejectedRequeued == "ready"
\* basic_nack without requeue.
Rejected == "gone"

\* Faulty: every error rejects the delivery for good.
RequeueNever == "gone"
\* The cleanup's basic_nack when the store failed.
RequeueAfterError == "ready"

\* The event id is stored with another payload.
Conflicting(m) ==
  m # Invalid /\ task[m.event] # None /\ task[m.event].payload # m.payload

\* Validation and accept_task: an invalid message, or one that says something
\* else under a known event id, is rejected for good; a store error puts it back.
Accept(c) ==
  LET d == call[c].delivery
      m == body[d] IN
  /\ cpc[c] = "accept"
  /\ \/ /\ m = Invalid \/ Conflicting(m)
        /\ queue' = [queue EXCEPT ![d] = Rejected]
        /\ CallEnds(c)
        /\ UNCHANGED <<task, faults>>
     \/ /\ m # Invalid
        /\ ~Conflicting(m)
        /\ task' = IF task[m.event] # None THEN task ELSE
             [task EXCEPT ![m.event] =
                [payload |-> m.payload, state |-> "pending", proposal |-> None]]
        /\ cpc' = [cpc EXCEPT ![c] = "ack"]
        /\ UNCHANGED <<queue, call, faults>>
     \/ /\ m # Invalid
        /\ Fault
        /\ queue' = [queue EXCEPT ![d] = RequeueAfterError]
        /\ CallEnds(c)
        /\ UNCHANGED task
  /\ UNCHANGED <<schema, prop, clock, body, operators, pushes>>

\* basic_ack; when the connection is lost the broker delivers the message again.
Ack(c) ==
  LET d == call[c].delivery IN
  /\ cpc[c] = "ack"
  /\ \/ queue' = [queue EXCEPT ![d] = "gone"] /\ UNCHANGED faults
     \/ Fault /\ queue' = [queue EXCEPT ![d] = "ready"]
  /\ CallEnds(c)
  /\ UNCHANGED <<store, clock, body, operators, pushes>>

-----------------------------------------------------------------------------
\* Preparing a proposal

\* prepare_fix up to the proposal: a task that was queued is refused, and so is a
\* replacement that changes nothing or for pages other than the agent reasoned about.
Prepare(c, e, f) ==
  /\ cpc[c] = "idle" /\ task[e] # None /\ task[e].state # "queued"
  /\ cpc' = [cpc EXCEPT ![c] = "lookup"]
  /\ call' = [call EXCEPT ![c] =
       [NoCall EXCEPT !.event = e, !.current = task[e].proposal, !.contract = f]]
  /\ UNCHANGED <<store, clock, broker, operators, pushes, faults>>

\* The proposal says the same as the one being prepared.
SameFix(c, p) ==
  /\ prop[p] # None /\ ~prop[p].legacy
  /\ prop[p].event = call[c].event /\ prop[p].contract = call[c].contract

\* The task's proposal is returned again while it is prepared and valid.
Lookup(c) ==
  LET p == call[c].current IN
  /\ cpc[c] = "lookup"
  /\ IF p # None /\ SameFix(c, p) /\ prop[p].state = "prepared" /\ age[p] < Validity
     THEN CallEnds(c)
     ELSE cpc' = [cpc EXCEPT ![c] = "save"] /\ UNCHANGED call
  /\ UNCHANGED <<store, clock, broker, operators, pushes, faults>>

\* The states from which save_proposal updates the task; otherwise it rolls back.
SaveAllowed(t) == t.state \in {"pending", "proposed"}

\* save_proposal. The id is a digest over the contract and the time of preparation:
\* it is new, or the one of an equal proposal of the same moment.
Save(c) ==
  LET e == call[c].event IN
  /\ cpc[c] = "save"
  /\ \/ /\ SaveAllowed(task[e])
        /\ \E p \in Proposal :
             /\ \/ prop[p] = None
                \/ SameFix(c, p) /\ age[p] = 0 /\ prop[p].state = "prepared"
             /\ prop' = [x \in Proposal |->
                  CASE x = p ->
                         [event |-> e, contract |-> call[c].contract, state |-> "prepared",
                          token |-> None, legacy |-> FALSE]
                    [] x # p /\ prop[x] # None /\ prop[x].event = e /\ prop[x].state = "prepared" ->
                         [prop[x] EXCEPT !.state = "superseded"]
                    [] OTHER -> prop[x]]
             /\ task' = [task EXCEPT ![e].state = "proposed", ![e].proposal = p]
             /\ age' = [age EXCEPT ![p] = 0]
             /\ held' = [held EXCEPT ![p] = 0]
     \/ UNCHANGED <<task, prop, clock>>
  /\ CallEnds(c)
  /\ UNCHANGED <<schema, broker, operators, pushes, faults>>

-----------------------------------------------------------------------------
\* Approving a proposal

\* confirm_and_queue shows a prepared, valid proposal and waits for the phrase.
Show(o, p) ==
  /\ opc[o] = "idle" /\ prop[p] # None
  /\ ~prop[p].legacy /\ prop[p].state = "prepared" /\ age[p] < Validity
  /\ opc' = [opc EXCEPT ![o] = "confirm"]
  /\ chosen' = [chosen EXCEPT ![o] = p]
  /\ UNCHANGED <<store, clock, broker, clerks, pushes, faults>>

CommandEnds(o) == /\ opc' = [opc EXCEPT ![o] = "idle"]
                  /\ chosen' = [chosen EXCEPT ![o] = None]

\* Both rows change their state together.
Move(p, s, t, tok) ==
  /\ prop' = [prop EXCEPT ![p].state = s, ![p].token = tok]
  /\ task' = [task EXCEPT ![prop[p].event].state = t]

\* The proposal is the one its task names, in the state that belongs to it.
Current(p) ==
  LET t == task[prop[p].event] IN
  /\ t.proposal = p
  /\ t.state = IF prop[p].state = "queueing" THEN "queueing" ELSE "proposed"

\* Only a prepared proposal is claimed.
Claimable(p) == prop[p].state = "prepared"

\* queue_reviewed_fix up to the claim, claim_for_queue: an attempt that outlived its
\* lease is recorded as unknown, everything else is refused. Or the operator cancels.
Claim(o) ==
  LET p == chosen[o] IN
  /\ opc[o] = "confirm"
  /\ \/ /\ Current(p) /\ Claimable(p)
        /\ Move(p, "queueing", "queueing", o)
        /\ held' = [held EXCEPT ![p] = 0]
        /\ opc' = [opc EXCEPT ![o] = "expiry"] /\ UNCHANGED chosen
     \/ /\ Current(p) /\ prop[p].state = "queueing" /\ held[p] >= Lease
        /\ Move(p, "queue_unknown", "queue_unknown", None)
        /\ CommandEnds(o) /\ UNCHANGED held
     \/ /\ CommandEnds(o)
        /\ UNCHANGED <<task, prop, held>>
  /\ UNCHANGED <<schema, age, broker, clerks, pushes, faults>>

\* The claimed proposal must not have expired.
CheckExpiry(o) ==
  /\ opc[o] = "expiry"
  /\ opc' = [opc EXCEPT ![o] = IF age[chosen[o]] < Validity THEN "verify" ELSE "release"]
  /\ UNCHANGED <<store, clock, broker, clerks, chosen, pushes, faults>>

\* Faulty: the command gives up and keeps its claim.
AfterMismatchKept == "idle"
\* What follows a failed verification.
AfterMismatch == "release"

\* Both live pages must be the ones that were reviewed and the contract must still
\* validate; otherwise, and when a request fails, the claim is released.
Verify(o) ==
  /\ opc[o] = "verify"
  /\ opc' \in {[opc EXCEPT ![o] = "push"], [opc EXCEPT ![o] = AfterMismatch]}
  /\ UNCHANGED <<store, clock, broker, clerks, chosen, pushes, faults>>

\* Faulty: an uncertain outcome is treated like a rejection.
AfterErrorReleased == "release"
\* What follows an error of the publisher that may hide an accepted message.
AfterError == "unknown"

\* publish_wikipage: accepted, rejected before RabbitMQ saw it, or uncertain.
Push(o) ==
  LET p == chosen[o] IN
  /\ opc[o] = "push"
  /\ \/ /\ pushes' = [pushes EXCEPT ![p] = @ + 1]
        /\ opc' \in {[opc EXCEPT ![o] = "mark"], [opc EXCEPT ![o] = AfterError]}
     \/ /\ opc' \in {[opc EXCEPT ![o] = "release"], [opc EXCEPT ![o] = AfterError]}
        /\ UNCHANGED pushes
  /\ UNCHANGED <<store, clock, broker, clerks, chosen, faults>>

\* The claim is still this command's.
Holds(o) == LET p == chosen[o] IN prop[p].state = "queueing" /\ prop[p].token = o

\* release_queue_claim, mark_queued, mark_queue_unknown: nothing happens without
\* the claim; a command whose mark_queued fails goes on to mark_queue_unknown.
Release(o) ==
  /\ opc[o] = "release"
  /\ \/ Holds(o) /\ Move(chosen[o], "prepared", "proposed", None) /\ UNCHANGED faults
     \/ ~Holds(o) /\ UNCHANGED <<task, prop, faults>>
     \/ Fault /\ UNCHANGED <<task, prop>>
  /\ CommandEnds(o)
  /\ UNCHANGED <<schema, clock, broker, clerks, pushes>>

MarkQueued(o) ==
  /\ opc[o] = "mark"
  /\ \/ /\ Holds(o) /\ Move(chosen[o], "queued", "queued", None)
        /\ CommandEnds(o) /\ UNCHANGED faults
     \/ /\ \/ ~Holds(o) /\ UNCHANGED faults
           \/ Fault
        /\ opc' = [opc EXCEPT ![o] = "unknown"]
        /\ UNCHANGED <<task, prop, chosen>>
  /\ UNCHANGED <<schema, clock, broker, clerks, pushes>>

MarkUnknown(o) ==
  /\ opc[o] = "unknown"
  /\ \/ Holds(o) /\ Move(chosen[o], "queue_unknown", "queue_unknown", None) /\ UNCHANGED faults
     \/ ~Holds(o) /\ UNCHANGED <<task, prop, faults>>
     \/ Fault /\ UNCHANGED <<task, prop>>
  /\ CommandEnds(o)
  /\ UNCHANGED <<schema, clock, broker, clerks, pushes>>

-----------------------------------------------------------------------------
\* The environment

\* A process dies; RabbitMQ delivers again what it had not acknowledged.
ClerkCrash(c) ==
  /\ cpc[c] # "idle" /\ Fault
  /\ queue' = [d \in Delivery |->
       IF queue[d] = "unacked" /\ call[c].delivery = d THEN "ready" ELSE queue[d]]
  /\ CallEnds(c)
  /\ UNCHANGED <<store, clock, body, operators, pushes>>

OperatorCrash(o) ==
  /\ opc[o] # "idle" /\ Fault
  /\ CommandEnds(o)
  /\ UNCHANGED <<store, clock, broker, clerks, pushes>>

\* Time passes.
Older(a, limit) == [p \in Proposal |-> IF a[p] < limit THEN a[p] + 1 ELSE a[p]]

Tick ==
  /\ age' = Older(age, Validity) /\ held' = Older(held, Lease)
  /\ UNCHANGED <<store, broker, clerks, operators, pushes, faults>>

Transfer(c) == (\E d \in Delivery : Take(c, d)) \/ Accept(c) \/ Ack(c)
Propose(c) ==
  (\E e \in Event, f \in Contract : Prepare(c, e, f)) \/ Lookup(c) \/ Save(c)
Finish(o) ==
  \/ CheckExpiry(o) \/ Verify(o) \/ Push(o) \/ Release(o)
  \/ MarkQueued(o) \/ MarkUnknown(o)
Approve(o) == (\E p \in Proposal : Show(o, p)) \/ Claim(o) \/ Finish(o)

Next ==
  \/ Open
  \/ /\ schema = 2
     /\ \/ \E c \in Clerk : Transfer(c) \/ Propose(c) \/ ClerkCrash(c)
        \/ \E o \in Operator : Approve(o) \/ OperatorCrash(o)
        \/ Tick

Spec == Init /\ [][Next]_vars

\* The server starts, its tool calls end, an agent keeps asking for events, and an
\* approved command runs to its end. Nobody has to prepare or to approve anything.
Fairness ==
  /\ WF_vars(Open)
  /\ \A c \in Clerk :
       /\ WF_vars(Accept(c)) /\ WF_vars(Ack(c))
       /\ WF_vars(schema = 2 /\ (Lookup(c) \/ Save(c)))
       /\ \A d \in Delivery : SF_vars(schema = 2 /\ Take(c, d))
  /\ \A o \in Operator : WF_vars(Finish(o))
FairSpec == Spec /\ Fairness

-----------------------------------------------------------------------------
\* Properties

\* Every variable has its type.
TypeOK ==
  /\ schema \in 1..2
  /\ task \in [Event -> TaskRow \cup {None}]
  /\ prop \in [Proposal -> ProposalRow \cup {None}]
  /\ age \in [Proposal -> 0..Validity] /\ held \in [Proposal -> 0..Lease]
  /\ body \in [Delivery -> Message \cup {Invalid}]
  /\ queue \in [Delivery -> {"ready", "unacked", "gone"}]
  /\ cpc \in [Clerk -> {"idle", "accept", "ack", "lookup", "save"}]
  /\ call \in [Clerk -> [delivery : Delivery \cup {None}, event : Event \cup {None},
                         current : Proposal \cup {None}, contract : Contract \cup {None}]]
  /\ opc \in [Operator -> {"idle", "confirm"} \cup Attempt]
  /\ chosen \in [Operator -> Proposal \cup {None}]
  /\ pushes \in [Proposal -> Nat]
  /\ faults \in 0..MaxFaults

Of(e) == {p \in Proposal : prop[p] # None /\ prop[p].event = e}

Queueing(p) == prop[p] # None /\ prop[p].state = "queueing"

\* SqliteWiktionaryReviewStore: the two tables agree. The proposal a task names is in
\* the task's state, and every other proposal of its event was superseded.
RowsAgree ==
  \A e \in Event : schema = 2 /\ task[e] # None =>
    /\ task[e].proposal = None <=> task[e].state = "pending"
    /\ task[e].proposal # None =>
         /\ task[e].proposal \in Of(e)
         /\ prop[task[e].proposal].state =
              IF task[e].state = "proposed" THEN "prepared" ELSE task[e].state
    /\ \A p \in Of(e) \ {task[e].proposal} : prop[p].state = "superseded"

\* queue_reviewed_fix: whatever operators, leases, crashes and broker errors do, one
\* review event sends at most one edit to the queue.
OneEditPerEvent ==
  \A e \in Event : \A p \in Of(e) :
    /\ pushes[p] <= 1
    /\ pushes[p] = 1 => \A q \in Of(e) \ {p} : pushes[q] = 0

\* transfer_next: an event leaves RabbitMQ only when the inbox has it, even when the
\* server dies, the store fails, or the event is delivered twice.
NoEventIsLost ==
  \A d \in Delivery :
    queue[d] = "gone" /\ body[d] # Invalid => task[body[d].event] # None

\* What the inbox says about an event, and the edits its proposals sent.
VerdictOf(e) ==
  IF task[e] = None \/ task[e].state \in {"pending", "proposed"} THEN "open"
  ELSE CASE task[e].state = "queueing" -> "busy"
         [] task[e].state = "queued" -> "queued"
         [] task[e].state = "queue_unknown" -> "unknown"
SentFor(e) == [p \in Proposal |-> IF p \in Of(e) THEN pushes[p] ELSE 0]

outbox == INSTANCE Outbox WITH
  Item <- Event, Way <- Proposal,
  verdict <- [e \in Event |-> VerdictOf(e)], sent <- [e \in Event |-> SentFor(e)]

\* save_proposal, claim_for_queue, release_queue_claim, mark_queued and
\* mark_queue_unknown make the inbox an outbox of edits: an event is opened for another
\* approval only if nothing was sent, is recorded as queued only if its edit was sent,
\* and once it is queued or unknown no command or tool call opens it again.
InboxIsOutbox == outbox!Spec

\* transfer_next: every event reaches the inbox or is rejected.
EveryEventIsTaken == \A d \in Delivery : <>[](queue[d] = "gone")

\* queue_reviewed_fix and the migration: unless something failed, a claimed proposal
\* is released or concluded.
EveryClaimEnds == \A p \in Proposal : Queueing(p) ~> (~Queueing(p) \/ faults > 0)
=============================================================================
