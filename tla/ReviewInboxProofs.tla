------------------------- MODULE ReviewInboxProofs -------------------------
(***************************************************************************)
(* For any number of events, proposals, servers and operators: the tables of *)
(* the review inbox agree, no event is lost, an event sends at most one edit, *)
(* and the inbox implements Outbox.                                          *)
(*                                                                          *)
(* The invariant adds to the properties what the processes know: a tool call *)
(* works on a stored event, a command on a stored proposal; a command under   *)
(* way holds its claim unless the claim was declared unknown; and an edit was *)
(* sent only for a proposal that is, or was, claimed.                        *)
(***************************************************************************)
EXTENDS ReviewInbox, TLAPS

\* What the local variables of tool calls and commands refer to.
CallsRefer ==
  /\ \A c \in Clerk :
       /\ cpc[c] \in {"accept", "ack"} => call[c].delivery \in Delivery
       /\ cpc[c] = "ack" => /\ body[call[c].delivery] # Invalid
                            /\ task[body[call[c].delivery].event] # None
       /\ cpc[c] \in {"lookup", "save"} =>
            /\ call[c].event \in Event /\ call[c].contract \in Contract
            /\ task[call[c].event] # None
  /\ \A o \in Operator :
       opc[o] # "idle" => chosen[o] \in Proposal /\ prop[chosen[o]] # None
  /\ schema = 1 => \A o \in Operator : opc[o] = "idle"

\* Every proposal belongs to a stored event; the rows of an event agree.
Agree(e) ==
  /\ task[e].proposal = None <=> task[e].state = "pending"
  /\ task[e].proposal # None =>
       /\ prop[task[e].proposal] # None /\ prop[task[e].proposal].event = e
       /\ prop[task[e].proposal].state =
            IF task[e].state = "proposed" THEN "prepared" ELSE task[e].state
TablesAgree ==
  /\ \A p \in Proposal : prop[p] # None =>
       /\ task[prop[p].event] # None
       /\ task[prop[p].event].proposal # p => prop[p].state = "superseded"
  /\ \A e \in Event : task[e] # None => Agree(e)

\* A command under way has the claim, unless that was declared unknown.
Claimed(o) ==
  /\ prop[chosen[o]].state \in {"queueing", "queue_unknown"}
  /\ prop[chosen[o]].state = "queueing" => prop[chosen[o]].token = o
  /\ opc[o] \in {"expiry", "verify", "push", "release"} => pushes[chosen[o]] = 0
  /\ opc[o] = "mark" => pushes[chosen[o]] = 1
ClaimsHeld ==
  /\ \A o \in Operator : opc[o] \in Attempt => Claimed(o)
  /\ \A o1, o2 \in Operator :
       opc[o1] \in Attempt /\ opc[o2] \in Attempt /\ chosen[o1] = chosen[o2] => o1 = o2

\* What the rows say about the edits that were sent.
PushesRecorded ==
  \A p \in Proposal :
    /\ pushes[p] \in {0, 1}
    /\ prop[p] = None => pushes[p] = 0
    /\ prop[p] # None =>
         /\ prop[p].state \in {"prepared", "superseded"} => pushes[p] = 0
         /\ prop[p].state = "queued" => pushes[p] = 1

IInv ==
  TypeOK /\ CallsRefer /\ TablesAgree /\ ClaimsHeld /\ PushesRecorded /\ NoEventIsLost

-----------------------------------------------------------------------------
\* The first states satisfy the invariant.
LEMMA Initially == Init => IInv
<1> SUFFICES ASSUME Init PROVE IInv
  OBVIOUS
<1> USE TimesAssumption, BoundsAssumption, NoneAssumption
<1>1. /\ task \in [Event -> TaskRow \cup {None}] /\ prop \in [Proposal -> ProposalRow \cup {None}]
      /\ pushes \in [Proposal -> Nat] /\ schema \in 1..2
      /\ TablesAgree /\ PushesRecorded
  <2>1. CASE Fresh
    BY <2>1 DEF Fresh, TablesAgree, PushesRecorded
  <2>2. CASE Legacy
    <3>1. PICK e \in Event, p \in Proposal, s \in LegacyStates, w \in Payload, f \in Contract,
               n \in 0..1 :
            /\ task = [x \in Event |->
                 IF x = e
                 THEN [payload |-> w, state |-> s[1], proposal |-> IF s[2] = None THEN None ELSE p]
                 ELSE None]
            /\ prop = [x \in Proposal |->
                 IF x = p /\ s[2] # None THEN LegacyRow(e, f, s[2]) ELSE None]
            /\ s[1] \in {"pending", "proposed"} => n = 0
            /\ s[1] = "queued" => n = 1
            /\ pushes = [x \in Proposal |-> IF x = p THEN n ELSE 0]
      BY <2>2 DEF Legacy
    <3>2. /\ s[1] \in TaskState /\ s[2] \in ProposalState \cup {None}
          /\ s[2] = None <=> s[1] = "pending"
          /\ s[2] # None => s[2] = IF s[1] = "proposed" THEN "prepared" ELSE s[1]
      BY DEF LegacyStates, TaskState, ProposalState
    <3>3. \A g \in ProposalState :
            /\ LegacyRow(e, f, g) \in ProposalRow
            /\ LegacyRow(e, f, g).event = e /\ LegacyRow(e, f, g).state = g
      BY DEF LegacyRow, ProposalRow
    <3>4. task \in [Event -> TaskRow \cup {None}] /\ prop \in [Proposal -> ProposalRow \cup {None}]
      BY <3>1, <3>2, <3>3 DEF TaskRow
    <3>5. TablesAgree
      BY <3>1, <3>2, <3>3 DEF TablesAgree, Agree, TaskRow
    <3>6. PushesRecorded
      BY <3>1, <3>2, <3>3 DEF PushesRecorded, TaskState
    <3>7. pushes \in [Proposal -> Nat] /\ schema \in 1..2
      BY <2>2, <3>1 DEF Legacy
    <3> QED BY <3>4, <3>5, <3>6, <3>7
  <2> QED BY <2>1, <2>2 DEF Init
<1>2. TypeOK
  BY <1>1 DEF TypeOK, Init, NoCall
<1>3. CallsRefer /\ ClaimsHeld /\ NoEventIsLost
  BY DEF Init, CallsRefer, ClaimsHeld, NoEventIsLost, Attempt
<1> QED BY <1>1, <1>2, <1>3 DEF IInv

-----------------------------------------------------------------------------
\* Move, the one statement that changes a proposal and its task together, keeps the
\* tables when the two states belong together.
LEMMA MoveKeeps ==
  ASSUME IInv, NEW p \in Proposal, NEW s \in ProposalState, NEW t \in TaskState,
         NEW tok \in Operator \cup {None},
         prop[p] # None, task[prop[p].event].proposal = p,
         t # "pending", s = (IF t = "proposed" THEN "prepared" ELSE t),
         Move(p, s, t, tok)
  PROVE  /\ task' \in [Event -> TaskRow \cup {None}]
         /\ prop' \in [Proposal -> ProposalRow \cup {None}]
         /\ TablesAgree'
         /\ \A e \in Event : task'[e] = None <=> task[e] = None
         /\ \A q \in Proposal : q # p => prop'[q] = prop[q]
         /\ prop'[p] # None /\ prop'[p].state = s /\ prop'[p].token = tok
         /\ prop'[p].event = prop[p].event
<1> USE NoneAssumption
<1> DEFINE e == prop[p].event
<1>1. /\ task \in [Event -> TaskRow \cup {None}] /\ prop \in [Proposal -> ProposalRow \cup {None}]
      /\ prop[p] \in ProposalRow /\ e \in Event /\ task[e] # None /\ task[e] \in TaskRow
  BY DEF IInv, TypeOK, TablesAgree, ProposalRow
<1>2. /\ prop' = [prop EXCEPT ![p] = [prop[p] EXCEPT !.state = s, !.token = tok]]
      /\ task' = [task EXCEPT ![e] = [task[e] EXCEPT !.state = t]]
  BY DEF Move
<1>3. /\ [prop[p] EXCEPT !.state = s, !.token = tok] \in ProposalRow
      /\ [task[e] EXCEPT !.state = t] \in TaskRow
  BY <1>1 DEF ProposalRow, TaskRow
<1>4. /\ prop'[p] \in ProposalRow /\ prop'[p].state = s /\ prop'[p].token = tok
      /\ prop'[p].event = e
      /\ \A q \in Proposal : q # p => prop'[q] = prop[q]
  BY <1>1, <1>2, <1>3 DEF ProposalRow
<1>5. /\ task'[e] \in TaskRow /\ task'[e].state = t /\ task'[e].proposal = p
      /\ \A d \in Event : d # e => task'[d] = task[d]
  BY <1>1, <1>2, <1>3 DEF TaskRow
<1>6. /\ task' \in [Event -> TaskRow \cup {None}] /\ prop' \in [Proposal -> ProposalRow \cup {None}]
  BY <1>1, <1>2, <1>3
<1>7. \A q \in Proposal : prop'[q] # None => prop'[q].event = prop[q].event /\ prop[q] # None
  BY <1>4
<1>8. \A q \in Proposal : prop'[q] # None =>
        /\ task'[prop'[q].event] # None
        /\ task'[prop'[q].event].proposal # q => prop'[q].state = "superseded"
  <2> SUFFICES ASSUME NEW q \in Proposal, prop'[q] # None
               PROVE  /\ task'[prop'[q].event] # None
                      /\ task'[prop'[q].event].proposal # q => prop'[q].state = "superseded"
    OBVIOUS
  <2>1. CASE q = p
    BY <2>1, <1>4, <1>5
  <2>2. CASE q # p
    <3>1. prop'[q] = prop[q] /\ prop[q].event \in Event
      BY <2>2, <1>1, <1>4 DEF ProposalRow
    <3>2. CASE prop[q].event = e
      BY <2>2, <3>1, <3>2, <1>5 DEF IInv, TablesAgree
    <3>3. CASE prop[q].event # e
      BY <3>1, <3>3, <1>5 DEF IInv, TablesAgree
    <3> QED BY <3>2, <3>3
  <2> QED BY <2>1, <2>2
<1>9. \A d \in Event : task'[d] # None => Agree(d)'
  <2> SUFFICES ASSUME NEW d \in Event, task'[d] # None PROVE Agree(d)'
    OBVIOUS
  <2>1. CASE d = e
    BY <2>1, <1>4, <1>5 DEF Agree
  <2>2. CASE d # e
    <3>1. task'[d] = task[d] /\ Agree(d)
      BY <2>2, <1>5 DEF IInv, TablesAgree
    <3>2. task[d].proposal # None => task[d].proposal # p /\ task[d].proposal \in Proposal
      BY <2>2, <3>1, <1>1 DEF Agree, TaskRow
    <3> QED BY <3>1, <3>2, <1>4 DEF Agree
  <2> QED BY <2>1, <2>2
<1> QED BY <1>4, <1>5, <1>6, <1>8, <1>9, <1>1 DEF TablesAgree

\* A proposal that was not superseded is the one its task names.
LEMMA NamedByItsTask ==
  ASSUME IInv, NEW p \in Proposal, prop[p] # None, prop[p].state # "superseded"
  PROVE  task[prop[p].event].proposal = p
BY DEF IInv, TablesAgree

\* Steps that leave the tables, the queue, the pushes and the commands alone, and whose
\* tool calls keep referring to stored rows.
LEMMA ClerkSteps ==
  ASSUME IInv, NEW c \in Clerk,
         (\E d \in Delivery : Take(c, d)) \/ Ack(c) \/ Lookup(c) \/ ClerkCrash(c)
           \/ \E e \in Event, f \in Contract : Prepare(c, e, f)
  PROVE  IInv'
<1> USE NoneAssumption, BoundsAssumption
<1> DEFINE Calls == [delivery : Delivery \cup {None}, event : Event \cup {None},
                     current : Proposal \cup {None}, contract : Contract \cup {None}]
<1>0. NoCall \in Calls
  BY DEF NoCall
<1>1. TypeOK
  BY DEF IInv
<1>2. UNCHANGED <<schema, task, prop, age, held, body, opc, chosen, pushes>>
  BY DEF Take, Ack, Lookup, ClerkCrash, Prepare, store, clock, operators, clerks, broker
<1>3. /\ TablesAgree' /\ PushesRecorded' /\ ClaimsHeld'
  BY <1>2 DEF IInv, TablesAgree, Agree, PushesRecorded, ClaimsHeld, Claimed
<1>4. faults' \in 0..MaxFaults
  <2>1. faults' = faults \/ Fault
    BY DEF Take, Ack, Lookup, ClerkCrash, Prepare
  <2> QED BY <1>1, <2>1 DEF Fault, TypeOK
<1>5. /\ cpc' \in [Clerk -> {"idle", "accept", "ack", "lookup", "save"}]
      /\ call' \in [Clerk -> Calls] /\ queue' \in [Delivery -> {"ready", "unacked", "gone"}]
      /\ NoEventIsLost'
      /\ \A x \in Clerk : \/ cpc'[x] = cpc[x] /\ call'[x] = call[x]
                          \/ cpc'[x] = "idle"
                          \/ cpc'[x] = "accept" /\ call'[x].delivery \in Delivery
                          \/ cpc'[x] = "save" /\ cpc[x] = "lookup" /\ call'[x] = call[x]
                          \/ /\ cpc'[x] = "lookup" /\ call'[x].event \in Event
                             /\ call'[x].contract \in Contract /\ task[call'[x].event] # None
  <2>1. CASE \E d \in Delivery : Take(c, d)
    <3>1. PICK d \in Delivery : Take(c, d)
      BY <2>1
    <3>2. [NoCall EXCEPT !.delivery = d] \in Calls /\ [NoCall EXCEPT !.delivery = d].delivery = d
      BY DEF NoCall
    <3> QED BY <1>1, <1>2, <3>1, <3>2 DEF Take, TypeOK, NoEventIsLost, IInv, clerks
  <2>2. CASE Ack(c)
    <3>1. call[c].delivery \in Delivery /\ task[body[call[c].delivery].event] # None
      BY <2>2 DEF Ack, IInv, CallsRefer
    <3>2. queue' \in [Delivery -> {"ready", "unacked", "gone"}]
      BY <1>1, <2>2, <3>1 DEF Ack, TypeOK
    <3>3. NoEventIsLost'
      BY <1>1, <1>2, <2>2, <3>1 DEF Ack, NoEventIsLost, IInv, TypeOK
    <3> QED BY <1>0, <1>1, <2>2, <3>2, <3>3 DEF Ack, CallEnds, TypeOK
  <2>3. CASE Lookup(c)
    <3>1. /\ cpc[c] = "lookup" /\ UNCHANGED queue
          /\ \/ CallEnds(c)
             \/ cpc' = [cpc EXCEPT ![c] = "save"] /\ UNCHANGED call
      BY <2>3 DEF Lookup, broker
    <3>2. NoEventIsLost'
      BY <1>2, <3>1 DEF NoEventIsLost, IInv
    <3>3. CASE CallEnds(c)
      BY <1>0, <1>1, <3>1, <3>2, <3>3 DEF CallEnds, TypeOK
    <3>4. CASE cpc' = [cpc EXCEPT ![c] = "save"] /\ UNCHANGED call
      BY <1>1, <3>1, <3>2, <3>4 DEF TypeOK
    <3> QED BY <3>1, <3>3, <3>4
  <2>4. CASE ClerkCrash(c)
    BY <1>0, <1>1, <1>2, <2>4 DEF ClerkCrash, CallEnds, TypeOK, NoEventIsLost, IInv
  <2>5. CASE \E e \in Event, f \in Contract : Prepare(c, e, f)
    <3>1. PICK e \in Event, f \in Contract : Prepare(c, e, f)
      BY <2>5
    <3>2. task[e].proposal \in Proposal \cup {None}
      BY <1>1, <3>1 DEF Prepare, TypeOK, TaskRow
    <3> DEFINE new == [NoCall EXCEPT !.event = e, !.current = task[e].proposal, !.contract = f]
    <3>3. new \in Calls /\ new.event = e /\ new.contract = f
      BY <3>2 DEF NoCall
    <3>4. /\ call' = [call EXCEPT ![c] = new] /\ cpc' = [cpc EXCEPT ![c] = "lookup"]
          /\ UNCHANGED queue /\ task[e] # None
      BY <3>1 DEF Prepare, broker
    <3> QED BY <1>1, <1>2, <3>3, <3>4 DEF TypeOK, NoEventIsLost, IInv
  <2> QED BY <2>1, <2>2, <2>3, <2>4, <2>5
<1>6. CallsRefer'
  <2>1. ASSUME NEW x \in Clerk
        PROVE  /\ cpc'[x] \in {"accept", "ack"} => call'[x].delivery \in Delivery
               /\ cpc'[x] = "ack" => /\ body[call'[x].delivery] # Invalid
                                     /\ task[body[call'[x].delivery].event] # None
               /\ cpc'[x] \in {"lookup", "save"} =>
                    /\ call'[x].event \in Event /\ call'[x].contract \in Contract
                    /\ task[call'[x].event] # None
    BY <1>5 DEF IInv, CallsRefer
  <2> QED BY <1>2, <2>1 DEF CallsRefer, IInv
<1>7. TypeOK'
  BY <1>1, <1>2, <1>4, <1>5 DEF TypeOK
<1> QED BY <1>3, <1>5, <1>6, <1>7 DEF IInv

\* Accept stores an event, finds it, rejects the message or puts it back.
LEMMA AcceptKeeps ==
  ASSUME IInv, NEW c \in Clerk, Accept(c)
  PROVE  IInv'
<1> USE NoneAssumption, BoundsAssumption
<1> DEFINE d == call[c].delivery
           m == body[d]
           Calls == [delivery : Delivery \cup {None}, event : Event \cup {None},
                     current : Proposal \cup {None}, contract : Contract \cup {None}]
<1>1. TypeOK /\ d \in Delivery /\ cpc[c] = "accept"
  BY DEF IInv, Accept, CallsRefer
<1>2. UNCHANGED <<schema, prop, age, held, body, opc, chosen, pushes>>
  BY DEF Accept, clock, operators
<1>3. /\ NoCall \in Calls
      /\ m # Invalid => m.event \in Event /\ m.payload \in Payload
  BY <1>1 DEF NoCall, TypeOK, Message
<1>4. faults' \in 0..MaxFaults
  <2>1. faults' = faults \/ Fault
    BY DEF Accept
  <2> QED BY <1>1, <2>1 DEF Fault, TypeOK
<1>5. /\ task' \in [Event -> TaskRow \cup {None}]
      /\ \A e \in Event : \/ task'[e] = task[e]
                          \/ /\ task[e] = None /\ task'[e] # None
                             /\ task'[e].proposal = None /\ task'[e].state = "pending"
  <2>1. CASE UNCHANGED task
    BY <1>1, <2>1 DEF TypeOK
  <2>2. CASE m # Invalid /\ task[m.event] = None
             /\ task' = [task EXCEPT ![m.event] =
                  [payload |-> m.payload, state |-> "pending", proposal |-> None]]
    <3>1. [payload |-> m.payload, state |-> "pending", proposal |-> None] \in TaskRow
      BY <2>2, <1>3 DEF TaskRow, TaskState
    <3> QED BY <1>1, <1>3, <2>2, <3>1 DEF TypeOK
  <2> QED BY <2>1, <2>2 DEF Accept
<1>6. \A e \in Event : task[e] # None => task'[e] = task[e]
  BY <1>5
<1>7. TablesAgree'
  <2>1. ASSUME NEW p \in Proposal, prop[p] # None
        PROVE  /\ task'[prop[p].event] # None
               /\ task'[prop[p].event].proposal # p => prop[p].state = "superseded"
    <3>1. prop[p].event \in Event /\ task[prop[p].event] # None
      BY <1>1, <2>1 DEF TypeOK, ProposalRow, IInv, TablesAgree
    <3> QED BY <2>1, <3>1, <1>6 DEF IInv, TablesAgree
  <2>2. ASSUME NEW e \in Event, task'[e] # None
        PROVE  Agree(e)'
    <3>1. CASE task[e] # None
      BY <3>1, <1>2, <1>6 DEF Agree, IInv, TablesAgree
    <3>2. CASE task[e] = None
      BY <2>2, <3>2, <1>5 DEF Agree
    <3> QED BY <3>1, <3>2
  <2> QED BY <1>2, <2>1, <2>2 DEF TablesAgree
<1>8. ClaimsHeld' /\ PushesRecorded'
  BY <1>2 DEF IInv, ClaimsHeld, Claimed, PushesRecorded
<1>9. /\ cpc' \in [Clerk -> {"idle", "accept", "ack", "lookup", "save"}]
      /\ call' \in [Clerk -> Calls] /\ queue' \in [Delivery -> {"ready", "unacked", "gone"}]
      /\ \A x \in Clerk : x # c => cpc'[x] = cpc[x] /\ call'[x] = call[x]
      /\ \/ cpc'[c] = "idle"
         \/ cpc'[c] = "ack" /\ call'[c] = call[c] /\ m # Invalid /\ task'[m.event] # None
  <2>1. CASE cpc' = [cpc EXCEPT ![c] = "ack"]
    <3>1. /\ UNCHANGED <<queue, call>> /\ m # Invalid
          /\ task' = IF task[m.event] # None THEN task ELSE
               [task EXCEPT ![m.event] =
                  [payload |-> m.payload, state |-> "pending", proposal |-> None]]
      BY <2>1, <1>1 DEF Accept, CallEnds, TypeOK
    <3>2. [payload |-> m.payload, state |-> "pending", proposal |-> None] \in TaskRow
      BY <3>1, <1>3 DEF TaskRow, TaskState
    <3>3. task'[m.event] # None
      BY <3>1, <3>2, <1>1, <1>3 DEF TypeOK
    <3> QED BY <2>1, <3>1, <3>3, <1>1 DEF TypeOK
  <2>2. CASE CallEnds(c) /\ queue' \in {[queue EXCEPT ![d] = "gone"], [queue EXCEPT ![d] = "ready"]}
    BY <2>2, <1>1, <1>3 DEF CallEnds, TypeOK
  <2> QED BY <2>1, <2>2 DEF Accept, Rejected, RequeueAfterError
<1>10. NoEventIsLost'
  <2> SUFFICES ASSUME NEW x \in Delivery, queue'[x] = "gone", body[x] # Invalid
               PROVE  task'[body[x].event] # None
    BY <1>2 DEF NoEventIsLost
  <2>1. body[x].event \in Event
    BY <1>1 DEF TypeOK, Message
  <2>2. CASE queue[x] = "gone"
    BY <2>1, <2>2, <1>6 DEF IInv, NoEventIsLost
  <2>3. CASE queue[x] # "gone"
    <3>1. x = d /\ Conflicting(m)
      BY <2>3, <1>1 DEF Accept, RequeueAfterError, TypeOK
    <3> QED BY <3>1, <2>1, <1>6 DEF Conflicting
  <2> QED BY <2>2, <2>3
<1>11. CallsRefer'
  <2>1. ASSUME NEW x \in Clerk
        PROVE  /\ cpc'[x] \in {"accept", "ack"} => call'[x].delivery \in Delivery
               /\ cpc'[x] = "ack" => /\ body[call'[x].delivery] # Invalid
                                     /\ task'[body[call'[x].delivery].event] # None
               /\ cpc'[x] \in {"lookup", "save"} =>
                    /\ call'[x].event \in Event /\ call'[x].contract \in Contract
                    /\ task'[call'[x].event] # None
    <3>1. CASE x = c
      BY <3>1, <1>1, <1>9
    <3>2. CASE x # c
      <4>1. cpc'[x] = cpc[x] /\ call'[x] = call[x]
        BY <3>2, <1>9
      <4>2. cpc[x] = "ack" => body[call[x].delivery].event \in Event
        BY <1>1 DEF IInv, CallsRefer, TypeOK, Message
      <4> QED BY <4>1, <4>2, <1>6 DEF IInv, CallsRefer
    <3> QED BY <3>1, <3>2
  <2> QED BY <1>2, <2>1 DEF CallsRefer, IInv
<1>12. TypeOK'
  BY <1>1, <1>2, <1>4, <1>5, <1>9 DEF TypeOK
<1> QED BY <1>7, <1>8, <1>10, <1>11, <1>12 DEF IInv

\* save_proposal: the new proposal is the only one of its event that is not superseded.
LEMMA SaveKeeps ==
  ASSUME IInv, NEW c \in Clerk, Save(c)
  PROVE  IInv'
<1> USE NoneAssumption, BoundsAssumption, TimesAssumption
<1> DEFINE e == call[c].event
           f == call[c].contract
           new == [event |-> e, contract |-> f, state |-> "prepared",
                   token |-> None, legacy |-> FALSE]
           Calls == [delivery : Delivery \cup {None}, event : Event \cup {None},
                     current : Proposal \cup {None}, contract : Contract \cup {None}]
<1>1. TypeOK /\ e \in Event /\ f \in Contract /\ task[e] # None /\ task[e] \in TaskRow
  BY DEF IInv, Save, CallsRefer, TypeOK
<1>2. /\ UNCHANGED <<schema, body, queue, opc, chosen, pushes, faults>> /\ CallEnds(c)
      /\ NoCall \in Calls
  BY DEF Save, broker, operators, NoCall
<1>3. /\ cpc' \in [Clerk -> {"idle", "accept", "ack", "lookup", "save"}]
      /\ call' \in [Clerk -> Calls] /\ cpc'[c] = "idle"
      /\ \A x \in Clerk : x # c => cpc'[x] = cpc[x] /\ call'[x] = call[x]
  BY <1>1, <1>2 DEF CallEnds, TypeOK
<1>4. CASE UNCHANGED <<task, prop, clock>>
  <2>1. TablesAgree' /\ ClaimsHeld' /\ PushesRecorded' /\ NoEventIsLost'
    BY <1>2, <1>4 DEF IInv, TablesAgree, Agree, ClaimsHeld, Claimed, PushesRecorded, NoEventIsLost
  <2>2. TypeOK'
    BY <1>1, <1>2, <1>3, <1>4 DEF TypeOK, clock
  <2>3. CallsRefer'
    BY <1>2, <1>3, <1>4 DEF IInv, CallsRefer
  <2> QED BY <2>1, <2>2, <2>3 DEF IInv
<1>5. CASE ~UNCHANGED <<task, prop, clock>>
  <2>1. PICK p \in Proposal :
          /\ \/ prop[p] = None
             \/ SameFix(c, p) /\ age[p] = 0 /\ prop[p].state = "prepared"
          /\ prop' = [x \in Proposal |->
               CASE x = p -> new
                 [] x # p /\ prop[x] # None /\ prop[x].event = e /\ prop[x].state = "prepared" ->
                      [prop[x] EXCEPT !.state = "superseded"]
                 [] OTHER -> prop[x]]
          /\ task' = [task EXCEPT ![e].state = "proposed", ![e].proposal = p]
          /\ age' = [age EXCEPT ![p] = 0]
          /\ held' = [held EXCEPT ![p] = 0]
          /\ SaveAllowed(task[e])
    BY <1>5 DEF Save
  <2>2. new \in ProposalRow /\ prop'[p] = new /\ new.event = e /\ new.state = "prepared"
    BY <1>1, <2>1 DEF ProposalRow, ProposalState
  <2>3. ASSUME NEW x \in Proposal, x # p
        PROVE  /\ prop[x] = None => prop'[x] = None
               /\ prop[x] # None =>
                    /\ prop'[x] \in ProposalRow /\ prop'[x] # None
                    /\ prop'[x].event = prop[x].event /\ prop'[x].token = prop[x].token
                    /\ prop'[x].state = IF prop[x].event = e /\ prop[x].state = "prepared"
                                        THEN "superseded" ELSE prop[x].state
    <3>1. CASE prop[x] # None /\ prop[x].event = e /\ prop[x].state = "prepared"
      <4>1. prop'[x] = [prop[x] EXCEPT !.state = "superseded"] /\ prop[x] \in ProposalRow
        BY <1>1, <2>1, <2>3, <3>1 DEF TypeOK
      <4> QED BY <3>1, <4>1 DEF ProposalRow, ProposalState
    <3>2. CASE ~(prop[x] # None /\ prop[x].event = e /\ prop[x].state = "prepared")
      <4>1. prop'[x] = prop[x]
        BY <2>1, <2>3, <3>2
      <4>2. prop[x] # None => prop[x] \in ProposalRow
        BY <1>1 DEF TypeOK
      <4> QED BY <3>2, <4>1, <4>2
    <3> QED BY <3>1, <3>2
  <2>4. task'[e] \in TaskRow /\ task'[e].state = "proposed" /\ task'[e].proposal = p
    BY <1>1, <2>1 DEF TypeOK, TaskRow, TaskState
  <2>5. \A x \in Event : x # e => task'[x] = task[x]
    BY <1>1, <2>1 DEF TypeOK
  <2>6. task' \in [Event -> TaskRow \cup {None}]
    <3>1. task' = [task EXCEPT ![e] = [task[e] EXCEPT !.state = "proposed", !.proposal = p]]
      BY <1>1, <2>1 DEF TypeOK
    <3>2. [task[e] EXCEPT !.state = "proposed", !.proposal = p] \in TaskRow
      BY <1>1 DEF TaskRow, TaskState
    <3> QED BY <1>1, <3>1, <3>2 DEF TypeOK
  <2>7. prop' \in [Proposal -> ProposalRow \cup {None}]
    <3>1. \A x \in Proposal : prop'[x] \in ProposalRow \cup {None}
      BY <2>2, <2>3
    <3> QED BY <2>1, <3>1
  <2>8. TypeOK'
    <3>1. 0 \in 0..Validity /\ 0 \in 0..Lease
      OBVIOUS
    <3>2. age' \in [Proposal -> 0..Validity] /\ held' \in [Proposal -> 0..Lease]
      BY <1>1, <2>1, <3>1 DEF TypeOK
    <3> QED BY <1>1, <1>2, <1>3, <3>2, <2>6, <2>7 DEF TypeOK
  <2>9. prop[p] # None => prop[p].event = e
    BY <2>1 DEF SameFix
  <2>10. \A x \in Proposal : prop'[x] # None =>
           /\ task'[prop'[x].event] # None
           /\ task'[prop'[x].event].proposal # x => prop'[x].state = "superseded"
    <3> SUFFICES ASSUME NEW x \in Proposal, prop'[x] # None
                 PROVE  /\ task'[prop'[x].event] # None
                        /\ task'[prop'[x].event].proposal # x => prop'[x].state = "superseded"
      OBVIOUS
    <3>1. CASE x = p
      BY <3>1, <2>2, <2>4
    <3>2. CASE x # p
      <4>1. prop[x] # None /\ prop'[x].event = prop[x].event /\ prop[x].event \in Event
        BY <3>2, <2>3, <1>1 DEF TypeOK, ProposalRow
      <4>2. CASE prop[x].event # e
        BY <4>1, <4>2, <3>2, <2>3, <2>5 DEF IInv, TablesAgree
      <4>3. CASE prop[x].event = e
        <5>1. prop[x].state \in {"prepared", "superseded"}
          BY <4>1, <4>3, <2>1, <1>1 DEF SaveAllowed, IInv, TablesAgree, Agree
        <5> QED BY <4>1, <4>3, <5>1, <3>2, <2>3, <2>4
      <4> QED BY <4>2, <4>3
    <3> QED BY <3>1, <3>2
  <2>11. \A x \in Event : task'[x] # None => Agree(x)'
    <3> SUFFICES ASSUME NEW x \in Event, task'[x] # None PROVE Agree(x)'
      OBVIOUS
    <3>1. CASE x = e
      BY <3>1, <2>2, <2>4 DEF Agree
    <3>2. CASE x # e
      <4>1. task'[x] = task[x] /\ Agree(x)
        BY <3>2, <2>5 DEF IInv, TablesAgree
      <4>2. task[x].proposal # None => task[x].proposal \in Proposal /\ task[x].proposal # p
        BY <3>2, <4>1, <2>9, <1>1 DEF Agree, TypeOK, TaskRow
      <4> QED BY <3>2, <4>1, <4>2, <2>3 DEF Agree
    <3> QED BY <3>1, <3>2
  <2>12. TablesAgree'
    BY <2>10, <2>11 DEF TablesAgree
  <2>13. \A o \in Operator : opc[o] # "idle" => chosen[o] \in Proposal /\ prop'[chosen[o]] # None
    BY <2>2, <2>3 DEF IInv, CallsRefer
  <2>14. ClaimsHeld'
    <3>1. ASSUME NEW o \in Operator, opc[o] \in Attempt PROVE Claimed(o)'
      <4>1. /\ chosen[o] \in Proposal /\ prop[chosen[o]] # None /\ Claimed(o)
        BY <3>1 DEF IInv, CallsRefer, ClaimsHeld, Attempt
      <4>2. chosen[o] # p
        BY <4>1, <2>1 DEF Claimed
      <4> QED BY <4>1, <4>2, <2>3, <1>2 DEF Claimed
    <3> QED BY <3>1, <1>2 DEF ClaimsHeld, IInv
  <2>15. PushesRecorded'
    <3>1. ASSUME NEW x \in Proposal
          PROVE  /\ pushes[x] \in {0, 1}
                 /\ prop'[x] = None => pushes[x] = 0
                 /\ prop'[x] # None =>
                      /\ prop'[x].state \in {"prepared", "superseded"} => pushes[x] = 0
                      /\ prop'[x].state = "queued" => pushes[x] = 1
      <4>1. CASE x = p
        BY <4>1, <2>1, <2>2 DEF IInv, PushesRecorded
      <4>2. CASE x # p
        BY <4>2, <2>3 DEF IInv, PushesRecorded
      <4> QED BY <4>1, <4>2
    <3> QED BY <3>1, <1>2 DEF PushesRecorded
  <2>16. \A x \in Event : task[x] # None => task'[x] # None
    BY <2>4, <2>5
  <2>17. NoEventIsLost'
    <3>1. \A d \in Delivery : body[d] # Invalid => body[d].event \in Event
      BY <1>1 DEF TypeOK, Message
    <3> QED BY <3>1, <2>16, <1>2 DEF NoEventIsLost, IInv
  <2>18. CallsRefer'
    <3>1. ASSUME NEW x \in Clerk
          PROVE  /\ cpc'[x] \in {"accept", "ack"} => call'[x].delivery \in Delivery
                 /\ cpc'[x] = "ack" => /\ body[call'[x].delivery] # Invalid
                                       /\ task'[body[call'[x].delivery].event] # None
                 /\ cpc'[x] \in {"lookup", "save"} =>
                      /\ call'[x].event \in Event /\ call'[x].contract \in Contract
                      /\ task'[call'[x].event] # None
      <4>1. CASE x = c
        BY <4>1, <1>3
      <4>2. CASE x # c
        <5>1. cpc'[x] = cpc[x] /\ call'[x] = call[x]
          BY <4>2, <1>3
        <5>2. cpc[x] = "ack" => body[call[x].delivery].event \in Event
          BY <1>1 DEF IInv, CallsRefer, TypeOK, Message
        <5> QED BY <5>1, <5>2, <2>16 DEF IInv, CallsRefer
      <4> QED BY <4>1, <4>2
    <3> QED BY <1>2, <2>13, <3>1 DEF CallsRefer, IInv
  <2> QED BY <2>8, <2>12, <2>14, <2>15, <2>17, <2>18 DEF IInv
<1> QED BY <1>4, <1>5

-----------------------------------------------------------------------------
\* What every step of a command leaves alone, and the bounds of the rest.
CommandFrame ==
  /\ schema = 2
  /\ UNCHANGED <<schema, body, queue, cpc, call>>
  /\ age' \in [Proposal -> 0..Validity] /\ held' \in [Proposal -> 0..Lease]
  /\ faults' \in 0..MaxFaults

\* A command that changes no row and sends nothing keeps the invariant when what it does
\* next is justified by what it knows.
LEMMA QuietCommand ==
  ASSUME IInv, CommandFrame, NEW o \in Operator, NEW pc \in {"idle", "confirm"} \cup Attempt,
         NEW p \in Proposal \cup {None},
         UNCHANGED <<task, prop, pushes>>,
         opc' = [opc EXCEPT ![o] = pc], chosen' = [chosen EXCEPT ![o] = p],
         pc # "idle" => p \in Proposal /\ prop[p] # None,
         pc \in Attempt => /\ opc[o] \in Attempt /\ p = chosen[o]
                           /\ pc \in {"expiry", "verify", "push", "release"} => pushes[p] = 0
                           /\ pc = "mark" => pushes[p] = 1
  PROVE  IInv'
<1>1. TypeOK
  BY DEF IInv
<1>2. TypeOK'
  BY <1>1 DEF TypeOK, CommandFrame
<1>3. CallsRefer' /\ TablesAgree' /\ PushesRecorded' /\ NoEventIsLost'
  <2>1. TablesAgree' /\ PushesRecorded' /\ NoEventIsLost'
    BY DEF IInv, CommandFrame, TablesAgree, Agree, PushesRecorded, NoEventIsLost
  <2>2. \A x \in Operator : opc'[x] # "idle" => chosen'[x] \in Proposal /\ prop[chosen'[x]] # None
    BY <1>1 DEF TypeOK, IInv, CallsRefer
  <2> QED BY <2>1, <2>2 DEF IInv, CommandFrame, CallsRefer
<1>4. /\ opc'[o] = pc /\ chosen'[o] = p
      /\ \A x \in Operator : x # o => opc'[x] = opc[x] /\ chosen'[x] = chosen[x]
  BY <1>1 DEF TypeOK
<1>5. \A x \in Operator : opc'[x] \in Attempt => opc[x] \in Attempt /\ chosen'[x] = chosen[x]
  BY <1>4
<1>6. ASSUME NEW x \in Operator, opc'[x] \in Attempt PROVE Claimed(x)'
  <2>1. Claimed(x)
    BY <1>5, <1>6 DEF IInv, ClaimsHeld
  <2>2. CASE x = o
    BY <1>4, <1>5, <1>6, <2>1, <2>2 DEF Claimed
  <2>3. CASE x # o
    BY <1>4, <2>1, <2>3 DEF Claimed
  <2> QED BY <2>2, <2>3
<1>7. ClaimsHeld'
  BY <1>5, <1>6 DEF ClaimsHeld, IInv
<1> QED BY <1>2, <1>3, <1>7 DEF IInv

\* A command that moves a proposal and its task.
LEMMA MovedCommand ==
  ASSUME IInv, CommandFrame, NEW o \in Operator, NEW p \in Proposal,
         NEW s \in ProposalState, NEW t \in TaskState, NEW tok \in Operator \cup {None},
         prop[p] # None, task[prop[p].event].proposal = p,
         t # "pending", s = (IF t = "proposed" THEN "prepared" ELSE t),
         Move(p, s, t, tok), UNCHANGED pushes,
         s = "prepared" => pushes[p] = 0, s = "queued" => pushes[p] = 1,
         \A x \in Operator : x # o /\ opc[x] \in Attempt /\ chosen[x] = p => s = "queue_unknown",
         \/ CommandEnds(o)
         \/ /\ opc' = [opc EXCEPT ![o] = "expiry"] /\ UNCHANGED chosen /\ chosen[o] = p
            /\ s = "queueing" /\ tok = o /\ pushes[p] = 0
  PROVE  IInv'
<1> USE NoneAssumption
<1>1. TypeOK
  BY DEF IInv
<1>2. /\ task' \in [Event -> TaskRow \cup {None}] /\ prop' \in [Proposal -> ProposalRow \cup {None}]
      /\ TablesAgree'
      /\ \A e \in Event : task'[e] = None <=> task[e] = None
      /\ \A q \in Proposal : q # p => prop'[q] = prop[q]
      /\ prop'[p] # None /\ prop'[p].state = s /\ prop'[p].token = tok
  BY MoveKeeps
<1>3. \A x \in Operator : x # o => opc'[x] = opc[x] /\ chosen'[x] = chosen[x]
  BY <1>1 DEF TypeOK, CommandEnds
<1>4. \/ opc'[o] = "idle"
      \/ opc'[o] = "expiry" /\ chosen'[o] = p /\ s = "queueing" /\ tok = o /\ pushes[p] = 0
  BY <1>1 DEF TypeOK, CommandEnds
<1>5. TypeOK'
  <2>1. opc' \in [Operator -> {"idle", "confirm"} \cup Attempt] /\ chosen' \in [Operator -> Proposal \cup {None}]
    BY <1>1 DEF TypeOK, CommandEnds, Attempt
  <2> QED BY <1>1, <1>2, <2>1 DEF TypeOK, CommandFrame
<1>6. NoEventIsLost' /\ CallsRefer'
  <2>1. \A d \in Delivery : body[d] # Invalid => body[d].event \in Event
    BY <1>1 DEF TypeOK, Message
  <2>2. NoEventIsLost'
    BY <1>2, <2>1 DEF NoEventIsLost, IInv, CommandFrame
  <2>3. ASSUME NEW x \in Clerk
        PROVE  /\ cpc[x] \in {"accept", "ack"} => call[x].delivery \in Delivery
               /\ cpc[x] = "ack" => /\ body[call[x].delivery] # Invalid
                                    /\ task'[body[call[x].delivery].event] # None
               /\ cpc[x] \in {"lookup", "save"} =>
                    /\ call[x].event \in Event /\ call[x].contract \in Contract
                    /\ task'[call[x].event] # None
    BY <1>2, <2>1 DEF IInv, CallsRefer
  <2>4. \A x \in Operator : opc'[x] # "idle" => chosen'[x] \in Proposal /\ prop'[chosen'[x]] # None
    BY <1>2, <1>3, <1>4 DEF IInv, CallsRefer
  <2> QED BY <2>2, <2>3, <2>4 DEF CallsRefer, CommandFrame
<1>7. PushesRecorded'
  <2>1. ASSUME NEW x \in Proposal
        PROVE  /\ pushes[x] \in {0, 1}
               /\ prop'[x] = None => pushes[x] = 0
               /\ prop'[x] # None =>
                    /\ prop'[x].state \in {"prepared", "superseded"} => pushes[x] = 0
                    /\ prop'[x].state = "queued" => pushes[x] = 1
    <3>1. CASE x = p
      BY <3>1, <1>2 DEF IInv, PushesRecorded, TaskState
    <3>2. CASE x # p
      BY <3>2, <1>2 DEF IInv, PushesRecorded
    <3> QED BY <3>1, <3>2
  <2> QED BY <2>1 DEF PushesRecorded
<1>8. \A x \in Operator : x # o /\ opc'[x] \in Attempt =>
        opc[x] \in Attempt /\ chosen'[x] = chosen[x] /\ (chosen[x] = p => s = "queue_unknown")
  BY <1>3
<1>9. ASSUME NEW x \in Operator, opc'[x] \in Attempt PROVE Claimed(x)'
  <2>1. CASE x = o
    BY <1>2, <1>4, <1>9, <2>1 DEF Claimed, Attempt
  <2>2. CASE x # o
    <3>1. Claimed(x) /\ chosen[x] \in Proposal /\ opc'[x] = opc[x] /\ chosen'[x] = chosen[x]
      BY <1>3, <1>8, <1>9, <2>2 DEF IInv, ClaimsHeld, CallsRefer, Attempt
    <3>2. CASE chosen[x] = p
      BY <3>1, <3>2, <1>2, <1>8, <1>9, <2>2 DEF Claimed
    <3>3. CASE chosen[x] # p
      BY <3>1, <3>3, <1>2 DEF Claimed
    <3> QED BY <3>2, <3>3
  <2> QED BY <2>1, <2>2
<1>10. ASSUME NEW x \in Operator, NEW y \in Operator,
              opc'[x] \in Attempt, opc'[y] \in Attempt, chosen'[x] = chosen'[y]
       PROVE  x = y
  <2>1. CASE x # o /\ y # o
    BY <1>8, <1>10, <2>1 DEF IInv, ClaimsHeld
  <2>2. CASE x = o \/ y = o
    BY <1>4, <1>8, <1>10, <2>2 DEF Attempt
  <2> QED BY <2>1, <2>2
<1>11. ClaimsHeld'
  BY <1>9, <1>10 DEF ClaimsHeld
<1> QED BY <1>2, <1>5, <1>6, <1>7, <1>11 DEF IInv

\* The frame of each step of a command.
LEMMA FrameOfCommands ==
  ASSUME IInv, schema = 2, NEW o \in Operator,
         Approve(o) \/ OperatorCrash(o)
  PROVE  CommandFrame
<1> USE BoundsAssumption, TimesAssumption
<1>1. TypeOK /\ 0 \in 0..Lease
  BY DEF IInv
<1>2. UNCHANGED <<schema, body, queue, cpc, call, age>>
  BY DEF Approve, Show, Claim, Finish, CheckExpiry, Verify, Push, Release, MarkQueued,
         MarkUnknown, OperatorCrash, store, clock, broker, clerks
<1>3. faults' = faults \/ Fault
  BY DEF Approve, Show, Claim, Finish, CheckExpiry, Verify, Push, Release, MarkQueued,
         MarkUnknown, OperatorCrash
<1>4. held' = held \/ held' = [held EXCEPT ![chosen[o]] = 0]
  BY DEF Approve, Show, Claim, Finish, CheckExpiry, Verify, Push, Release, MarkQueued,
         MarkUnknown, OperatorCrash, clock
<1>5. held' \in [Proposal -> 0..Lease]
  BY <1>1, <1>4 DEF TypeOK
<1>6. faults' \in 0..MaxFaults
  BY <1>1, <1>3 DEF TypeOK, Fault
<1> QED BY <1>1, <1>2, <1>5, <1>6 DEF CommandFrame, TypeOK

\* A command that gives up without touching a row.
LEMMA EndingKeeps ==
  ASSUME IInv, CommandFrame, NEW o \in Operator, UNCHANGED <<task, prop, pushes>>,
         CommandEnds(o)
  PROVE  IInv'
<1>1. /\ "idle" \in {"idle", "confirm"} \cup Attempt /\ "idle" \notin Attempt
      /\ None \in Proposal \cup {None}
  BY DEF Attempt
<1> QED BY <1>1, QuietCommand DEF CommandEnds

\* A command goes on with another step.
LEMMA GoingOnKeeps ==
  ASSUME IInv, CommandFrame, NEW o \in Operator, NEW pc \in Attempt,
         UNCHANGED <<task, prop, pushes>>, opc[o] \in Attempt,
         opc' = [opc EXCEPT ![o] = pc], UNCHANGED chosen,
         pc \in {"expiry", "verify", "push", "release"} => pushes[chosen[o]] = 0,
         pc = "mark" => pushes[chosen[o]] = 1
  PROVE  IInv'
<1>1. /\ chosen[o] \in Proposal /\ prop[chosen[o]] # None
      /\ chosen' = [chosen EXCEPT ![o] = chosen[o]]
  BY DEF IInv, CallsRefer, TypeOK, Attempt
<1> QED BY <1>1, QuietCommand

\* A command with a claim moves its proposal and ends.
LEMMA ConcludingKeeps ==
  ASSUME IInv, CommandFrame, NEW o \in Operator, opc[o] \in Attempt, Holds(o),
         NEW s \in ProposalState, NEW t \in TaskState,
         t # "pending", s = (IF t = "proposed" THEN "prepared" ELSE t),
         s = "prepared" => pushes[chosen[o]] = 0, s = "queued" => pushes[chosen[o]] = 1,
         Move(chosen[o], s, t, None), UNCHANGED pushes, CommandEnds(o)
  PROVE  IInv'
<1>1. chosen[o] \in Proposal /\ prop[chosen[o]] # None /\ prop[chosen[o]].state = "queueing"
  BY DEF IInv, CallsRefer, Holds, Attempt
<1>2. task[prop[chosen[o]].event].proposal = chosen[o]
  BY <1>1, NamedByItsTask
<1>3. \A x \in Operator : x # o => ~(opc[x] \in Attempt /\ chosen[x] = chosen[o])
  BY DEF IInv, ClaimsHeld
<1>4. None \in Operator \cup {None}
  OBVIOUS
<1> QED BY <1>1, <1>2, <1>3, <1>4, MovedCommand

\* confirm_and_queue and queue_reviewed_fix, up to the claim.
LEMMA ClaimKeeps ==
  ASSUME IInv, schema = 2, NEW o \in Operator,
         Claim(o) \/ \E p \in Proposal : Show(o, p)
  PROVE  IInv'
<1> USE NoneAssumption
<1>0. CommandFrame
  BY FrameOfCommands DEF Approve
<1>1. CASE \E p \in Proposal : Show(o, p)
  <2>1. PICK p \in Proposal : Show(o, p)
    BY <1>1
  <2>2. /\ UNCHANGED <<task, prop, pushes>> /\ prop[p] # None
        /\ opc' = [opc EXCEPT ![o] = "confirm"] /\ chosen' = [chosen EXCEPT ![o] = p]
        /\ "confirm" \in {"idle", "confirm"} \cup Attempt /\ "confirm" \notin Attempt
    BY <2>1 DEF Show, store, Attempt
  <2> QED BY <1>0, <2>2, QuietCommand
<1>2. CASE Claim(o)
  <2> DEFINE p == chosen[o]
  <2>1. p \in Proposal /\ prop[p] # None /\ UNCHANGED pushes
    BY <1>2 DEF Claim, IInv, CallsRefer
  <2>2. CASE /\ Current(p) /\ Claimable(p) /\ Move(p, "queueing", "queueing", o)
             /\ opc' = [opc EXCEPT ![o] = "expiry"] /\ UNCHANGED chosen
    <3>1. task[prop[p].event].proposal = p /\ prop[p].state = "prepared"
      BY <2>2 DEF Current, Claimable
    <3>2. pushes[p] = 0
      BY <2>1, <3>1 DEF IInv, PushesRecorded
    <3>3. \A x \in Operator : ~(opc[x] \in Attempt /\ chosen[x] = p)
      BY <3>1 DEF IInv, ClaimsHeld, Claimed
    <3>4. "queueing" \in ProposalState /\ "queueing" \in TaskState /\ o \in Operator \cup {None}
      BY DEF ProposalState, TaskState
    <3>5. /\ \A x \in Operator : x # o /\ opc[x] \in Attempt /\ chosen[x] = p
                              => "queueing" = "queue_unknown"
          /\ "queueing" = (IF "queueing" = "proposed" THEN "prepared" ELSE "queueing")
      BY <3>3
    <3>6. Move(p, "queueing", "queueing", o) /\ UNCHANGED pushes /\ prop[p] # None
      BY <2>1, <2>2
    <3>7. \/ CommandEnds(o)
          \/ /\ opc' = [opc EXCEPT ![o] = "expiry"] /\ UNCHANGED chosen /\ chosen[o] = p
             /\ "queueing" = "queueing" /\ o = o /\ pushes[p] = 0
      BY <2>2, <3>2
    <3> QED BY <1>0, <2>1, <3>1, <3>4, <3>5, <3>6, <3>7, MovedCommand
  <2>3. CASE /\ Current(p) /\ prop[p].state = "queueing"
             /\ Move(p, "queue_unknown", "queue_unknown", None) /\ CommandEnds(o)
    <3>1. task[prop[p].event].proposal = p
      BY <2>3 DEF Current
    <3>2. /\ "queue_unknown" \in ProposalState /\ "queue_unknown" \in TaskState
          /\ None \in Operator \cup {None}
      BY DEF ProposalState, TaskState
    <3> QED BY <1>0, <2>1, <2>3, <3>1, <3>2, MovedCommand
  <2>4. CASE CommandEnds(o) /\ UNCHANGED <<task, prop>>
    BY <1>0, <2>1, <2>4, EndingKeeps
  <2> QED BY <1>2, <2>2, <2>3, <2>4 DEF Claim
<1> QED BY <1>1, <1>2

\* What a command knows before each of its steps.
LEMMA KnownToCommand ==
  ASSUME IInv, NEW o \in Operator, opc[o] \in Attempt
  PROVE  /\ opc[o] \in {"expiry", "verify", "push", "release"} => pushes[chosen[o]] = 0
         /\ opc[o] = "mark" => pushes[chosen[o]] = 1
         /\ chosen[o] \in Proposal /\ prop[chosen[o]] # None
BY DEF IInv, ClaimsHeld, Claimed, CallsRefer, Attempt

\* The push, which is the only step that sends an edit.
LEMMA PushKeeps ==
  ASSUME IInv, schema = 2, NEW o \in Operator, Push(o)
  PROVE  IInv'
<1> DEFINE p == chosen[o]
<1>0. CommandFrame
  BY FrameOfCommands DEF Approve, Finish
<1>1. TypeOK /\ opc[o] = "push" /\ UNCHANGED <<schema, task, prop, chosen>>
  BY DEF Push, IInv, store
<1>2. p \in Proposal /\ pushes[p] = 0 /\ prop[p] # None /\ opc[o] \in Attempt
  BY <1>1, KnownToCommand DEF Attempt
<1>3. CASE UNCHANGED pushes
  <2>1. PICK pc \in {"release", "unknown"} : opc' = [opc EXCEPT ![o] = pc]
    <3>1. pushes' # [pushes EXCEPT ![p] = @ + 1]
      BY <1>1, <1>2, <1>3 DEF TypeOK
    <3> QED BY <3>1 DEF Push, AfterError
  <2>2. pc \in Attempt /\ pc # "mark"
    BY DEF Attempt
  <2> QED BY <1>0, <1>1, <1>2, <1>3, <2>1, <2>2, GoingOnKeeps
<1>4. CASE pushes' = [pushes EXCEPT ![p] = @ + 1]
  <2>1. PICK pc \in {"mark", "unknown"} : opc' = [opc EXCEPT ![o] = pc]
    <3>1. pushes' # pushes
      BY <1>1, <1>2, <1>4 DEF TypeOK
    <3> QED BY <3>1 DEF Push, AfterError
  <2>2. /\ pushes' \in [Proposal -> Nat] /\ pushes'[p] = 1
        /\ \A q \in Proposal : q # p => pushes'[q] = pushes[q]
    BY <1>1, <1>2, <1>4 DEF TypeOK
  <2>3. /\ opc' \in [Operator -> {"idle", "confirm"} \cup Attempt] /\ opc'[o] = pc
        /\ \A x \in Operator : x # o => opc'[x] = opc[x]
    BY <1>1, <2>1 DEF TypeOK, Attempt
  <2>4. TypeOK'
    BY <1>1, <2>2, <2>3, <1>0 DEF TypeOK, CommandFrame
  <2>5. \A x \in Operator : opc'[x] \in Attempt => opc[x] \in Attempt
    BY <1>2, <2>3
  <2>6. \A x \in Operator : x # o /\ opc[x] \in Attempt => chosen[x] # p
    BY <1>2 DEF IInv, ClaimsHeld
  <2>7. Claimed(o) /\ prop[p].state \in {"queueing", "queue_unknown"}
    BY <1>2 DEF IInv, ClaimsHeld, Claimed
  <2>8. ASSUME NEW x \in Operator, opc'[x] \in Attempt PROVE Claimed(x)'
    <3>1. CASE x = o
      BY <3>1, <1>1, <2>1, <2>2, <2>3, <2>7 DEF Claimed
    <3>2. CASE x # o
      <4>1. Claimed(x) /\ chosen[x] \in Proposal /\ chosen[x] # p
        BY <3>2, <2>5, <2>6, <2>8 DEF IInv, ClaimsHeld, CallsRefer, Attempt
      <4> QED BY <3>2, <4>1, <1>1, <2>2, <2>3 DEF Claimed
    <3> QED BY <3>1, <3>2
  <2>9. ClaimsHeld'
    BY <1>1, <2>5, <2>8 DEF ClaimsHeld, IInv
  <2>10. PushesRecorded'
    BY <1>1, <1>2, <2>2, <2>7 DEF PushesRecorded, IInv
  <2>11. TablesAgree' /\ NoEventIsLost'
    BY <1>0, <1>1 DEF CommandFrame, TablesAgree, Agree, NoEventIsLost, IInv
  <2>12. CallsRefer'
    <3>1. \A x \in Operator : opc'[x] # "idle" => chosen[x] \in Proposal /\ prop[chosen[x]] # None
      BY <1>2, <2>3 DEF CallsRefer, IInv
    <3> QED BY <3>1, <1>0, <1>1 DEF CallsRefer, IInv, CommandFrame
  <2> QED BY <2>4, <2>9, <2>10, <2>11, <2>12 DEF IInv
<1> QED BY <1>3, <1>4 DEF Push

\* queue_reviewed_fix after the claim.
LEMMA FinishKeeps ==
  ASSUME IInv, schema = 2, NEW o \in Operator, Finish(o) \/ OperatorCrash(o)
  PROVE  IInv'
<1>0. CommandFrame
  BY FrameOfCommands DEF Approve
<1>1. CASE CheckExpiry(o) \/ Verify(o)
  <2>1. /\ opc[o] \in {"expiry", "verify"} /\ UNCHANGED <<task, prop, pushes, chosen>>
    BY <1>1 DEF CheckExpiry, Verify, store
  <2>2. PICK pc \in {"verify", "push", "release"} : opc' = [opc EXCEPT ![o] = pc]
    BY <1>1 DEF CheckExpiry, Verify, AfterMismatch
  <2>3. opc[o] \in Attempt /\ pc \in Attempt /\ pc # "mark"
    BY <2>1 DEF Attempt
  <2>4. pushes[chosen[o]] = 0
    BY <2>1, <2>3, KnownToCommand
  <2> QED BY <1>0, <2>1, <2>2, <2>3, <2>4, GoingOnKeeps
<1>2. CASE Push(o)
  BY <1>2, PushKeeps
<1>3. CASE Release(o)
  <2>1. opc[o] \in Attempt /\ pushes[chosen[o]] = 0 /\ UNCHANGED pushes /\ CommandEnds(o)
    BY <1>3, KnownToCommand DEF Release, Attempt
  <2>2. CASE Holds(o) /\ Move(chosen[o], "prepared", "proposed", None)
    <3>1. "prepared" \in ProposalState /\ "proposed" \in TaskState
      BY DEF ProposalState, TaskState
    <3> QED BY <1>0, <2>1, <2>2, <3>1, ConcludingKeeps
  <2>3. CASE UNCHANGED <<task, prop>>
    BY <1>0, <2>1, <2>3, EndingKeeps
  <2> QED BY <1>3, <2>2, <2>3 DEF Release
<1>4. CASE MarkQueued(o)
  <2>1. opc[o] \in Attempt /\ pushes[chosen[o]] = 1 /\ UNCHANGED pushes
    BY <1>4, KnownToCommand DEF MarkQueued, Attempt
  <2>2. CASE Holds(o) /\ Move(chosen[o], "queued", "queued", None) /\ CommandEnds(o)
    <3>1. "queued" \in ProposalState /\ "queued" \in TaskState
      BY DEF ProposalState, TaskState
    <3> QED BY <1>0, <2>1, <2>2, <3>1, ConcludingKeeps
  <2>3. CASE opc' = [opc EXCEPT ![o] = "unknown"] /\ UNCHANGED <<task, prop, chosen>>
    <3>1. "unknown" \in Attempt
      BY DEF Attempt
    <3> QED BY <1>0, <2>1, <2>3, <3>1, GoingOnKeeps
  <2> QED BY <1>4, <2>2, <2>3 DEF MarkQueued
<1>5. CASE MarkUnknown(o)
  <2>1. opc[o] \in Attempt /\ UNCHANGED pushes /\ CommandEnds(o)
    BY <1>5 DEF MarkUnknown, Attempt
  <2>2. CASE Holds(o) /\ Move(chosen[o], "queue_unknown", "queue_unknown", None)
    <3>1. "queue_unknown" \in ProposalState /\ "queue_unknown" \in TaskState
      BY DEF ProposalState, TaskState
    <3> QED BY <1>0, <2>1, <2>2, <3>1, ConcludingKeeps
  <2>3. CASE UNCHANGED <<task, prop>>
    BY <1>0, <2>1, <2>3, EndingKeeps
  <2> QED BY <1>5, <2>2, <2>3 DEF MarkUnknown
<1>6. CASE OperatorCrash(o)
  <2>1. UNCHANGED <<task, prop, pushes>> /\ CommandEnds(o)
    BY <1>6 DEF OperatorCrash, store
  <2> QED BY <1>0, <2>1, EndingKeeps
<1> QED BY <1>1, <1>2, <1>3, <1>4, <1>5, <1>6 DEF Finish

\* The migration: attempts become unknown, prepared proposals are superseded.
LEMMA OpenKeeps ==
  ASSUME IInv, Open
  PROVE  IInv'
<1> USE NoneAssumption
<1>1. TypeOK /\ UNCHANGED <<age, held, body, queue, cpc, call, opc, chosen, pushes, faults>>
  BY DEF IInv, Open, clock, broker, clerks, operators
<1>2. \A s \in ProposalState : Migrated(s) \in ProposalState
  BY DEF Migrated, ProposalState
<1>3. ASSUME NEW p \in Proposal
      PROVE  /\ prop[p] = None => prop'[p] = None
             /\ prop[p] # None =>
                  /\ prop'[p] \in ProposalRow /\ prop'[p] # None /\ prop'[p].event = prop[p].event
                  /\ prop'[p].state = Migrated(prop[p].state)
  <2>1. prop[p] = None => prop'[p] = None
    BY DEF Open
  <2>2. ASSUME prop[p] # None
        PROVE  /\ prop'[p] \in ProposalRow /\ prop'[p] # None /\ prop'[p].event = prop[p].event
               /\ prop'[p].state = Migrated(prop[p].state)
    <3>1. prop[p] \in ProposalRow /\ Migrated(prop[p].state) \in ProposalState
      BY <1>1, <1>2, <2>2 DEF TypeOK, ProposalRow
    <3>2. prop'[p] = [prop[p] EXCEPT !.state = Migrated(@), !.token = None]
      BY <2>2 DEF Open
    <3> QED BY <3>1, <3>2 DEF ProposalRow
  <2> QED BY <2>1, <2>2
<1>4. ASSUME NEW e \in Event
      PROVE  /\ task[e] = None => task'[e] = None
             /\ task[e] # None =>
                  /\ task'[e] \in TaskRow /\ task'[e] # None
                  /\ task[e].state = "proposed" => task'[e].state = "pending" /\ task'[e].proposal = None
                  /\ task[e].state = "queueing" =>
                       task'[e].state = "queue_unknown" /\ task'[e].proposal = task[e].proposal
                  /\ task[e].state \notin {"proposed", "queueing"} => task'[e] = task[e]
  <2>1. task[e] = None => task'[e] = None
    BY DEF Open
  <2>2. ASSUME task[e] # None
        PROVE  /\ task'[e] \in TaskRow /\ task'[e] # None
               /\ task[e].state = "proposed" => task'[e].state = "pending" /\ task'[e].proposal = None
               /\ task[e].state = "queueing" =>
                    task'[e].state = "queue_unknown" /\ task'[e].proposal = task[e].proposal
               /\ task[e].state \notin {"proposed", "queueing"} => task'[e] = task[e]
    <3>0. task'[e] = MigratedTask(task[e])
      BY <2>2 DEF Open
    <3>1. task[e] \in TaskRow /\ task'[e] = MigratedTask(task[e])
      BY <1>1, <2>2, <3>0 DEF TypeOK
    <3>2. CASE task[e].state = "proposed"
      <4>1. task'[e] = [task[e] EXCEPT !.state = "pending", !.proposal = None]
        BY <3>1, <3>2 DEF MigratedTask
      <4> QED BY <3>1, <3>2, <4>1 DEF TaskRow, TaskState
    <3>3. CASE task[e].state = "queueing"
      <4>1. task'[e] = [task[e] EXCEPT !.state = "queue_unknown"]
        BY <3>1, <3>3 DEF MigratedTask
      <4> QED BY <3>1, <3>3, <4>1 DEF TaskRow, TaskState
    <3>4. CASE task[e].state \notin {"proposed", "queueing"}
      BY <3>1, <3>4 DEF MigratedTask
    <3> QED BY <3>2, <3>3, <3>4
  <2> QED BY <2>1, <2>2
<1>5. /\ task' \in [Event -> TaskRow \cup {None}] /\ prop' \in [Proposal -> ProposalRow \cup {None}]
      /\ schema' = 2
  <2>1. task' = [e \in Event |-> task'[e]] /\ prop' = [p \in Proposal |-> prop'[p]] /\ schema' = 2
    BY DEF Open
  <2>2. \A e \in Event : task'[e] \in TaskRow \cup {None}
    BY <1>4
  <2>3. \A p \in Proposal : prop'[p] \in ProposalRow \cup {None}
    BY <1>3
  <2> QED BY <2>1, <2>2, <2>3
<1>6. TypeOK'
  BY <1>1, <1>5 DEF TypeOK
<1>7. \A e \in Event : task[e] # None => task'[e] # None
  BY <1>4
<1>8. \A p \in Proposal : prop'[p] # None => prop[p] # None
  BY <1>3
<1>9. \A p \in Proposal : prop[p] # None => prop[p].event \in Event /\ prop[p].state \in ProposalState
  BY <1>1 DEF TypeOK, ProposalRow
<1>10. TablesAgree'
  <2>1. ASSUME NEW p \in Proposal, prop'[p] # None
        PROVE  /\ task'[prop'[p].event] # None
               /\ task'[prop'[p].event].proposal # p => prop'[p].state = "superseded"
    <3>1. /\ prop[p] # None /\ prop'[p].event = prop[p].event /\ prop[p].event \in Event
          /\ prop'[p].state = Migrated(prop[p].state)
          /\ task[prop[p].event] # None
          /\ task[prop[p].event].proposal # p => prop[p].state = "superseded"
      BY <1>3, <1>8, <1>9, <2>1 DEF IInv, TablesAgree
    <3>2. CASE prop[p].state \in {"superseded", "prepared"}
      BY <3>1, <3>2, <1>4 DEF Migrated
    <3>3. CASE prop[p].state \notin {"superseded", "prepared"}
      <4> DEFINE e == prop[p].event
      <4>1. task[e].proposal = p /\ Agree(e) /\ p # None
        BY <3>1, <3>3 DEF IInv, TablesAgree
      <4>2. task[e].state # "proposed"
        BY <4>1, <3>3 DEF Agree
      <4>3. task'[e].proposal = p
        BY <3>1, <4>1, <4>2, <1>4
      <4> QED BY <3>1, <4>3, <1>4
    <3> QED BY <3>2, <3>3
  <2>2. ASSUME NEW e \in Event, task'[e] # None
        PROVE  Agree(e)'
    <3>1. task[e] # None /\ Agree(e)
      BY <1>4, <2>2 DEF IInv, TablesAgree
    <3>2. CASE task[e].state = "proposed"
      BY <3>1, <3>2, <1>4 DEF Agree
    <3>3. CASE task[e].state # "proposed" /\ task[e].proposal = None
      BY <3>1, <3>3, <1>4 DEF Agree
    <3>4. CASE task[e].state # "proposed" /\ task[e].proposal # None
      <4> DEFINE p == task[e].proposal
      <4>1. /\ p \in Proposal /\ prop[p] # None /\ prop[p].event = e /\ prop[p].state = task[e].state
            /\ task[e].state \in TaskState
        BY <3>1, <3>4, <1>1 DEF Agree, TypeOK, TaskRow
      <4>2. /\ prop'[p] # None /\ prop'[p].event = e
            /\ prop'[p].state = Migrated(task[e].state)
        BY <4>1, <1>3
      <4>3. task'[e].proposal = p /\ task'[e].state = Migrated(task[e].state)
        BY <3>1, <3>4, <4>1, <1>4 DEF Migrated, TaskState, Agree
      <4>4. task'[e].state # "pending" /\ task'[e].state # "proposed"
        BY <3>1, <3>4, <4>1, <4>3 DEF Migrated, Agree, TaskState
      <4> QED BY <3>4, <4>2, <4>3, <4>4 DEF Agree
    <3> QED BY <3>2, <3>3, <3>4
  <2> QED BY <2>1, <2>2 DEF TablesAgree
<1>11. PushesRecorded'
  <2>1. ASSUME NEW p \in Proposal
        PROVE  /\ pushes[p] \in {0, 1}
               /\ prop'[p] = None => pushes[p] = 0
               /\ prop'[p] # None =>
                    /\ prop'[p].state \in {"prepared", "superseded"} => pushes[p] = 0
                    /\ prop'[p].state = "queued" => pushes[p] = 1
    <3>1. CASE prop[p] = None
      BY <3>1, <1>3 DEF IInv, PushesRecorded
    <3>2. CASE prop[p] # None
      <4>1. prop'[p] # None /\ prop'[p].state = Migrated(prop[p].state) /\ prop[p].state \in ProposalState
        BY <3>2, <1>3, <1>9
      <4>2. /\ Migrated(prop[p].state) = "queued" => prop[p].state = "queued"
            /\ Migrated(prop[p].state) \in {"prepared", "superseded"}
                 => prop[p].state \in {"prepared", "superseded"}
        BY <4>1 DEF Migrated, ProposalState
      <4> QED BY <3>2, <4>1, <4>2 DEF IInv, PushesRecorded
    <3> QED BY <3>1, <3>2
  <2> QED BY <2>1, <1>1 DEF PushesRecorded
<1>12. \A o \in Operator : opc'[o] = "idle"
  BY <1>1 DEF Open, IInv, CallsRefer
<1>13. ClaimsHeld'
  BY <1>12 DEF ClaimsHeld, Attempt
<1>14. \A d \in Delivery : body[d] # Invalid => body[d].event \in Event
  BY <1>1 DEF TypeOK, Message
<1>15. NoEventIsLost'
  BY <1>1, <1>7, <1>14 DEF NoEventIsLost, IInv
<1>16. CallsRefer'
  <2>1. ASSUME NEW x \in Clerk
        PROVE  /\ cpc[x] \in {"accept", "ack"} => call[x].delivery \in Delivery
               /\ cpc[x] = "ack" => /\ body[call[x].delivery] # Invalid
                                    /\ task'[body[call[x].delivery].event] # None
               /\ cpc[x] \in {"lookup", "save"} =>
                    /\ call[x].event \in Event /\ call[x].contract \in Contract
                    /\ task'[call[x].event] # None
    BY <1>7, <1>14 DEF IInv, CallsRefer
  <2> QED BY <1>1, <1>12, <2>1 DEF CallsRefer
<1> QED BY <1>6, <1>10, <1>11, <1>13, <1>15, <1>16 DEF IInv

\* Time passes.
LEMMA TickKeeps ==
  ASSUME IInv, Tick
  PROVE  IInv'
<1>1. /\ TypeOK
      /\ UNCHANGED <<schema, task, prop, body, queue, cpc, call, opc, chosen, pushes, faults>>
  BY DEF IInv, Tick, store, broker, clerks, operators
<1>2. age' \in [Proposal -> 0..Validity] /\ held' \in [Proposal -> 0..Lease]
  BY <1>1, TimesAssumption DEF Tick, Older, TypeOK
<1>3. TypeOK'
  BY <1>1, <1>2 DEF TypeOK
<1> QED BY <1>1, <1>3 DEF IInv, CallsRefer, TablesAgree, Agree, ClaimsHeld, Claimed,
                          PushesRecorded, NoEventIsLost

-----------------------------------------------------------------------------
\* Every step of the inbox, its servers and its operators keeps the invariant.
THEOREM InboxInvariance == Spec => []IInv
<1>1. IInv /\ [Next]_vars => IInv'
  <2> SUFFICES ASSUME IInv, [Next]_vars PROVE IInv'
    OBVIOUS
  <2>1. CASE UNCHANGED vars
    <3>1. UNCHANGED <<schema, task, prop, age, held, body, queue, cpc, call, opc, chosen, pushes, faults>>
      BY <2>1 DEF vars, store, clock, broker, clerks, operators
    <3> QED BY <3>1 DEF IInv, TypeOK, CallsRefer, TablesAgree, Agree, ClaimsHeld, Claimed,
                        PushesRecorded, NoEventIsLost
  <2>2. CASE Open
    BY <2>2, OpenKeeps
  <2>3. ASSUME NEW c \in Clerk, Transfer(c) \/ Propose(c) \/ ClerkCrash(c) PROVE IInv'
    BY <2>3, ClerkSteps, AcceptKeeps, SaveKeeps DEF Transfer, Propose
  <2>4. ASSUME schema = 2, NEW o \in Operator, Approve(o) \/ OperatorCrash(o) PROVE IInv'
    BY <2>4, ClaimKeeps, FinishKeeps DEF Approve
  <2>5. CASE Tick
    BY <2>5, TickKeeps
  <2> QED BY <2>1, <2>2, <2>3, <2>4, <2>5 DEF Next
<1> QED BY <1>1, Initially, PTL DEF Spec

\* The variables of the model stay in their types.
THEOREM InboxIsTyped == Spec => []TypeOK
<1>1. IInv => TypeOK
  BY DEF IInv
<1> QED BY <1>1, InboxInvariance, PTL

\* transfer_next loses no event, whatever crashes and however often it is delivered.
THEOREM NoEventIsEverLost == Spec => []NoEventIsLost
<1>1. IInv => NoEventIsLost
  BY DEF IInv
<1> QED BY <1>1, InboxInvariance, PTL

\* SqliteWiktionaryReviewStore: the task and proposal tables agree in every state.
THEOREM RowsAlwaysAgree == Spec => []RowsAgree
<1>1. IInv => RowsAgree
  <2> SUFFICES ASSUME IInv, NEW e \in Event, task[e] # None
               PROVE  /\ task[e].proposal = None <=> task[e].state = "pending"
                      /\ task[e].proposal # None =>
                           /\ task[e].proposal \in Of(e)
                           /\ prop[task[e].proposal].state =
                                IF task[e].state = "proposed" THEN "prepared" ELSE task[e].state
                      /\ \A p \in Of(e) \ {task[e].proposal} : prop[p].state = "superseded"
    BY DEF RowsAgree
  <2>1. Agree(e) /\ task[e] \in TaskRow
    BY DEF IInv, TablesAgree, TypeOK
  <2>2. task[e].proposal # None => task[e].proposal \in Of(e)
    BY <2>1 DEF Agree, Of, TaskRow
  <2>3. \A p \in Of(e) \ {task[e].proposal} : prop[p].state = "superseded"
    BY DEF Of, IInv, TablesAgree
  <2> QED BY <2>1, <2>2, <2>3 DEF Agree
<1> QED BY <1>1, InboxInvariance, PTL

\* An edit was sent only for the proposal its task names.
LEMMA SentByNamed ==
  ASSUME IInv, NEW p \in Proposal, prop[p] # None, pushes[p] # 0
  PROVE  task[prop[p].event].proposal = p /\ pushes[p] = 1
BY NamedByItsTask DEF IInv, PushesRecorded

\* queue_reviewed_fix: an event sends at most one edit.
THEOREM OneEditIsSent == Spec => []OneEditPerEvent
<1>1. IInv => OneEditPerEvent
  <2> SUFFICES ASSUME IInv, NEW e \in Event, NEW p \in Of(e)
               PROVE  /\ pushes[p] <= 1
                      /\ pushes[p] = 1 => \A q \in Of(e) \ {p} : pushes[q] = 0
    BY DEF OneEditPerEvent
  <2>1. pushes[p] <= 1
    BY DEF Of, IInv, PushesRecorded
  <2>2. ASSUME pushes[p] = 1, NEW q \in Of(e) \ {p}, pushes[q] # 0
        PROVE  FALSE
    BY <2>2, SentByNamed DEF Of
  <2> QED BY <2>1, <2>2
<1> QED BY <1>1, InboxInvariance, PTL

-----------------------------------------------------------------------------
\* The inbox implements the outbox. The abstract variables, named.
Verdicts == [e \in Event |-> VerdictOf(e)]
Sents == [e \in Event |-> SentFor(e)]
Zero == [p \in Proposal |-> 0]
One(p) == [Zero EXCEPT ![p] = 1]

\* What each verdict says about the edits of its event.
LEMMA SentShape ==
  ASSUME IInv, NEW e \in Event
  PROVE  /\ VerdictOf(e) \in {"open", "busy", "queued", "unknown"}
         /\ SentFor(e) = Zero \/ \E p \in Proposal : SentFor(e) = One(p)
         /\ VerdictOf(e) = "open" => SentFor(e) = Zero
         /\ VerdictOf(e) = "queued" => \E p \in Proposal : SentFor(e) = One(p)
<1> USE NoneAssumption
<1>1. task[e] # None => task[e] \in TaskRow /\ task[e].state \in TaskState /\ Agree(e)
  BY DEF IInv, TypeOK, TaskRow, TablesAgree
<1>2. VerdictOf(e) \in {"open", "busy", "queued", "unknown"}
  BY <1>1 DEF VerdictOf, TaskState
<1>3. \A p \in Of(e) : task[e] # None /\ (pushes[p] # 0 => task[e].proposal = p /\ pushes[p] = 1)
  BY SentByNamed DEF Of, IInv, TablesAgree
<1>4. CASE \A p \in Of(e) : pushes[p] = 0
  <2>1. SentFor(e) = Zero
    BY <1>4 DEF SentFor, Zero
  <2>2. VerdictOf(e) # "queued"
    <3> SUFFICES ASSUME VerdictOf(e) = "queued" PROVE FALSE
      OBVIOUS
    <3>1. task[e] # None /\ task[e].state = "queued"
      BY <1>1 DEF VerdictOf, TaskState
    <3>2. /\ task[e].proposal \in Proposal /\ task[e].proposal \in Of(e)
          /\ prop[task[e].proposal] # None /\ prop[task[e].proposal].state = "queued"
      BY <1>1, <3>1 DEF Agree, TaskRow, Of
    <3> QED BY <3>2, <1>4 DEF IInv, PushesRecorded
  <2> QED BY <1>2, <2>1, <2>2
<1>5. CASE \E p \in Of(e) : pushes[p] # 0
  <2>1. PICK p \in Of(e) : pushes[p] # 0
    BY <1>5
  <2>2. p \in Proposal /\ task[e].proposal = p /\ pushes[p] = 1 /\ prop[p] # None /\ task[e] # None
    BY <1>3, <2>1 DEF Of
  <2>3. SentFor(e) = One(p)
    BY <1>3, <2>1, <2>2 DEF SentFor, One, Zero
  <2>4. VerdictOf(e) # "open"
    <3>1. prop[p].state \notin {"prepared", "superseded"}
      BY <2>2 DEF IInv, PushesRecorded
    <3>2. task[e].state \notin {"pending", "proposed"}
      BY <1>1, <2>2, <3>1 DEF Agree
    <3> QED BY <1>1, <2>2, <3>2 DEF VerdictOf, TaskState
  <2> QED BY <1>2, <2>2, <2>3, <2>4
<1> QED BY <1>4, <1>5

\* The abstract constants and actions in terms of these names.
LEMMA OutboxShape ==
  /\ outbox!Unsent = Zero
  /\ \A p \in Proposal : One(p) \in outbox!SentOnce
  /\ \A x : x \in outbox!SentOnce => \E p \in Proposal : x = One(p)
  /\ \A p \in Proposal : outbox!Once(p) = One(p)
BY DEF outbox!Unsent, outbox!SentOnce, outbox!Once, Zero, One

\* The initial states of the inbox, migrated or not, are initial states of the outbox.
LEMMA InitMaps == Init => outbox!Init
<1> SUFFICES ASSUME Init PROVE outbox!Init
  OBVIOUS
<1>1. IInv
  BY Initially
<1>2. \A e \in Event : VerdictOf(e) \in outbox!Verdict
  BY <1>1, SentShape DEF outbox!Verdict
<1>3. \A e \in Event : SentFor(e) \in outbox!SentOnce \cup {outbox!Unsent}
  BY <1>1, SentShape, OutboxShape
<1>4. \A e \in Event : /\ VerdictOf(e) = "open" => SentFor(e) = outbox!Unsent
                       /\ VerdictOf(e) = "queued" => SentFor(e) \in outbox!SentOnce
  BY <1>1, SentShape, OutboxShape
<1> QED BY <1>2, <1>3, <1>4 DEF outbox!Init

\* What a task's state says is said by its verdict.
Says(t) ==
  CASE t \in {"pending", "proposed"} -> "open" [] t = "queueing" -> "busy"
    [] t = "queued" -> "queued" [] t = "queue_unknown" -> "unknown"

\* Move maps to a change of the verdict.
LEMMA MoveMaps ==
  ASSUME IInv, NEW p \in Proposal, NEW e \in Event, NEW s \in ProposalState, NEW t \in TaskState,
         NEW tok \in Operator \cup {None},
         prop[p] # None, prop[p].event = e, task[e].proposal = p,
         t # "pending", s = (IF t = "proposed" THEN "prepared" ELSE t),
         Move(p, s, t, tok), UNCHANGED pushes
  PROVE  /\ prop[p].state = (IF task[e].state = "proposed" THEN "prepared" ELSE task[e].state)
         /\ Verdicts[e] = Says(task[e].state)
         /\ Verdicts' = [Verdicts EXCEPT ![e] = Says(t)]
         /\ Sents' = Sents
<1> USE NoneAssumption
<1>1. /\ task[e] # None /\ task[e] \in TaskRow /\ Agree(e) /\ task[e].state \in TaskState
      /\ task \in [Event -> TaskRow \cup {None}] /\ prop \in [Proposal -> ProposalRow \cup {None}]
  BY DEF IInv, TypeOK, TablesAgree, TaskRow
<1>2. /\ task'[e] \in TaskRow /\ task'[e].state = t /\ \A d \in Event : d # e => task'[d] = task[d]
  <2>1. task' = [task EXCEPT ![e] = [task[e] EXCEPT !.state = t]]
    BY DEF Move
  <2> QED BY <1>1, <2>1 DEF TaskRow
<1>3. /\ \A q \in Proposal : q # p => prop'[q] = prop[q]
      /\ prop'[p] # None /\ prop'[p].event = e
  BY MoveKeeps
<1>4. \A d \in Event : SentFor(d)' = SentFor(d)
  BY <1>3 DEF SentFor, Of
<1>5. ASSUME NEW d \in Event, d # e PROVE VerdictOf(d)' = VerdictOf(d)
  <2>1. task'[d] = task[d]
    BY <1>2, <1>5
  <2>2. task[d] # None => task[d].state \in TaskState
    BY <1>1 DEF TaskRow
  <2> QED BY <2>1, <2>2 DEF VerdictOf, TaskState
<1>6. VerdictOf(e)' = Says(t)
  <2>1. task'[e] # None
    BY <1>2
  <2> QED BY <1>2, <2>1 DEF VerdictOf, TaskState, Says
<1>7. VerdictOf(e) = Says(task[e].state)
  BY <1>1 DEF VerdictOf, TaskState, Says
<1>8. Verdicts' = [Verdicts EXCEPT ![e] = Says(t)]
  BY <1>5, <1>6 DEF Verdicts
<1>9. Sents' = Sents
  BY <1>4 DEF Sents
<1>10. Verdicts[e] = Says(task[e].state)
  BY <1>7 DEF Verdicts
<1>11. prop[p].state = IF task[e].state = "proposed" THEN "prepared" ELSE task[e].state
  BY <1>1 DEF Agree
<1> QED BY <1>8, <1>9, <1>10, <1>11

\* Verdicts and edits that stay are a stuttering step.
LEMMA NothingMaps ==
  ASSUME Verdicts' = Verdicts, Sents' = Sents
  PROVE  [outbox!Next]_outbox!vars
BY DEF Verdicts, Sents, outbox!vars

\* Rows that keep their states and owners.
LEMMA RowsStayMaps ==
  ASSUME IInv, UNCHANGED <<task, prop, pushes>>
  PROVE  [outbox!Next]_outbox!vars
<1>1. \A e \in Event : VerdictOf(e)' = VerdictOf(e) /\ SentFor(e)' = SentFor(e)
  BY DEF VerdictOf, SentFor, Of
<1> QED BY <1>1, NothingMaps DEF Verdicts, Sents

\* accept_task and save_proposal change no verdict.
LEMMA ClerkMaps ==
  ASSUME IInv, NEW c \in Clerk, Transfer(c) \/ Propose(c) \/ ClerkCrash(c)
  PROVE  [outbox!Next]_outbox!vars
<1> USE NoneAssumption
<1>1. CASE UNCHANGED <<task, prop, pushes>>
  BY <1>1, RowsStayMaps
<1>2. CASE Accept(c)
  <2> DEFINE m == body[call[c].delivery]
             new == [payload |-> m.payload, state |-> "pending", proposal |-> None]
  <2>1. UNCHANGED <<prop, pushes>>
    BY <1>2 DEF Accept
  <2>2. CASE m # Invalid /\ task[m.event] = None /\ task' = [task EXCEPT ![m.event] = new]
    <3>1. m.event \in Event /\ m.payload \in Payload
      BY <1>2, <2>2 DEF Accept, IInv, CallsRefer, TypeOK, Message
    <3>2. \A e \in Event : VerdictOf(e)' = VerdictOf(e)
      <4>1. \A e \in Event : e # m.event => task'[e] = task[e]
        BY <2>2, <3>1 DEF IInv, TypeOK
      <4>2. task'[m.event] = new /\ new.state = "pending"
        BY <2>2, <3>1 DEF IInv, TypeOK
      <4>3. ASSUME NEW e \in Event PROVE VerdictOf(e)' = VerdictOf(e)
        <5>1. CASE e = m.event
          BY <5>1, <4>2, <2>2 DEF VerdictOf
        <5>2. CASE e # m.event
          <6>1. task[e] # None => task[e].state \in TaskState
            BY DEF IInv, TypeOK, TaskRow
          <6>2. task'[e] = task[e]
            BY <5>2, <4>1
          <6> QED BY <6>1, <6>2 DEF VerdictOf, TaskState
        <5> QED BY <5>1, <5>2
      <4> QED BY <4>3
    <3>3. \A e \in Event : SentFor(e)' = SentFor(e)
      BY <2>1 DEF SentFor, Of
    <3> QED BY <3>2, <3>3, NothingMaps DEF Verdicts, Sents
  <2>3. CASE UNCHANGED task
    BY <2>1, <2>3, RowsStayMaps
  <2> QED BY <1>2, <2>2, <2>3 DEF Accept
<1>3. CASE Save(c) /\ ~UNCHANGED <<task, prop, pushes>>
  <2> DEFINE f == call[c].event
             new == [event |-> f, contract |-> call[c].contract, state |-> "prepared",
                     token |-> None, legacy |-> FALSE]
  <2>0. /\ UNCHANGED pushes /\ f \in Event /\ call[c].contract \in Contract
        /\ task[f] # None /\ task[f] \in TaskRow
    BY <1>3 DEF Save, IInv, CallsRefer, TypeOK
  <2>1. PICK p \in Proposal :
          /\ \/ prop[p] = None
             \/ SameFix(c, p) /\ age[p] = 0 /\ prop[p].state = "prepared"
          /\ prop' = [x \in Proposal |->
               CASE x = p -> new
                 [] x # p /\ prop[x] # None /\ prop[x].event = f /\ prop[x].state = "prepared" ->
                      [prop[x] EXCEPT !.state = "superseded"]
                 [] OTHER -> prop[x]]
          /\ task' = [task EXCEPT ![f].state = "proposed", ![f].proposal = p]
          /\ SaveAllowed(task[f])
    BY <1>3, <2>0 DEF Save
  <2>2. pushes[p] = 0
    BY <2>1 DEF IInv, PushesRecorded
  <2>3. /\ new \in ProposalRow /\ prop'[p] = new /\ new.event = f
        /\ prop[p] # None => prop[p].event = f
    BY <2>0, <2>1 DEF ProposalRow, ProposalState, SameFix
  <2>4. ASSUME NEW x \in Proposal, x # p
        PROVE  /\ prop[x] = None <=> prop'[x] = None
               /\ prop[x] # None => prop'[x].event = prop[x].event
    <3>1. CASE prop[x] # None /\ prop[x].event = f /\ prop[x].state = "prepared"
      <4>1. prop'[x] = [prop[x] EXCEPT !.state = "superseded"] /\ prop[x] \in ProposalRow
        BY <2>1, <2>4, <3>1 DEF IInv, TypeOK
      <4>2. prop'[x] \in ProposalRow
        BY <4>1 DEF ProposalRow, ProposalState
      <4> QED BY <3>1, <4>1, <4>2 DEF ProposalRow
    <3>2. CASE ~(prop[x] # None /\ prop[x].event = f /\ prop[x].state = "prepared")
      BY <2>1, <2>4, <3>2
    <3> QED BY <3>1, <3>2
  <2>5. ASSUME NEW e \in Event PROVE SentFor(e)' = SentFor(e)
    <3>1. \A x \in Proposal : x # p => (x \in Of(e)' <=> x \in Of(e))
      BY <2>4 DEF Of
    <3>2. \A x \in Proposal : (IF x \in Of(e)' THEN pushes'[x] ELSE 0)
                            = (IF x \in Of(e) THEN pushes[x] ELSE 0)
      BY <2>0, <2>2, <3>1
    <3> QED BY <3>2 DEF SentFor
  <2>6. ASSUME NEW e \in Event PROVE VerdictOf(e)' = VerdictOf(e)
    <3>1. CASE e = f
      <4>1. task'[f] = [task[f] EXCEPT !.state = "proposed", !.proposal = p]
        BY <2>0, <2>1 DEF IInv, TypeOK
      <4>2. task'[f] \in TaskRow /\ task'[f].state = "proposed"
        BY <2>0, <4>1 DEF TaskRow, TaskState
      <4>3. VerdictOf(e) = "open"
        BY <2>0, <2>1, <3>1 DEF VerdictOf, SaveAllowed
      <4>4. VerdictOf(e)' = "open"
        BY <3>1, <4>2 DEF VerdictOf
      <4> QED BY <3>1, <4>3, <4>4
    <3>2. CASE e # f
      <4>1. task[e] # None => task[e].state \in TaskState
        BY DEF IInv, TypeOK, TaskRow
      <4>2. task'[e] = task[e]
        BY <2>0, <2>1, <3>2 DEF IInv, TypeOK
      <4> QED BY <4>1, <4>2 DEF VerdictOf, TaskState
    <3> QED BY <3>1, <3>2
  <2> QED BY <2>5, <2>6, NothingMaps DEF Verdicts, Sents
<1>4. (Transfer(c) \/ Propose(c) \/ ClerkCrash(c)) /\ ~Accept(c) /\ ~Save(c)
        => UNCHANGED <<task, prop, pushes>>
  BY DEF Transfer, Propose, ClerkCrash, Take, Ack, Prepare, Lookup, store
<1> QED BY <1>1, <1>2, <1>3, <1>4

\* An abstract step that records another verdict for one event.
LEMMA RecordMaps ==
  ASSUME NEW e \in Event, NEW from, NEW to,
         Verdicts[e] = from, Verdicts' = [Verdicts EXCEPT ![e] = to], Sents' = Sents
  PROVE  outbox!Record(e, from, to)
<1>1. Verdicts[e] = VerdictOf(e)
  BY DEF Verdicts
<1> QED BY <1>1 DEF Verdicts, Sents, outbox!Record

\* An attempt that nobody can decide any more.
LEMMA DoubtMaps ==
  ASSUME IInv, NEW p \in Proposal, prop[p] # None, prop[p].state = "queueing",
         task[prop[p].event].proposal = p, UNCHANGED pushes,
         Move(p, "queue_unknown", "queue_unknown", None)
  PROVE  outbox!Next
<1>1. PICK e \in Event : prop[p].event = e
  BY DEF IInv, TypeOK, ProposalRow
<1>2. /\ "queue_unknown" \in ProposalState /\ "queue_unknown" \in TaskState
      /\ None \in Operator \cup {None}
  BY DEF ProposalState, TaskState
<1>3. /\ prop[p].state = (IF task[e].state = "proposed" THEN "prepared" ELSE task[e].state)
      /\ Verdicts[e] = Says(task[e].state)
      /\ Verdicts' = [Verdicts EXCEPT ![e] = Says("queue_unknown")] /\ Sents' = Sents
  BY <1>1, <1>2, MoveMaps
<1>4. Says("queueing") = "busy" /\ Says("queue_unknown") = "unknown" /\ task[e].state = "queueing"
  BY <1>3 DEF Says
<1>5. VerdictOf(e) = "busy"
  BY <1>3, <1>4 DEF Verdicts
<1>6. Verdicts' = [i \in Event |-> IF i \in {e} THEN "unknown" ELSE VerdictOf(i)]
  BY <1>3, <1>4 DEF Verdicts
<1>7. outbox!Doubt({e})
  BY <1>3, <1>5, <1>6 DEF outbox!Doubt, Verdicts, Sents
<1>8. {e} \in SUBSET Event
  OBVIOUS
<1> QED BY <1>7, <1>8 DEF outbox!Next

\* The commands: a claim begins an attempt, its end concludes it, and an outlived lease
\* leaves it in doubt.
LEMMA CommandMaps ==
  ASSUME IInv, schema = 2, NEW o \in Operator, Approve(o) \/ OperatorCrash(o)
  PROVE  [outbox!Next]_outbox!vars
<1> USE NoneAssumption
<1> DEFINE p == chosen[o]
<1>1. CASE UNCHANGED <<task, prop, pushes>>
  BY <1>1, RowsStayMaps
<1>2. CASE Claim(o) /\ Current(p) /\ Claimable(p) /\ Move(p, "queueing", "queueing", o)
  <2>1. /\ p \in Proposal /\ prop[p] # None /\ UNCHANGED pushes /\ prop[p].state = "prepared"
    BY <1>2 DEF Claim, IInv, CallsRefer, Claimable
  <2>2. PICK e \in Event : prop[p].event = e /\ task[e].proposal = p
    BY <1>2, <2>1 DEF IInv, TypeOK, ProposalRow, Current
  <2>3. "queueing" \in ProposalState /\ "queueing" \in TaskState /\ o \in Operator \cup {None}
    BY DEF ProposalState, TaskState
  <2>4. /\ prop[p].state = (IF task[e].state = "proposed" THEN "prepared" ELSE task[e].state)
        /\ Verdicts[e] = Says(task[e].state)
        /\ Verdicts' = [Verdicts EXCEPT ![e] = Says("queueing")] /\ Sents' = Sents
    BY <1>2, <2>1, <2>2, <2>3, MoveMaps
  <2>5. task[e].state = "proposed"
    BY <2>1, <2>2, <2>4 DEF IInv, TablesAgree, TypeOK, TaskRow, TaskState
  <2>6. Says("proposed") = "open" /\ Says("queueing") = "busy"
    BY DEF Says
  <2>7. outbox!Begin(e)
    BY <2>4, <2>5, <2>6, RecordMaps DEF outbox!Begin
  <2> QED BY <2>7 DEF outbox!Next
<1>3. CASE Claim(o) /\ Current(p) /\ prop[p].state = "queueing"
             /\ Move(p, "queue_unknown", "queue_unknown", None)
  <2>1. /\ p \in Proposal /\ prop[p] # None /\ UNCHANGED pushes
    BY <1>3 DEF Claim, IInv, CallsRefer
  <2> QED BY <1>3, <2>1, NamedByItsTask, DoubtMaps
<1>4. CASE /\ opc[o] \in Attempt /\ Holds(o) /\ UNCHANGED pushes
           /\ Move(p, "queue_unknown", "queue_unknown", None)
  <2>1. p \in Proposal /\ prop[p] # None /\ prop[p].state = "queueing"
    BY <1>4, KnownToCommand DEF Holds
  <2> QED BY <1>4, <2>1, NamedByItsTask, DoubtMaps
<1>5. CASE /\ opc[o] \in Attempt /\ Holds(o) /\ UNCHANGED pushes
           /\ \/ opc[o] = "release" /\ Move(p, "prepared", "proposed", None)
              \/ opc[o] = "mark" /\ Move(p, "queued", "queued", None)
  <2>1. /\ p \in Proposal /\ prop[p] # None /\ prop[p].state = "queueing"
        /\ opc[o] = "release" => pushes[p] = 0
        /\ opc[o] = "mark" => pushes[p] = 1
    BY <1>5, KnownToCommand DEF Holds
  <2>2. PICK e \in Event : prop[p].event = e /\ task[e].proposal = p
    <3>1. prop[p].event \in Event
      BY <2>1 DEF IInv, TypeOK, ProposalRow
    <3>2. task[prop[p].event].proposal = p
      BY <2>1, NamedByItsTask
    <3> QED BY <3>1, <3>2
  <2>3. \A q \in Of(e) : q # p => pushes[q] = 0
    BY <2>1, <2>2, SentByNamed DEF Of
  <2>4. p \in Of(e) /\ Sents[e] = SentFor(e)
    BY <2>1, <2>2 DEF Of, Sents
  <2>5. Says("queueing") = "busy" /\ Says("proposed") = "open" /\ Says("queued") = "queued"
    BY DEF Says
  <2>6. CASE opc[o] = "release" /\ Move(p, "prepared", "proposed", None)
    <3>1. "prepared" \in ProposalState /\ "proposed" \in TaskState /\ None \in Operator \cup {None}
      BY DEF ProposalState, TaskState
    <3>2. /\ prop[p].state = (IF task[e].state = "proposed" THEN "prepared" ELSE task[e].state)
          /\ Verdicts[e] = Says(task[e].state)
          /\ Verdicts' = [Verdicts EXCEPT ![e] = Says("proposed")] /\ Sents' = Sents
      BY <1>5, <2>1, <2>2, <2>6, <3>1, MoveMaps
    <3>3. task[e].state = "queueing"
      BY <2>1, <3>2
    <3>4. outbox!Record(e, "busy", "open")
      BY <2>5, <3>2, <3>3, RecordMaps
    <3>5. SentFor(e) = outbox!Unsent
      BY <2>1, <2>3, <2>6 DEF SentFor, outbox!Unsent
    <3>6. outbox!Abort(e)
      BY <3>4, <3>5 DEF outbox!Abort
    <3> QED BY <3>6 DEF outbox!Next
  <2>7. CASE opc[o] = "mark" /\ Move(p, "queued", "queued", None)
    <3>1. "queued" \in ProposalState /\ "queued" \in TaskState /\ None \in Operator \cup {None}
      BY DEF ProposalState, TaskState
    <3>2. /\ prop[p].state = (IF task[e].state = "proposed" THEN "prepared" ELSE task[e].state)
          /\ Verdicts[e] = Says(task[e].state)
          /\ Verdicts' = [Verdicts EXCEPT ![e] = Says("queued")] /\ Sents' = Sents
      BY <1>5, <2>1, <2>2, <2>7, <3>1, MoveMaps
    <3>3. task[e].state = "queueing"
      BY <2>1, <3>2
    <3>4. outbox!Record(e, "busy", "queued")
      BY <2>5, <3>2, <3>3, RecordMaps
    <3>5. SentFor(e) = One(p)
      BY <2>1, <2>3, <2>4, <2>7 DEF SentFor, One, Zero
    <3>6. SentFor(e) \in outbox!SentOnce
      BY <2>1, <3>5, OutboxShape
    <3>7. outbox!Conclude(e)
      BY <3>4, <3>6 DEF outbox!Conclude
    <3> QED BY <3>7 DEF outbox!Next
  <2> QED BY <1>5, <2>6, <2>7
<1>6. CASE Push(o) /\ ~UNCHANGED pushes
  <2>1. /\ pushes' = [pushes EXCEPT ![p] = @ + 1] /\ UNCHANGED <<task, prop>> /\ opc[o] = "push"
    BY <1>6 DEF Push, store
  <2>2. p \in Proposal /\ prop[p] # None /\ pushes[p] = 0 /\ Claimed(o)
    BY <2>1, KnownToCommand DEF Attempt, IInv, ClaimsHeld
  <2>3. /\ pushes'[p] = 1 /\ \A q \in Proposal : q # p => pushes'[q] = pushes[q]
    BY <2>1, <2>2 DEF IInv, TypeOK
  <2>4. prop[p].state \in {"queueing", "queue_unknown"}
    BY <2>2 DEF Claimed
  <2>5. PICK e \in Event : prop[p].event = e /\ task[e].proposal = p
    <3>1. prop[p].event \in Event
      BY <2>2 DEF IInv, TypeOK, ProposalRow
    <3>2. task[prop[p].event].proposal = p
      BY <2>2, <2>4, NamedByItsTask
    <3> QED BY <3>1, <3>2
  <2>6. /\ task[e] # None /\ task[e].state = prop[p].state
    BY <2>2, <2>4, <2>5 DEF IInv, TablesAgree, Agree
  <2>7. VerdictOf(e) \in {"busy", "unknown"}
    BY <2>4, <2>6 DEF VerdictOf
  <2>8. \A q \in Of(e) : q # p => pushes[q] = 0
    BY <2>2, <2>5, SentByNamed DEF Of
  <2>9. SentFor(e) = Zero
    BY <2>2, <2>8 DEF SentFor, Zero
  <2>10. \A d \in Event : Of(d)' = Of(d)
    BY <2>1 DEF Of
  <2>11. p \in Of(e) /\ \A d \in Event : d # e => p \notin Of(d)
    BY <2>2, <2>5 DEF Of
  <2>12. SentFor(e)' = One(p)
    BY <2>2, <2>3, <2>8, <2>10, <2>11 DEF SentFor, One, Zero
  <2>13. ASSUME NEW d \in Event, d # e PROVE SentFor(d)' = SentFor(d)
    <3>1. \A q \in Proposal : (IF q \in Of(d)' THEN pushes'[q] ELSE 0)
                            = (IF q \in Of(d) THEN pushes[q] ELSE 0)
      BY <2>3, <2>10, <2>11, <2>13
    <3> QED BY <3>1 DEF SentFor
  <2>14. Sents' = [Sents EXCEPT ![e] = One(p)]
    BY <2>12, <2>13 DEF Sents
  <2>15. Verdicts' = Verdicts
    <3>1. \A d \in Event : VerdictOf(d)' = VerdictOf(d)
      BY <2>1 DEF VerdictOf
    <3> QED BY <3>1 DEF Verdicts
  <2>16. outbox!Once(p) = One(p) /\ outbox!Unsent = Zero
    BY <2>2, OutboxShape
  <2>17. PICK w \in Proposal : w = p
    BY <2>2
  <2>18. outbox!Send(e, w)
    BY <2>7, <2>9, <2>14, <2>15, <2>16, <2>17 DEF Verdicts, Sents, outbox!Send
  <2> QED BY <2>18 DEF outbox!Next
<1>7. Approve(o) => \/ UNCHANGED <<task, prop, pushes>>
                    \/ Claim(o) /\ Current(p) /\ Claimable(p) /\ Move(p, "queueing", "queueing", o)
                    \/ /\ Claim(o) /\ Current(p) /\ prop[p].state = "queueing"
                       /\ Move(p, "queue_unknown", "queue_unknown", None)
                    \/ /\ opc[o] \in Attempt /\ Holds(o) /\ UNCHANGED pushes
                       /\ Move(p, "queue_unknown", "queue_unknown", None)
                    \/ /\ opc[o] \in Attempt /\ Holds(o) /\ UNCHANGED pushes
                       /\ \/ opc[o] = "release" /\ Move(p, "prepared", "proposed", None)
                          \/ opc[o] = "mark" /\ Move(p, "queued", "queued", None)
                    \/ Push(o) /\ ~UNCHANGED pushes
  <2>1. Claim(o) => \/ UNCHANGED <<task, prop, pushes>>
                    \/ Claim(o) /\ Current(p) /\ Claimable(p) /\ Move(p, "queueing", "queueing", o)
                    \/ /\ Claim(o) /\ Current(p) /\ prop[p].state = "queueing"
                       /\ Move(p, "queue_unknown", "queue_unknown", None)
    BY DEF Claim
  <2>2. (\E q \in Proposal : Show(o, q)) \/ CheckExpiry(o) \/ Verify(o)
          => UNCHANGED <<task, prop, pushes>>
    BY DEF Show, CheckExpiry, Verify, store
  <2>3. Push(o) => UNCHANGED <<task, prop>>
    BY DEF Push, store
  <2>4. Release(o) => \/ UNCHANGED <<task, prop, pushes>>
                      \/ /\ opc[o] \in Attempt /\ Holds(o) /\ UNCHANGED pushes
                         /\ opc[o] = "release" /\ Move(p, "prepared", "proposed", None)
    BY DEF Release, Attempt
  <2>5. MarkQueued(o) => \/ UNCHANGED <<task, prop, pushes>>
                         \/ /\ opc[o] \in Attempt /\ Holds(o) /\ UNCHANGED pushes
                            /\ opc[o] = "mark" /\ Move(p, "queued", "queued", None)
    BY DEF MarkQueued, Attempt
  <2>6. MarkUnknown(o) => \/ UNCHANGED <<task, prop, pushes>>
                          \/ /\ opc[o] \in Attempt /\ Holds(o) /\ UNCHANGED pushes
                             /\ Move(p, "queue_unknown", "queue_unknown", None)
    BY DEF MarkUnknown, Attempt
  <2> QED BY <2>1, <2>2, <2>3, <2>4, <2>5, <2>6 DEF Approve, Finish
<1>8. OperatorCrash(o) => UNCHANGED <<task, prop, pushes>>
  BY DEF OperatorCrash, store
<1> QED BY <1>1, <1>2, <1>3, <1>4, <1>5, <1>6, <1>7, <1>8

\* The migration leaves the attempts under way in doubt.
LEMMA OpenMaps ==
  ASSUME IInv, Open
  PROVE  [outbox!Next]_outbox!vars
<1> USE NoneAssumption
<1> DEFINE undecided == {e \in Event : VerdictOf(e) = "busy"}
<1>1. UNCHANGED pushes /\ TypeOK
  BY DEF Open, IInv
<1>2. ASSUME NEW p \in Proposal
      PROVE  /\ prop[p] = None <=> prop'[p] = None
             /\ prop[p] # None => prop'[p].event = prop[p].event
  <2>1. CASE prop[p] = None
    BY <2>1 DEF Open
  <2>2. CASE prop[p] # None
    <3>1. prop[p] \in ProposalRow /\ prop'[p] = [prop[p] EXCEPT !.state = Migrated(@), !.token = None]
      BY <1>1, <2>2 DEF Open, TypeOK
    <3>2. Migrated(prop[p].state) \in ProposalState
      BY <3>1 DEF Migrated, ProposalRow, ProposalState
    <3>3. prop'[p] \in ProposalRow /\ prop'[p].event = prop[p].event
      BY <3>1, <3>2 DEF ProposalRow
    <3> QED BY <2>2, <3>3
  <2> QED BY <2>1, <2>2
<1>3. \A e \in Event : SentFor(e)' = SentFor(e)
  BY <1>1, <1>2 DEF SentFor, Of
<1>4. ASSUME NEW e \in Event
      PROVE  VerdictOf(e)' = IF e \in undecided THEN "unknown" ELSE VerdictOf(e)
  <2>1. CASE task[e] = None
    <3>1. task'[e] = None
      BY <2>1 DEF Open
    <3> QED BY <2>1, <3>1 DEF VerdictOf
  <2>2. CASE task[e] # None
    <3>0. task'[e] = MigratedTask(task[e]) /\ task[e] \in TaskRow
      <4>1. task'[e] = MigratedTask(task[e])
        BY <2>2 DEF Open
      <4>2. task[e] \in TaskRow
        BY <1>1, <2>2 DEF TypeOK
      <4> QED BY <4>1, <4>2
    <3>1. task[e] \in TaskRow /\ task'[e] = MigratedTask(task[e]) /\ task[e].state \in TaskState
      BY <3>0 DEF TaskRow
    <3>2. CASE task[e].state = "proposed"
      <4>1. task'[e] \in TaskRow /\ task'[e].state = "pending"
        BY <3>1, <3>2 DEF MigratedTask, TaskRow, TaskState
      <4> QED BY <2>2, <3>2, <4>1 DEF VerdictOf
    <3>3. CASE task[e].state = "queueing"
      <4>1. task'[e] \in TaskRow /\ task'[e].state = "queue_unknown"
        BY <3>1, <3>3 DEF MigratedTask, TaskRow, TaskState
      <4> QED BY <2>2, <3>3, <4>1 DEF VerdictOf
    <3>4. CASE task[e].state \notin {"proposed", "queueing"}
      <4>1. task'[e] = task[e]
        BY <3>1, <3>4 DEF MigratedTask
      <4> QED BY <2>2, <3>1, <3>4, <4>1 DEF VerdictOf, TaskState
    <3> QED BY <3>2, <3>3, <3>4
  <2> QED BY <2>1, <2>2
<1>5. outbox!Doubt(undecided)
  BY <1>3, <1>4 DEF outbox!Doubt
<1>6. undecided \in SUBSET Event
  OBVIOUS
<1> QED BY <1>5, <1>6 DEF outbox!Next

\* SqliteWiktionaryReviewStore with its servers and operators implements the outbox:
\* every step of theirs records a true verdict, sends an edit that was not sent, or
\* changes neither.
THEOREM InboxImplementsOutbox == Spec => InboxIsOutbox
<1>1. IInv /\ [Next]_vars => [outbox!Next]_outbox!vars
  <2> SUFFICES ASSUME IInv, [Next]_vars PROVE [outbox!Next]_outbox!vars
    OBVIOUS
  <2>1. CASE UNCHANGED vars
    BY <2>1, RowsStayMaps DEF vars, store
  <2>2. CASE Open
    BY <2>2, OpenMaps
  <2>3. ASSUME NEW c \in Clerk, Transfer(c) \/ Propose(c) \/ ClerkCrash(c)
        PROVE  [outbox!Next]_outbox!vars
    BY <2>3, ClerkMaps
  <2>4. ASSUME schema = 2, NEW o \in Operator, Approve(o) \/ OperatorCrash(o)
        PROVE  [outbox!Next]_outbox!vars
    BY <2>4, CommandMaps
  <2>5. CASE Tick
    BY <2>5, RowsStayMaps DEF Tick, store
  <2> QED BY <2>1, <2>2, <2>3, <2>4, <2>5 DEF Next
<1> QED BY <1>1, InitMaps, InboxInvariance, PTL DEF Spec, InboxIsOutbox, outbox!Spec
=============================================================================
