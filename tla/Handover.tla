------------------------------ MODULE Handover ------------------------------
(***************************************************************************)
(* What a store that hands its events over to a broker promises. A job has    *)
(* one event at most, which is recorded before it is sent and never replaced; *)
(* sending may be repeated, also by somebody who is late; and an event is     *)
(* concluded only after the broker has it.                                   *)
(***************************************************************************)
CONSTANTS
  Job,
  Content,   \* what an event may say
  None

VARIABLES
  event,      \* the event of a job, or None
  concluded,  \* jobs whose event counts as handed over
  sent        \* the events the broker has: {<<job, content>>}

vars == <<event, concluded, sent>>

Init == event = [j \in Job |-> None] /\ concluded = {} /\ sent = {}

Record(j, m) ==
  /\ event[j] = None
  /\ event' = [event EXCEPT ![j] = m]
  /\ UNCHANGED <<concluded, sent>>

Send(j) ==
  /\ event[j] # None
  /\ sent' = sent \cup {<<j, event[j]>>}
  /\ UNCHANGED <<event, concluded>>

Conclude(j) ==
  /\ <<j, event[j]>> \in sent
  /\ concluded' = concluded \cup {j}
  /\ UNCHANGED <<event, sent>>

Next == \E j \in Job : (\E m \in Content : Record(j, m)) \/ Send(j) \/ Conclude(j)

Spec == Init /\ [][Next]_vars
=============================================================================
