----------------------------- MODULE Deliveries -----------------------------
(***************************************************************************)
(* What a durable queue and consumers that settle every message themselves    *)
(* promise together. A message is with one consumer at most, who has no other *)
(* one; it is put back any number of times, and settled once. A message that  *)
(* owes some work is settled when the work is done, or, undone, only after it *)
(* was put back before; a malformed one is rejected. Only a message that was   *)
(* delivered is worked on, though perhaps by a consumer who has lost it.       *)
(***************************************************************************)
CONSTANTS Message, Consumer

VARIABLES
  owing,   \* messages that owe some work
  state,   \* where a message is
  holder,  \* the consumer who has it, as a set
  again,   \* messages that were put back
  done     \* messages whose work was done

vars == <<owing, state, holder, again, done>>

Init ==
  /\ owing \subseteq Message
  /\ state \in [Message -> {"new", "ready"}]
  /\ holder = [m \in Message |-> {}]
  /\ again = {} /\ done = {}

Put(m) ==
  /\ state[m] = "new"
  /\ state' = [state EXCEPT ![m] = "ready"]
  /\ UNCHANGED <<owing, holder, again, done>>

Take(m, c) ==
  /\ state[m] = "ready" /\ \A n \in Message : c \notin holder[n]
  /\ state' = [state EXCEPT ![m] = "held"]
  /\ holder' = [holder EXCEPT ![m] = {c}]
  /\ UNCHANGED <<owing, again, done>>

\* The message leaves its holder.
Release(m, to) ==
  /\ state[m] = "held"
  /\ state' = [state EXCEPT ![m] = to]
  /\ holder' = [holder EXCEPT ![m] = {}]

PutBack(m) ==
  /\ Release(m, "ready")
  /\ again' = again \cup {m}
  /\ UNCHANGED <<owing, done>>

Settle(m) ==
  /\ m \in owing => m \in done \cup again
  /\ Release(m, "settled")
  /\ UNCHANGED <<owing, again, done>>

Reject(m) == Release(m, "rejected") /\ UNCHANGED <<owing, again, done>>

Work(m) ==
  /\ state[m] # "new" /\ (state[m] = "ready" => m \in again)
  /\ done' = done \cup {m}
  /\ UNCHANGED <<owing, state, holder, again>>

Next ==
  \E m \in Message :
    \/ Put(m) \/ PutBack(m) \/ Settle(m) \/ Reject(m) \/ Work(m)
    \/ \E c \in Consumer : Take(m, c)

Spec == Init /\ [][Next]_vars
=============================================================================
