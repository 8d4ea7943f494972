------------------------------- MODULE Outbox -------------------------------
(***************************************************************************)
(* What an outbox with an unreliable transport promises: every item is sent *)
(* at most once, in one of several ways, and the verdict that is recorded    *)
(* for it is true. "unknown" is the verdict of an attempt nobody can decide: *)
(* it may send late, and the item is left to a person.                       *)
(***************************************************************************)
EXTENDS Naturals

CONSTANTS
  Item,
  Way      \* the ways an item can be sent

VARIABLES
  verdict,   \* what is recorded about an item
  sent       \* how often it was sent in each way

vars == <<verdict, sent>>

Verdict == {"open", "busy", "queued", "unknown"}
Unsent == [w \in Way |-> 0]
Once(w) == [Unsent EXCEPT ![w] = 1]
SentOnce == {Once(w) : w \in Way}

\* An outbox may take over items of an earlier one.
Init ==
  /\ verdict \in [Item -> Verdict]
  /\ sent \in [Item -> SentOnce \cup {Unsent}]
  /\ \A i \in Item : verdict[i] = "open" => sent[i] = Unsent
  /\ \A i \in Item : verdict[i] = "queued" => sent[i] \in SentOnce

Record(i, from, to) ==
  /\ verdict[i] = from
  /\ verdict' = [verdict EXCEPT ![i] = to]
  /\ UNCHANGED sent

Begin(i) == Record(i, "open", "busy")
Abort(i) == sent[i] = Unsent /\ Record(i, "busy", "open")
Conclude(i) == sent[i] \in SentOnce /\ Record(i, "busy", "queued")

\* An outage may leave several attempts undecided.
Doubt(undecided) ==
  /\ \A i \in undecided : verdict[i] = "busy"
  /\ verdict' = [i \in Item |-> IF i \in undecided THEN "unknown" ELSE verdict[i]]
  /\ UNCHANGED sent

Send(i, w) ==
  /\ verdict[i] \in {"busy", "unknown"} /\ sent[i] = Unsent
  /\ sent' = [sent EXCEPT ![i] = Once(w)]
  /\ UNCHANGED verdict

Next ==
  \/ \E i \in Item : Begin(i) \/ Abort(i) \/ Conclude(i) \/ \E w \in Way : Send(i, w)
  \/ \E undecided \in SUBSET Item : Doubt(undecided)

Spec == Init /\ [][Next]_vars
=============================================================================
