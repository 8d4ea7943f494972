----------------------------- MODULE EditFeeder -----------------------------
(***************************************************************************)
(* RabbitMqConsumer with the callback of rabbitmq_entry_translator: queued    *)
(* recent changes become translation jobs, and deletions on a source wiki     *)
(* mark the Malagasy page. The broker delivers a message again when its       *)
(* consumer dies or loses its connection, while the callback may go on.       *)
(***************************************************************************)
EXTENDS Naturals

CONSTANTS
  Change,       \* messages of the queue
  Feeder,       \* consumers
  PostAttempts, \* posts of one change while the translator is full
  MaxLosses,    \* bound of the connections lost and consumers that die
  NoChange

ASSUME FeederAssumption == NoChange \notin Change /\ PostAttempts \in Nat

VARIABLES
  kind,         \* what each message is about
  mail,         \* the broker's view of it
  target,       \* the Malagasy page of a deletion and its deletion markers
  feeders,      \* the callback that each consumer runs
  crowded,      \* the translator has more than MAX_TRANSLATOR_JOBS jobs
  losses,
  settledPage,  \* history: deletions whose page was found missing or marked, or was marked
  deliveries    \* history: how often a message was delivered

feederVars == <<kind, mail, target, feeders, crowded, losses, settledPage, deliveries>>

Waiting == [pc |-> "waiting", change |-> NoChange, posts |-> 0, read |-> 0, linked |-> TRUE]

FeederInit ==
  /\ kind \in [Change -> {"edit", "deletion", "log", "malformed"}]
  /\ mail = [m \in Change |-> [at |-> "ready", redelivered |-> FALSE]]
  /\ target \in [Change -> [exists : BOOLEAN, markers : {0}]]
  /\ feeders = [f \in Feeder |-> Waiting]
  /\ crowded = FALSE /\ losses = 0 /\ settledPage = {}
  /\ deliveries = [m \in Change |-> 0]

\* callback up to the first request: the message is decoded, and on_page_edit tells a
\* deletion from an edit; other entries of the deletion log are acknowledged.
Receive(f, m) ==
  /\ feeders[f].pc = "waiting" /\ mail[m].at = "ready"
  /\ mail' = [mail EXCEPT ![m].at = "held"]
  /\ deliveries' = [deliveries EXCEPT ![m] = @ + 1]
  /\ feeders' = [feeders EXCEPT ![f] =
       [Waiting EXCEPT !.change = m,
                       !.pc = CASE kind[m] = "malformed" -> "reject"
                                [] kind[m] = "log" -> "ack"
                                [] kind[m] = "edit" -> "poll"
                                [] kind[m] = "deletion" -> "look"]]
  /\ UNCHANGED <<kind, target, crowded, losses, settledPage>>

Goto(f, pc) ==
  /\ feeders' = [feeders EXCEPT ![f].pc = pc]
  /\ UNCHANGED <<kind, mail, crowded, losses, deliveries>>

\* on_page_edit_async, before the post: wait while the translator is crowded. An error
\* of either request is printed, and the message is acknowledged.
Poll(f) ==
  /\ feeders[f].pc = "poll"
  /\ \/ ~crowded /\ Goto(f, "post")
     \/ Goto(f, "ack")
  /\ UNCHANGED <<target, settledPage>>

\* The post of a job: answered, or refused with 503, which is retried.
PostJob(f) ==
  /\ feeders[f].pc = "post"
  /\ \/ Goto(f, "ack")
     \/ /\ feeders[f].posts + 1 < PostAttempts
        /\ feeders' = [feeders EXCEPT ![f].posts = @ + 1]
        /\ UNCHANGED <<kind, mail, crowded, losses, deliveries>>
  /\ UNCHANGED <<target, settledPage>>

\* A request fails. Some errors look to the callback like a message that is malformed.
Fails(f) == Goto(f, "fail") \/ Goto(f, "reject")

\* mark_page_for_deletion: exists, which a cached text of a missing page satisfies too.
Look(f) ==
  LET m == feeders[f].change IN
  /\ feeders[f].pc = "look"
  /\ \/ Goto(f, "read") /\ UNCHANGED settledPage
     \/ ~target[m].exists /\ Goto(f, "ack") /\ settledPage' = settledPage \cup {m}
     \/ Fails(f) /\ UNCHANGED settledPage
  /\ UNCHANGED target

\* _contains_delete_template
MarkerFound(m) == target[m].markers > 0

\* get with a forced refresh, and the search for a marker.
Read(f) ==
  LET m == feeders[f].change IN
  /\ feeders[f].pc = "read"
  /\ \/ /\ target[m].exists /\ ~MarkerFound(m)
        /\ feeders' = [feeders EXCEPT ![f].pc = "put", ![f].read = target[m].markers]
        /\ UNCHANGED <<kind, mail, crowded, losses, deliveries, settledPage>>
     \/ /\ ~target[m].exists \/ MarkerFound(m)
        /\ Goto(f, "ack") /\ settledPage' = settledPage \cup {m}
     \/ Fails(f) /\ UNCHANGED settledPage
  /\ UNCHANGED target

\* put with nocreate: the text that was read, with one marker more. The wiki may refuse
\* it, and an answer, or the cache, may fail after the edit was saved.
Put(f) ==
  LET m == feeders[f].change IN
  /\ feeders[f].pc = "put"
  /\ \/ /\ target[m].exists
        /\ target' = [target EXCEPT ![m].markers = feeders[f].read + 1]
        /\ Goto(f, "ack") \/ Fails(f)
        /\ settledPage' = settledPage \cup {m}
     \/ Fails(f) /\ UNCHANGED <<target, settledPage>>

\* Faulty: a message that failed is never put back.
AfterFailureDropped(m) == [at |-> "gone", redelivered |-> TRUE]
\* callback: a message that failed once is put back, and dropped the second time.
AfterFailure(m) ==
  [at |-> IF mail[m].redelivered THEN "gone" ELSE "ready", redelivered |-> TRUE]

\* Faulty: the ack or nack is sent on the connection that replaced the lost one.
SettleReconnected(f) ==
  LET m == feeders[f].change IN
  /\ feeders[f].pc \in {"reject", "ack", "fail"}
  /\ mail' = [mail EXCEPT ![m] =
               CASE feeders[f].pc = "fail" -> AfterFailure(m)
                 [] feeders[f].pc = "reject" -> [@ EXCEPT !.at = "rejected"]
                 [] feeders[f].pc = "ack" -> [@ EXCEPT !.at = "gone"]]
  /\ feeders' = [feeders EXCEPT ![f] = Waiting]
  /\ UNCHANGED <<kind, target, crowded, losses, settledPage, deliveries>>

\* callback ends with an ack or a nack, which a lost connection does not carry.
Settle(f) ==
  LET m == feeders[f].change IN
  /\ feeders[f].pc \in {"reject", "ack", "fail"}
  /\ mail' = IF ~feeders[f].linked THEN mail
             ELSE [mail EXCEPT ![m] =
                     CASE feeders[f].pc = "fail" -> AfterFailure(m)
                       [] feeders[f].pc = "reject" -> [@ EXCEPT !.at = "rejected"]
                       [] feeders[f].pc = "ack" -> [@ EXCEPT !.at = "gone"]]
  /\ feeders' = [feeders EXCEPT ![f] = Waiting]
  /\ UNCHANGED <<kind, target, crowded, losses, settledPage, deliveries>>

\* The connection is lost and the callback goes on, or the consumer dies; either way
\* the broker takes the message back.
Lose(f) ==
  LET m == feeders[f].change IN
  /\ losses < MaxLosses /\ losses' = losses + 1
  /\ feeders[f].pc # "waiting" /\ feeders[f].linked
  /\ mail' = [mail EXCEPT ![m] = [at |-> "ready", redelivered |-> TRUE]]
  /\ feeders' \in {[feeders EXCEPT ![f].linked = FALSE], [feeders EXCEPT ![f] = Waiting]}
  /\ UNCHANGED <<kind, target, crowded, settledPage, deliveries>>

\* The translator's load changes, and people delete or restore pages.
Surroundings ==
  /\ \/ crowded' = ~crowded /\ UNCHANGED target
     \/ /\ \E m \in Change : target' = [target EXCEPT ![m] = [exists |-> ~@.exists, markers |-> 0]]
        /\ UNCHANGED crowded
  /\ UNCHANGED <<kind, mail, feeders, losses, settledPage, deliveries>>

Feed(f) ==
  \/ Poll(f) \/ PostJob(f) \/ Look(f) \/ Read(f) \/ Put(f) \/ Settle(f)
  \/ \E m \in Change : Receive(f, m)

FeederNext == Surroundings \/ \E f \in Feeder : Feed(f) \/ Lose(f)

FeederSpec == FeederInit /\ [][FeederNext]_feederVars

-----------------------------------------------------------------------------
\* callback and mark_page_for_deletion, over redeliveries that overlap: no page gets a
\* second marker, and a deletion that was not rejected as malformed is dropped with its
\* page neither marked nor missing only after two deliveries of it failed.
DeletionsAreMarked ==
  \A m \in Change :
    /\ target[m].markers <= 1
    /\ kind[m] = "deletion" /\ mail[m].at = "gone" => m \in settledPage \/ deliveries[m] >= 2

Place(m) == IF mail[m].at = "gone" THEN "settled" ELSE mail[m].at
HasMessage(f, m) == feeders[f].pc # "waiting" /\ feeders[f].linked /\ feeders[f].change = m

mailbox == INSTANCE Deliveries WITH
  Message <- Change, Consumer <- Feeder,
  owing <- {m \in Change : kind[m] = "deletion"},
  state <- [m \in Change |-> Place(m)],
  holder <- [m \in Change |-> {f \in Feeder : HasMessage(f, m)}],
  again <- {m \in Change : mail[m].redelivered}, done <- settledPage

\* RabbitMqConsumer and its callback, over redeliveries that overlap: a change is with
\* one connected consumer at most and settled once, whatever a callback that outlived
\* its connection still does; a deletion is given up, with its page neither marked nor
\* missing, only after it was put back before or if it looked malformed.
ChangesAreDelivered == mailbox!Spec
=============================================================================
