-------------------------- MODULE EditFeederProofs --------------------------
(***************************************************************************)
(* Deletions are marked, for any number of messages, consumers and losses.   *)
(* The invariant follows a message between broker and consumers: only one     *)
(* consumer that is still connected has it, and what the broker took back     *)
(* was delivered before.                                                     *)
(***************************************************************************)
EXTENDS EditFeeder, TLAPS

FeederPc == {"waiting", "poll", "post", "look", "read", "put", "ack", "fail", "reject"}
FeederRecord ==
  [pc : FeederPc, change : Change \cup {NoChange}, posts : Nat, read : Nat, linked : BOOLEAN]
MailRecord == [at : {"ready", "held", "gone", "rejected"}, redelivered : BOOLEAN]

\* The types, and the texts that are read and written: none has a second marker.
FeederTypeOK ==
  /\ kind \in [Change -> {"edit", "deletion", "log", "malformed"}]
  /\ mail \in [Change -> MailRecord]
  /\ target \in [Change -> [exists : BOOLEAN, markers : 0..1]]
  /\ feeders \in [Feeder -> FeederRecord]
  /\ deliveries \in [Change -> Nat]

\* A consumer knows its message; one that is connected has it, and alone.
Working(f) == feeders[f].pc # "waiting"
Linked(f) == Working(f) /\ feeders[f].linked
MessagesHeld ==
  /\ \A f \in Feeder : Working(f) => feeders[f].change \in Change
  /\ \A f \in Feeder : Linked(f) => mail[feeders[f].change].at = "held"
  /\ \A f, g \in Feeder :
       Linked(f) /\ Linked(g) /\ feeders[f].change = feeders[g].change => f = g

\* What a message's flag says about its deliveries.
DeliveriesCounted ==
  \A m \in Change :
    /\ mail[m].at = "held" => deliveries[m] >= 1
    /\ mail[m].redelivered => deliveries[m] >= 1
    /\ mail[m].at = "held" /\ mail[m].redelivered => deliveries[m] >= 2

\* A deletion is acknowledged after its page was settled; a page is rewritten from a
\* text without a marker.
StepsJustified ==
  \A f \in Feeder :
    /\ feeders[f].pc = "put" => feeders[f].read = 0
    /\ feeders[f].pc \in {"poll", "post"} => kind[feeders[f].change] = "edit"
    /\ feeders[f].pc = "ack" /\ kind[feeders[f].change] = "deletion"
         => feeders[f].change \in settledPage

FeederInv ==
  FeederTypeOK /\ MessagesHeld /\ DeliveriesCounted /\ StepsJustified /\ DeletionsAreMarked

LEMMA FeederInitially == FeederInit => FeederInv
BY FeederAssumption
   DEF FeederInit, FeederInv, FeederTypeOK, MessagesHeld, DeliveriesCounted, StepsJustified,
       DeletionsAreMarked, Working, Linked, Waiting, FeederRecord, FeederPc, MailRecord

\* A consumer that is not connected, or waits, has no share in the broker's view.
LEMMA WaitingFacts ==
  /\ Waiting \in FeederRecord /\ Waiting.pc = "waiting"
  /\ \A m \in Change, pc \in FeederPc :
       LET w == [Waiting EXCEPT !.change = m, !.pc = pc] IN
       w \in FeederRecord /\ w.change = m /\ w.pc = pc /\ w.linked /\ w.read = 0
BY FeederAssumption DEF Waiting, FeederRecord, FeederPc

\* One consumer works on while the broker's view stays.
LEMMA WorkKeeps ==
  ASSUME FeederInv, NEW f \in Feeder, NEW rec \in FeederRecord,
         feeders' = [feeders EXCEPT ![f] = rec], UNCHANGED <<kind, mail, deliveries>>,
         Working(f), rec.pc # "waiting", rec.change = feeders[f].change,
         rec.linked = feeders[f].linked,
         rec.pc = "put" => rec.read = 0,
         rec.pc \in {"poll", "post"} => kind[rec.change] = "edit",
         rec.pc = "ack" /\ kind[rec.change] = "deletion" => rec.change \in settledPage',
         target' \in [Change -> [exists : BOOLEAN, markers : 0..1]],
         settledPage \subseteq settledPage'
  PROVE  FeederInv'
<1>1. FeederTypeOK
  BY DEF FeederInv
<1>2. feeders'[f] = rec /\ \A g \in Feeder : g # f => feeders'[g] = feeders[g]
  BY <1>1 DEF FeederTypeOK
<1>3. FeederTypeOK'
  BY <1>1 DEF FeederTypeOK
<1>4. \A g \in Feeder : /\ Working(g)' => Working(g) /\ feeders'[g].change = feeders[g].change
                        /\ Linked(g)' => Linked(g) /\ feeders'[g].change = feeders[g].change
  BY <1>2 DEF Working, Linked
<1>5. MessagesHeld'
  BY <1>4 DEF FeederInv, MessagesHeld
<1>6. DeliveriesCounted'
  BY DEF FeederInv, DeliveriesCounted
<1>7. StepsJustified'
  BY <1>2 DEF FeederInv, StepsJustified
<1>8. DeletionsAreMarked'
  BY DEF FeederInv, DeletionsAreMarked
<1> QED BY <1>3, <1>5, <1>6, <1>7, <1>8 DEF FeederInv

\* The forms that the next record takes.
LEMMA GotoFacts ==
  ASSUME FeederInv, NEW f \in Feeder, NEW pc \in FeederPc, Goto(f, pc)
  PROVE  LET rec == [feeders[f] EXCEPT !.pc = pc] IN
         /\ rec \in FeederRecord /\ rec.pc = pc /\ rec.change = feeders[f].change
         /\ rec.linked = feeders[f].linked /\ rec.read = feeders[f].read
         /\ feeders' = [feeders EXCEPT ![f] = rec]
         /\ UNCHANGED <<kind, mail, deliveries>>
BY DEF FeederInv, FeederTypeOK, FeederRecord, Goto

\* A consumer that goes on with another step, other than the rewriting of a page.
LEMMA GotoKeeps ==
  ASSUME FeederInv, NEW f \in Feeder, NEW pc \in FeederPc \ {"waiting", "put"}, Goto(f, pc), Working(f),
         pc \in {"poll", "post"} => kind[feeders[f].change] = "edit",
         pc = "ack" /\ kind[feeders[f].change] = "deletion" => feeders[f].change \in settledPage',
         target' \in [Change -> [exists : BOOLEAN, markers : 0..1]],
         settledPage \subseteq settledPage'
  PROVE  FeederInv'
<1> DEFINE rec == [feeders[f] EXCEPT !.pc = pc]
<1>1. /\ rec \in FeederRecord /\ rec.pc = pc /\ rec.change = feeders[f].change
      /\ rec.linked = feeders[f].linked
      /\ feeders' = [feeders EXCEPT ![f] = rec]
      /\ UNCHANGED <<kind, mail, deliveries>>
  BY GotoFacts
<1> HIDE DEF rec
<1> QED BY <1>1, WorkKeeps

LEMMA FailsKeep ==
  ASSUME FeederInv, NEW f \in Feeder, Fails(f), Working(f),
         target' \in [Change -> [exists : BOOLEAN, markers : 0..1]],
         settledPage \subseteq settledPage'
  PROVE  FeederInv'
<1>1. PICK pc \in {"fail", "reject"} : Goto(f, pc)
  BY DEF Fails
<1>2. pc \in FeederPc \ {"waiting", "put"} /\ pc \notin {"poll", "post", "ack"}
  BY DEF FeederPc
<1> QED BY <1>1, <1>2, GotoKeeps

\* The callback up to its answer.
LEMMA CallbackKeeps ==
  ASSUME FeederInv, NEW f \in Feeder,
         Poll(f) \/ PostJob(f) \/ Look(f) \/ Read(f) \/ Put(f)
  PROVE  FeederInv'
<1> DEFINE m == feeders[f].change
           Targets == [Change -> [exists : BOOLEAN, markers : 0..1]]
<1>1. Working(f) /\ FeederTypeOK /\ m \in Change
  BY DEF Poll, PostJob, Look, Read, Put, Working, FeederInv, MessagesHeld
<1>2. "post" \in FeederPc \ {"waiting", "put"} /\ "ack" \in FeederPc \ {"waiting", "put"}
      /\ "read" \in FeederPc \ {"waiting", "put"}
  BY DEF FeederPc
<1>3. CASE Poll(f)
  <2>1. UNCHANGED <<target, settledPage>> /\ kind[m] = "edit" /\ target' \in Targets
    BY <1>1, <1>3 DEF Poll, FeederInv, StepsJustified, FeederTypeOK
  <2> QED BY <1>1, <1>2, <1>3, <2>1, GotoKeeps DEF Poll
<1>4. CASE PostJob(f)
  <2>1. UNCHANGED <<target, settledPage>> /\ kind[m] = "edit" /\ target' \in Targets
        /\ feeders[f].pc = "post"
    BY <1>1, <1>4 DEF PostJob, FeederInv, StepsJustified, FeederTypeOK
  <2>2. CASE Goto(f, "ack")
    BY <1>1, <1>2, <2>1, <2>2, GotoKeeps
  <2>3. CASE feeders' = [feeders EXCEPT ![f].posts = @ + 1] /\ UNCHANGED <<kind, mail, deliveries>>
    <3> DEFINE rec == [feeders[f] EXCEPT !.posts = @ + 1]
    <3>1. /\ rec \in FeederRecord /\ rec.pc = "post" /\ rec.change = m
          /\ rec.linked = feeders[f].linked /\ feeders' = [feeders EXCEPT ![f] = rec]
      BY <1>1, <2>1, <2>3 DEF FeederTypeOK, FeederRecord
    <3> HIDE DEF rec
    <3> QED BY <1>1, <2>1, <2>3, <3>1, WorkKeeps
  <2> QED BY <1>4, <2>2, <2>3 DEF PostJob
<1>5. CASE Look(f)
  <2>1. UNCHANGED target /\ target' \in Targets
    BY <1>1, <1>5 DEF Look, FeederTypeOK
  <2>2. CASE Goto(f, "read") /\ UNCHANGED settledPage
    BY <1>1, <1>2, <2>1, <2>2, GotoKeeps
  <2>3. CASE Goto(f, "ack") /\ settledPage' = settledPage \cup {m}
    BY <1>1, <1>2, <2>1, <2>3, GotoKeeps
  <2>4. CASE Fails(f) /\ UNCHANGED settledPage
    BY <1>1, <2>1, <2>4, FailsKeep
  <2> QED BY <1>5, <2>2, <2>3, <2>4 DEF Look
<1>6. CASE Read(f)
  <2>1. UNCHANGED target /\ target' \in Targets
    BY <1>1, <1>6 DEF Read, FeederTypeOK
  <2>2. CASE /\ ~MarkerFound(m)
             /\ feeders' = [feeders EXCEPT ![f].pc = "put", ![f].read = target[m].markers]
             /\ UNCHANGED <<kind, mail, deliveries, settledPage>>
    <3>1. target[m].markers = 0
      BY <1>1, <2>2 DEF FeederTypeOK, MarkerFound
    <3> DEFINE rec == [feeders[f] EXCEPT !.pc = "put", !.read = 0]
    <3>2. /\ rec \in FeederRecord /\ rec.pc = "put" /\ rec.read = 0 /\ rec.change = m
          /\ rec.linked = feeders[f].linked
      BY <1>1 DEF FeederTypeOK, FeederRecord, FeederPc
    <3>3. feeders' = [feeders EXCEPT ![f] = rec]
      BY <1>1, <2>2, <3>1 DEF FeederTypeOK
    <3> HIDE DEF rec
    <3> QED BY <1>1, <2>1, <2>2, <3>2, <3>3, WorkKeeps
  <2>3. CASE Goto(f, "ack") /\ settledPage' = settledPage \cup {m}
    BY <1>1, <1>2, <2>1, <2>3, GotoKeeps
  <2>4. CASE Fails(f) /\ UNCHANGED settledPage
    BY <1>1, <2>1, <2>4, FailsKeep
  <2> QED BY <1>6, <2>2, <2>3, <2>4 DEF Read
<1>7. CASE Put(f)
  <2>1. CASE /\ target' = [target EXCEPT ![m].markers = feeders[f].read + 1]
             /\ Goto(f, "ack") \/ Fails(f)
             /\ settledPage' = settledPage \cup {m}
    <3>1. feeders[f].read = 0
      BY <1>7 DEF Put, FeederInv, StepsJustified
    <3>2. target' \in Targets
      BY <1>1, <2>1, <3>1 DEF FeederTypeOK
    <3> QED BY <1>1, <1>2, <2>1, <3>2, GotoKeeps, FailsKeep
  <2>2. CASE Fails(f) /\ UNCHANGED <<target, settledPage>>
    <3>1. target' \in Targets
      BY <1>1, <2>2 DEF FeederTypeOK
    <3> QED BY <1>1, <2>2, <3>1, FailsKeep
  <2> QED BY <1>7, <2>1, <2>2 DEF Put
<1> QED BY <1>3, <1>4, <1>5, <1>6, <1>7

\* A delivery.
LEMMA ReceiveKeeps ==
  ASSUME FeederInv, NEW f \in Feeder, NEW m \in Change, Receive(f, m)
  PROVE  FeederInv'
<1>1. FeederTypeOK /\ feeders[f].pc = "waiting" /\ mail[m].at = "ready"
      /\ UNCHANGED <<kind, target, settledPage>>
  BY DEF FeederInv, Receive
<1> DEFINE pc == CASE kind[m] = "malformed" -> "reject" [] kind[m] = "log" -> "ack"
                   [] kind[m] = "edit" -> "poll" [] kind[m] = "deletion" -> "look"
           rec == [Waiting EXCEPT !.change = m, !.pc = pc]
<1>2. /\ pc \in FeederPc /\ pc # "waiting" /\ pc # "put"
      /\ pc \in {"poll", "post"} => kind[m] = "edit"
      /\ pc = "ack" => kind[m] # "deletion"
  <2>1. kind[m] \in {"edit", "deletion", "log", "malformed"}
    BY <1>1 DEF FeederTypeOK
  <2> QED BY <2>1 DEF FeederPc
<1>3. feeders' = [feeders EXCEPT ![f] = rec]
  BY DEF Receive
<1> HIDE DEF pc
<1>4. rec \in FeederRecord /\ rec.change = m /\ rec.pc = pc /\ rec.linked
  BY <1>2, WaitingFacts
<1> HIDE DEF rec
<1>5. feeders'[f] = rec /\ \A g \in Feeder : g # f => feeders'[g] = feeders[g]
  BY <1>1, <1>3 DEF FeederTypeOK
<1>6. /\ mail' \in [Change -> MailRecord] /\ mail'[m].at = "held"
      /\ mail'[m].redelivered = mail[m].redelivered
      /\ \A x \in Change : x # m => mail'[x] = mail[x]
  BY <1>1 DEF Receive, FeederTypeOK, MailRecord
<1>7. /\ deliveries' \in [Change -> Nat] /\ deliveries'[m] = deliveries[m] + 1
      /\ \A x \in Change : x # m => deliveries'[x] = deliveries[x]
  BY <1>1 DEF Receive, FeederTypeOK
<1>8. FeederTypeOK'
  BY <1>1, <1>3, <1>4, <1>6, <1>7 DEF FeederTypeOK
<1>9. \A g \in Feeder : Linked(g) => feeders[g].change # m
  BY <1>1 DEF FeederInv, MessagesHeld
<1>10. MessagesHeld'
  <2>1. \A g \in Feeder : Working(g)' => feeders'[g].change \in Change
    BY <1>4, <1>5 DEF FeederInv, MessagesHeld, Working
  <2>2. ASSUME NEW g \in Feeder, Linked(g)' PROVE mail'[feeders'[g].change].at = "held"
    <3>1. CASE g = f
      BY <3>1, <1>4, <1>5, <1>6
    <3>2. CASE g # f
      <4>1. Linked(g) /\ feeders'[g].change = feeders[g].change /\ feeders[g].change \in Change
        BY <2>2, <3>2, <1>5 DEF Linked, Working, FeederInv, MessagesHeld
      <4> QED BY <4>1, <1>6, <1>9 DEF FeederInv, MessagesHeld
    <3> QED BY <3>1, <3>2
  <2>3. ASSUME NEW g \in Feeder, NEW h \in Feeder, Linked(g)', Linked(h)',
               feeders'[g].change = feeders'[h].change
        PROVE  g = h
    <3>1. CASE g # f /\ h # f
      BY <2>3, <3>1, <1>5 DEF Linked, Working, FeederInv, MessagesHeld
    <3>2. CASE g = f /\ h # f
      BY <2>3, <3>2, <1>4, <1>5, <1>9 DEF Linked, Working
    <3>3. CASE g # f /\ h = f
      BY <2>3, <3>3, <1>4, <1>5, <1>9 DEF Linked, Working
    <3> QED BY <3>1, <3>2, <3>3
  <2> QED BY <2>1, <2>2, <2>3 DEF MessagesHeld
<1>11. DeliveriesCounted'
  <2>1. ASSUME NEW x \in Change
        PROVE  /\ mail'[x].at = "held" => deliveries'[x] >= 1
               /\ mail'[x].redelivered => deliveries'[x] >= 1
               /\ mail'[x].at = "held" /\ mail'[x].redelivered => deliveries'[x] >= 2
    <3>1. CASE x = m
      BY <3>1, <1>1, <1>6, <1>7 DEF FeederInv, DeliveriesCounted, FeederTypeOK
    <3>2. CASE x # m
      BY <3>2, <1>6, <1>7 DEF FeederInv, DeliveriesCounted
    <3> QED BY <3>1, <3>2
  <2> QED BY <2>1 DEF DeliveriesCounted
<1>12. StepsJustified'
  BY <1>1, <1>2, <1>4, <1>5 DEF FeederInv, StepsJustified
<1>13. DeletionsAreMarked'
  BY <1>1, <1>6, <1>7 DEF FeederInv, DeletionsAreMarked, FeederTypeOK
<1> QED BY <1>8, <1>10, <1>11, <1>12, <1>13 DEF FeederInv

\* The broker takes a message back, or hears what became of it: its consumer no longer
\* shares in it.
LEMMA HandBackKeeps ==
  ASSUME FeederInv, NEW f \in Feeder, Linked(f), NEW m \in Change, m = feeders[f].change,
         NEW row \in MailRecord, row.at # "held",
         mail' = [mail EXCEPT ![m] = row],
         row.redelivered => deliveries[m] >= 1,
         row.at = "gone" /\ kind[m] = "deletion" => m \in settledPage \/ deliveries[m] >= 2,
         feeders' \in {[feeders EXCEPT ![f].linked = FALSE], [feeders EXCEPT ![f] = Waiting]},
         UNCHANGED <<kind, target, settledPage, deliveries>>
  PROVE  FeederInv'
<1>1. FeederTypeOK
  BY DEF FeederInv
<1>2. /\ feeders' \in [Feeder -> FeederRecord]
      /\ ~Linked(f)'
      /\ feeders'[f] = Waiting \/ feeders'[f] = [feeders[f] EXCEPT !.linked = FALSE]
      /\ \A g \in Feeder : g # f => feeders'[g] = feeders[g]
  <2>1. CASE feeders' = [feeders EXCEPT ![f] = Waiting]
    BY <1>1, <2>1, WaitingFacts DEF FeederTypeOK, Linked, Working
  <2>2. CASE feeders' = [feeders EXCEPT ![f].linked = FALSE]
    BY <1>1, <2>2 DEF FeederTypeOK, FeederRecord, Linked
  <2> QED BY <2>1, <2>2
<1>3. /\ mail' \in [Change -> MailRecord] /\ mail'[m] = row
      /\ \A x \in Change : x # m => mail'[x] = mail[x]
  BY <1>1 DEF FeederTypeOK
<1>4. FeederTypeOK'
  BY <1>1, <1>2, <1>3 DEF FeederTypeOK
<1>5. ASSUME NEW g \in Feeder, Working(g)'
      PROVE  /\ Working(g) /\ feeders'[g].change = feeders[g].change
             /\ feeders'[g].pc = feeders[g].pc /\ feeders'[g].read = feeders[g].read
  <2>1. CASE g # f
    BY <1>2, <1>5, <2>1 DEF Working
  <2>2. CASE g = f
    <3>1. feeders'[f] = [feeders[f] EXCEPT !.linked = FALSE] /\ feeders[f] \in FeederRecord
      BY <1>1, <1>2, <1>5, <2>2, WaitingFacts DEF Working, FeederTypeOK
    <3>2. /\ feeders'[f].change = feeders[f].change /\ feeders'[f].pc = feeders[f].pc
          /\ feeders'[f].read = feeders[f].read
      BY <3>1 DEF FeederRecord
    <3> QED BY <1>5, <2>2, <3>2 DEF Working
  <2> QED BY <2>1, <2>2
<1>6. \A g \in Feeder : Linked(g)' =>
        Linked(g) /\ g # f /\ feeders'[g].change = feeders[g].change /\ feeders[g].change # m
  BY <1>2 DEF Linked, Working, FeederInv, MessagesHeld
<1>7. MessagesHeld'
  <2>1. \A g \in Feeder : Working(g)' => feeders'[g].change \in Change
    BY <1>5 DEF FeederInv, MessagesHeld
  <2>2. ASSUME NEW g \in Feeder, Linked(g)' PROVE mail'[feeders'[g].change].at = "held"
    <3>1. feeders[g].change \in Change
      BY <2>2, <1>6 DEF FeederInv, MessagesHeld, Linked
    <3> QED BY <2>2, <3>1, <1>3, <1>6 DEF FeederInv, MessagesHeld
  <2> QED BY <2>1, <2>2, <1>6 DEF MessagesHeld, FeederInv
<1>8. DeliveriesCounted'
  BY <1>3 DEF FeederInv, DeliveriesCounted
<1>9. StepsJustified'
  <2>1. \A g \in Feeder : feeders'[g].pc # "waiting" =>
          /\ feeders'[g].change = feeders[g].change /\ feeders'[g].pc = feeders[g].pc
          /\ feeders'[g].read = feeders[g].read
    BY <1>5 DEF Working
  <2> QED BY <2>1 DEF FeederInv, StepsJustified
<1>10. DeletionsAreMarked'
  BY <1>3 DEF FeederInv, DeletionsAreMarked
<1> QED BY <1>4, <1>7, <1>8, <1>9, <1>10 DEF FeederInv

\* The answer of the callback, and the loss of a connection or a consumer.
LEMMA SettleKeeps ==
  ASSUME FeederInv, NEW f \in Feeder, Settle(f) \/ Lose(f)
  PROVE  FeederInv'
<1> DEFINE m == feeders[f].change
<1>1. /\ FeederTypeOK /\ Working(f) /\ m \in Change
      /\ UNCHANGED <<kind, target, settledPage, deliveries>>
  BY DEF FeederInv, MessagesHeld, Settle, Lose, Working
<1>2. Linked(f) => /\ mail[m].at = "held" /\ deliveries[m] >= 1
                   /\ mail[m].redelivered => deliveries[m] >= 2
  BY <1>1 DEF FeederInv, MessagesHeld, DeliveriesCounted
<1>3. PICK x \in Change : x = m
  BY <1>1
<1>4. CASE Lose(f)
  <2>1. Linked(f)
    BY <1>4 DEF Lose, Linked, Working
  <2> DEFINE row == [at |-> "ready", redelivered |-> TRUE]
  <2>2. row \in MailRecord /\ row.at = "ready" /\ mail' = [mail EXCEPT ![x] = row]
        /\ feeders' \in {[feeders EXCEPT ![f].linked = FALSE], [feeders EXCEPT ![f] = Waiting]}
    BY <1>3, <1>4 DEF Lose, MailRecord
  <2> HIDE DEF row
  <2> QED BY <1>1, <1>2, <1>3, <2>1, <2>2, HandBackKeeps
<1>5. CASE Settle(f) /\ feeders[f].linked
  <2>1. Linked(f)
    BY <1>1, <1>5 DEF Linked
  <2>2. feeders' = [feeders EXCEPT ![f] = Waiting]
    BY <1>5 DEF Settle
  <2>3. CASE feeders[f].pc = "fail"
    <3> DEFINE row == [at |-> IF mail[x].redelivered THEN "gone" ELSE "ready", redelivered |-> TRUE]
    <3>1. mail' = [mail EXCEPT ![x] = row]
      BY <1>3, <1>5, <2>3 DEF Settle, AfterFailure
    <3>2. row \in MailRecord /\ row.at # "held" /\ (row.at = "gone" => mail[x].redelivered)
      BY DEF MailRecord
    <3> HIDE DEF row
    <3> QED BY <1>1, <1>2, <1>3, <2>1, <2>2, <3>1, <3>2, HandBackKeeps
  <2>4. CASE feeders[f].pc \in {"reject", "ack"}
    <3> DEFINE row == [mail[x] EXCEPT !.at = IF feeders[f].pc = "ack" THEN "gone" ELSE "rejected"]
    <3>1. mail' = [mail EXCEPT ![x] = row]
      BY <1>3, <1>5, <2>4 DEF Settle
    <3>2. /\ row \in MailRecord /\ row.at # "held" /\ row.redelivered = mail[x].redelivered
          /\ row.at = "gone" => feeders[f].pc = "ack"
      BY <1>1, <2>4 DEF MailRecord, FeederTypeOK
    <3>3. feeders[f].pc = "ack" /\ kind[x] = "deletion" => x \in settledPage
      BY <1>3 DEF FeederInv, StepsJustified
    <3>4. row.redelivered => deliveries[x] >= 1
      BY <1>2, <1>3, <2>1, <3>2
    <3> HIDE DEF row
    <3> QED BY <1>1, <1>3, <2>1, <2>2, <3>1, <3>2, <3>3, <3>4, HandBackKeeps
  <2> QED BY <1>5, <2>3, <2>4 DEF Settle
<1>6. CASE Settle(f) /\ ~feeders[f].linked
  <2>1. UNCHANGED mail /\ feeders' = [feeders EXCEPT ![f] = Waiting]
    BY <1>6 DEF Settle
  <2>2. /\ feeders' \in [Feeder -> FeederRecord] /\ feeders'[f].pc = "waiting"
        /\ \A g \in Feeder : g # f => feeders'[g] = feeders[g]
    BY <1>1, <2>1, WaitingFacts DEF FeederTypeOK
  <2>3. FeederTypeOK' /\ DeliveriesCounted' /\ DeletionsAreMarked'
    BY <1>1, <2>1, <2>2 DEF FeederInv, FeederTypeOK, DeliveriesCounted, DeletionsAreMarked
  <2>4. MessagesHeld' /\ StepsJustified'
    BY <1>1, <2>1, <2>2 DEF FeederInv, MessagesHeld, StepsJustified, Working, Linked
  <2> QED BY <2>3, <2>4 DEF FeederInv
<1> QED BY <1>4, <1>5, <1>6

\* People delete and restore pages, and the translator's load changes.
LEMMA SurroundingsKeep ==
  ASSUME FeederInv, Surroundings
  PROVE  FeederInv'
<1>1. FeederTypeOK /\ UNCHANGED <<kind, mail, feeders, settledPage, deliveries>>
  BY DEF FeederInv, Surroundings
<1>2. target' \in [Change -> [exists : BOOLEAN, markers : 0..1]]
  <2>1. CASE UNCHANGED target
    BY <1>1, <2>1 DEF FeederTypeOK
  <2>2. ASSUME NEW m \in Change,
               target' = [target EXCEPT ![m] = [exists |-> ~@.exists, markers |-> 0]]
        PROVE  target' \in [Change -> [exists : BOOLEAN, markers : 0..1]]
    <3>1. [exists |-> ~target[m].exists, markers |-> 0] \in [exists : BOOLEAN, markers : 0..1]
      BY <1>1 DEF FeederTypeOK
    <3> QED BY <1>1, <2>2, <3>1 DEF FeederTypeOK
  <2> QED BY <2>1, <2>2 DEF Surroundings
<1>3. FeederTypeOK'
  BY <1>1, <1>2 DEF FeederTypeOK
<1>4. MessagesHeld' /\ DeliveriesCounted' /\ StepsJustified'
  BY <1>1 DEF FeederInv, MessagesHeld, DeliveriesCounted, StepsJustified, Working, Linked
<1>5. DeletionsAreMarked'
  BY <1>1, <1>2 DEF FeederInv, DeletionsAreMarked
<1> QED BY <1>3, <1>4, <1>5 DEF FeederInv

\* Every step of broker, consumers and wiki keeps the invariant.
THEOREM FeederInvariance == FeederSpec => []FeederInv
<1>1. FeederInv /\ [FeederNext]_feederVars => FeederInv'
  <2> SUFFICES ASSUME FeederInv, [FeederNext]_feederVars PROVE FeederInv'
    OBVIOUS
  <2>1. CASE UNCHANGED feederVars
    BY <2>1 DEF feederVars, FeederInv, FeederTypeOK, MessagesHeld, DeliveriesCounted,
                StepsJustified, DeletionsAreMarked, Working, Linked
  <2>2. CASE FeederNext
    BY <2>2, SurroundingsKeep, CallbackKeeps, ReceiveKeeps, SettleKeeps DEF FeederNext, Feed
  <2> QED BY <2>1, <2>2
<1> QED BY <1>1, FeederInitially, PTL DEF FeederSpec

\* callback and mark_page_for_deletion: no page gets a second marker, and no deletion is
\* dropped with its page unsettled before its second delivery failed.
THEOREM DeletionsAreAlwaysMarked == FeederSpec => []DeletionsAreMarked
<1>1. FeederInv => DeletionsAreMarked
  BY DEF FeederInv
<1> QED BY <1>1, FeederInvariance, PTL

-----------------------------------------------------------------------------
(* The feeder and the broker are a queue with consumers that settle. *)

\* A callback that outlived its connection works on a message the broker took back.
Orphans == \A f \in Feeder : Working(f) /\ ~feeders[f].linked => mail[feeders[f].change].redelivered

HoldersOf(m) == {f \in Feeder : HasMessage(f, m)}

\* Nobody gets a message and nobody gives one back.
SameHolders ==
  \A g \in Feeder : /\ feeders'[g].change = feeders[g].change
                    /\ feeders'[g].linked = feeders[g].linked
                    /\ feeders'[g].pc = "waiting" <=> feeders[g].pc = "waiting"

LEMMA GotoSameHolders ==
  ASSUME FeederInv, NEW f \in Feeder, NEW pc, pc # "waiting", Goto(f, pc), Working(f)
  PROVE  SameHolders /\ UNCHANGED <<kind, mail>>
<1>1. feeders \in [Feeder -> FeederRecord] /\ feeders' = [feeders EXCEPT ![f].pc = pc]
      /\ UNCHANGED <<kind, mail>>
  BY DEF FeederInv, FeederTypeOK, Goto
<1>2. ASSUME NEW g \in Feeder
      PROVE  /\ feeders'[g].change = feeders[g].change
             /\ feeders'[g].linked = feeders[g].linked
             /\ feeders'[g].pc = "waiting" <=> feeders[g].pc = "waiting"
  <2>1. CASE g = f
    BY <1>1, <2>1 DEF FeederRecord, Working
  <2>2. CASE g # f
    BY <1>1, <2>2
  <2> QED BY <2>1, <2>2
<1> QED BY <1>1, <1>2 DEF SameHolders

\* Until its answer, a callback changes nothing between broker and consumers, and it
\* settles at most the page of its own message.
LEMMA CallbackMoves ==
  ASSUME FeederInv, NEW f \in Feeder,
         Poll(f) \/ PostJob(f) \/ Look(f) \/ Read(f) \/ Put(f)
  PROVE  /\ Working(f) /\ feeders[f].change \in Change
         /\ SameHolders /\ UNCHANGED <<kind, mail>>
         /\ settledPage' \in {settledPage, settledPage \cup {feeders[f].change}}
<1>1. Working(f) /\ feeders[f].change \in Change /\ feeders \in [Feeder -> FeederRecord]
  BY DEF Poll, PostJob, Look, Read, Put, Working, FeederInv, MessagesHeld, FeederTypeOK
<1>2. settledPage' \in {settledPage, settledPage \cup {feeders[f].change}}
  BY DEF Poll, PostJob, Look, Read, Put
<1>3. CASE \E pc \in FeederPc \ {"waiting"} : Goto(f, pc)
  BY <1>1, <1>2, <1>3, GotoSameHolders
<1>4. CASE PostJob(f) /\ feeders' = [feeders EXCEPT ![f].posts = @ + 1] /\ UNCHANGED <<kind, mail>>
  <2>1. ASSUME NEW g \in Feeder
        PROVE  /\ feeders'[g].change = feeders[g].change
               /\ feeders'[g].linked = feeders[g].linked
               /\ feeders'[g].pc = feeders[g].pc
    <3>1. CASE g = f
      BY <1>1, <1>4, <3>1 DEF FeederRecord
    <3>2. CASE g # f
      BY <1>1, <1>4, <3>2
    <3> QED BY <3>1, <3>2
  <2> QED BY <1>1, <1>2, <1>4, <2>1 DEF SameHolders
<1>5. CASE /\ Read(f) /\ UNCHANGED <<kind, mail>>
           /\ feeders' = [feeders EXCEPT ![f].pc = "put",
                                         ![f].read = target[feeders[f].change].markers]
  <2>1. ASSUME NEW g \in Feeder
        PROVE  /\ feeders'[g].change = feeders[g].change
               /\ feeders'[g].linked = feeders[g].linked
               /\ feeders'[g].pc = "waiting" <=> feeders[g].pc = "waiting"
    <3>1. CASE g = f
      BY <1>1, <1>5, <3>1 DEF FeederRecord, Working
    <3>2. CASE g # f
      BY <1>1, <1>5, <3>2
    <3> QED BY <3>1, <3>2
  <2> QED BY <1>1, <1>2, <1>5, <2>1 DEF SameHolders
<1>6. CASE Poll(f)
  BY <1>3, <1>6 DEF Poll, FeederPc
<1>7. CASE PostJob(f)
  BY <1>3, <1>4, <1>7 DEF PostJob, FeederPc
<1>8. CASE Look(f)
  BY <1>3, <1>8 DEF Look, Fails, FeederPc
<1>9. CASE Read(f)
  BY <1>3, <1>5, <1>9 DEF Read, Fails, FeederPc
<1>10. CASE Put(f)
  BY <1>3, <1>10 DEF Put, Fails, FeederPc
<1> QED BY <1>6, <1>7, <1>8, <1>9, <1>10

\* A delivery gives one message to a consumer that had none.
LEMMA ReceiveMoves ==
  ASSUME FeederInv, NEW f \in Feeder, NEW m \in Change, Receive(f, m)
  PROVE  /\ feeders[f].pc = "waiting" /\ mail[m].at = "ready"
         /\ feeders'[f].pc # "waiting" /\ feeders'[f].linked /\ feeders'[f].change = m
         /\ \A g \in Feeder : g # f => feeders'[g] = feeders[g]
         /\ mail'[m].at = "held" /\ mail'[m].redelivered = mail[m].redelivered
         /\ \A x \in Change : x # m => mail'[x] = mail[x]
         /\ UNCHANGED <<kind, settledPage>>
<1>1. /\ FeederTypeOK /\ feeders[f].pc = "waiting" /\ mail[m].at = "ready"
      /\ UNCHANGED <<kind, settledPage>> /\ kind[m] \in {"edit", "deletion", "log", "malformed"}
  BY DEF FeederInv, Receive, FeederTypeOK
<1> DEFINE pc == CASE kind[m] = "malformed" -> "reject" [] kind[m] = "log" -> "ack"
                   [] kind[m] = "edit" -> "poll" [] kind[m] = "deletion" -> "look"
           rec == [Waiting EXCEPT !.change = m, !.pc = pc]
<1>2. pc \in FeederPc /\ pc # "waiting" /\ feeders' = [feeders EXCEPT ![f] = rec]
  BY <1>1 DEF FeederPc, Receive
<1> HIDE DEF pc
<1>3. rec.change = m /\ rec.pc = pc /\ rec.linked
  BY <1>2, WaitingFacts
<1> HIDE DEF rec
<1>4. feeders'[f] = rec /\ \A g \in Feeder : g # f => feeders'[g] = feeders[g]
  BY <1>1, <1>2 DEF FeederTypeOK
<1>5. /\ mail'[m].at = "held" /\ mail'[m].redelivered = mail[m].redelivered
      /\ \A x \in Change : x # m => mail'[x] = mail[x]
  BY <1>1 DEF Receive, FeederTypeOK, MailRecord
<1> QED BY <1>1, <1>2, <1>3, <1>4, <1>5

\* What becomes of the message a connected consumer gives up.
GivenUp(f, m) ==
  \/ mail'[m].at = "ready" /\ mail'[m].redelivered
  \/ mail'[m].at \in {"gone", "rejected"} /\ mail'[m].redelivered = mail[m].redelivered

LEMMA SettleMoves ==
  ASSUME FeederInv, NEW f \in Feeder, Settle(f) \/ Lose(f), feeders[f].linked
  PROVE  /\ Linked(f) /\ feeders[f].change \in Change /\ mail[feeders[f].change].at = "held"
         /\ GivenUp(f, feeders[f].change)
         /\ mail'[feeders[f].change].at = "gone" /\ kind[feeders[f].change] = "deletion"
              => \/ feeders[f].change \in settledPage
                 \/ mail[feeders[f].change].redelivered
         /\ \A x \in Change : x # feeders[f].change => mail'[x] = mail[x]
         /\ feeders'[f].pc = "waiting" \/ (/\ ~feeders'[f].linked
                                           /\ feeders'[f].change = feeders[f].change
                                           /\ mail'[feeders[f].change].redelivered)
         /\ \A g \in Feeder : g # f => feeders'[g] = feeders[g]
         /\ UNCHANGED <<kind, settledPage>>
<1> DEFINE m == feeders[f].change
<1>1. /\ FeederTypeOK /\ Linked(f) /\ m \in Change /\ mail[m].at = "held"
      /\ UNCHANGED <<kind, settledPage>>
  BY DEF FeederInv, MessagesHeld, Settle, Lose, Linked, Working
<1>2. mail \in [Change -> MailRecord] /\ feeders \in [Feeder -> FeederRecord]
  BY <1>1 DEF FeederTypeOK
<1>3. CASE Lose(f)
  <2>1. /\ mail' = [mail EXCEPT ![m] = [at |-> "ready", redelivered |-> TRUE]]
        /\ feeders' \in {[feeders EXCEPT ![f].linked = FALSE], [feeders EXCEPT ![f] = Waiting]}
    BY <1>3 DEF Lose
  <2>2. mail'[m] = [at |-> "ready", redelivered |-> TRUE]
        /\ \A x \in Change : x # m => mail'[x] = mail[x]
    BY <1>1, <1>2, <2>1
  <2>3. feeders'[f] = Waiting \/ feeders'[f] = [feeders[f] EXCEPT !.linked = FALSE]
    BY <1>2, <2>1
  <2>4. \A g \in Feeder : g # f => feeders'[g] = feeders[g]
    BY <1>2, <2>1
  <2>5. feeders'[f].pc = "waiting" \/ (~feeders'[f].linked /\ feeders'[f].change = m)
    BY <1>2, <2>3, WaitingFacts DEF FeederRecord
  <2>6. mail'[m].at = "ready" /\ mail'[m].redelivered
    BY <2>2
  <2> QED BY <1>1, <2>2, <2>4, <2>5, <2>6 DEF GivenUp
<1>4. CASE Settle(f)
  <2>1. feeders' = [feeders EXCEPT ![f] = Waiting]
    BY <1>4 DEF Settle
  <2>2. feeders'[f].pc = "waiting" /\ \A g \in Feeder : g # f => feeders'[g] = feeders[g]
    BY <1>2, <2>1, WaitingFacts
  <2>3. CASE feeders[f].pc = "fail"
    <3>1. mail' = [mail EXCEPT ![m] = AfterFailure(m)]
      BY <1>4, <2>3 DEF Settle
    <3>2. mail'[m] = AfterFailure(m) /\ \A x \in Change : x # m => mail'[x] = mail[x]
      BY <1>1, <1>2, <3>1
    <3>3. /\ mail'[m].at = (IF mail[m].redelivered THEN "gone" ELSE "ready")
          /\ mail'[m].redelivered = TRUE
      BY <3>2 DEF AfterFailure
    <3>4. mail[m].redelivered \in BOOLEAN
      BY <1>1, <1>2 DEF MailRecord
    <3> QED BY <1>1, <2>2, <3>2, <3>3, <3>4 DEF GivenUp
  <2>4. CASE feeders[f].pc \in {"reject", "ack"}
    <3> DEFINE row == [mail[m] EXCEPT !.at = IF feeders[f].pc = "ack" THEN "gone" ELSE "rejected"]
    <3>1. mail' = [mail EXCEPT ![m] = row]
      BY <1>4, <2>4 DEF Settle
    <3>2. mail'[m] = row /\ \A x \in Change : x # m => mail'[x] = mail[x]
      BY <1>1, <1>2, <3>1
    <3>3. /\ mail'[m].at = (IF feeders[f].pc = "ack" THEN "gone" ELSE "rejected")
          /\ mail'[m].redelivered = mail[m].redelivered
      BY <1>1, <1>2, <3>2 DEF MailRecord
    <3>4. feeders[f].pc = "ack" /\ kind[m] = "deletion" => m \in settledPage
      BY DEF FeederInv, StepsJustified
    <3> QED BY <1>1, <2>2, <3>2, <3>3, <3>4 DEF GivenUp
  <2> QED BY <1>4, <2>3, <2>4 DEF Settle
<1> QED BY <1>3, <1>4

\* A consumer without its connection gives nothing up.
LEMMA OrphanMoves ==
  ASSUME FeederInv, NEW f \in Feeder, Settle(f), ~feeders[f].linked
  PROVE  /\ feeders'[f].pc = "waiting" /\ \A g \in Feeder : g # f => feeders'[g] = feeders[g]
         /\ UNCHANGED <<kind, mail, settledPage>>
<1>1. feeders \in [Feeder -> FeederRecord] /\ feeders' = [feeders EXCEPT ![f] = Waiting]
      /\ UNCHANGED <<kind, mail, settledPage>>
  BY DEF FeederInv, FeederTypeOK, Settle
<1> QED BY <1>1, WaitingFacts

\* The step is one of those above, or it does not concern broker and consumers.
Idle == SameHolders /\ UNCHANGED <<kind, mail, settledPage>>
FeederMove ==
  \/ Idle
  \/ \E f \in Feeder :
       \/ Poll(f) \/ PostJob(f) \/ Look(f) \/ Read(f) \/ Put(f) \/ Settle(f) \/ Lose(f)
       \/ \E m \in Change : Receive(f, m)

LEMMA FeederMoves ==
  ASSUME FeederInv, [FeederNext]_feederVars
  PROVE  FeederMove
<1>1. CASE UNCHANGED feederVars \/ Surroundings
  BY <1>1 DEF feederVars, Surroundings, FeederMove, Idle, SameHolders
<1>2. CASE \E f \in Feeder : Feed(f) \/ Lose(f)
  BY <1>2 DEF Feed, FeederMove
<1> QED BY <1>1, <1>2 DEF FeederNext

LEMMA OrphansKept ==
  ASSUME FeederInv, Orphans, [FeederNext]_feederVars
  PROVE  Orphans'
<1>0. \A g \in Feeder : Working(g) => feeders[g].change \in Change
  BY DEF FeederInv, MessagesHeld
<1>1. CASE SameHolders /\ UNCHANGED mail
  BY <1>1 DEF SameHolders, Orphans, Working
<1>2. ASSUME NEW f \in Feeder, Poll(f) \/ PostJob(f) \/ Look(f) \/ Read(f) \/ Put(f)
      PROVE  Orphans'
  BY <1>1, <1>2, CallbackMoves
<1>3. ASSUME NEW f \in Feeder, NEW m \in Change, Receive(f, m) PROVE Orphans'
  <2> SUFFICES ASSUME NEW g \in Feeder, Working(g)', ~feeders'[g].linked
               PROVE  mail'[feeders'[g].change].redelivered
    BY DEF Orphans
  <2>1. g # f /\ feeders'[g] = feeders[g]
    BY <1>3, ReceiveMoves
  <2>2. Working(g) /\ feeders[g].change \in Change /\ mail[feeders[g].change].redelivered
    BY <2>1, <1>0 DEF Orphans, Working
  <2> QED BY <1>3, <2>1, <2>2, ReceiveMoves
<1>4. ASSUME NEW f \in Feeder, Settle(f) \/ Lose(f) PROVE Orphans'
  <2> SUFFICES ASSUME NEW g \in Feeder, Working(g)', ~feeders'[g].linked
               PROVE  mail'[feeders'[g].change].redelivered
    BY DEF Orphans
  <2>1. g # f => /\ feeders'[g] = feeders[g] /\ feeders[g].change \in Change
                 /\ mail[feeders[g].change].redelivered
    <3>1. g # f => feeders'[g] = feeders[g]
      BY <1>4, SettleMoves, OrphanMoves DEF Lose
    <3> QED BY <3>1, <1>0 DEF Orphans, Working
  <2>2. CASE feeders[f].linked
    <3>1. mail[feeders[f].change].redelivered => mail'[feeders[f].change].redelivered
      BY <1>4, <2>2, SettleMoves DEF GivenUp
    <3>2. CASE g = f
      BY <1>4, <2>2, <3>2, SettleMoves DEF Working
    <3>3. CASE g # f
      BY <1>4, <2>1, <2>2, <3>1, <3>3, SettleMoves
    <3> QED BY <3>2, <3>3
  <2>3. CASE ~feeders[f].linked
    BY <1>4, <2>1, <2>3, OrphanMoves DEF Working, Lose
  <2> QED BY <2>2, <2>3
<1> QED BY <1>1, <1>2, <1>3, <1>4, FeederMoves DEF FeederMove, Idle

\* Every step of feeder and broker is a step of a queue with consumers that settle.
LEMMA DeliveryStep ==
  ASSUME FeederInv, Orphans, [FeederNext]_feederVars
  PROVE  [mailbox!Next]_mailbox!vars
<1> DEFINE S == [m \in Change |-> Place(m)]
           H == [m \in Change |-> HoldersOf(m)]
           A == {m \in Change : mail[m].redelivered}
           O == {m \in Change : kind[m] = "deletion"}
<1>0. mail \in [Change -> MailRecord]
  BY DEF FeederInv, FeederTypeOK
<1>1. SameHolders => H' = H
  BY DEF SameHolders, HoldersOf, HasMessage
<1>2. (mail' = mail => S' = S /\ A' = A) /\ (kind' = kind => O' = O)
  BY DEF Place
<1>3. CASE Idle
  BY <1>1, <1>2, <1>3 DEF Idle, mailbox!vars, HoldersOf
<1>4. ASSUME NEW f \in Feeder, Poll(f) \/ PostJob(f) \/ Look(f) \/ Read(f) \/ Put(f)
      PROVE  [mailbox!Next]_mailbox!vars
  <2> DEFINE m == feeders[f].change
  <2>1. /\ Working(f) /\ m \in Change /\ H' = H /\ S' = S /\ A' = A /\ O' = O
        /\ settledPage' \in {settledPage, settledPage \cup {m}}
    BY <1>1, <1>2, <1>4, CallbackMoves
  <2>2. S[m] # "new" /\ (S[m] = "ready" => m \in A)
    BY <1>0, <2>1 DEF Place, MailRecord, FeederInv, MessagesHeld, Linked, Orphans
  <2>3. CASE settledPage' = settledPage
    BY <2>1, <2>3 DEF mailbox!vars, HoldersOf
  <2>4. CASE settledPage' = settledPage \cup {m}
    BY <2>1, <2>2, <2>4 DEF mailbox!Next, mailbox!Work, HoldersOf
  <2> QED BY <2>1, <2>3, <2>4
<1>5. ASSUME NEW f \in Feeder, NEW m \in Change, Receive(f, m)
      PROVE  mailbox!Take(m, f)
  <2>1. A' = A /\ O' = O /\ settledPage' = settledPage
    BY <1>5, ReceiveMoves
  <2>2. S[m] = "ready" /\ S' = [S EXCEPT ![m] = "held"]
    <3>1. \A n \in Change : Place(n)' = IF n = m THEN "held" ELSE Place(n)
      BY <1>5, ReceiveMoves DEF Place
    <3>2. Place(m) = "ready"
      BY <1>5, ReceiveMoves DEF Place
    <3> HIDE DEF S
    <3>3. /\ S = [n \in Change |-> Place(n)]
          /\ S' = [n \in Change |-> Place(n)']
      BY DEF S
    <3> QED BY <3>1, <3>2, <3>3
  <2>3. \A n \in Change : f \notin H[n]
    BY <1>5, ReceiveMoves DEF HoldersOf, HasMessage
  <2>4. H[m] = {}
    BY <1>5, ReceiveMoves DEF HoldersOf, HasMessage, FeederInv, MessagesHeld, Linked, Working
  <2>5. H' = [H EXCEPT ![m] = {f}]
    <3>1. ASSUME NEW n \in Change PROVE HoldersOf(n)' = IF n = m THEN {f} ELSE HoldersOf(n)
      <4>1. ASSUME NEW g \in Feeder
            PROVE  HasMessage(g, n)' <=> IF g = f THEN n = m ELSE HasMessage(g, n)
        BY <1>5, ReceiveMoves DEF HasMessage
      <4>2. HoldersOf(n)' = {g \in Feeder : IF g = f THEN n = m ELSE HasMessage(g, n)}
        BY <4>1 DEF HoldersOf
      <4>3. n = m => \A g \in Feeder : ~HasMessage(g, n)
        BY <2>4 DEF HoldersOf
      <4>4. ~HasMessage(f, n)
        BY <2>3 DEF HoldersOf
      <4> QED BY <4>2, <4>3, <4>4 DEF HoldersOf
    <3> QED BY <3>1
  <2> QED BY <2>1, <2>2, <2>3, <2>5 DEF mailbox!Take, HoldersOf
<1>6. ASSUME NEW f \in Feeder, Settle(f) \/ Lose(f), feeders[f].linked
      PROVE  mailbox!Next
  <2> DEFINE m == feeders[f].change
  <2>1. /\ m \in Change /\ Linked(f) /\ mail[m].at = "held" /\ S[m] = "held"
        /\ O' = O /\ settledPage' = settledPage
        /\ \A x \in Change : x # m => mail'[x] = mail[x]
    BY <1>6, SettleMoves DEF Place
  <2>2. H' = [H EXCEPT ![m] = {}]
    <3>1. ASSUME NEW n \in Change PROVE HoldersOf(n)' = IF n = m THEN {} ELSE HoldersOf(n)
      <4>1. ASSUME NEW g \in Feeder
            PROVE  HasMessage(g, n)' <=> HasMessage(g, n) /\ n # m
        <5>1. CASE g = f
          BY <1>6, <5>1, SettleMoves DEF HasMessage
        <5>2. CASE g # f
          BY <1>6, <2>1, <5>2, SettleMoves
             DEF HasMessage, FeederInv, MessagesHeld, Linked, Working
        <5> QED BY <5>1, <5>2
      <4> QED BY <4>1 DEF HoldersOf
    <3> QED BY <3>1
  <2>3. CASE mail'[m].at = "ready" /\ mail'[m].redelivered
    <3>1. S' = [S EXCEPT ![m] = "ready"] /\ A' = A \cup {m}
      BY <2>1, <2>3 DEF Place
    <3> QED BY <2>1, <2>2, <3>1 DEF mailbox!Next, mailbox!PutBack, mailbox!Release, HoldersOf
  <2>4. CASE mail'[m].at \in {"gone", "rejected"} /\ mail'[m].redelivered = mail[m].redelivered
    <3>1. S' = [S EXCEPT ![m] = IF mail'[m].at = "gone" THEN "settled" ELSE "rejected"] /\ A' = A
      BY <2>1, <2>4 DEF Place
    <3>2. CASE mail'[m].at = "gone"
      <4>1. m \in O => m \in settledPage \cup A
        BY <1>6, <2>1, <3>2, SettleMoves
      <4> QED
        BY <2>1, <2>2, <3>1, <3>2, <4>1 DEF mailbox!Next, mailbox!Settle, mailbox!Release, HoldersOf
    <3>3. CASE mail'[m].at = "rejected"
      BY <2>1, <2>2, <3>1, <3>3 DEF mailbox!Next, mailbox!Reject, mailbox!Release, HoldersOf
    <3> QED BY <2>4, <3>2, <3>3
  <2> QED BY <1>6, <2>3, <2>4, SettleMoves DEF GivenUp
<1>7. ASSUME NEW f \in Feeder, Settle(f), ~feeders[f].linked
      PROVE  UNCHANGED mailbox!vars
  <2>1. S' = S /\ A' = A /\ O' = O /\ settledPage' = settledPage
    BY <1>2, <1>7, OrphanMoves
  <2>2. H' = H
    <3>1. \A g \in Feeder, n \in Change : HasMessage(g, n)' <=> HasMessage(g, n)
      BY <1>7, OrphanMoves DEF HasMessage
    <3> QED BY <3>1 DEF HoldersOf
  <2> QED BY <2>1, <2>2 DEF mailbox!vars, HoldersOf
<1> QED BY <1>3, <1>4, <1>5, <1>6, <1>7, FeederMoves DEF FeederMove, mailbox!Next, Lose

\* RabbitMqConsumer, its callback and the broker implement the abstract queue: whatever
\* connections are lost and consumers die, a change is with one connected consumer at
\* most, is settled once, and a deletion is not given up undone at its first delivery.
THEOREM FeederImplementsDeliveries == FeederSpec => ChangesAreDelivered
<1>1. FeederInit => mailbox!Init /\ Orphans
  BY DEF FeederInit, mailbox!Init, Orphans, Working, Waiting, Place, HasMessage
<1>2. FeederInv /\ Orphans /\ [FeederNext]_feederVars => Orphans'
  BY OrphansKept
<1>3. FeederInv /\ Orphans /\ [FeederNext]_feederVars => [mailbox!Next]_mailbox!vars
  BY DeliveryStep
<1> QED BY <1>1, <1>2, <1>3, FeederInvariance, PTL DEF FeederSpec, ChangesAreDelivered, mailbox!Spec
=============================================================================
