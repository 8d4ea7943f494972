----------------------------- MODULE EditQueue -----------------------------
(***************************************************************************)
(* The edits that botjagwar sends through RabbitMQ to one page of the      *)
(* Malagasy Wiktionary: the producers that read the page (RedisPage over    *)
(* the Redis cache), the durable queue, and the consumers of                *)
(* rabbitmq_pywikibot.py that save them, between edits of other people.     *)
(*                                                                          *)
(* The text of a page is the set of contributions it contains. An edit adds *)
(* itself to the text it was built from; a person adds a contribution,      *)
(* removes one, or deletes the page.                                        *)
(***************************************************************************)
EXTENDS Naturals, Sequences, FiniteSets

CONSTANTS
  Fix,           \* edits of the page checker, with the hash of the text they replace
  Translation,   \* edits of the translator, built from the cached text, no hash
  Removal,       \* messages with the action "delete"
  Junk,          \* messages that fail validation
  Human,         \* what other people do to the page, each once
  Consumer,      \* consumers of the queue
  None,          \* no value
  MaxFaults,     \* crashes of consumers and lost connections
  MaxLimited     \* failures of the rate limiter

Edit == Fix \cup Translation \cup Removal \cup Junk
Text == SUBSET (Edit \cup Human)
\* No page, or nothing in the cache.
NoText == {None}

ASSUME KindsAssumption ==
  /\ Fix \cap Translation = {} /\ Fix \cap Removal = {} /\ Fix \cap Junk = {}
  /\ Translation \cap Removal = {} /\ Translation \cap Junk = {}
  /\ Removal \cap Junk = {} /\ Edit \cap Human = {}
ASSUME BoundsAssumption == MaxFaults \in Nat /\ MaxLimited \in Nat
ASSUME NoneAssumption == None \notin Edit \cup Human /\ None \notin {"acked", "dropped"}

VARIABLES
  wiki,      \* the live page: its text, NoText when there is none, and its revision
  cache,     \* the page's text in Redis
  queue,     \* messages ready for delivery
  redel,     \* messages RabbitMQ will mark as redelivered
  ppc,       \* what the producer of an edit does next
  basis,     \* the text an edit was built from
  seen,      \* what the producer's last live read returned
  cpc,       \* what a consumer does next
  cur,       \* the edit a consumer works on
  again,     \* method.redelivered of that delivery
  lost,      \* the connection was lost during that delivery
  live,      \* the consumer's Pywikibot page: text and revision it loaded
  result,    \* how save_to_wiki ended
  failures,  \* history: failures of an edit that were not the limiter's, up to two
  had,       \* history: texts the page has had
  applied,   \* history: edits that reached the wiki
  settled,   \* history: "acked" or "dropped", None while an edit is under way
  done,      \* what people have done
  faults, limited

wvars == <<wiki, had, applied>>
pvars == <<ppc, basis, seen>>
cvars == <<cpc, cur, again, lost, live, result>>
qvars == <<queue, redel, settled>>
env == <<done, faults, limited>>
vars == <<wvars, cache, pvars, cvars, qvars, failures, env>>

Init ==
  /\ \E t \in {NoText, {}} : wiki = [text |-> t, rev |-> 0] /\ had = {t} /\ cache \in {NoText, t}
  /\ applied = {}
  /\ queue = <<>> /\ redel = {} /\ settled = [e \in Edit |-> None]
  /\ ppc = [e \in Edit |-> "idle"]
  /\ basis = [e \in Edit |-> NoText] /\ seen = [e \in Edit |-> NoText]
  /\ cpc = [c \in Consumer |-> "idle"] /\ cur = [c \in Consumer |-> None]
  /\ again = [c \in Consumer |-> FALSE] /\ lost = [c \in Consumer |-> FALSE]
  /\ live = [c \in Consumer |-> [text |-> NoText, rev |-> 0]]
  /\ result = [c \in Consumer |-> "none"]
  /\ failures = [e \in Edit |-> 0]
  /\ done = {} /\ faults = 0 /\ limited = 0

\* The page gets a new text, or is deleted.
Write(t) ==
  /\ wiki' = [text |-> t, rev |-> wiki.rev + 1]
  /\ had' = had \cup {t}

-----------------------------------------------------------------------------
\* Producers

\* RedisSite.push_page: Redis takes the text, or fails and the error is dropped.
PushPage(t) == cache' \in {t, cache}

\* check_page reads the live page; without one there is nothing to check.
FixFetch(e) ==
  /\ ppc[e] = "idle" /\ e \in Fix /\ wiki.text # NoText
  /\ ppc' = [ppc EXCEPT ![e] = "fill"]
  /\ basis' = [basis EXCEPT ![e] = wiki.text]
  /\ seen' = [seen EXCEPT ![e] = wiki.text]
  /\ UNCHANGED <<wvars, cache, cvars, qvars, failures, env>>

\* _publish_fixes reads it again before it submits the fix.
FixRecheck(e) ==
  /\ ppc[e] = "recheck"
  /\ IF wiki.text = NoText
     THEN ppc' = [ppc EXCEPT ![e] = "ended"] /\ UNCHANGED seen
     ELSE /\ ppc' = [ppc EXCEPT ![e] = "refill"]
          /\ seen' = [seen EXCEPT ![e] = wiki.text]
  /\ UNCHANGED <<wvars, cache, basis, cvars, qvars, failures, env>>

\* What the producer does with the text of a live read, once it is cached: the
\* fix is checked again, and given up when the page changed meanwhile.
AfterFill(e) ==
  IF ppc[e] = "fill" /\ e \in Fix THEN "recheck"
  ELSE IF seen[e] = basis[e] THEN "publish" ELSE "ended"

\* RedisPage.get after a live read.
Fill(e) ==
  /\ ppc[e] \in {"fill", "refill"}
  /\ PushPage(seen[e])
  /\ ppc' = [ppc EXCEPT ![e] = AfterFill(e)]
  /\ UNCHANGED <<wvars, basis, seen, cvars, qvars, failures, env>>

\* Faulty: the cached or live text is used without asking whether there is a page.
TranslationReadUnchecked(e) ==
  /\ ppc[e] = "idle" /\ e \in Translation
  /\ basis' = [basis EXCEPT ![e] = IF cache # NoText THEN cache ELSE wiki.text]
  /\ ppc' = [ppc EXCEPT ![e] = "publish"]
  /\ UNCHANGED <<seen, wvars, cache, cvars, qvars, failures, env>>

\* publish_to_wiktionary asks exists() and get(), which prefer the cache; the
\* live page is read when the cache is empty or Redis does not answer.
TranslationRead(e) ==
  /\ ppc[e] = "idle" /\ e \in Translation
  /\ \/ /\ cache # NoText
        /\ basis' = [basis EXCEPT ![e] = cache]
        /\ ppc' = [ppc EXCEPT ![e] = "publish"]
        /\ UNCHANGED seen
     \/ /\ wiki.text = NoText
        /\ basis' = [basis EXCEPT ![e] = {}]
        /\ ppc' = [ppc EXCEPT ![e] = "publish"]
        /\ UNCHANGED seen
     \/ /\ wiki.text # NoText
        /\ basis' = [basis EXCEPT ![e] = wiki.text]
        /\ seen' = [seen EXCEPT ![e] = wiki.text]
        /\ ppc' = [ppc EXCEPT ![e] = "fill"]
  /\ UNCHANGED <<wvars, cache, cvars, qvars, failures, env>>

\* The message enters the durable queue. Deletions need no text, and what is
\* wrong with a malformed message does not matter.
Publish(e) ==
  /\ \/ ppc[e] = "publish"
     \/ ppc[e] = "idle" /\ e \in Removal \cup Junk
  /\ ppc' = [ppc EXCEPT ![e] = "published"]
  /\ queue' = Append(queue, e)
  /\ UNCHANGED <<wvars, cache, basis, seen, cvars, redel, settled, failures, env>>

\* The content of an edit's message.
Content(e) == basis[e] \cup {e}

-----------------------------------------------------------------------------
\* Consumers

\* The callback is called; an invalid message is refused at once. A message
\* without a summary makes save_to_wiki ask whether the page exists first, which
\* only adds a call that may fail to the read or write that follows.
Deliver(c) ==
  /\ cpc[c] = "idle" /\ queue # <<>>
  /\ LET e == Head(queue) IN
     /\ cur' = [cur EXCEPT ![c] = e]
     /\ again' = [again EXCEPT ![c] = e \in redel]
     /\ cpc' = [cpc EXCEPT ![c] = CASE e \in Junk -> "settle"
                                    [] e \in Fix -> "read"
                                    [] OTHER -> "write"]
     /\ result' = [result EXCEPT ![c] = IF e \in Junk THEN "invalid" ELSE "none"]
  /\ queue' = Tail(queue)
  /\ UNCHANGED <<wvars, cache, pvars, lost, live, redel, settled, failures, env>>

\* save_to_wiki returns, or raises.
Return(c, r) ==
  /\ cpc' = [cpc EXCEPT ![c] = "settle"]
  /\ result' = [result EXCEPT ![c] = r]

\* The limiter refuses to start a request, or cannot record an embargo.
LimiterFails(c) ==
  /\ limited < MaxLimited /\ limited' = limited + 1
  /\ Return(c, "limited")
  /\ UNCHANGED <<live, failures>>

\* Anything else goes wrong.
CallFails(c) ==
  /\ failures' = [failures EXCEPT ![cur[c]] = IF @ < 2 THEN @ + 1 ELSE @]
  /\ Return(c, "error")
  /\ UNCHANGED <<live, limited>>

\* A guarded edit reads the live page first; a missing page makes it stale.
Read(c) ==
  /\ cpc[c] = "read"
  /\ \/ LimiterFails(c)
     \/ CallFails(c)
     \/ /\ wiki.text = NoText
        /\ Return(c, "stale")
        /\ UNCHANGED <<live, failures, limited>>
     \/ /\ wiki.text # NoText
        /\ live' = [live EXCEPT ![c] = wiki]
        /\ cpc' = [cpc EXCEPT ![c] = "refresh"]
        /\ UNCHANGED <<result, failures, limited>>
  /\ UNCHANGED <<wvars, cache, pvars, cur, again, lost, qvars, done, faults>>

\* The hash of the text just read is the hash in the message.
HashMatches(c) == live[c].text = basis[cur[c]]

\* The text just read is cached, then compared.
Refresh(c) ==
  /\ cpc[c] = "refresh"
  /\ PushPage(live[c].text)
  /\ IF HashMatches(c)
     THEN cpc' = [cpc EXCEPT ![c] = "write"] /\ UNCHANGED result
     ELSE Return(c, "stale")
  /\ UNCHANGED <<wvars, pvars, cur, again, lost, live, qvars, failures, env>>

\* Faulty: the page is read and saved through different Pywikibot pages.
WriteAllowedAnyRevision(c) ==
  IF cur[c] \in Translation THEN TRUE ELSE wiki.text # NoText

\* What the wiki accepts: a guarded edit may neither create the page nor replace
\* a revision other than the one its Pywikibot page loaded; any other edit
\* replaces what there is; deleting needs a page.
WriteAllowed(c) ==
  CASE cur[c] \in Fix -> wiki.text # NoText /\ wiki.rev = live[c].rev
    [] cur[c] \in Removal -> wiki.text # NoText
    [] OTHER -> TRUE

\* The write reaches the wiki.
Apply(c) ==
  /\ WriteAllowed(c)
  /\ Write(IF cur[c] \in Removal THEN NoText ELSE Content(cur[c]))
  /\ applied' = applied \cup {cur[c]}

\* Faulty: the cache is updated although the write failed.
SaveCachingFailures(c) ==
  /\ cpc[c] = "write"
  /\ \/ LimiterFails(c) /\ UNCHANGED wvars
     \/ CallFails(c) /\ Apply(c)
     \/ /\ Apply(c) \/ UNCHANGED wvars
        /\ cpc' = [cpc EXCEPT ![c] = "cache"]
        /\ UNCHANGED <<live, result, failures, limited>>
  /\ UNCHANGED <<cache, pvars, cur, again, lost, qvars, done, faults>>

\* RedisPage.put and delete: the call does nothing, or it is carried out, and
\* then its answer may still be lost.
Save(c) ==
  /\ cpc[c] = "write"
  /\ \/ LimiterFails(c) /\ UNCHANGED wvars
     \/ CallFails(c) /\ UNCHANGED wvars
     \/ CallFails(c) /\ Apply(c)
     \/ /\ Apply(c)
        /\ cpc' = [cpc EXCEPT ![c] = "cache"]
        /\ UNCHANGED <<live, result, failures, limited>>
  /\ UNCHANGED <<cache, pvars, cur, again, lost, qvars, done, faults>>

\* The cache follows a successful write.
SaveCache(c) ==
  /\ cpc[c] = "cache"
  /\ PushPage(IF cur[c] \in Removal THEN NoText ELSE Content(cur[c]))
  /\ Return(c, "ok")
  /\ UNCHANGED <<wvars, pvars, cur, again, lost, live, qvars, failures, env>>

\* Faulty: every failure is put back.
RequeueErrors(c) == result[c] \in {"limited", "error"}

\* Faulty: only the limiter's failures are put back.
RequeueLimited(c) == result[c] = "limited"

\* Which failed edits are put back: the limiter's always, others once.
Requeue(c) == \/ result[c] = "limited"
              \/ result[c] = "error" /\ ~again[c]

\* Faulty: the failure handler acknowledges.
VerdictSwallowed(c) == IF result[c] = "invalid" THEN "dropped" ELSE "acked"

\* What becomes of the message: "acked", "dropped", or None when it is put back.
Verdict(c) ==
  CASE result[c] \in {"ok", "stale"} -> "acked"
    [] Requeue(c) -> None
    [] OTHER -> "dropped"

\* The consumer forgets the delivery and its Pywikibot page.
Forget(c) ==
  /\ cpc' = [cpc EXCEPT ![c] = "idle"]
  /\ cur' = [cur EXCEPT ![c] = None]
  /\ again' = [again EXCEPT ![c] = FALSE]
  /\ lost' = [lost EXCEPT ![c] = FALSE]
  /\ live' = [live EXCEPT ![c] = [text |-> NoText, rev |-> 0]]
  /\ result' = [result EXCEPT ![c] = "none"]

\* RabbitMQ puts a message back at the head of the queue, marked as redelivered.
PutBack(e) ==
  /\ queue' = <<e>> \o queue
  /\ redel' = redel \cup {e}
  /\ UNCHANGED settled

\* basic_ack or basic_nack. On a lost connection it raises and the consumer
\* ends; RabbitMQ has put the message back already.
Settle(c) ==
  /\ cpc[c] = "settle"
  /\ IF lost[c] THEN UNCHANGED qvars
     ELSE IF Verdict(c) = None THEN PutBack(cur[c])
     ELSE /\ settled' = [settled EXCEPT ![cur[c]] = Verdict(c)]
          /\ UNCHANGED <<queue, redel>>
  /\ Forget(c)
  /\ UNCHANGED <<wvars, cache, pvars, failures, env>>

-----------------------------------------------------------------------------
\* The environment

\* A consumer dies in the middle of a delivery and is started again.
Crash(c) ==
  /\ cpc[c] # "idle"
  /\ faults < MaxFaults /\ faults' = faults + 1
  /\ IF lost[c] THEN UNCHANGED qvars ELSE PutBack(cur[c])
  /\ Forget(c)
  /\ UNCHANGED <<wvars, cache, pvars, failures, done, limited>>

\* RabbitMQ gives up on a consumer that was busy for longer than its heartbeats
\* allow. The callback does not notice until it settles the message.
Disconnect(c) ==
  /\ cpc[c] # "idle" /\ ~lost[c]
  /\ faults < MaxFaults /\ faults' = faults + 1
  /\ PutBack(cur[c])
  /\ lost' = [lost EXCEPT ![c] = TRUE]
  /\ UNCHANGED <<wvars, cache, pvars, cpc, cur, again, live, result, failures, done, limited>>

\* Somebody edits the page, takes a contribution out of it, or deletes it.
Act(h) ==
  /\ h \notin done /\ done' = done \cup {h}
  /\ \/ Write(IF wiki.text = NoText THEN {h} ELSE wiki.text \cup {h})
     \/ /\ wiki.text # NoText
        /\ \/ \E x \in wiki.text : Write(wiki.text \ {x})
           \/ Write(NoText)
  /\ UNCHANGED <<applied, cache, pvars, cvars, qvars, failures, faults, limited>>

Produce(e) == FixFetch(e) \/ FixRecheck(e) \/ Fill(e) \/ TranslationRead(e) \/ Publish(e)
Consume(c) == Deliver(c) \/ Read(c) \/ Refresh(c) \/ Save(c) \/ SaveCache(c) \/ Settle(c)

Next ==
  \/ \E e \in Edit : Produce(e)
  \/ \E c \in Consumer : Consume(c) \/ Crash(c) \/ Disconnect(c)
  \/ \E h \in Human : Act(h)

Spec == Init /\ [][Next]_vars

\* Consumers keep consuming. Nobody has to produce, to edit or to fail.
FairSpec == Spec /\ \A c \in Consumer : WF_vars(Consume(c))

-----------------------------------------------------------------------------
\* Properties

Page == [text : Text \cup {NoText}, rev : Nat]

WikiType == /\ wiki \in Page /\ cache \in Text \cup {NoText}
            /\ had \subseteq Text \cup {NoText} /\ applied \subseteq Edit
ProducerType ==
  /\ ppc \in [Edit -> {"idle", "fill", "recheck", "refill", "publish", "published", "ended"}]
  /\ basis \in [Edit -> Text \cup {NoText}] /\ seen \in [Edit -> Text \cup {NoText}]
QueueType == /\ queue \in Seq(Edit) /\ redel \subseteq Edit
             /\ settled \in [Edit -> {"acked", "dropped", None}]
ConsumerType ==
  /\ cpc \in [Consumer -> {"idle", "read", "refresh", "write", "cache", "settle"}]
  /\ cur \in [Consumer -> Edit \cup {None}]
  /\ again \in [Consumer -> BOOLEAN] /\ lost \in [Consumer -> BOOLEAN]
  /\ live \in [Consumer -> Page]
  /\ result \in [Consumer -> {"none", "ok", "stale", "limited", "error", "invalid"}]
BoundType == /\ failures \in [Edit -> 0..2] /\ done \subseteq Human
             /\ faults \in 0..MaxFaults /\ limited \in 0..MaxLimited

\* Every variable has its type.
TypeOK == WikiType /\ ProducerType /\ QueueType /\ ConsumerType /\ BoundType

\* save_to_wiki, conditional edits: whatever happens between the check, the
\* queue and the save, and however often the message is delivered, a fix that
\* reaches the wiki adds itself to the page's current text, loses nobody's
\* contribution, and is not applied on top of itself.
FixesLoseNothing ==
  [][\A c \in Consumer :
       cpc[c] = "write" /\ cpc'[c] # "write" /\ cur[c] \in Fix /\ wiki' # wiki
         => /\ wiki.text # NoText
            /\ cur[c] \notin wiki.text
            /\ wiki'.text = wiki.text \cup {cur[c]}]_vars

\* RedisPage.put, delete and get: the cache holds no text that the page never had.
CacheIsPast == cache = NoText \/ cache \in had

\* callback: a message that was acknowledged did its work, unless it was a
\* guarded edit, which may have been found stale.
AckedWasApplied ==
  \A e \in Edit \ Fix : settled[e] = "acked" => e \in applied

\* Where an edit's message is: a consumer whose connection was lost no longer has it.
\* A message that was published and is nowhere is lost.
HoldersOf(e) == {c \in Consumer : cur[c] = e /\ ~lost[c]}
PlaceOf(e) ==
  IF ppc[e] # "published" THEN "new"
  ELSE IF settled[e] # None THEN "settled"
  ELSE IF HoldersOf(e) # {} THEN "held"
  ELSE IF \E i \in 1..Len(queue) : queue[i] = e THEN "ready" ELSE "lost"

deliveries == INSTANCE Deliveries WITH
  Message <- Edit, owing <- Translation \cup Removal, again <- redel, done <- applied,
  state <- [e \in Edit |-> PlaceOf(e)], holder <- [e \in Edit |-> HoldersOf(e)]

\* callback, its acknowledgements and the crashes and lost connections between them: no
\* edit is lost, settled twice, or held by two connected consumers; one that is not
\* guarded is given up, unapplied, only after it was put back before; and what a
\* consumer without a connection still saves was delivered to it.
EditsAreDelivered == deliveries!Spec

\* callback: every message that was queued is acknowledged or dropped in the end,
\* even if every save fails.
EveryEditSettles ==
  \A e \in Edit : ppc[e] = "published" ~> settled[e] # None

\* rabbitmq_pywikibot.py, callback: "retry other failures once". A valid message
\* is dropped only after a second failure that was not the limiter's.
RetriedOnce ==
  \A e \in Edit \ Junk : settled[e] = "dropped" => failures[e] = 2
=============================================================================
