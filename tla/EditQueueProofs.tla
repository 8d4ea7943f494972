-------------------------- MODULE EditQueueProofs --------------------------
(* Proofs about EditQueue, for every value of its constants. *)
EXTENDS EditQueue, TLAPS

\* What is queued or worked on was published, and an edit of a page has the text
\* it was built from.
Queued == \A i \in 1..Len(queue) : ppc[queue[i]] = "published"
Working ==
  /\ \A c \in Consumer : cpc[c] # "idle" => cur[c] \in Edit /\ ppc[cur[c]] = "published"
  /\ \A c \in Consumer : cpc[c] \in {"read", "refresh"} => cur[c] \in Fix
  /\ \A c \in Consumer : cpc[c] \in {"write", "cache"} => cur[c] \notin Junk
Built == \A e \in Fix \cup Translation : ppc[e] # "idle" => basis[e] \in Text
Shape == Queued /\ Working /\ Built

TypeInv == TypeOK /\ Shape

\* Every copy of the page is a text it has had, and so is what is about to be
\* cached.
Past ==
  /\ wiki.text \in had
  /\ cache = NoText \/ cache \in had
  /\ \A e \in Edit : seen[e] = NoText \/ seen[e] \in had
  /\ \A c \in Consumer : live[c].text = NoText \/ live[c].text \in had
  /\ \A c \in Consumer :
       cpc[c] = "cache" /\ cur[c] \notin Removal => Content(cur[c]) \in had

\* What a consumer reports of its edit is true.
Outcome ==
  /\ \A c \in Consumer : cpc[c] = "cache" \/ result[c] = "ok" => cur[c] \in applied
  /\ \A c \in Consumer : result[c] = "stale" => cur[c] \in Fix
  /\ AckedWasApplied

\* An edit that was not sent is in no text, and no edit is in the text it was
\* built from.
Fresh ==
  /\ \A e \in Edit : ppc[e] # "published" =>
       /\ e \notin wiki.text /\ e \notin cache
       /\ \A d \in Edit : e \notin basis[d] /\ e \notin seen[d]
       /\ \A c \in Consumer : e \notin live[c].text
  /\ \A e \in Edit : e \notin basis[e]

\* A consumer about to save a fix has loaded the text the fix replaces; while
\* the revision is the one it loaded, so is the text.
Guarded ==
  /\ \A c \in Consumer : live[c].rev <= wiki.rev
  /\ \A c \in Consumer : cpc[c] \in {"refresh", "write"} /\ cur[c] \in Fix =>
       /\ live[c].text # NoText
       /\ live[c].rev = wiki.rev => live[c].text = wiki.text
  /\ \A c \in Consumer : cpc[c] = "write" /\ cur[c] \in Fix =>
       live[c].text = basis[cur[c]]

IInv == TypeInv /\ Past /\ Outcome /\ Fresh /\ Guarded

\* Texts are closed under what edits and people do to them; no text is missing.
LEMMA TextFacts ==
  /\ {} \in Text /\ NoText \notin Text
  /\ \A t \in Text, x \in Edit \cup Human : t \cup {x} \in Text /\ {x} \in Text
  /\ \A t \in Text : \A x : t \ {x} \in Text
  /\ \A e \in Edit : e \notin NoText
  BY NoneAssumption DEF Text, NoText

\* Queues keep to what was queued before.
LEMMA QueueFacts ==
  ASSUME NEW q \in Seq(Edit), NEW e \in Edit
  PROVE  /\ Append(q, e) \in Seq(Edit) /\ <<e>> \o q \in Seq(Edit)
         /\ \A i \in 1..Len(Append(q, e)) :
              Append(q, e)[i] = e \/ \E k \in 1..Len(q) : Append(q, e)[i] = q[k]
         /\ \A i \in 1..Len(<<e>> \o q) :
              (<<e>> \o q)[i] = e \/ \E k \in 1..Len(q) : (<<e>> \o q)[i] = q[k]
         /\ q # <<>> => /\ Tail(q) \in Seq(Edit) /\ Head(q) \in Edit
                        /\ \E k \in 1..Len(q) : Head(q) = q[k]
                        /\ \A i \in 1..Len(Tail(q)) : \E k \in 1..Len(q) : Tail(q)[i] = q[k]
  <1>1. \A i \in 1..Len(Append(q, e)) :
          Append(q, e)[i] = e \/ \E k \in 1..Len(q) : Append(q, e)[i] = q[k]
    OBVIOUS
  <1>2. \A i \in 1..Len(<<e>> \o q) :
          (<<e>> \o q)[i] = e \/ \E k \in 1..Len(q) : (<<e>> \o q)[i] = q[k]
    <2> TAKE i \in 1..Len(<<e>> \o q)
    <2>1. CASE i = 1
      BY <2>1
    <2>2. CASE i # 1
      <3>1. i - 1 \in 1..Len(q) /\ (<<e>> \o q)[i] = q[i - 1]
        BY <2>2
      <3> QED
        BY <3>1
    <2> QED
      BY <2>1, <2>2
  <1>3. ASSUME q # <<>>
        PROVE  /\ Tail(q) \in Seq(Edit) /\ Head(q) \in Edit
               /\ \E k \in 1..Len(q) : Head(q) = q[k]
               /\ \A i \in 1..Len(Tail(q)) : \E k \in 1..Len(q) : Tail(q)[i] = q[k]
    <2>1. Head(q) = q[1] /\ 1 \in 1..Len(q) /\ Tail(q) \in Seq(Edit)
      BY <1>3
    <2>2. \A i \in 1..Len(Tail(q)) : i + 1 \in 1..Len(q) /\ Tail(q)[i] = q[i + 1]
      BY <1>3
    <2>3. Head(q) \in Edit
      BY <2>1
    <2>4. \A i \in 1..Len(Tail(q)) : \E k \in 1..Len(q) : Tail(q)[i] = q[k]
      BY <2>2
    <2> QED
      BY <2>1, <2>3, <2>4
  <1> QED
    BY <1>1, <1>2, <1>3

\* The groups of variables are only abbreviations in UNCHANGED.
USE DEF wvars, pvars, cvars, qvars, env

\* The initial state satisfies the type invariant.
LEMMA InitTypeInv == Init => TypeInv
  <1> SUFFICES ASSUME Init PROVE TypeInv
    OBVIOUS
  <1>1. WikiType
    <2>1. PICK t \in {NoText, {}} :
            wiki = [text |-> t, rev |-> 0] /\ had = {t} /\ cache \in {NoText, t}
      BY DEF Init
    <2>2. t \in Text \cup {NoText}
      BY TextFacts
    <2> QED
      BY <2>1, <2>2 DEF Init, WikiType, Page
  <1>2. ProducerType /\ QueueType /\ ConsumerType /\ BoundType
    BY BoundsAssumption DEF Init, ProducerType, QueueType, ConsumerType, BoundType, Page
  <1>3. Shape
    BY DEF Init, Shape, Queued, Working, Built, Edit
  <1> QED
    BY <1>1, <1>2, <1>3 DEF TypeInv, TypeOK

\* A message that RabbitMQ puts back was published.
LEMMA PutBackFacts ==
  ASSUME QueueType, Queued, NEW e \in Edit, ppc[e] = "published", PutBack(e), ppc' = ppc
  PROVE  QueueType' /\ Queued'
  <1>1. queue \in Seq(Edit)
    BY DEF QueueType
  <1>2. QueueType'
    BY <1>1, QueueFacts DEF QueueType, PutBack
  <1>3. \A i \in 1..Len(<<e>> \o queue) :
          (<<e>> \o queue)[i] = e \/ \E k \in 1..Len(queue) : (<<e>> \o queue)[i] = queue[k]
    BY <1>1, QueueFacts
  <1>4. Queued'
    BY <1>3 DEF Queued, PutBack
  <1> QED
    BY <1>2, <1>4

\* What is delivered was published.
LEMMA HeadFacts ==
  ASSUME QueueType, Queued, queue # <<>>
  PROVE  Head(queue) \in Edit /\ ppc[Head(queue)] = "published"
  <1>1. queue \in Seq(Edit) /\ Head(queue) = queue[1] /\ 1 \in 1..Len(queue)
    BY DEF QueueType
  <1> QED
    BY <1>1 DEF Queued

\* The content of an edit that is saved is a text.
LEMMA ContentIsText ==
  ASSUME TypeOK, Shape, NEW c \in Consumer, cpc[c] \in {"write", "cache"}, cur[c] \notin Removal
  PROVE  Content(cur[c]) \in Text
  <1>1. cur[c] \in Edit /\ cur[c] \in Fix \cup Translation /\ ppc[cur[c]] # "idle"
    BY DEF Shape, Working, Edit
  <1>2. basis[cur[c]] \in Text
    BY <1>1 DEF Shape, Built
  <1> QED
    BY <1>1, <1>2, TextFacts DEF Content

\* Every step preserves the type invariant, action by action.
LEMMA NextTypeInv == TypeInv /\ [Next]_vars => TypeInv'
  <1> SUFFICES ASSUME TypeInv, [Next]_vars PROVE TypeInv'
    OBVIOUS
  <1> USE DEF TypeInv, TypeOK, Shape
  <1>1. ASSUME NEW e \in Edit, FixFetch(e) PROVE TypeInv'
    <2>1. WikiType'
      BY <1>1, TextFacts DEF WikiType, ProducerType, ConsumerType, Page, FixFetch
    <2>2. ProducerType'
      BY <1>1, TextFacts DEF ProducerType, WikiType, Page, FixFetch
    <2>3. (QueueType /\ Queued)'
      BY <1>1 DEF QueueType, Queued, ProducerType, FixFetch
    <2>4. ConsumerType'
      BY <1>1, TextFacts DEF ConsumerType, QueueType, WikiType, Page, FixFetch
    <2>5. BoundType'
      BY <1>1, BoundsAssumption DEF BoundType, ConsumerType, Working, FixFetch
    <2>6. Working'
      BY <1>1, KindsAssumption DEF Working, ProducerType, ConsumerType, FixFetch
    <2>7. Built'
      BY <1>1, KindsAssumption DEF Built, ProducerType, WikiType, Page, Edit, FixFetch
    <2> QED
      BY <2>1, <2>2, <2>3, <2>4, <2>5, <2>6, <2>7 DEF TypeInv
  <1>2. ASSUME NEW e \in Edit, FixRecheck(e) PROVE TypeInv'
    <2>1. WikiType'
      BY <1>2, TextFacts DEF WikiType, ProducerType, ConsumerType, Page, FixRecheck
    <2>2. ProducerType'
      BY <1>2, TextFacts DEF ProducerType, WikiType, Page, FixRecheck
    <2>3. (QueueType /\ Queued)'
      BY <1>2 DEF QueueType, Queued, ProducerType, FixRecheck
    <2>4. ConsumerType'
      BY <1>2, TextFacts DEF ConsumerType, QueueType, WikiType, Page, FixRecheck
    <2>5. BoundType'
      BY <1>2, BoundsAssumption DEF BoundType, ConsumerType, Working, FixRecheck
    <2>6. Working'
      BY <1>2, KindsAssumption DEF Working, ProducerType, ConsumerType, FixRecheck
    <2>7. Built'
      BY <1>2, KindsAssumption DEF Built, ProducerType, WikiType, Page, Edit, FixRecheck
    <2> QED
      BY <2>1, <2>2, <2>3, <2>4, <2>5, <2>6, <2>7 DEF TypeInv
  <1>3. ASSUME NEW e \in Edit, Fill(e) PROVE TypeInv'
    <2>1. WikiType'
      BY <1>3, TextFacts DEF WikiType, ProducerType, ConsumerType, Page, Fill, PushPage,
         AfterFill
    <2>2. ProducerType'
      BY <1>3, TextFacts DEF ProducerType, WikiType, Page, Fill, PushPage, AfterFill
    <2>3. (QueueType /\ Queued)'
      BY <1>3 DEF QueueType, Queued, ProducerType, Fill, PushPage, AfterFill
    <2>4. ConsumerType'
      BY <1>3, TextFacts DEF ConsumerType, QueueType, WikiType, Page, Fill, PushPage, AfterFill
    <2>5. BoundType'
      BY <1>3, BoundsAssumption DEF BoundType, ConsumerType, Working, Fill, PushPage, AfterFill
    <2>6. Working'
      BY <1>3, KindsAssumption DEF Working, ProducerType, ConsumerType, Fill, PushPage,
         AfterFill
    <2>7. Built'
      BY <1>3, KindsAssumption DEF Built, ProducerType, WikiType, Page, Edit, Fill, PushPage,
         AfterFill
    <2> QED
      BY <2>1, <2>2, <2>3, <2>4, <2>5, <2>6, <2>7 DEF TypeInv
  <1>4. ASSUME NEW e \in Edit, TranslationRead(e) PROVE TypeInv'
    <2>1. WikiType'
      BY <1>4, TextFacts DEF WikiType, ProducerType, ConsumerType, Page, TranslationRead
    <2>2. ProducerType'
      <3>1. wiki.text \in Text \cup {NoText} /\ cache \in Text \cup {NoText} /\ {} \in Text
        BY TextFacts DEF WikiType, Page
      <3> QED
        BY <1>4, <3>1 DEF TranslationRead, ProducerType
    <2>3. (QueueType /\ Queued)'
      BY <1>4 DEF QueueType, Queued, ProducerType, TranslationRead
    <2>4. ConsumerType'
      BY <1>4, TextFacts DEF ConsumerType, QueueType, WikiType, Page, TranslationRead
    <2>5. BoundType'
      BY <1>4, BoundsAssumption DEF BoundType, ConsumerType, Working, TranslationRead
    <2>6. Working'
      BY <1>4, KindsAssumption DEF Working, ProducerType, ConsumerType, TranslationRead
    <2>7. Built'
      <3>1. wiki.text \in Text \cup {NoText} /\ cache \in Text \cup {NoText} /\ {} \in Text
        BY TextFacts DEF WikiType, Page
      <3> QED
        BY <1>4, <3>1 DEF TranslationRead, ProducerType, Built, Edit
    <2> QED
      BY <2>1, <2>2, <2>3, <2>4, <2>5, <2>6, <2>7 DEF TypeInv
  <1>5. ASSUME NEW e \in Edit, Publish(e) PROVE TypeInv'
    <2>1. WikiType'
      BY <1>5, TextFacts DEF WikiType, ProducerType, ConsumerType, Page, Publish
    <2>2. ProducerType'
      BY <1>5, TextFacts DEF ProducerType, WikiType, Page, Publish
    <2>3. (QueueType /\ Queued)'
      <3>1. queue \in Seq(Edit) /\ queue' = Append(queue, e)
        BY <1>5 DEF Publish, QueueType
      <3>2. Append(queue, e) \in Seq(Edit)
        BY <3>1
      <3>3. \A i \in 1..Len(Append(queue, e)) :
              Append(queue, e)[i] = e \/ \E k \in 1..Len(queue) : Append(queue, e)[i] = queue[k]
        BY <3>1, QueueFacts
      <3>4. Queued'
        BY <1>5, <3>1, <3>3 DEF Publish, Queued, ProducerType
      <3> QED
        BY <1>5, <3>1, <3>2, <3>4 DEF Publish, QueueType
    <2>4. ConsumerType'
      BY <1>5, TextFacts DEF ConsumerType, QueueType, WikiType, Page, Publish
    <2>5. BoundType'
      BY <1>5, BoundsAssumption DEF BoundType, ConsumerType, Working, Publish
    <2>6. Working'
      BY <1>5, KindsAssumption DEF Working, ProducerType, ConsumerType, Publish
    <2>7. Built'
      BY <1>5, KindsAssumption DEF Built, ProducerType, WikiType, Page, Edit, Publish
    <2> QED
      BY <2>1, <2>2, <2>3, <2>4, <2>5, <2>6, <2>7 DEF TypeInv
  <1>6. ASSUME NEW c \in Consumer, Deliver(c) PROVE TypeInv'
    <2>1. WikiType'
      BY <1>6, TextFacts DEF WikiType, ProducerType, ConsumerType, Page, Deliver
    <2>2. ProducerType'
      BY <1>6, TextFacts DEF ProducerType, WikiType, Page, Deliver
    <2>3. (QueueType /\ Queued)'
      <3>1. queue \in Seq(Edit) /\ queue # <<>> /\ queue' = Tail(queue)
        BY <1>6 DEF Deliver, QueueType
      <3>2. /\ Tail(queue) \in Seq(Edit)
            /\ \A i \in 1..Len(Tail(queue)) : \E k \in 1..Len(queue) : Tail(queue)[i] = queue[k]
        BY <3>1, QueueFacts DEF QueueType
      <3>3. Queued'
        BY <1>6, <3>1, <3>2 DEF Deliver, Queued
      <3> QED
        BY <1>6, <3>1, <3>2, <3>3 DEF Deliver, QueueType
    <2>4. ConsumerType'
      <3>1. Head(queue) \in Edit /\ ppc[Head(queue)] = "published"
        BY <1>6, HeadFacts DEF Deliver
      <3> QED
        BY <1>6, <3>1 DEF Deliver, ConsumerType
    <2>5. BoundType'
      BY <1>6, BoundsAssumption DEF BoundType, ConsumerType, Working, Deliver
    <2>6. Working'
      <3>1. Head(queue) \in Edit /\ ppc[Head(queue)] = "published"
        BY <1>6, HeadFacts DEF Deliver
      <3> QED
        BY <1>6, <3>1, KindsAssumption DEF Deliver, Working, ConsumerType, Edit
    <2>7. Built'
      BY <1>6, KindsAssumption DEF Built, ProducerType, WikiType, Page, Edit, Deliver
    <2> QED
      BY <2>1, <2>2, <2>3, <2>4, <2>5, <2>6, <2>7 DEF TypeInv
  <1>7. ASSUME NEW c \in Consumer, Read(c) PROVE TypeInv'
    <2>1. WikiType'
      BY <1>7, TextFacts DEF WikiType, ProducerType, ConsumerType, Page, Read, LimiterFails,
         CallFails, Return
    <2>2. ProducerType'
      BY <1>7, TextFacts DEF ProducerType, WikiType, Page, Read, LimiterFails, CallFails, Return
    <2>3. (QueueType /\ Queued)'
      BY <1>7 DEF QueueType, Queued, ProducerType, Read, LimiterFails, CallFails, Return
    <2>4. ConsumerType'
      <3>1. live' \in [Consumer -> Page]
        BY <1>7 DEF Read, LimiterFails, CallFails, ConsumerType, WikiType
      <3> QED
        BY <1>7, <3>1 DEF Read, LimiterFails, CallFails, Return, ConsumerType
    <2>5. BoundType'
      BY <1>7, BoundsAssumption DEF BoundType, ConsumerType, Working, Read, LimiterFails,
         CallFails, Return
    <2>6. Working'
      BY <1>7, KindsAssumption DEF Working, ProducerType, ConsumerType, Read, LimiterFails,
         CallFails, Return
    <2>7. Built'
      BY <1>7, KindsAssumption DEF Built, ProducerType, WikiType, Page, Edit, Read,
         LimiterFails, CallFails, Return
    <2> QED
      BY <2>1, <2>2, <2>3, <2>4, <2>5, <2>6, <2>7 DEF TypeInv
  <1>8. ASSUME NEW c \in Consumer, Refresh(c) PROVE TypeInv'
    <2>1. WikiType'
      BY <1>8, TextFacts DEF WikiType, ProducerType, ConsumerType, Page, Refresh, PushPage,
         HashMatches, Return
    <2>2. ProducerType'
      BY <1>8, TextFacts DEF ProducerType, WikiType, Page, Refresh, PushPage, HashMatches,
         Return
    <2>3. (QueueType /\ Queued)'
      BY <1>8 DEF QueueType, Queued, ProducerType, Refresh, PushPage, HashMatches, Return
    <2>4. ConsumerType'
      BY <1>8, TextFacts DEF ConsumerType, QueueType, WikiType, Page, Refresh, PushPage,
         HashMatches, Return
    <2>5. BoundType'
      BY <1>8, BoundsAssumption DEF BoundType, ConsumerType, Working, Refresh, PushPage,
         HashMatches, Return
    <2>6. Working'
      BY <1>8, KindsAssumption DEF Working, ProducerType, ConsumerType, Refresh, PushPage,
         HashMatches, Return
    <2>7. Built'
      BY <1>8, KindsAssumption DEF Built, ProducerType, WikiType, Page, Edit, Refresh,
         PushPage, HashMatches, Return
    <2> QED
      BY <2>1, <2>2, <2>3, <2>4, <2>5, <2>6, <2>7 DEF TypeInv
  <1>9. ASSUME NEW c \in Consumer, Save(c) PROVE TypeInv'
    <2>1. WikiType'
      <3>1. CASE Apply(c)
        <4>1. (IF cur[c] \in Removal THEN NoText ELSE Content(cur[c])) \in Text \cup {NoText}
          BY <1>9, ContentIsText DEF Save
        <4>2. cur[c] \in Edit
          BY <1>9 DEF Save, Working
        <4> QED
          BY <1>9, <3>1, <4>1, <4>2 DEF Save, Apply, Write, WikiType, Page
      <3>2. CASE UNCHANGED wvars
        BY <1>9, <3>2 DEF Save, WikiType
      <3> QED
        BY <1>9, <3>1, <3>2 DEF Save
    <2>2. ProducerType'
      BY <1>9, TextFacts DEF ProducerType, WikiType, Page, Save, LimiterFails, CallFails,
         Return, Apply, Write
    <2>3. (QueueType /\ Queued)'
      BY <1>9 DEF QueueType, Queued, ProducerType, Save, LimiterFails, CallFails, Return,
         Apply, Write
    <2>4. ConsumerType'
      BY <1>9, TextFacts DEF ConsumerType, QueueType, WikiType, Page, Save, LimiterFails,
         CallFails, Return, Apply, Write
    <2>5. BoundType'
      BY <1>9, BoundsAssumption DEF BoundType, ConsumerType, Working, Save, LimiterFails,
         CallFails, Return, Apply, Write
    <2>6. Working'
      BY <1>9, KindsAssumption DEF Working, ProducerType, ConsumerType, Save, LimiterFails,
         CallFails, Return, Apply, Write
    <2>7. Built'
      BY <1>9, KindsAssumption DEF Built, ProducerType, WikiType, Page, Edit, Save,
         LimiterFails, CallFails, Return, Apply, Write
    <2> QED
      BY <2>1, <2>2, <2>3, <2>4, <2>5, <2>6, <2>7 DEF TypeInv
  <1>10. ASSUME NEW c \in Consumer, SaveCache(c) PROVE TypeInv'
    <2>1. WikiType'
      <3>1. (IF cur[c] \in Removal THEN NoText ELSE Content(cur[c])) \in Text \cup {NoText}
        BY <1>10, ContentIsText DEF SaveCache
      <3> QED
        BY <1>10, <3>1 DEF SaveCache, PushPage, WikiType
    <2>2. ProducerType'
      BY <1>10, TextFacts DEF ProducerType, WikiType, Page, SaveCache, PushPage, Return
    <2>3. (QueueType /\ Queued)'
      BY <1>10 DEF QueueType, Queued, ProducerType, SaveCache, PushPage, Return
    <2>4. ConsumerType'
      BY <1>10, TextFacts DEF ConsumerType, QueueType, WikiType, Page, SaveCache, PushPage,
         Return
    <2>5. BoundType'
      BY <1>10, BoundsAssumption DEF BoundType, ConsumerType, Working, SaveCache, PushPage,
         Return
    <2>6. Working'
      BY <1>10, KindsAssumption DEF Working, ProducerType, ConsumerType, SaveCache, PushPage,
         Return
    <2>7. Built'
      BY <1>10, KindsAssumption DEF Built, ProducerType, WikiType, Page, Edit, SaveCache,
         PushPage, Return
    <2> QED
      BY <2>1, <2>2, <2>3, <2>4, <2>5, <2>6, <2>7 DEF TypeInv
  <1>11. ASSUME NEW c \in Consumer, Settle(c) PROVE TypeInv'
    <2>1. WikiType'
      BY <1>11, TextFacts DEF WikiType, ProducerType, ConsumerType, Page, Settle, Forget,
         PutBack
    <2>2. ProducerType'
      BY <1>11, TextFacts DEF ProducerType, WikiType, Page, Settle, Forget, PutBack
    <2>3. (QueueType /\ Queued)'
      <3>1. cur[c] \in Edit /\ ppc[cur[c]] = "published"
        BY <1>11 DEF Settle, Working
      <3>2. CASE PutBack(cur[c])
        BY <1>11, <3>1, <3>2, PutBackFacts DEF Settle
      <3>3. CASE ~PutBack(cur[c])
        BY <1>11, <3>3 DEF Settle, QueueType, Queued, Verdict, ConsumerType
      <3> QED
        BY <3>2, <3>3
    <2>4. ConsumerType'
      BY <1>11, TextFacts DEF ConsumerType, QueueType, WikiType, Page, Settle, Forget, PutBack
    <2>5. BoundType'
      BY <1>11, BoundsAssumption DEF BoundType, ConsumerType, Working, Settle, Forget, PutBack
    <2>6. Working'
      BY <1>11, KindsAssumption DEF Working, ProducerType, ConsumerType, Settle, Forget, PutBack
    <2>7. Built'
      BY <1>11, KindsAssumption DEF Built, ProducerType, WikiType, Page, Edit, Settle,
         Forget, PutBack
    <2> QED
      BY <2>1, <2>2, <2>3, <2>4, <2>5, <2>6, <2>7 DEF TypeInv
  <1>12. ASSUME NEW c \in Consumer, Crash(c) PROVE TypeInv'
    <2>1. WikiType'
      BY <1>12, TextFacts DEF WikiType, ProducerType, ConsumerType, Page, Crash, Forget, PutBack
    <2>2. ProducerType'
      BY <1>12, TextFacts DEF ProducerType, WikiType, Page, Crash, Forget, PutBack
    <2>3. (QueueType /\ Queued)'
      <3>1. cur[c] \in Edit /\ ppc[cur[c]] = "published"
        BY <1>12 DEF Crash, Working
      <3>2. CASE PutBack(cur[c])
        BY <1>12, <3>1, <3>2, PutBackFacts DEF Crash
      <3>3. CASE ~PutBack(cur[c])
        BY <1>12, <3>3 DEF Crash, QueueType, Queued
      <3> QED
        BY <3>2, <3>3
    <2>4. ConsumerType'
      BY <1>12, TextFacts DEF ConsumerType, QueueType, WikiType, Page, Crash, Forget, PutBack
    <2>5. BoundType'
      BY <1>12, BoundsAssumption DEF BoundType, ConsumerType, Working, Crash, Forget, PutBack
    <2>6. Working'
      BY <1>12, KindsAssumption DEF Working, ProducerType, ConsumerType, Crash, Forget, PutBack
    <2>7. Built'
      BY <1>12, KindsAssumption DEF Built, ProducerType, WikiType, Page, Edit, Crash, Forget,
         PutBack
    <2> QED
      BY <2>1, <2>2, <2>3, <2>4, <2>5, <2>6, <2>7 DEF TypeInv
  <1>13. ASSUME NEW c \in Consumer, Disconnect(c) PROVE TypeInv'
    <2>1. WikiType'
      BY <1>13, TextFacts DEF WikiType, ProducerType, ConsumerType, Page, Disconnect, PutBack
    <2>2. ProducerType'
      BY <1>13, TextFacts DEF ProducerType, WikiType, Page, Disconnect, PutBack
    <2>3. (QueueType /\ Queued)'
      <3>1. cur[c] \in Edit /\ ppc[cur[c]] = "published"
        BY <1>13 DEF Disconnect, Working
      <3>2. CASE PutBack(cur[c])
        BY <1>13, <3>1, <3>2, PutBackFacts DEF Disconnect
      <3>3. CASE ~PutBack(cur[c])
        BY <1>13, <3>3 DEF Disconnect, QueueType, Queued
      <3> QED
        BY <3>2, <3>3
    <2>4. ConsumerType'
      BY <1>13, TextFacts DEF ConsumerType, QueueType, WikiType, Page, Disconnect, PutBack
    <2>5. BoundType'
      BY <1>13, BoundsAssumption DEF BoundType, ConsumerType, Working, Disconnect, PutBack
    <2>6. Working'
      BY <1>13, KindsAssumption DEF Working, ProducerType, ConsumerType, Disconnect, PutBack
    <2>7. Built'
      BY <1>13, KindsAssumption DEF Built, ProducerType, WikiType, Page, Edit, Disconnect,
         PutBack
    <2> QED
      BY <2>1, <2>2, <2>3, <2>4, <2>5, <2>6, <2>7 DEF TypeInv
  <1>14. ASSUME NEW h \in Human, Act(h) PROVE TypeInv'
    <2>1. WikiType'
      <3>1. PICK t \in Text \cup {NoText} : Write(t)
        BY <1>14, TextFacts DEF Act, WikiType, Page
      <3> QED
        BY <1>14, <3>1 DEF Act, Write, WikiType, Page
    <2>2. ProducerType'
      BY <1>14, TextFacts DEF ProducerType, WikiType, Page, Act, Write
    <2>3. (QueueType /\ Queued)'
      BY <1>14 DEF QueueType, Queued, ProducerType, Act, Write
    <2>4. ConsumerType'
      BY <1>14, TextFacts DEF ConsumerType, QueueType, WikiType, Page, Act, Write
    <2>5. BoundType'
      BY <1>14, BoundsAssumption DEF BoundType, ConsumerType, Working, Act, Write
    <2>6. Working'
      BY <1>14, KindsAssumption DEF Working, ProducerType, ConsumerType, Act, Write
    <2>7. Built'
      BY <1>14, KindsAssumption DEF Built, ProducerType, WikiType, Page, Edit, Act, Write
    <2> QED
      BY <2>1, <2>2, <2>3, <2>4, <2>5, <2>6, <2>7 DEF TypeInv
  <1>15. CASE UNCHANGED vars
    BY <1>15 DEF vars, TypeInv, TypeOK, WikiType, ProducerType, QueueType, ConsumerType,
       BoundType, Shape, Queued, Working, Built
  <1> QED
    BY <1>1, <1>2, <1>3, <1>4, <1>5, <1>6, <1>7, <1>8, <1>9, <1>10, <1>11, <1>12, <1>13,
       <1>14, <1>15 DEF Next, Produce, Consume

\* Type correctness: the variables keep their types, in particular no edit is
\* built from a page that does not exist.
THEOREM TypeCorrect == Spec => []TypeOK
  <1>1. TypeInv => TypeOK
    BY DEF TypeInv
  <1> QED
    BY <1>1, InitTypeInv, NextTypeInv, PTL DEF Spec

\* The type invariant with the shape of deliveries and drafts.
THEOREM TypeInvariant == Spec => []TypeInv
  BY InitTypeInv, NextTypeInv, PTL DEF Spec

\* Every copy of the page stays one of its texts.
LEMMA PastStep == TypeInv /\ Past /\ [Next]_vars => Past'
  <1> SUFFICES ASSUME TypeInv, Past, [Next]_vars PROVE Past'
    OBVIOUS
  <1> USE DEF TypeInv, TypeOK, Shape
  <1>1. ASSUME NEW e \in Edit, FixFetch(e) PROVE Past'
    BY <1>1 DEF Past, WikiType, ProducerType, ConsumerType, Content, Working, FixFetch
  <1>2. ASSUME NEW e \in Edit, FixRecheck(e) PROVE Past'
    BY <1>2 DEF Past, WikiType, ProducerType, ConsumerType, Content, Working, FixRecheck
  <1>3. ASSUME NEW e \in Edit, Fill(e) PROVE Past'
    BY <1>3 DEF Past, WikiType, ProducerType, ConsumerType, Content, Working, Fill, PushPage,
       AfterFill
  <1>4. ASSUME NEW e \in Edit, TranslationRead(e) PROVE Past'
    BY <1>4 DEF Past, WikiType, ProducerType, ConsumerType, Content, Working, TranslationRead
  <1>5. ASSUME NEW e \in Edit, Publish(e) PROVE Past'
    BY <1>5 DEF Past, WikiType, ProducerType, ConsumerType, Content, Working, Publish
  <1>6. ASSUME NEW c \in Consumer, Deliver(c) PROVE Past'
    BY <1>6 DEF Past, WikiType, ProducerType, ConsumerType, Content, Working, Deliver
  <1>7. ASSUME NEW c \in Consumer, Read(c) PROVE Past'
    BY <1>7 DEF Past, WikiType, ProducerType, ConsumerType, Content, Working, Read,
       LimiterFails, CallFails, Return
  <1>8. ASSUME NEW c \in Consumer, Refresh(c) PROVE Past'
    BY <1>8 DEF Past, WikiType, ProducerType, ConsumerType, Content, Working, Refresh,
       PushPage, HashMatches, Return
  <1>9. ASSUME NEW c \in Consumer, Save(c) PROVE Past'
    BY <1>9 DEF Past, WikiType, ProducerType, ConsumerType, Content, Working, Save,
       LimiterFails, CallFails, Return, Apply, Write
  <1>10. ASSUME NEW c \in Consumer, SaveCache(c) PROVE Past'
    BY <1>10 DEF Past, WikiType, ProducerType, ConsumerType, Content, Working, SaveCache,
       PushPage, Return
  <1>11. ASSUME NEW c \in Consumer, Settle(c) PROVE Past'
    BY <1>11 DEF Past, WikiType, ProducerType, ConsumerType, Content, Working, Settle,
       Forget, PutBack
  <1>12. ASSUME NEW c \in Consumer, Crash(c) PROVE Past'
    BY <1>12 DEF Past, WikiType, ProducerType, ConsumerType, Content, Working, Crash, Forget,
       PutBack
  <1>13. ASSUME NEW c \in Consumer, Disconnect(c) PROVE Past'
    BY <1>13 DEF Past, WikiType, ProducerType, ConsumerType, Content, Working, Disconnect,
       PutBack
  <1>14. ASSUME NEW h \in Human, Act(h) PROVE Past'
    BY <1>14 DEF Past, WikiType, ProducerType, ConsumerType, Content, Working, Act, Write
  <1>15. CASE UNCHANGED vars
    BY <1>15 DEF vars, Past, Content
  <1> QED
    BY <1>1, <1>2, <1>3, <1>4, <1>5, <1>6, <1>7, <1>8, <1>9, <1>10, <1>11, <1>12, <1>13,
       <1>14, <1>15 DEF Next, Produce, Consume

\* What consumers report stays true.
LEMMA OutcomeStep == TypeInv /\ Outcome /\ [Next]_vars => Outcome'
  <1> SUFFICES ASSUME TypeInv, Outcome, [Next]_vars PROVE Outcome'
    OBVIOUS
  <1> USE DEF TypeInv, TypeOK, Shape, AckedWasApplied
  <1>1. ASSUME NEW e \in Edit, FixFetch(e) PROVE Outcome'
    BY <1>1 DEF Outcome, WikiType, QueueType, ConsumerType, Working, FixFetch
  <1>2. ASSUME NEW e \in Edit, FixRecheck(e) PROVE Outcome'
    BY <1>2 DEF Outcome, WikiType, QueueType, ConsumerType, Working, FixRecheck
  <1>3. ASSUME NEW e \in Edit, Fill(e) PROVE Outcome'
    BY <1>3 DEF Outcome, WikiType, QueueType, ConsumerType, Working, Fill, PushPage, AfterFill
  <1>4. ASSUME NEW e \in Edit, TranslationRead(e) PROVE Outcome'
    BY <1>4 DEF Outcome, WikiType, QueueType, ConsumerType, Working, TranslationRead
  <1>5. ASSUME NEW e \in Edit, Publish(e) PROVE Outcome'
    BY <1>5 DEF Outcome, WikiType, QueueType, ConsumerType, Working, Publish
  <1>6. ASSUME NEW c \in Consumer, Deliver(c) PROVE Outcome'
    BY <1>6 DEF Outcome, WikiType, QueueType, ConsumerType, Working, Deliver
  <1>7. ASSUME NEW c \in Consumer, Read(c) PROVE Outcome'
    BY <1>7 DEF Outcome, WikiType, QueueType, ConsumerType, Working, Read, LimiterFails,
       CallFails, Return
  <1>8. ASSUME NEW c \in Consumer, Refresh(c) PROVE Outcome'
    BY <1>8 DEF Outcome, WikiType, QueueType, ConsumerType, Working, Refresh, PushPage,
       HashMatches, Return
  <1>9. ASSUME NEW c \in Consumer, Save(c) PROVE Outcome'
    BY <1>9 DEF Outcome, WikiType, QueueType, ConsumerType, Working, Save, LimiterFails,
       CallFails, Return, Apply, Write
  <1>10. ASSUME NEW c \in Consumer, SaveCache(c) PROVE Outcome'
    BY <1>10 DEF Outcome, WikiType, QueueType, ConsumerType, Working, SaveCache, PushPage,
       Return
  <1>11. ASSUME NEW c \in Consumer, Settle(c) PROVE Outcome'
    <2>1. /\ \A d \in Consumer : cpc'[d] = "cache" \/ result'[d] = "ok" => cur'[d] \in applied'
          /\ \A d \in Consumer : result'[d] = "stale" => cur'[d] \in Fix
      BY <1>11 DEF Outcome, ConsumerType, Settle, Forget
    <2>2. \A e \in Edit \ Fix : settled'[e] = "acked" => e \in applied'
      <3> SUFFICES ASSUME NEW e \in Edit \ Fix, settled'[e] = "acked" PROVE e \in applied
        BY <1>11 DEF Settle
      <3>1. CASE settled[e] = "acked"
        BY <3>1 DEF Outcome
      <3>2. CASE settled[e] # "acked"
        <4>1. e = cur[c] /\ Verdict(c) = "acked"
          BY <1>11, <3>2 DEF Settle, PutBack, QueueType
        <4>2. result[c] \in {"ok", "stale"}
          BY <4>1, NoneAssumption DEF Verdict
        <4> QED
          BY <4>1, <4>2 DEF Outcome
      <3> QED
        BY <3>1, <3>2
    <2> QED
      BY <2>1, <2>2 DEF Outcome
  <1>12. ASSUME NEW c \in Consumer, Crash(c) PROVE Outcome'
    BY <1>12 DEF Outcome, WikiType, QueueType, ConsumerType, Working, Crash, Forget, PutBack
  <1>13. ASSUME NEW c \in Consumer, Disconnect(c) PROVE Outcome'
    BY <1>13 DEF Outcome, WikiType, QueueType, ConsumerType, Working, Disconnect, PutBack
  <1>14. ASSUME NEW h \in Human, Act(h) PROVE Outcome'
    BY <1>14 DEF Outcome, WikiType, QueueType, ConsumerType, Working, Act, Write
  <1>15. CASE UNCHANGED vars
    BY <1>15 DEF vars, Outcome
  <1> QED
    BY <1>1, <1>2, <1>3, <1>4, <1>5, <1>6, <1>7, <1>8, <1>9, <1>10, <1>11, <1>12, <1>13,
       <1>14, <1>15 DEF Next, Produce, Consume

\* Unsent edits stay out of every text.
LEMMA FreshStep == TypeInv /\ Fresh /\ [Next]_vars => Fresh'
  <1> SUFFICES ASSUME TypeInv, Fresh, [Next]_vars PROVE Fresh'
    OBVIOUS
  <1> USE DEF TypeInv, TypeOK, Shape
  <1>1. ASSUME NEW e \in Edit, FixFetch(e) PROVE Fresh'
    BY <1>1, TextFacts DEF Fresh, WikiType, ProducerType, ConsumerType, Working, Content,
       Page, FixFetch
  <1>2. ASSUME NEW e \in Edit, FixRecheck(e) PROVE Fresh'
    <2>1. /\ UNCHANGED <<wiki, cache, basis, live>> /\ ppc[e] = "recheck"
          /\ \/ UNCHANGED seen \/ seen' = [seen EXCEPT ![e] = wiki.text]
      BY <1>2 DEF FixRecheck, wvars, cvars
    <2>2. \A d \in Edit : ppc'[d] # "published" => ppc[d] # "published"
      BY <1>2, <2>1 DEF FixRecheck, ProducerType
    <2>3. \A d \in Edit : seen'[d] \in {seen[d], wiki.text}
      BY <2>1 DEF ProducerType
    <2> QED BY <2>1, <2>2, <2>3 DEF Fresh
  <1>3. ASSUME NEW e \in Edit, Fill(e) PROVE Fresh'
    BY <1>3, TextFacts DEF Fresh, WikiType, ProducerType, ConsumerType, Working, Content,
       Page, Fill, PushPage, AfterFill
  <1>4. ASSUME NEW e \in Edit, TranslationRead(e) PROVE Fresh'
    <2>1. PICK t, u : /\ basis' = [basis EXCEPT ![e] = t] /\ t \in {cache, {}, wiki.text}
                      /\ seen' = [seen EXCEPT ![e] = u] /\ u \in {seen[e], wiki.text}
      BY <1>4 DEF TranslationRead, ProducerType
    <2>2. \A d \in Edit : ppc[d] # "published" => d \notin t /\ d \notin u
      BY <2>1 DEF Fresh
    <2>3. e \notin t
      BY <1>4, <2>2 DEF TranslationRead
    <2>4. \A d \in Edit : ppc'[d] # "published" => ppc[d] # "published"
      BY <1>4 DEF TranslationRead, ProducerType
    <2> QED
      BY <1>4, <2>1, <2>2, <2>3, <2>4 DEF TranslationRead, Fresh, ProducerType
  <1>5. ASSUME NEW e \in Edit, Publish(e) PROVE Fresh'
    BY <1>5, TextFacts DEF Fresh, WikiType, ProducerType, ConsumerType, Working, Content,
       Page, Publish
  <1>6. ASSUME NEW c \in Consumer, Deliver(c) PROVE Fresh'
    BY <1>6, TextFacts DEF Fresh, WikiType, ProducerType, ConsumerType, Working, Content,
       Page, Deliver
  <1>7. ASSUME NEW c \in Consumer, Read(c) PROVE Fresh'
    BY <1>7, TextFacts DEF Fresh, WikiType, ProducerType, ConsumerType, Working, Content,
       Page, Read, LimiterFails, CallFails, Return
  <1>8. ASSUME NEW c \in Consumer, Refresh(c) PROVE Fresh'
    BY <1>8, TextFacts DEF Fresh, WikiType, ProducerType, ConsumerType, Working, Content,
       Page, Refresh, PushPage, HashMatches, Return
  <1>9. ASSUME NEW c \in Consumer, Save(c) PROVE Fresh'
    BY <1>9, TextFacts DEF Fresh, WikiType, ProducerType, ConsumerType, Working, Content,
       Page, Save, LimiterFails, CallFails, Return, Apply, Write
  <1>10. ASSUME NEW c \in Consumer, SaveCache(c) PROVE Fresh'
    BY <1>10, TextFacts DEF Fresh, WikiType, ProducerType, ConsumerType, Working, Content,
       Page, SaveCache, PushPage, Return
  <1>11. ASSUME NEW c \in Consumer, Settle(c) PROVE Fresh'
    BY <1>11, TextFacts DEF Fresh, WikiType, ProducerType, ConsumerType, Working, Content,
       Page, Settle, Forget, PutBack
  <1>12. ASSUME NEW c \in Consumer, Crash(c) PROVE Fresh'
    BY <1>12, TextFacts DEF Fresh, WikiType, ProducerType, ConsumerType, Working, Content,
       Page, Crash, Forget, PutBack
  <1>13. ASSUME NEW c \in Consumer, Disconnect(c) PROVE Fresh'
    BY <1>13, TextFacts DEF Fresh, WikiType, ProducerType, ConsumerType, Working, Content,
       Page, Disconnect, PutBack
  <1>14. ASSUME NEW h \in Human, Act(h) PROVE Fresh'
    <2>1. PICK t : Write(t) /\ \A d \in Edit : d \in t => d \in wiki.text
      <3>1. \A d \in Edit : d # h
        BY KindsAssumption
      <3> QED
        BY <1>14, <3>1, TextFacts DEF Act
    <2> QED
      BY <1>14, <2>1 DEF Act, Fresh, Write, WikiType
  <1>15. CASE UNCHANGED vars
    BY <1>15 DEF vars, Fresh
  <1> QED
    BY <1>1, <1>2, <1>3, <1>4, <1>5, <1>6, <1>7, <1>8, <1>9, <1>10, <1>11, <1>12, <1>13,
       <1>14, <1>15 DEF Next, Produce, Consume

\* What a consumer loaded stays what the page was at that revision.
LEMMA GuardedStep == TypeInv /\ Guarded /\ [Next]_vars => Guarded'
  <1> SUFFICES ASSUME TypeInv, Guarded, [Next]_vars PROVE Guarded'
    OBVIOUS
  <1> USE DEF TypeInv, TypeOK, Shape
  <1>1. ASSUME NEW e \in Edit, FixFetch(e) PROVE Guarded'
    BY <1>1 DEF Guarded, WikiType, ProducerType, ConsumerType, Working, Page, FixFetch
  <1>2. ASSUME NEW e \in Edit, FixRecheck(e) PROVE Guarded'
    BY <1>2 DEF Guarded, WikiType, ProducerType, ConsumerType, Working, Page, FixRecheck
  <1>3. ASSUME NEW e \in Edit, Fill(e) PROVE Guarded'
    BY <1>3 DEF Guarded, WikiType, ProducerType, ConsumerType, Working, Page, Fill, PushPage,
       AfterFill
  <1>4. ASSUME NEW e \in Edit, TranslationRead(e) PROVE Guarded'
    BY <1>4 DEF Guarded, WikiType, ProducerType, ConsumerType, Working, Page, TranslationRead
  <1>5. ASSUME NEW e \in Edit, Publish(e) PROVE Guarded'
    BY <1>5 DEF Guarded, WikiType, ProducerType, ConsumerType, Working, Page, Publish
  <1>6. ASSUME NEW c \in Consumer, Deliver(c) PROVE Guarded'
    BY <1>6 DEF Guarded, WikiType, ProducerType, ConsumerType, Working, Page, Deliver
  <1>7. ASSUME NEW c \in Consumer, Read(c) PROVE Guarded'
    <2>1. CASE live' = live
      BY <1>7, <2>1 DEF Read, LimiterFails, CallFails, Return, Guarded, ConsumerType
    <2>2. CASE live' # live
      <3>1. /\ live' = [live EXCEPT ![c] = wiki] /\ wiki.text # NoText
            /\ cpc' = [cpc EXCEPT ![c] = "refresh"]
        BY <1>7, <2>2 DEF Read, LimiterFails, CallFails
      <3>2. wiki.rev <= wiki.rev
        BY DEF WikiType, Page
      <3> QED
        BY <1>7, <3>1, <3>2 DEF Read, Guarded, ConsumerType
    <2> QED
      BY <2>1, <2>2
  <1>8. ASSUME NEW c \in Consumer, Refresh(c) PROVE Guarded'
    BY <1>8 DEF Guarded, WikiType, ProducerType, ConsumerType, Working, Page, Refresh,
       PushPage, HashMatches, Return
  <1>9. ASSUME NEW c \in Consumer, Save(c) PROVE Guarded'
    <2>1. /\ UNCHANGED <<live, cur, basis>>
          /\ \E k \in {"settle", "cache"} : cpc' = [cpc EXCEPT ![c] = k]
      BY <1>9 DEF Save, LimiterFails, CallFails, Return, pvars
    <2>2. \A d \in Consumer :
            cpc'[d] \in {"refresh", "write"} => cpc'[d] = cpc[d]
      BY <2>1 DEF ConsumerType
    <2>3. CASE wiki' = wiki
      BY <2>1, <2>2, <2>3 DEF Guarded
    <2>4. CASE wiki' # wiki
      <3>1. wiki'.rev = wiki.rev + 1
        BY <1>9, <2>4 DEF Save, Apply, Write, wvars
      <3>2. wiki.rev \in Nat /\ \A d \in Consumer : live[d].rev \in Nat
        BY DEF WikiType, ConsumerType, Page
      <3>3. \A d \in Consumer : live[d].rev <= wiki'.rev /\ live[d].rev # wiki'.rev
        BY <3>1, <3>2 DEF Guarded
      <3> QED
        BY <2>1, <2>2, <3>3 DEF Guarded
    <2> QED
      BY <2>3, <2>4
  <1>10. ASSUME NEW c \in Consumer, SaveCache(c) PROVE Guarded'
    BY <1>10 DEF Guarded, WikiType, ProducerType, ConsumerType, Working, Page, SaveCache,
       PushPage, Return
  <1>11. ASSUME NEW c \in Consumer, Settle(c) PROVE Guarded'
    BY <1>11 DEF Guarded, WikiType, ProducerType, ConsumerType, Working, Page, Settle,
       Forget, PutBack
  <1>12. ASSUME NEW c \in Consumer, Crash(c) PROVE Guarded'
    BY <1>12 DEF Guarded, WikiType, ProducerType, ConsumerType, Working, Page, Crash, Forget,
       PutBack
  <1>13. ASSUME NEW c \in Consumer, Disconnect(c) PROVE Guarded'
    BY <1>13 DEF Guarded, WikiType, ProducerType, ConsumerType, Working, Page, Disconnect,
       PutBack
  <1>14. ASSUME NEW h \in Human, Act(h) PROVE Guarded'
    BY <1>14 DEF Guarded, WikiType, ProducerType, ConsumerType, Working, Page, Act, Write
  <1>15. CASE UNCHANGED vars
    BY <1>15 DEF vars, Guarded
  <1> QED
    BY <1>1, <1>2, <1>3, <1>4, <1>5, <1>6, <1>7, <1>8, <1>9, <1>10, <1>11, <1>12, <1>13,
       <1>14, <1>15 DEF Next, Produce, Consume

\* The initial state satisfies the inductive invariant.
LEMMA InitIInv == Init => IInv
  <1> SUFFICES ASSUME Init PROVE IInv
    OBVIOUS
  <1>1. PICK t \in {NoText, {}} :
          wiki = [text |-> t, rev |-> 0] /\ had = {t} /\ cache \in {NoText, t}
    BY DEF Init
  <1>2. Past
    BY <1>1 DEF Init, Past
  <1>3. Outcome
    BY NoneAssumption DEF Init, Outcome, AckedWasApplied
  <1>4. Fresh
    BY <1>1, TextFacts DEF Init, Fresh
  <1>5. Guarded
    BY <1>1 DEF Init, Guarded
  <1> QED
    BY <1>2, <1>3, <1>4, <1>5, InitTypeInv DEF IInv

\* The inductive invariant holds in every reachable state.
THEOREM Invariance == Spec => []IInv
  <1>1. IInv /\ [Next]_vars => IInv'
    BY NextTypeInv, PastStep, OutcomeStep, FreshStep, GuardedStep DEF IInv
  <1> QED
    BY <1>1, InitIInv, PTL DEF Spec

\* RedisPage: whatever order reads, writes and cache updates of different
\* processes come in, the cache never holds a text the page did not have.
THEOREM CachedTextsAreReal == Spec => []CacheIsPast
  <1>1. IInv => CacheIsPast
    BY DEF IInv, Past, CacheIsPast
  <1> QED
    BY <1>1, Invariance, PTL

\* callback: acknowledging is the end of the work, never a way to lose it.
THEOREM AcknowledgedEditsWereApplied == Spec => []AckedWasApplied
  <1>1. IInv => AckedWasApplied
    BY DEF IInv, Outcome
  <1> QED
    BY <1>1, Invariance, PTL

\* A step in which a consumer leaves its write is that consumer's own Save, or
\* leaves the page alone.
LEMMA OnlySaveWrites ==
  ASSUME TypeInv, NEW c \in Consumer, [Next]_vars,
         cpc[c] = "write", cpc'[c] # "write", wiki' # wiki
  PROVE  Save(c)
  <1>1. ASSUME NEW e \in Edit, Produce(e) PROVE FALSE
    BY <1>1 DEF Produce, FixFetch, FixRecheck, Fill, TranslationRead, Publish
  <1>2. ASSUME NEW h \in Human, Act(h) PROVE FALSE
    BY <1>2 DEF Act
  <1>3. ASSUME NEW d \in Consumer, d # c, Consume(d) \/ Crash(d) \/ Disconnect(d) PROVE FALSE
    BY <1>3 DEF Consume, Deliver, Read, Refresh, Save, SaveCache, Settle, Crash, Disconnect,
       LimiterFails, CallFails, Return, Forget, TypeInv, TypeOK, ConsumerType
  <1>4. ASSUME Consume(c) \/ Crash(c) \/ Disconnect(c) PROVE Save(c)
    BY <1>4 DEF Consume, Deliver, Read, Refresh, SaveCache, Settle, Crash, Disconnect
  <1> QED
    BY <1>1, <1>2, <1>3, <1>4 DEF Next, vars

\* save_to_wiki: a guarded edit loses nothing and is not applied on top of
\* itself, for any number of consumers, redeliveries and editors.
THEOREM GuardedEditsLoseNothing == Spec => FixesLoseNothing
  <1>1. ASSUME IInv, [Next]_vars, NEW c \in Consumer,
               cpc[c] = "write", cpc'[c] # "write", cur[c] \in Fix, wiki' # wiki
        PROVE  /\ wiki.text # NoText
               /\ cur[c] \notin wiki.text
               /\ wiki'.text = wiki.text \cup {cur[c]}
    <2>1. Save(c)
      BY <1>1, OnlySaveWrites DEF IInv
    <2>2. Apply(c)
      BY <1>1, <2>1 DEF Save
    <2>3. wiki.text # NoText /\ wiki.rev = live[c].rev
      BY <1>1, <2>2, KindsAssumption DEF Apply, WriteAllowed
    <2>4. wiki.text = basis[cur[c]]
      BY <1>1, <2>3 DEF IInv, Guarded
    <2>5. cur[c] \notin basis[cur[c]]
      BY <1>1 DEF IInv, Fresh, Edit
    <2>6. wiki'.text = basis[cur[c]] \cup {cur[c]}
      BY <1>1, <2>2, KindsAssumption DEF Apply, Write, Content
    <2> QED
      BY <2>3, <2>4, <2>5, <2>6
  <1>2. IInv /\ [Next]_vars =>
          [\A c \in Consumer :
             cpc[c] = "write" /\ cpc'[c] # "write" /\ cur[c] \in Fix /\ wiki' # wiki
               => /\ wiki.text # NoText
                  /\ cur[c] \notin wiki.text
                  /\ wiki'.text = wiki.text \cup {cur[c]}]_vars
    BY <1>1
  <1> QED
    BY <1>2, Invariance, PTL DEF Spec, FixesLoseNothing

-----------------------------------------------------------------------------
\* The queue and its consumers implement Deliveries.

Items(q) == {q[i] : i \in 1..Len(q)}
Distinct(q) == \A i, k \in 1..Len(q) : q[i] = q[k] => i = k

\* What a consumer remembers of a delivery is true: an idle one has none, one that
\* settles knows how save_to_wiki ended, and one that was told of an earlier delivery,
\* or lost the connection, has a message that was put back.
Verdicts ==
  /\ \A c \in Consumer : cpc[c] = "idle" => cur[c] = None /\ ~lost[c]
  /\ \A c \in Consumer : cpc[c] = "settle" => result[c] # "none"
  /\ \A c \in Consumer : result[c] = "invalid" => cur[c] \in Junk
  /\ \A c \in Consumer : again[c] \/ lost[c] => cur[c] \in redel

\* A published message that is not settled is in one place: once in the queue, or with
\* one connected consumer. Nothing else is anywhere.
Has(c, e) == cur[c] = e /\ ~lost[c]
Kept ==
  /\ Distinct(queue)
  /\ \A e \in Edit : e \in Items(queue) \/ (\E c \in Consumer : Has(c, e))
                       <=> ppc[e] = "published" /\ settled[e] = None
  /\ \A e \in Edit, c \in Consumer : Has(c, e) => e \notin Items(queue)
  /\ \A e \in Edit, c, d \in Consumer : Has(c, e) /\ Has(d, e) => c = d
  /\ \A e \in Edit : settled[e] # None => ppc[e] = "published"

\* What adding to a queue and taking from it do to its messages.
LEMMA ItemsFacts ==
  ASSUME NEW q \in Seq(Edit), NEW e \in Edit, Distinct(q)
  PROVE  /\ Items(Append(q, e)) = Items(q) \cup {e}
         /\ Items(<<e>> \o q) = Items(q) \cup {e}
         /\ e \notin Items(q) => Distinct(Append(q, e)) /\ Distinct(<<e>> \o q)
         /\ q # <<>> => /\ Head(q) \in Items(q) /\ Distinct(Tail(q))
                        /\ Items(Tail(q)) = Items(q) \ {Head(q)}
  <1> DEFINE n == Len(q)
             a == Append(q, e)
             b == <<e>> \o q
  <1>1. /\ n \in Nat /\ Len(a) = n + 1 /\ a[n + 1] = e
        /\ \A i \in 1..n : a[i] = q[i]
    OBVIOUS
  <1>2. /\ Len(b) = n + 1 /\ b[1] = e
        /\ \A i \in 2..n + 1 : b[i] = q[i - 1]
    OBVIOUS
  <1>3. \A i \in 1..n : q[i] = b[i + 1] /\ i + 1 \in 2..n + 1
    BY <1>1, <1>2
  <1> HIDE DEF n, a, b
  <1>4. Items(a) = Items(q) \cup {e}
    <2>1. \A x \in Items(a) : x \in Items(q) \cup {e}
      BY <1>1 DEF Items, n
    <2>2. \A x \in Items(q) : x \in Items(a)
      <3>1. \A i \in 1..n : i \in 1..Len(a)
        BY <1>1
      <3> QED BY <1>1, <3>1 DEF Items, n
    <2>3. e \in Items(a)
      <3>1. n + 1 \in 1..Len(a)
        BY <1>1
      <3> QED BY <1>1, <3>1 DEF Items
    <2> QED BY <2>1, <2>2, <2>3
  <1>5. Items(b) = Items(q) \cup {e}
    <2>1. ASSUME NEW i \in 1..Len(b) PROVE b[i] \in Items(q) \cup {e}
      <3>1. CASE i = 1
        BY <1>2, <3>1
      <3>2. CASE i # 1
        <4>1. i \in 2..n + 1 /\ i - 1 \in 1..n
          BY <1>1, <1>2, <3>2
        <4> QED BY <1>2, <4>1 DEF Items, n
      <3> QED BY <3>1, <3>2
    <2>2. ASSUME NEW i \in 1..n PROVE q[i] \in Items(b)
      <3>1. i + 1 \in 1..Len(b)
        BY <1>1, <1>2
      <3> QED BY <1>3, <3>1 DEF Items
    <2>3. e \in Items(b)
      <3>1. 1 \in 1..Len(b)
        BY <1>1, <1>2
      <3> QED BY <1>2, <3>1 DEF Items
    <2> QED BY <2>1, <2>2, <2>3 DEF Items, n
  <1>6. ASSUME e \notin Items(q) PROVE Distinct(a) /\ Distinct(b)
    <2>0. \A i \in 1..n : q[i] # e
      BY <1>6 DEF Items, n
    <2>1. ASSUME NEW i \in 1..Len(a), NEW k \in 1..Len(a), a[i] = a[k] PROVE i = k
      <3>1. i \in 1..n \/ i = n + 1
        BY <1>1
      <3>2. k \in 1..n \/ k = n + 1
        BY <1>1
      <3> QED BY <1>1, <2>0, <2>1, <3>1, <3>2 DEF Distinct, n
    <2>2. ASSUME NEW i \in 1..Len(b), NEW k \in 1..Len(b), b[i] = b[k] PROVE i = k
      <3>1. i = 1 \/ (i \in 2..n + 1 /\ i - 1 \in 1..n)
        BY <1>1, <1>2
      <3>2. k = 1 \/ (k \in 2..n + 1 /\ k - 1 \in 1..n)
        BY <1>1, <1>2
      <3>3. CASE i = 1 \/ k = 1
        BY <1>2, <2>0, <2>2, <3>1, <3>2, <3>3
      <3>4. CASE i # 1 /\ k # 1
        <4>1. q[i - 1] = q[k - 1]
          BY <1>2, <2>2, <3>1, <3>2, <3>4
        <4>2. i - 1 = k - 1
          BY <3>1, <3>2, <3>4, <4>1 DEF Distinct, n
        <4> QED BY <1>1, <3>1, <3>2, <3>4, <4>2
      <3> QED BY <3>3, <3>4
    <2> QED BY <2>1, <2>2 DEF Distinct
  <1>7. ASSUME q # <<>>
        PROVE  /\ Head(q) \in Items(q) /\ Distinct(Tail(q))
               /\ Items(Tail(q)) = Items(q) \ {Head(q)}
    <2> DEFINE t == Tail(q)
    <2>1. /\ Head(q) = q[1] /\ 1 \in 1..n /\ n \in Nat /\ Len(t) = n - 1
          /\ \A i \in 1..n - 1 : t[i] = q[i + 1] /\ i + 1 \in 1..n
      BY <1>7 DEF n
    <2> HIDE DEF t
    <2>2. Distinct(t)
      <3> SUFFICES ASSUME NEW i \in 1..n - 1, NEW k \in 1..n - 1, t[i] = t[k] PROVE i = k
        BY <2>1 DEF Distinct
      <3>1. i + 1 = k + 1
        BY <2>1 DEF Distinct, n
      <3> QED BY <3>1
    <2>3. \A i \in 1..n - 1 : t[i] # q[1]
      <3> TAKE i \in 1..n - 1
      <3>1. i + 1 # 1
        OBVIOUS
      <3> QED BY <2>1, <3>1 DEF Distinct, n
    <2>4. ASSUME NEW i \in 1..n, q[i] # q[1] PROVE q[i] \in Items(t)
      <3>1. i - 1 \in 1..n - 1 /\ (i - 1) + 1 = i
        BY <2>1, <2>4
      <3>2. t[i - 1] = q[i]
        BY <2>1, <3>1
      <3> QED BY <2>1, <3>1, <3>2 DEF Items
    <2>5. \A x \in Items(t) : x \in Items(q) \ {q[1]}
      BY <2>1, <2>3 DEF Items, n
    <2>6. \A x \in Items(q) \ {q[1]} : x \in Items(t)
      BY <2>4 DEF Items, n
    <2>7. q[1] \in Items(q)
      BY <2>1 DEF Items, n
    <2> QED BY <2>1, <2>2, <2>5, <2>6, <2>7 DEF t
  <1> QED BY <1>4, <1>5, <1>6, <1>7 DEF a, b

\* What consumers remember stays true.
LEMMA VerdictsStep == TypeInv /\ Verdicts /\ [Next]_vars => Verdicts'
  <1> SUFFICES ASSUME TypeInv, Verdicts, [Next]_vars PROVE Verdicts'
    OBVIOUS
  <1>0. ConsumerType
    BY DEF TypeInv, TypeOK
  <1>1. CASE (\E e \in Edit : Produce(e)) \/ (\E h \in Human : Act(h)) \/ UNCHANGED vars
    <2>1. UNCHANGED <<cpc, cur, again, lost, result, redel>>
      BY <1>1 DEF Produce, FixFetch, FixRecheck, Fill, TranslationRead, Publish, Act, vars
    <2> QED BY <2>1 DEF Verdicts
  <1>2. ASSUME NEW c \in Consumer, Deliver(c) PROVE Verdicts'
    BY <1>0, <1>2 DEF Verdicts, ConsumerType, Deliver
  <1>3. ASSUME NEW c \in Consumer, Read(c) PROVE Verdicts'
    BY <1>0, <1>3 DEF Verdicts, ConsumerType, Read, LimiterFails, CallFails, Return
  <1>4. ASSUME NEW c \in Consumer, Refresh(c) PROVE Verdicts'
    BY <1>0, <1>4 DEF Verdicts, ConsumerType, Refresh, Return
  <1>5. ASSUME NEW c \in Consumer, Save(c) PROVE Verdicts'
    BY <1>0, <1>5 DEF Verdicts, ConsumerType, Save, LimiterFails, CallFails, Return
  <1>6. ASSUME NEW c \in Consumer, SaveCache(c) PROVE Verdicts'
    BY <1>0, <1>6 DEF Verdicts, ConsumerType, SaveCache, Return
  <1>7. ASSUME NEW c \in Consumer, Settle(c) PROVE Verdicts'
    BY <1>0, <1>7 DEF Verdicts, ConsumerType, Settle, Forget, PutBack
  <1>8. ASSUME NEW c \in Consumer, Crash(c) PROVE Verdicts'
    BY <1>0, <1>8 DEF Verdicts, ConsumerType, Crash, Forget, PutBack
  <1>9. ASSUME NEW c \in Consumer, Disconnect(c) PROVE Verdicts'
    BY <1>0, <1>9 DEF Verdicts, ConsumerType, Disconnect, PutBack
  <1> QED
    BY <1>1, <1>2, <1>3, <1>4, <1>5, <1>6, <1>7, <1>8, <1>9 DEF Next, Consume

\* What a step does to messages and those who have them: nothing, though an edit that
\* was delivered may be saved; or one of the steps below.
Quiet ==
  /\ UNCHANGED <<queue, redel, settled, cur, lost>>
  /\ \A e \in Edit : ppc'[e] = "published" <=> ppc[e] = "published"
  /\ applied' = applied \/ \E c \in Consumer : cpc[c] = "write" /\ applied' = applied \cup {cur[c]}

\* The consumer's message leaves it, or it leaves a message that it had lost.
Leaves(c) ==
  /\ cpc[c] # "idle" /\ UNCHANGED <<applied, ppc>>
  /\ cur'[c] = None \/ lost'[c]
  /\ \A d \in Consumer : d # c => cur'[d] = cur[d] /\ lost'[d] = lost[d]
Ending(c) ==
  \/ lost[c] /\ UNCHANGED <<queue, redel, settled>>
  \/ ~lost[c] /\ PutBack(cur[c])
  \/ /\ ~lost[c] /\ UNCHANGED <<queue, redel>>
     /\ \E v \in {"acked", "dropped"} : settled' = [settled EXCEPT ![cur[c]] = v]
     /\ cur[c] \in Translation \cup Removal => cur[c] \in applied \cup redel

Move ==
  \/ Quiet
  \/ \E e \in Edit : Publish(e)
  \/ \E c \in Consumer : Deliver(c) \/ (Leaves(c) /\ Ending(c))

LEMMA SettleMoves ==
  ASSUME TypeInv, Outcome, Verdicts, NEW c \in Consumer, Settle(c)
  PROVE  Leaves(c) /\ Ending(c)
  <1>0. /\ ConsumerType /\ QueueType /\ cpc[c] = "settle" /\ cur[c] \in Edit
    BY DEF TypeInv, TypeOK, Shape, Working, Settle
  <1>1. Leaves(c)
    BY <1>0 DEF Settle, Forget, Leaves, ConsumerType
  <1>2. CASE lost[c] \/ Verdict(c) = None
    <2>1. CASE lost[c]
      BY <1>1, <2>1 DEF Settle, Ending
    <2>2. CASE ~lost[c]
      <3>1. PutBack(cur[c])
        BY <1>2, <2>2 DEF Settle
      <3> QED BY <1>1, <2>2, <3>1 DEF Ending
    <2> QED BY <2>1, <2>2
  <1>3. CASE ~lost[c] /\ Verdict(c) # None
    <2>1. /\ UNCHANGED <<queue, redel>> /\ settled' = [settled EXCEPT ![cur[c]] = Verdict(c)]
      BY <1>3 DEF Settle
    <2>2. Verdict(c) \in {"acked", "dropped"}
      BY <1>3 DEF Verdict
    <2>3. CASE result[c] \in {"ok", "stale"}
      <3>1. cur[c] \in applied \/ cur[c] \in Fix
        BY <2>3 DEF Outcome
      <3>2. cur[c] \in Translation \cup Removal => cur[c] \in applied \cup redel
        BY <3>1, KindsAssumption
      <3> QED BY <1>1, <1>3, <2>1, <2>2, <3>2 DEF Ending
    <2>4. CASE result[c] \notin {"ok", "stale"}
      <3>1. ~Requeue(c)
        BY <1>3, <2>4 DEF Verdict
      <3>2. result[c] \in {"invalid", "error"} /\ (result[c] = "error" => again[c])
        BY <1>0, <2>4, <3>1 DEF Requeue, Verdicts, ConsumerType
      <3>3. cur[c] \in Junk \/ cur[c] \in redel
        BY <3>2 DEF Verdicts
      <3>4. cur[c] \in Translation \cup Removal => cur[c] \in applied \cup redel
        BY <3>3, KindsAssumption
      <3> QED BY <1>1, <1>3, <2>1, <2>2, <3>4 DEF Ending
    <2> QED BY <2>3, <2>4
  <1> QED BY <1>1, <1>2, <1>3

LEMMA Moves ==
  ASSUME TypeInv, Outcome, Verdicts, [Next]_vars
  PROVE  Move
  <1>0. ConsumerType /\ ProducerType
    BY DEF TypeInv, TypeOK
  <1>1. CASE UNCHANGED vars
    BY <1>1 DEF vars, Move, Quiet
  <1>2. ASSUME NEW e \in Edit, FixFetch(e) \/ FixRecheck(e) \/ Fill(e) \/ TranslationRead(e)
        PROVE  Quiet
    <2>1. UNCHANGED <<queue, redel, settled, cur, lost, applied>>
      BY <1>2 DEF FixFetch, FixRecheck, Fill, TranslationRead
    <2>2. \E p : ppc' = [ppc EXCEPT ![e] = p] /\ p # "published"
      BY <1>2 DEF FixFetch, FixRecheck, Fill, TranslationRead, AfterFill
    <2>3. ppc[e] # "published"
      BY <1>2 DEF FixFetch, FixRecheck, Fill, TranslationRead
    <2> QED BY <1>0, <2>1, <2>2, <2>3 DEF Quiet, ProducerType
  <1>3. ASSUME NEW h \in Human, Act(h) PROVE Quiet
    BY <1>3 DEF Act, Quiet
  <1>4. ASSUME NEW c \in Consumer, Read(c) \/ Refresh(c) \/ Save(c) \/ SaveCache(c)
        PROVE  Quiet
    <2>1. UNCHANGED <<queue, redel, settled, cur, lost, ppc>>
      BY <1>4 DEF Read, Refresh, Save, SaveCache
    <2>2. applied' = applied \/ (cpc[c] = "write" /\ applied' = applied \cup {cur[c]})
      BY <1>4 DEF Read, Refresh, Save, SaveCache, Apply
    <2> QED BY <2>1, <2>2 DEF Quiet
  <1>5. ASSUME NEW c \in Consumer, Crash(c) \/ Disconnect(c) PROVE Leaves(c) /\ Ending(c)
    BY <1>0, <1>5 DEF Crash, Disconnect, Forget, Leaves, Ending, ConsumerType
  <1>6. CASE \E e \in Edit : Produce(e)
    BY <1>2, <1>6 DEF Produce, Move
  <1>7. CASE \E c \in Consumer : Consume(c) \/ Crash(c) \/ Disconnect(c)
    <2>1. PICK c \in Consumer : Consume(c) \/ Crash(c) \/ Disconnect(c)
      BY <1>7
    <2>2. CASE Read(c) \/ Refresh(c) \/ Save(c) \/ SaveCache(c)
      BY <1>4, <2>2 DEF Move
    <2>3. CASE Settle(c) \/ Crash(c) \/ Disconnect(c)
      <3>1. Leaves(c) /\ Ending(c)
        BY <1>5, <2>3, SettleMoves
      <3> QED BY <3>1 DEF Move
    <2>4. CASE Deliver(c)
      <3>1. \E d \in Consumer : Deliver(d) \/ (Leaves(d) /\ Ending(d))
        BY <2>4
      <3> QED BY <3>1, Zenon DEF Move
    <2> QED BY <2>1, <2>2, <2>3, <2>4 DEF Consume
  <1> QED
    BY <1>1, <1>3, <1>6, <1>7 DEF Move, Next

\* Every message stays in one place.
LEMMA KeptStep == TypeInv /\ Outcome /\ Verdicts /\ Kept /\ [Next]_vars => Kept'
  <1> SUFFICES ASSUME TypeInv, Outcome, Verdicts, Kept, [Next]_vars PROVE Kept'
    OBVIOUS
  <1>0. /\ ConsumerType /\ QueueType /\ ProducerType /\ queue \in Seq(Edit)
        /\ \A e \in Edit : e # None
    BY NoneAssumption DEF TypeInv, TypeOK, QueueType
  <1>1. CASE Quiet
    BY <1>1 DEF Quiet, Kept, Has
  <1>2. ASSUME NEW e \in Edit, Publish(e) PROVE Kept'
    <2>1. /\ ppc[e] # "published" /\ queue' = Append(queue, e)
          /\ ppc' = [ppc EXCEPT ![e] = "published"] /\ UNCHANGED <<cur, lost, settled>>
      BY <1>2 DEF Publish
    <2>2. /\ e \notin Items(queue) /\ settled[e] = None /\ \A c \in Consumer : ~Has(c, e)
      BY <2>1 DEF Kept
    <2>3. Items(queue') = Items(queue) \cup {e} /\ Distinct(queue')
      BY <1>0, <2>1, <2>2, ItemsFacts DEF Kept
    <2>4. \A c \in Consumer, x \in Edit : Has(c, x)' <=> Has(c, x)
      BY <2>1 DEF Has
    <2>5. \A x \in Edit : ppc'[x] = IF x = e THEN "published" ELSE ppc[x]
      BY <1>0, <2>1 DEF ProducerType
    <2> QED BY <2>1, <2>2, <2>3, <2>4, <2>5 DEF Kept
  <1>3. ASSUME NEW c \in Consumer, Deliver(c) PROVE Kept'
    <2> DEFINE e == Head(queue)
    <2>1. /\ cpc[c] = "idle" /\ queue # <<>> /\ queue' = Tail(queue)
          /\ cur' = [cur EXCEPT ![c] = e] /\ UNCHANGED <<ppc, lost, settled>>
      BY <1>3 DEF Deliver
    <2>2. e \in Edit /\ e \in Items(queue)
      BY <1>0, <2>1, HeadFacts, ItemsFacts DEF TypeInv, Shape, Kept
    <2>3. Items(queue') = Items(queue) \ {e} /\ Distinct(queue')
      BY <1>0, <2>1, <2>2, ItemsFacts DEF Kept
    <2> HIDE DEF e
    <2>4. /\ \A x \in Edit : ~Has(c, x)
          /\ \A d \in Consumer : ~Has(d, e)
      BY <1>0, <2>1, <2>2 DEF Kept, Verdicts, Has
    <2>5. ~lost[c]
      BY <2>1 DEF Verdicts
    <2>6. \A d \in Consumer, x \in Edit : Has(d, x)' <=> IF d = c THEN x = e ELSE Has(d, x)
      BY <1>0, <2>1, <2>5 DEF Has, ConsumerType
    <2> QED BY <2>1, <2>2, <2>3, <2>4, <2>6 DEF Kept
  <1>4. ASSUME NEW c \in Consumer, Leaves(c), Ending(c) PROVE Kept'
    <2> DEFINE e == cur[c]
    <2>1. e \in Edit
      BY <1>4 DEF Leaves, TypeInv, Shape, Working
    <2>2. \A d \in Consumer, x \in Edit : Has(d, x)' <=> d # c /\ Has(d, x)
      BY <1>0, <1>4 DEF Has, Leaves
    <2>3. ppc' = ppc
      BY <1>4 DEF Leaves
    <2>4. CASE lost[c]
      <3>1. UNCHANGED <<queue, settled>>
        BY <1>4, <2>4 DEF Ending
      <3>2. \A d \in Consumer, x \in Edit : Has(d, x)' <=> Has(d, x)
        BY <2>2, <2>4 DEF Has
      <3> QED BY <2>3, <3>1, <3>2 DEF Kept
    <2>5. CASE ~lost[c]
      <3>1. /\ Has(c, e) /\ e \notin Items(queue)
            /\ settled[e] = None /\ ppc[e] = "published"
        BY <2>1, <2>5 DEF Has, Kept
      <3>2. \A d \in Consumer, x \in Edit : Has(d, x)' <=> Has(d, x) /\ x # e
        BY <2>1, <2>2, <3>1 DEF Kept, Has
      <3>3. CASE PutBack(e)
        <4>1. queue' = <<e>> \o queue /\ settled' = settled
          BY <3>3 DEF PutBack
        <4>2. Items(queue') = Items(queue) \cup {e} /\ Distinct(queue')
          BY <1>0, <2>1, <3>1, <4>1, ItemsFacts DEF Kept
        <4> HIDE DEF e
        <4> QED BY <2>1, <2>3, <3>1, <3>2, <4>1, <4>2 DEF Kept
      <3>4. ASSUME NEW v \in {"acked", "dropped"}, settled' = [settled EXCEPT ![e] = v],
                   queue' = queue
            PROVE  Kept'
        <4>1. v # None /\ \A x \in Edit : settled'[x] = IF x = e THEN v ELSE settled[x]
          BY <1>0, <2>1, <3>4, NoneAssumption DEF QueueType
        <4> HIDE DEF e
        <4> QED BY <2>1, <2>3, <3>1, <3>2, <3>4, <4>1 DEF Kept
      <3> QED BY <1>4, <2>5, <3>3, <3>4 DEF Ending
    <2> QED BY <2>4, <2>5
  <1> QED BY <1>1, <1>2, <1>3, <1>4, Moves DEF Move

\* Every step of queue and consumers is a step of the abstract queue.
LEMMA DeliveryStep ==
  ASSUME IInv, Verdicts, Kept, [Next]_vars
  PROVE  [deliveries!Next]_deliveries!vars
  <1> DEFINE S == [e \in Edit |-> PlaceOf(e)]
             H == [e \in Edit |-> HoldersOf(e)]
  <1>0. /\ ConsumerType /\ QueueType /\ ProducerType /\ queue \in Seq(Edit)
        /\ \A e \in Edit : e # None
    BY NoneAssumption DEF IInv, TypeInv, TypeOK, QueueType
  <1>a. \A e \in Edit :
          PlaceOf(e) = IF ppc[e] # "published" THEN "new"
                       ELSE IF settled[e] # None THEN "settled"
                       ELSE IF \E c \in Consumer : Has(c, e) THEN "held" ELSE "ready"
    BY DEF PlaceOf, HoldersOf, Has, Kept, Items
  <1>b. Kept'
    BY KeptStep DEF IInv
  <1>c. \A e \in Edit :
          PlaceOf(e)' = IF ppc'[e] # "published" THEN "new"
                        ELSE IF settled'[e] # None THEN "settled"
                        ELSE IF \E c \in Consumer : Has(c, e)' THEN "held" ELSE "ready"
    BY <1>b DEF PlaceOf, HoldersOf, Has, Kept, Items
  <1>d. /\ S' = [e \in Edit |-> PlaceOf(e)']
        /\ H = [e \in Edit |-> {c \in Consumer : Has(c, e)}]
        /\ H' = [e \in Edit |-> {c \in Consumer : Has(c, e)'}]
    BY DEF HoldersOf, Has
  <1>1. CASE Quiet
    <2>1. S' = S /\ H' = H /\ UNCHANGED redel
      <3>1. \A e \in Edit, c \in Consumer : Has(c, e)' <=> Has(c, e)
        BY <1>1 DEF Quiet, Has
      <3>2. \A e \in Edit : PlaceOf(e)' = PlaceOf(e)
        BY <1>1, <1>a, <1>c, <3>1 DEF Quiet
      <3> QED BY <1>1, <1>d, <3>1, <3>2 DEF Quiet
    <2>2. CASE applied' = applied
      BY <2>1, <2>2 DEF deliveries!vars
    <2>3. ASSUME NEW c \in Consumer, cpc[c] = "write", applied' = applied \cup {cur[c]}
          PROVE  deliveries!Work(cur[c]) /\ cur[c] \in Edit
      <3>1. cur[c] \in Edit /\ ppc[cur[c]] = "published"
        BY <2>3 DEF IInv, TypeInv, Shape, Working
      <3>2. S[cur[c]] # "new"
        BY <1>a, <3>1
      <3>3. S[cur[c]] = "ready" => cur[c] \in redel
        <4>1. S[cur[c]] = "ready" => ~Has(c, cur[c])
          BY <1>a, <3>1
        <4> QED BY <4>1 DEF Has, Verdicts
      <3> QED BY <2>1, <2>3, <3>1, <3>2, <3>3 DEF deliveries!Work
    <2> QED BY <1>1, <2>2, <2>3 DEF Quiet, deliveries!Next
  <1>2. ASSUME NEW e \in Edit, Publish(e) PROVE deliveries!Put(e)
    <2>1. /\ ppc[e] # "published" /\ ppc' = [ppc EXCEPT ![e] = "published"]
          /\ UNCHANGED <<cur, lost, settled, redel, applied>>
      BY <1>2 DEF Publish
    <2>2. /\ settled[e] = None /\ \A c \in Consumer : ~Has(c, e)
      BY <2>1 DEF Kept
    <2>3. \A c \in Consumer, x \in Edit : Has(c, x)' <=> Has(c, x)
      BY <2>1 DEF Has
    <2>4. \A x \in Edit : PlaceOf(x)' = IF x = e THEN "ready" ELSE PlaceOf(x)
      <3>1. \A x \in Edit : ppc'[x] = IF x = e THEN "published" ELSE ppc[x]
        BY <1>0, <2>1 DEF ProducerType
      <3> QED BY <1>a, <1>c, <2>1, <2>2, <2>3, <3>1
    <2>5. S[e] = "new"
      BY <1>a, <2>1
    <2>6. S' = [S EXCEPT ![e] = "ready"]
      BY <1>d, <2>4
    <2>7. H' = H
      BY <1>d, <2>3
    <2> QED BY <2>1, <2>5, <2>6, <2>7 DEF deliveries!Put
  <1>3. ASSUME NEW c \in Consumer, Deliver(c)
        PROVE  Head(queue) \in Edit /\ deliveries!Take(Head(queue), c)
    <2> DEFINE e == Head(queue)
    <2>1. /\ cpc[c] = "idle" /\ queue # <<>>
          /\ cur' = [cur EXCEPT ![c] = e] /\ UNCHANGED <<ppc, lost, settled, redel, applied>>
      BY <1>3 DEF Deliver
    <2>2. e \in Edit /\ e \in Items(queue)
      BY <1>0, <2>1, HeadFacts, ItemsFacts DEF IInv, TypeInv, Shape, Kept
    <2> HIDE DEF e
    <2>3. /\ \A x \in Edit : ~Has(c, x)
          /\ \A d \in Consumer : ~Has(d, e)
          /\ ppc[e] = "published" /\ settled[e] = None
      BY <1>0, <2>1, <2>2 DEF Kept, Verdicts, Has
    <2>4. ~lost[c]
      BY <2>1 DEF Verdicts
    <2>5. \A d \in Consumer, x \in Edit : Has(d, x)' <=> IF d = c THEN x = e ELSE Has(d, x)
      BY <1>0, <2>1, <2>4 DEF Has, ConsumerType
    <2>6. \A x \in Edit : PlaceOf(x)' = IF x = e THEN "held" ELSE PlaceOf(x)
      BY <1>a, <1>c, <2>1, <2>3, <2>5
    <2>7. S[e] = "ready" /\ S' = [S EXCEPT ![e] = "held"]
      BY <1>a, <1>d, <2>2, <2>3, <2>6
    <2>8. H' = [H EXCEPT ![e] = {c}]
      <3>1. \A x \in Edit : {d \in Consumer : Has(d, x)'}
                              = IF x = e THEN {c} ELSE {d \in Consumer : Has(d, x)}
        BY <2>3, <2>5
      <3> QED BY <1>d, <3>1
    <2>9. \A x \in Edit : c \notin H[x]
      BY <1>d, <2>3
    <2> QED BY <2>1, <2>2, <2>7, <2>8, <2>9 DEF deliveries!Take, e
  <1>4. ASSUME NEW c \in Consumer, Leaves(c), Ending(c)
        PROVE  [deliveries!Next]_deliveries!vars
    <2> DEFINE e == cur[c]
    <2>1. e \in Edit /\ UNCHANGED <<applied, ppc>>
      BY <1>4 DEF Leaves, IInv, TypeInv, Shape, Working
    <2>2. \A d \in Consumer, x \in Edit : Has(d, x)' <=> d # c /\ Has(d, x)
      BY <1>0, <1>4 DEF Has, Leaves
    <2>3. CASE lost[c]
      <3>1. UNCHANGED <<queue, redel, settled>>
        BY <1>4, <2>3 DEF Ending
      <3>2. \A d \in Consumer, x \in Edit : Has(d, x)' <=> Has(d, x)
        BY <2>2, <2>3 DEF Has
      <3>3. \A x \in Edit : PlaceOf(x)' = PlaceOf(x)
        BY <1>a, <1>c, <2>1, <3>1, <3>2
      <3>4. S' = S /\ H' = H
        BY <1>d, <3>2, <3>3
      <3> QED BY <2>1, <3>1, <3>4 DEF deliveries!vars
    <2>4. CASE ~lost[c]
      <3>1. /\ Has(c, e) /\ settled[e] = None /\ ppc[e] = "published"
        BY <2>1, <2>4 DEF Has, Kept
      <3>2. \A d \in Consumer, x \in Edit : Has(d, x)' <=> Has(d, x) /\ x # e
        BY <2>1, <2>2, <3>1 DEF Kept, Has
      <3>3. S[e] = "held" /\ H' = [H EXCEPT ![e] = {}]
        <4>1. \A x \in Edit : {d \in Consumer : Has(d, x)'}
                                = IF x = e THEN {} ELSE {d \in Consumer : Has(d, x)}
          BY <3>2
        <4>2. PlaceOf(e) = "held"
          BY <1>a, <2>1, <3>1
        <4> QED BY <1>d, <2>1, <4>1, <4>2
      <3>4. CASE PutBack(e)
        <4>1. redel' = redel \cup {e} /\ settled' = settled
          BY <3>4 DEF PutBack
        <4>2. \A x \in Edit : PlaceOf(x)' = IF x = e THEN "ready" ELSE PlaceOf(x)
          <5> HIDE DEF e
          <5> QED BY <1>a, <1>c, <2>1, <3>1, <3>2, <4>1
        <4>3. S' = [S EXCEPT ![e] = "ready"]
          BY <1>d, <4>2
        <4>4. deliveries!PutBack(e)
          BY <2>1, <3>3, <4>1, <4>3 DEF deliveries!PutBack, deliveries!Release
        <4> QED BY <2>1, <4>4 DEF deliveries!Next
      <3>5. ASSUME NEW v \in {"acked", "dropped"}, settled' = [settled EXCEPT ![e] = v],
                   UNCHANGED <<queue, redel>>,
                   e \in Translation \cup Removal => e \in applied \cup redel
            PROVE  deliveries!Settle(e)
        <4>1. v # None /\ \A x \in Edit : settled'[x] = IF x = e THEN v ELSE settled[x]
          BY <1>0, <2>1, <3>5, NoneAssumption DEF QueueType
        <4>2. \A x \in Edit : PlaceOf(x)' = IF x = e THEN "settled" ELSE PlaceOf(x)
          <5> HIDE DEF e
          <5> QED BY <1>a, <1>c, <2>1, <3>1, <3>2, <4>1
        <4>3. S' = [S EXCEPT ![e] = "settled"]
          BY <1>d, <4>2
        <4> QED
          BY <2>1, <3>3, <3>5, <4>3 DEF deliveries!Settle, deliveries!Release
      <3> QED BY <1>4, <2>1, <2>4, <3>4, <3>5 DEF Ending, deliveries!Next
    <2> QED BY <2>3, <2>4
  <1> QED BY <1>1, <1>2, <1>3, <1>4, Moves DEF IInv, Move, deliveries!Next

\* The callback of rabbitmq_pywikibot.py, with RabbitMQ, implements the abstract queue:
\* whatever crashes, lost connections and failures there are, an edit is with one
\* connected consumer at most, is never lost, is settled once, and is given up undone
\* only after it was put back before.
THEOREM EditQueueImplementsDeliveries == Spec => EditsAreDelivered
  <1>1. Init => Verdicts /\ Kept /\ deliveries!Init
    <2> SUFFICES ASSUME Init PROVE Verdicts /\ Kept /\ deliveries!Init
      OBVIOUS
    <2>1. Items(queue) = {} /\ Distinct(queue)
      BY DEF Init, Items, Distinct
    <2>2. \A e \in Edit, c \in Consumer : ~Has(c, e)
      BY NoneAssumption DEF Init, Has
    <2>3. Verdicts
      BY DEF Init, Verdicts
    <2>4. \A e \in Edit : ppc[e] = "idle" /\ settled[e] = None
      BY DEF Init
    <2>5. Kept
      BY <2>1, <2>2, <2>4 DEF Kept
    <2>6. \A e \in Edit : PlaceOf(e) = "new" /\ HoldersOf(e) = {}
      BY <2>2, <2>4 DEF PlaceOf, HoldersOf, Has
    <2>7. deliveries!Init
      BY <2>6 DEF deliveries!Init, Init, Edit
    <2> QED BY <2>3, <2>5, <2>7
  <1>2. IInv /\ Verdicts /\ Kept /\ [Next]_vars => Verdicts' /\ Kept'
    BY VerdictsStep, KeptStep DEF IInv
  <1>3. IInv /\ Verdicts /\ Kept /\ [Next]_vars => [deliveries!Next]_deliveries!vars
    BY DeliveryStep
  <1> QED BY <1>1, <1>2, <1>3, Invariance, PTL DEF Spec, EditsAreDelivered, deliveries!Spec
=============================================================================
