------------------------------ MODULE IrcProofs ------------------------------
(***************************************************************************)
(* The two IRC listeners: the pages held by the workers of wiktionary_irc,    *)
(* and the page cache kept by english_wiktionary_cache_irc, for any pages,    *)
(* queue sizes, retries, readers and failures.                               *)
(***************************************************************************)
EXTENDS IrcQueues, CacheMirror, FunctionTheorems, FiniteSetTheorems, TLAPS

-----------------------------------------------------------------------------
\* The cache mirror

MirrorText == {Gone, Redirected} \cup (Title \X Nat)
MirrorPc == {"idle", "fetch", "fill", "store", "evict", "exists", "rename"}

MirrorTypeOK ==
  /\ wiki \in [Title -> MirrorText] /\ cache \in [Title -> MirrorText]
  /\ events \in Seq(MirrorEvent)
  /\ working \in MirrorEvent \cup {NoEvent} /\ mpc \in MirrorPc
  /\ fetched \in MirrorText /\ attempt \in Nat
  /\ reader \in [title : Title, text : MirrorText] \cup {NoEvent}
  /\ changes \in Nat /\ reads \in Nat /\ mirrorFaults \in Nat
  /\ unseen \in SUBSET Title /\ renamed \in SUBSET Title

\* The worker has an event exactly while it is not idle.
WorkerHasEvent == mpc = "idle" <=> working = NoEvent

\* An event about the title waits.
Announced(t) == \E i \in DOMAIN events : t \in Titles(events[i])

\* The worker is going to write the title, or to read the page first.
Tended(t) ==
  /\ working # NoEvent
  /\ \/ mpc \in {"exists", "rename"} /\ t \in Titles(working)
     \/ mpc \in {"fetch", "evict", "fill", "store"} /\ t = working.to

\* A title whose cached text may be wrong is announced or tended.
NoneForgotten ==
  \A t \in Title \ (unseen \cup renamed) : Announced(t) \/ Tended(t) \/ Aligned(t)

\* What the worker is about to write is the page's text, unless a later change waits.
FetchedIsCurrent ==
  mpc \in {"fill", "store"} =>
    /\ fetched # Gone
    /\ Target \in unseen \cup renamed \/ Announced(Target) \/ fetched = wiki[Target]

MirrorInv == MirrorTypeOK /\ WorkerHasEvent /\ NoneForgotten /\ FetchedIsCurrent

LEMMA MirrorInitially == MirrorInit => MirrorInv
BY DEF MirrorInit, MirrorInv, MirrorTypeOK, MirrorText, MirrorPc, WorkerHasEvent, NoneForgotten,
       FetchedIsCurrent, Aligned

\* A queue that grows at its end announces what it announced, and the new event.
LEMMA AppendAnnounces ==
  ASSUME events \in Seq(MirrorEvent), NEW e \in MirrorEvent, events' = Append(events, e)
  PROVE  /\ events' \in Seq(MirrorEvent)
         /\ \A t \in Title : Announced(t) \/ t \in Titles(e) => Announced(t)'
<1>1. /\ events' \in Seq(MirrorEvent) /\ Len(events') = Len(events) + 1
      /\ \A i \in 1..Len(events) : events'[i] = events[i]
      /\ events'[Len(events) + 1] = e
  OBVIOUS
<1>2. /\ DOMAIN events = 1..Len(events) /\ DOMAIN events' = 1..(Len(events) + 1)
      /\ Len(events) \in Nat
  BY <1>1
<1>3. DOMAIN events \subseteq DOMAIN events' /\ Len(events) + 1 \in DOMAIN events'
  BY <1>2
<1>4. ASSUME NEW t \in Title, Announced(t) \/ t \in Titles(e) PROVE Announced(t)'
  <2>1. CASE Announced(t)
    <3>1. PICK i \in DOMAIN events : t \in Titles(events[i])
      BY <2>1 DEF Announced
    <3> QED BY <1>1, <1>2, <1>3, <3>1 DEF Announced, Titles
  <2>2. CASE t \in Titles(e)
    BY <1>1, <1>3, <2>2 DEF Announced, Titles
  <2> QED BY <1>4, <2>1, <2>2
<1> QED BY <1>1, <1>4

\* Some titles of the wiki change, and an event about them is queued, dropped or lost.
LEMMA ChangeKeeps ==
  ASSUME MirrorInv, NEW e \in MirrorEvent, Announce(e), Changed,
         wiki' \in [Title -> MirrorText], \A t \in Title \ Titles(e) : wiki'[t] = wiki[t],
         UNCHANGED <<cache, workerVars, reader, reads, renamed>>
  PROVE  MirrorInv'
<1>1. MirrorTypeOK /\ WorkerHasEvent /\ NoneForgotten /\ FetchedIsCurrent
  BY DEF MirrorInv
<1>2. /\ events' \in Seq(MirrorEvent) /\ unseen \subseteq unseen' /\ unseen' \in SUBSET Title
      /\ mirrorFaults' \in Nat
      /\ \A t \in Title : Announced(t) => Announced(t)'
      /\ \A t \in Titles(e) : t \in unseen' \/ Announced(t)'
  <2>0. Titles(e) \subseteq Title
    BY DEF Titles, MirrorEvent
  <2>1. CASE Len(events) < MirrorQueue /\ events' = Append(events, e) /\ UNCHANGED <<unseen, mirrorFaults>>
    BY <1>1, <2>0, <2>1, AppendAnnounces DEF MirrorTypeOK
  <2>2. CASE unseen' = unseen \cup Titles(e) /\ UNCHANGED events /\ mirrorFaults' \in Nat
    BY <1>1, <2>0, <2>2 DEF MirrorTypeOK, Announced, Titles
  <2>3. mirrorFaults \in Nat /\ (MirrorFault => mirrorFaults' \in Nat)
    BY <1>1 DEF MirrorTypeOK, MirrorFault
  <2> QED BY <2>1, <2>2, <2>3 DEF Announce
<1>3. UNCHANGED <<cache, working, mpc, fetched, attempt, reader, reads, renamed>>
  BY DEF workerVars
<1>4. MirrorTypeOK' /\ WorkerHasEvent'
  BY <1>1, <1>2, <1>3 DEF MirrorTypeOK, WorkerHasEvent, Changed
<1>5. NoneForgotten'
  <2> SUFFICES ASSUME NEW t \in Title, t \notin unseen', t \notin renamed'
               PROVE  Announced(t)' \/ Tended(t)' \/ Aligned(t)'
    BY DEF NoneForgotten
  <2>1. CASE t \in Titles(e)
    BY <1>2, <2>1
  <2>2. CASE t \notin Titles(e)
    <3>1. wiki'[t] = wiki[t]
      BY <2>2
    <3>2. Announced(t) \/ Tended(t) \/ Aligned(t)
      BY <1>1, <1>2, <1>3 DEF NoneForgotten
    <3>3. Tended(t) => Tended(t)'
      BY <1>3 DEF Tended, Titles
    <3>4. Aligned(t) => Aligned(t)'
      BY <1>3, <3>1 DEF Aligned
    <3> QED BY <1>2, <3>2, <3>3, <3>4
  <2> QED BY <2>1, <2>2
<1>6. FetchedIsCurrent'
  <2> SUFFICES ASSUME mpc' \in {"fill", "store"}
               PROVE  /\ fetched' # Gone
                      /\ Target' \in (unseen \cup renamed)' \/ Announced(Target)' \/ fetched' = wiki'[Target']
    BY DEF FetchedIsCurrent
  <2>1. working \in MirrorEvent /\ Target' = Target /\ Target \in Title
    BY <1>1, <1>3 DEF WorkerHasEvent, MirrorTypeOK, Target, MirrorEvent
  <2>2. fetched # Gone /\ (Target \in unseen \cup renamed \/ Announced(Target) \/ fetched = wiki[Target])
    BY <1>1, <1>3 DEF FetchedIsCurrent
  <2>3. Announced(Target)' <=> \E i \in DOMAIN events' : Target \in Titles(events'[i])
    BY <2>1 DEF Announced, Titles
  <2>4. Announced(Target) => Announced(Target)'
    BY <1>2, <2>1, <2>3 DEF Announced, Titles
  <2>5. Target \in Titles(e) => Target \in unseen' \/ Announced(Target)'
    BY <1>2, <2>1, <2>3 DEF Announced, Titles
  <2>6. Target \notin Titles(e) => wiki'[Target] = wiki[Target]
    BY <2>1
  <2> QED BY <1>2, <1>3, <2>1, <2>2, <2>4, <2>5, <2>6
<1> QED BY <1>4, <1>5, <1>6 DEF MirrorInv

\* Nothing about the titles changes but what is announced or tended.
LEMMA QuietKeeps ==
  ASSUME MirrorInv, MirrorTypeOK', WorkerHasEvent',
         UNCHANGED <<wiki, events, renamed, working, mpc, fetched>>, unseen \subseteq unseen',
         \A t \in Title \ unseen' : cache'[t] = cache[t] \/ Aligned(t)'
  PROVE  MirrorInv'
<1>1. MirrorTypeOK /\ WorkerHasEvent /\ NoneForgotten /\ FetchedIsCurrent
  BY DEF MirrorInv
<1>2. NoneForgotten'
  <2> SUFFICES ASSUME NEW t \in Title, t \notin unseen', t \notin renamed'
               PROVE  Announced(t)' \/ Tended(t)' \/ Aligned(t)'
    BY DEF NoneForgotten
  <2>1. Announced(t) \/ Tended(t) \/ Aligned(t)
    BY <1>1 DEF NoneForgotten
  <2>2. (Announced(t) => Announced(t)') /\ (Tended(t) => Tended(t)')
    BY DEF Announced, Tended, Titles
  <2>3. cache'[t] = cache[t] \/ Aligned(t)'
    OBVIOUS
  <2> QED BY <2>1, <2>2, <2>3 DEF Aligned
<1>3. FetchedIsCurrent'
  BY <1>1 DEF FetchedIsCurrent, Target, Announced, Titles
<1> QED BY <1>2, <1>3 DEF MirrorInv

\* Titles change without an event: the mirror does not vouch for them, or they had no page,
\* and then nothing was cached unless an event waits.
LEMMA IgnoredKeeps ==
  ASSUME MirrorInv, NEW S \in SUBSET Title, Ignored(S), Changed,
         wiki' \in [Title -> MirrorText], \A t \in Title \ S : wiki'[t] = wiki[t]
  PROVE  MirrorInv'
<1>1. MirrorTypeOK /\ WorkerHasEvent /\ NoneForgotten /\ FetchedIsCurrent
  BY DEF MirrorInv
<1>2. /\ unseen' = unseen \cup {t \in S : wiki[t] # Gone} /\ changes' = changes + 1
      /\ UNCHANGED <<cache, events, working, mpc, fetched, attempt, reader, reads, mirrorFaults,
                     renamed>>
  BY DEF Ignored, Changed, workerVars
<1>3. MirrorTypeOK' /\ WorkerHasEvent'
  BY <1>1, <1>2 DEF MirrorTypeOK, WorkerHasEvent
<1>4. \A t \in Title : t \notin unseen' => t \notin unseen /\ (wiki'[t] = wiki[t] \/ wiki[t] = Gone)
  BY <1>2
<1>5. NoneForgotten'
  <2> SUFFICES ASSUME NEW t \in Title, t \notin unseen', t \notin renamed'
               PROVE  Announced(t)' \/ Tended(t)' \/ Aligned(t)'
    BY DEF NoneForgotten
  <2>1. Announced(t) \/ Tended(t) \/ Aligned(t)
    BY <1>1, <1>2, <1>4 DEF NoneForgotten
  <2>2. (Announced(t) => Announced(t)') /\ (Tended(t) => Tended(t)')
    BY <1>2 DEF Announced, Tended, Titles
  <2>3. Aligned(t) => Aligned(t)'
    BY <1>2, <1>4 DEF Aligned
  <2> QED BY <2>1, <2>2, <2>3
<1>6. FetchedIsCurrent'
  <2> SUFFICES ASSUME mpc' \in {"fill", "store"}
               PROVE  /\ fetched' # Gone
                      /\ Target' \in (unseen \cup renamed)' \/ Announced(Target)' \/ fetched' = wiki'[Target']
    BY DEF FetchedIsCurrent
  <2>1. Target' = Target /\ Target \in Title
    BY <1>1, <1>2 DEF WorkerHasEvent, MirrorTypeOK, Target, MirrorEvent
  <2>2. fetched # Gone /\ (Target \in unseen \cup renamed \/ Announced(Target) \/ fetched = wiki[Target])
    BY <1>1, <1>2 DEF FetchedIsCurrent
  <2>3. Announced(Target) => Announced(Target)'
    BY <1>2, <2>1 DEF Announced, Titles
  <2>4. Target \in unseen' \/ (wiki[Target] # Gone => wiki'[Target] = wiki[Target])
    BY <1>4, <2>1
  <2> QED BY <1>2, <2>1, <2>2, <2>3, <2>4
<1> QED BY <1>3, <1>5, <1>6 DEF MirrorInv

\* Another process reads a page, and writes what it read to the cache.
LEMMA OthersKeep ==
  ASSUME MirrorInv, (\E t \in Title : OtherReads(t)) \/ OtherFills
  PROVE  MirrorInv'
<1>1. MirrorTypeOK /\ WorkerHasEvent
  BY DEF MirrorInv
<1>2. ASSUME NEW t \in Title, OtherReads(t) PROVE MirrorInv'
  <2>1. /\ UNCHANGED <<wiki, cache, events, working, mpc, fetched, attempt, changes, mirrorFaults,
                       unseen, renamed>>
        /\ reads' = reads + 1 /\ reader' = [title |-> t, text |-> wiki[t]]
    BY <1>2 DEF OtherReads, workerVars
  <2>2. MirrorTypeOK' /\ WorkerHasEvent'
    BY <1>1, <2>1 DEF MirrorTypeOK, WorkerHasEvent
  <2> QED BY <2>1, <2>2, QuietKeeps
<1>3. ASSUME OtherFills PROVE MirrorInv'
  <2>1. /\ UNCHANGED <<wiki, events, working, mpc, fetched, attempt, changes, reads, mirrorFaults,
                       renamed>>
        /\ reader # NoEvent /\ reader' = NoEvent
        /\ cache' = [cache EXCEPT ![reader.title] = reader.text]
        /\ unseen' = IF reader.text = wiki[reader.title] THEN unseen ELSE unseen \cup {reader.title}
    BY <1>3 DEF OtherFills, workerVars
  <2>2. reader.title \in Title /\ reader.text \in MirrorText
    BY <1>1, <2>1 DEF MirrorTypeOK
  <2>3. /\ cache' \in [Title -> MirrorText] /\ unseen' \in SUBSET Title /\ unseen \subseteq unseen'
    BY <1>1, <2>1, <2>2 DEF MirrorTypeOK
  <2>4. MirrorTypeOK' /\ WorkerHasEvent'
    BY <1>1, <2>1, <2>3 DEF MirrorTypeOK, WorkerHasEvent
  <2>5. \A t \in Title \ unseen' : cache'[t] = cache[t] \/ Aligned(t)'
    BY <1>1, <2>1, <2>2 DEF MirrorTypeOK, Aligned
  <2> QED BY <2>1, <2>3, <2>4, <2>5, QuietKeeps
<1> QED BY <1>2, <1>3

\* The first step of an event tends all its titles.
LEMMA FirstStepTends ==
  ASSUME NEW e \in MirrorEvent
  PROVE  /\ StepOf(e.kind) \in {"fetch", "evict", "exists"}
         /\ StepOf(e.kind) = "exists" \/ Titles(e) = {e.to}
<1>1. e.kind \in {"edit", "delete", "move"} /\ (e.kind # "move" => e.title = e.to)
  BY DEF MirrorEvent
<1>2. CASE e.kind = "edit"
  BY <1>1, <1>2 DEF StepOf, Titles
<1>3. CASE e.kind = "delete"
  BY <1>1, <1>3 DEF StepOf, Titles
<1>4. CASE e.kind = "move"
  BY <1>1, <1>4 DEF StepOf, Titles
<1> QED BY <1>1, <1>2, <1>3, <1>4

\* The worker takes an event: the titles it is about are tended from there on.
LEMMA TakeEventKeeps ==
  ASSUME MirrorInv, TakeEvent
  PROVE  MirrorInv'
<1>1. MirrorTypeOK /\ WorkerHasEvent /\ NoneForgotten
  BY DEF MirrorInv
<1>2. /\ events # <<>> /\ mpc = "idle" /\ working' = Head(events) /\ events' = Tail(events)
      /\ mpc' = StepOf(Head(events).kind) /\ attempt' = 0
      /\ UNCHANGED <<wiki, cache, fetched, reader, changes, reads, mirrorFaults, unseen, renamed>>
  BY DEF TakeEvent
<1>3. /\ Head(events) \in MirrorEvent /\ Tail(events) \in Seq(MirrorEvent)
      /\ Head(events) = events[1]
      /\ \A i \in DOMAIN events : i = 1 \/ (i - 1 \in DOMAIN Tail(events) /\ Tail(events)[i - 1] = events[i])
  BY <1>1, <1>2 DEF MirrorTypeOK
<1>4. /\ mpc' \in {"fetch", "evict", "exists"}
      /\ mpc' = "exists" \/ Titles(Head(events)) = {Head(events).to}
  BY <1>2, <1>3, FirstStepTends
<1>5. working' \in MirrorEvent /\ working' # NoEvent
  BY <1>2, <1>3, MirrorAssumption
<1>6. MirrorTypeOK' /\ WorkerHasEvent'
  BY <1>1, <1>2, <1>3, <1>4, <1>5 DEF MirrorTypeOK, WorkerHasEvent, MirrorPc
<1>7. NoneForgotten'
  <2> SUFFICES ASSUME NEW t \in Title, t \notin unseen', t \notin renamed'
               PROVE  Announced(t)' \/ Tended(t)' \/ Aligned(t)'
    BY DEF NoneForgotten
  <2>1. Announced(t) \/ Aligned(t)
    BY <1>1, <1>2 DEF NoneForgotten, Tended, WorkerHasEvent
  <2>2. CASE Aligned(t)
    BY <1>2, <2>2 DEF Aligned
  <2>3. CASE Announced(t)
    <3>1. PICK i \in DOMAIN events : t \in Titles(events[i])
      BY <2>3 DEF Announced
    <3>2. CASE i = 1
      BY <1>2, <1>3, <1>4, <1>5, <3>1, <3>2 DEF Tended, Titles
    <3>3. CASE i # 1
      BY <1>2, <1>3, <3>1, <3>3 DEF Announced, Titles
    <3> QED BY <3>2, <3>3
  <2> QED BY <2>1, <2>2, <2>3
<1>8. FetchedIsCurrent'
  BY <1>4 DEF FetchedIsCurrent
<1> QED BY <1>6, <1>7, <1>8 DEF MirrorInv

\* What a step of the worker on its event owes: the other titles stay as they are, and the
\* titles of the event are spoilt, announced, tended or aligned.
LEMMA WorkerKeeps ==
  ASSUME MirrorInv, MirrorTypeOK', WorkerHasEvent', FetchedIsCurrent',
         UNCHANGED <<wiki, events>>, working # NoEvent,
         \A t \in Title \ Titles(working) :
           /\ cache'[t] = cache[t]
           /\ t \in unseen => t \in unseen'
           /\ t \in renamed => t \in renamed',
         \A t \in Titles(working) :
           t \in unseen' \/ t \in renamed' \/ Announced(t) \/ Tended(t)' \/ Aligned(t)'
  PROVE  MirrorInv'
<1>1. MirrorTypeOK /\ WorkerHasEvent /\ NoneForgotten
  BY DEF MirrorInv
<1>2. NoneForgotten'
  <2> SUFFICES ASSUME NEW t \in Title, t \notin unseen', t \notin renamed'
               PROVE  Announced(t)' \/ Tended(t)' \/ Aligned(t)'
    BY DEF NoneForgotten
  <2>1. Announced(t) => Announced(t)'
    BY DEF Announced, Titles
  <2>2. CASE t \in Titles(working)
    BY <2>1, <2>2
  <2>3. CASE t \notin Titles(working)
    <3>1. Announced(t) \/ Tended(t) \/ Aligned(t)
      BY <1>1, <2>3 DEF NoneForgotten
    <3>2. ~Tended(t)
      BY <2>3 DEF Tended, Titles
    <3>3. Aligned(t) => Aligned(t)'
      BY <2>3 DEF Aligned
    <3> QED BY <2>1, <3>1, <3>2, <3>3
  <2> QED BY <2>2, <2>3
<1> QED BY <1>2 DEF MirrorInv

\* A failure starts the event again, or gives it up and says so.
LEMMA FailedFacts ==
  ASSUME MirrorInv, working # NoEvent, Failed
  PROVE  /\ mpc' \in MirrorPc \ {"fill", "store"} /\ WorkerHasEvent'
         /\ working' \in MirrorEvent \cup {NoEvent} /\ fetched' \in MirrorText /\ attempt' \in Nat
         /\ unseen' \in SUBSET Title /\ unseen \subseteq unseen'
         /\ \A t \in Titles(working) : t \in unseen' \/ Tended(t)'
<1>1. MirrorTypeOK /\ WorkerHasEvent
  BY DEF MirrorInv
<1>2. working \in MirrorEvent /\ Titles(working) \subseteq Title /\ Gone \in MirrorText
  BY <1>1 DEF MirrorTypeOK, Titles, MirrorEvent, MirrorText
<1>3. CASE /\ attempt' = attempt + 1 /\ mpc' = StepOf(working.kind) /\ fetched' = Gone
           /\ UNCHANGED <<working, unseen>>
  <2>1. mpc' \in {"fetch", "evict", "exists"} /\ (mpc' = "exists" \/ Titles(working) = {working.to})
    BY <1>2, <1>3, FirstStepTends
  <2>2. \A t \in Titles(working) : Tended(t)'
    BY <1>3, <2>1 DEF Tended, Titles
  <2> QED BY <1>1, <1>2, <1>3, <2>1, <2>2 DEF MirrorTypeOK, MirrorPc, WorkerHasEvent
<1>4. CASE Done /\ unseen' = unseen \cup Titles(working)
  BY <1>1, <1>2, <1>4 DEF MirrorTypeOK, MirrorPc, WorkerHasEvent, Done
<1> QED BY <1>3, <1>4 DEF Failed

\* A failing step that leaves cache and renames alone, or has written first.
LEMMA FailedKeeps ==
  ASSUME MirrorInv, working # NoEvent, Failed,
         UNCHANGED <<wiki, events, reader, changes, reads>>,
         mirrorFaults' \in Nat, cache' \in [Title -> MirrorText], renamed' \in SUBSET Title,
         \A t \in Title \ Titles(working) : cache'[t] = cache[t] /\ (t \in renamed => t \in renamed')
  PROVE  MirrorInv'
<1>1. MirrorTypeOK /\ WorkerHasEvent
  BY DEF MirrorInv
<1>2. MirrorTypeOK' /\ WorkerHasEvent' /\ FetchedIsCurrent'
  BY <1>1, FailedFacts DEF MirrorTypeOK, FetchedIsCurrent
<1>3. /\ \A t \in Title \ Titles(working) :
           cache'[t] = cache[t] /\ (t \in unseen => t \in unseen') /\ (t \in renamed => t \in renamed')
      /\ \A t \in Titles(working) : t \in unseen' \/ Tended(t)'
  BY FailedFacts
<1> QED BY <1>2, <1>3, WorkerKeeps

\* The live read.
LEMMA FetchKeeps ==
  ASSUME MirrorInv, Fetch
  PROVE  MirrorInv'
<1>1. MirrorTypeOK /\ WorkerHasEvent /\ NoneForgotten
  BY DEF MirrorInv
<1>2. /\ mpc = "fetch" /\ working \in MirrorEvent /\ working # NoEvent
      /\ Target \in Title /\ Titles(working) \subseteq Title
      /\ UNCHANGED <<wiki, cache, events, reader, changes, reads>>
  BY <1>1 DEF Fetch, MirrorTypeOK, WorkerHasEvent, Titles, Target, MirrorEvent
<1>3. CASE /\ fetched' = wiki[Target]
           /\ Onward(IF wiki[Target] = Gone THEN "evict" ELSE "fill")
           /\ unseen' = unseen \ {Target} /\ renamed' = renamed \ {Target}
           /\ UNCHANGED mirrorFaults
  <2>1. /\ working' = working /\ attempt' = attempt /\ Target' = Target
        /\ mpc' \in {"evict", "fill"} /\ (mpc' = "fill" => wiki[Target] # Gone)
    BY <1>3 DEF Onward, Target
  <2>2. MirrorTypeOK' /\ WorkerHasEvent'
    BY <1>1, <1>2, <1>3, <2>1 DEF MirrorTypeOK, WorkerHasEvent, MirrorPc
  <2>3. FetchedIsCurrent'
    BY <1>2, <1>3, <2>1 DEF FetchedIsCurrent
  <2>4. \A t \in Title \ Titles(working) :
          (t \in unseen => t \in unseen') /\ (t \in renamed => t \in renamed')
    BY <1>3 DEF Target, Titles
  <2>5. ASSUME NEW t \in Titles(working)
        PROVE  t \in unseen' \/ t \in renamed' \/ Announced(t) \/ Tended(t)' \/ Aligned(t)'
    <3>1. CASE t = Target
      BY <1>2, <2>1, <3>1 DEF Tended, Target
    <3>2. CASE t # Target
      <4>1. t \in unseen \/ t \in renamed \/ Announced(t) \/ Tended(t) \/ Aligned(t)
        BY <1>1, <1>2 DEF NoneForgotten
      <4>2. ~Tended(t)
        BY <1>2, <3>2 DEF Tended, Target
      <4>3. Aligned(t) => Aligned(t)'
        BY <1>2 DEF Aligned
      <4> QED BY <1>3, <3>2, <4>1, <4>2, <4>3
    <3> QED BY <3>1, <3>2
  <2> QED BY <1>2, <2>2, <2>3, <2>4, <2>5, WorkerKeeps
<1>4. CASE Failed /\ UNCHANGED <<renamed, mirrorFaults>>
  BY <1>1, <1>2, <1>4, FailedKeeps DEF MirrorTypeOK
<1>5. CASE MirrorFault /\ Failed /\ UNCHANGED renamed
  BY <1>1, <1>2, <1>5, FailedKeeps DEF MirrorTypeOK, MirrorFault
<1> QED BY <1>3, <1>4, <1>5 DEF Fetch

\* The lenient write of RedisPage.get.
LEMMA FillKeeps ==
  ASSUME MirrorInv, Fill
  PROVE  MirrorInv'
<1>1. MirrorTypeOK /\ WorkerHasEvent /\ NoneForgotten /\ FetchedIsCurrent
  BY DEF MirrorInv
<1>2. /\ mpc = "fill" /\ working \in MirrorEvent /\ working # NoEvent
      /\ Target \in Title /\ Titles(working) \subseteq Title
      /\ UNCHANGED <<wiki, events, reader, changes, reads, unseen, renamed, fetched, working, attempt>>
      /\ mpc' = "store" /\ Target' = Target
  BY <1>1 DEF Fill, MirrorTypeOK, WorkerHasEvent, Titles, Target, MirrorEvent, Onward
<1>3. /\ cache' \in [Title -> MirrorText] /\ mirrorFaults' \in Nat
      /\ \A t \in Title : t # Target => cache'[t] = cache[t]
  BY <1>1, <1>2 DEF Fill, MirrorFault, MirrorTypeOK
<1>4. MirrorTypeOK' /\ WorkerHasEvent'
  BY <1>1, <1>2, <1>3 DEF MirrorTypeOK, WorkerHasEvent, MirrorPc
<1>5. FetchedIsCurrent'
  BY <1>1, <1>2 DEF FetchedIsCurrent, Announced, Titles
<1>6. \A t \in Title \ Titles(working) : cache'[t] = cache[t]
  BY <1>3 DEF Target, Titles
<1>7. ASSUME NEW t \in Titles(working)
      PROVE  t \in unseen' \/ t \in renamed' \/ Announced(t) \/ Tended(t)' \/ Aligned(t)'
  <2>1. CASE t = Target
    BY <1>2, <2>1 DEF Tended, Target
  <2>2. CASE t # Target
    <3>1. t \in unseen \/ t \in renamed \/ Announced(t) \/ Tended(t) \/ Aligned(t)
      BY <1>1, <1>2 DEF NoneForgotten
    <3>2. ~Tended(t)
      BY <1>2, <2>2 DEF Tended, Target
    <3>3. Aligned(t) => Aligned(t)'
      BY <1>2, <1>3, <2>2 DEF Aligned
    <3> QED BY <1>2, <3>1, <3>2, <3>3
  <2> QED BY <2>1, <2>2
<1> QED BY <1>2, <1>4, <1>5, <1>6, <1>7, WorkerKeeps

\* A write of the worker: it reports an error, which the retries deal with, or it ends the
\* event, and then the titles of the event are in line.
LEMMA WriteKeeps ==
  ASSUME MirrorInv, NEW pc, NEW after \in [Title -> MirrorText], NEW moved \in SUBSET Title,
         NEW missed \in SUBSET Title, Write(pc, after, moved, missed), working # NoEvent,
         \A t \in Title \ Titles(working) :
           /\ after[t] = cache[t]
           /\ t \in unseen => t \in missed
           /\ t \in renamed => t \in moved,
         \A t \in Titles(working) :
           t \in missed \/ t \in moved \/ Announced(t) \/ after[t] \in {Gone, wiki[t]}
  PROVE  MirrorInv'
<1>1. MirrorTypeOK /\ WorkerHasEvent
  BY DEF MirrorInv
<1>2. /\ working \in MirrorEvent /\ Titles(working) \subseteq Title /\ Gone \in MirrorText
      /\ UNCHANGED <<wiki, events, reader, changes, reads>>
  BY <1>1 DEF Write, MirrorTypeOK, Titles, MirrorEvent, MirrorText
<1>3. CASE /\ cache' = after /\ Done
           /\ renamed' = moved /\ unseen' = missed /\ UNCHANGED mirrorFaults
  <2>1. MirrorTypeOK' /\ WorkerHasEvent' /\ FetchedIsCurrent'
    BY <1>1, <1>2, <1>3 DEF MirrorTypeOK, WorkerHasEvent, FetchedIsCurrent, Done, MirrorPc
  <2>2. \A t \in Titles(working) : after[t] \in {Gone, wiki[t]} => Aligned(t)'
    BY <1>2, <1>3 DEF Aligned
  <2> QED BY <1>2, <1>3, <2>1, <2>2, WorkerKeeps
<1>4. CASE MirrorFault /\ Failed /\ cache' = after /\ renamed' = moved
  BY <1>1, <1>2, <1>4, FailedKeeps DEF MirrorTypeOK, MirrorFault
<1>5. CASE MirrorFault /\ Failed /\ UNCHANGED <<cache, renamed>>
  BY <1>1, <1>2, <1>5, FailedKeeps DEF MirrorTypeOK, MirrorFault
<1> QED BY <1>3, <1>4, <1>5 DEF Write

\* The strict write, the eviction and the rename.
LEMMA WritesKeep ==
  ASSUME MirrorInv, Store \/ Evict \/ Rename
  PROVE  MirrorInv'
<1>1. MirrorTypeOK /\ WorkerHasEvent /\ NoneForgotten /\ FetchedIsCurrent
  BY DEF MirrorInv
<1>2. /\ mpc # "idle" /\ working \in MirrorEvent /\ working # NoEvent
      /\ Target \in Title /\ Target = working.to /\ working.title \in Title
      /\ Titles(working) = {working.title, Target} /\ Gone \in MirrorText
  BY <1>1 DEF Store, Evict, Rename, Write, MirrorTypeOK, WorkerHasEvent, Titles, Target,
     MirrorEvent, MirrorText
<1>3. ASSUME NEW t \in Titles(working), t # Target, mpc \in {"store", "evict"}
      PROVE  t \in unseen \/ t \in renamed \/ Announced(t) \/ cache[t] \in {Gone, wiki[t]}
  <2>1. t \in unseen \/ t \in renamed \/ Announced(t) \/ Tended(t) \/ Aligned(t)
    BY <1>1, <1>2 DEF NoneForgotten
  <2>2. ~Tended(t)
    BY <1>2, <1>3 DEF Tended
  <2> QED BY <2>1, <2>2 DEF Aligned
<1>4. CASE Store
  <2> DEFINE after == Written(Target, fetched)
  <2>1. /\ mpc = "store" /\ Write("store", after, renamed, unseen)
        /\ unseen \in SUBSET Title /\ renamed \in SUBSET Title
    BY <1>1, <1>4 DEF Store, Write, MirrorTypeOK
  <2>2. /\ after \in [Title -> MirrorText] /\ after[Target] = fetched
        /\ \A t \in Title : t # Target => after[t] = cache[t]
    BY <1>1, <1>2 DEF Written, MirrorTypeOK
  <2>3. ASSUME NEW t \in Titles(working)
        PROVE  t \in unseen \/ t \in renamed \/ Announced(t) \/ after[t] \in {Gone, wiki[t]}
    BY <1>1, <1>2, <1>3, <2>1, <2>2 DEF FetchedIsCurrent
  <2> HIDE DEF after
  <2>4. \A t \in Title \ Titles(working) : after[t] = cache[t]
    BY <1>2, <2>2
  <2> QED BY <1>2, <2>1, <2>2, <2>3, <2>4, WriteKeeps
<1>5. CASE Evict
  <2> DEFINE after == [cache EXCEPT ![Target] = Gone]
             moved == renamed \ {Target}
             missed == unseen \ {Target}
  <2>1. /\ mpc = "evict" /\ Write("evict", after, moved, missed)
        /\ missed \in SUBSET Title /\ moved \in SUBSET Title
    BY <1>1, <1>5 DEF Evict, Write, MirrorTypeOK
  <2>2. /\ after \in [Title -> MirrorText] /\ after[Target] = Gone
        /\ \A t \in Title : t # Target => after[t] = cache[t]
    BY <1>1, <1>2 DEF MirrorTypeOK
  <2>3. ASSUME NEW t \in Titles(working)
        PROVE  t \in missed \/ t \in moved \/ Announced(t) \/ after[t] \in {Gone, wiki[t]}
    BY <1>2, <1>3, <2>1, <2>2
  <2>4. \A t \in Title \ Titles(working) :
          (t \in unseen => t \in missed) /\ (t \in renamed => t \in moved)
    BY <1>2
  <2> HIDE DEF after, moved, missed
  <2>5. \A t \in Title \ Titles(working) : after[t] = cache[t]
    BY <1>2, <2>2
  <2> QED BY <1>2, <2>1, <2>2, <2>3, <2>4, <2>5, WriteKeeps
<1>6. CASE Rename
  <2> DEFINE t0 == working.title
             moved == (renamed \ {t0}) \cup {working.to}
             missed == (unseen \ {t0}) \cup (IF t0 \in unseen THEN {working.to} ELSE {})
  <2>1. /\ Write("rename", RenamedCache, moved, missed)
        /\ missed \in SUBSET Title /\ moved \in SUBSET Title
    BY <1>1, <1>2, <1>6 DEF Rename, MirrorTypeOK
  <2>2. /\ RenamedCache \in [Title -> MirrorText] /\ RenamedCache[t0] = Gone
        /\ \A t \in Title \ Titles(working) : RenamedCache[t] = cache[t]
    BY <1>1, <1>2 DEF MirrorTypeOK, RenamedCache
  <2>3. \A t \in Titles(working) : t \in moved \/ t = t0
    BY <1>2
  <2>4. \A t \in Title \ Titles(working) :
          (t \in unseen => t \in missed) /\ (t \in renamed => t \in moved)
    BY <1>2
  <2> HIDE DEF moved, missed
  <2> QED BY <1>2, <2>1, <2>2, <2>3, <2>4, WriteKeeps
<1> QED BY <1>4, <1>5, <1>6

\* move: the key of the source exists, or the destination is fetched instead.
LEMMA ExistsKeeps ==
  ASSUME MirrorInv, Exists
  PROVE  MirrorInv'
<1>1. MirrorTypeOK /\ WorkerHasEvent
  BY DEF MirrorInv
<1>2. /\ mpc = "exists" /\ working \in MirrorEvent /\ working # NoEvent
      /\ Titles(working) \subseteq Title /\ Titles(working) = {working.title, working.to}
      /\ UNCHANGED <<wiki, cache, events, reader, changes, reads, renamed>>
  BY <1>1 DEF Exists, MirrorTypeOK, WorkerHasEvent, Titles, MirrorEvent
<1>3. CASE /\ Onward(IF cache[working.title] = Gone THEN "fetch" ELSE "rename")
           /\ UNCHANGED <<fetched, mirrorFaults, unseen>>
  <2>1. /\ working' = working /\ attempt' = attempt /\ mpc' \in {"fetch", "rename"}
        /\ mpc' = "fetch" => cache[working.title] = Gone
    BY <1>3 DEF Onward
  <2>2. MirrorTypeOK' /\ WorkerHasEvent' /\ FetchedIsCurrent'
    BY <1>1, <1>2, <1>3, <2>1 DEF MirrorTypeOK, WorkerHasEvent, FetchedIsCurrent, MirrorPc
  <2>3. \A t \in Titles(working) : Tended(t)' \/ Aligned(t)'
    BY <1>2, <2>1 DEF Tended, Titles, Aligned
  <2> QED BY <1>2, <1>3, <2>2, <2>3, WorkerKeeps
<1>4. CASE MirrorFault /\ Failed
  BY <1>1, <1>2, <1>4, FailedKeeps DEF MirrorTypeOK, MirrorFault
<1> QED BY <1>3, <1>4 DEF Exists

\* A restart forgets events, and counts their titles as unseen.
LEMMA RestartKeeps ==
  ASSUME MirrorInv, MirrorRestart
  PROVE  MirrorInv'
<1>1. MirrorTypeOK /\ WorkerHasEvent /\ NoneForgotten
  BY DEF MirrorInv
<1>2. /\ events' = <<>> /\ working' = NoEvent /\ mpc' = "idle" /\ fetched' = Gone /\ attempt' = 0
      /\ UNCHANGED <<wiki, cache, reader, changes, reads, renamed>>
      /\ mirrorFaults' \in Nat
  BY <1>1 DEF MirrorRestart, MirrorFault, MirrorTypeOK
<1>3. /\ unseen \subseteq unseen' /\ unseen' \in SUBSET Title
      /\ \A t \in Title : Announced(t) => t \in unseen'
      /\ working # NoEvent => Titles(working) \subseteq unseen'
  <2> DEFINE waiting == UNION {Titles(events[i]) : i \in DOMAIN events}
             taken == IF working = NoEvent THEN {} ELSE Titles(working)
  <2>1. unseen' = unseen \cup waiting \cup taken
    BY DEF MirrorRestart
  <2>2. \A e \in MirrorEvent : Titles(e) \subseteq Title
    BY DEF Titles, MirrorEvent
  <2>3. \A i \in DOMAIN events : events[i] \in MirrorEvent
    BY <1>1 DEF MirrorTypeOK
  <2>4. working # NoEvent => working \in MirrorEvent
    BY <1>1 DEF MirrorTypeOK
  <2>5. unseen \in SUBSET Title
    BY <1>1 DEF MirrorTypeOK
  <2>6. waiting \subseteq Title /\ \A t \in Title : Announced(t) => t \in waiting
    BY <2>2, <2>3 DEF Announced
  <2>7. taken \subseteq Title /\ (working # NoEvent => taken = Titles(working))
    BY <2>2, <2>4
  <2> HIDE DEF waiting, taken
  <2> QED BY <2>1, <2>5, <2>6, <2>7
<1>4. MirrorTypeOK' /\ WorkerHasEvent' /\ FetchedIsCurrent'
  BY <1>1, <1>2, <1>3 DEF MirrorTypeOK, WorkerHasEvent, FetchedIsCurrent, MirrorText, MirrorPc
<1>5. NoneForgotten'
  <2> SUFFICES ASSUME NEW t \in Title, t \notin unseen', t \notin renamed' PROVE Aligned(t)'
    BY DEF NoneForgotten
  <2>1. Announced(t) \/ Tended(t) \/ Aligned(t)
    BY <1>1, <1>2, <1>3 DEF NoneForgotten
  <2>2. ~Announced(t) /\ ~Tended(t)
    BY <1>3 DEF Tended, Titles
  <2> QED BY <1>2, <2>1, <2>2 DEF Aligned
<1> QED BY <1>4, <1>5 DEF MirrorInv

\* CacheUpdateWorker, its listener and the other readers never leave a title behind: what
\* may be wrong in the cache is announced, tended, or known to be spoilt.
THEOREM MirrorInvariance == MirrorSpec => []MirrorInv
<1>1. MirrorInit => MirrorInv
  BY MirrorInitially
<1>2. MirrorInv /\ [MirrorNext]_mirrorVars => MirrorInv'
  <2> SUFFICES ASSUME MirrorInv, [MirrorNext]_mirrorVars PROVE MirrorInv'
    OBVIOUS
  <2>0. MirrorTypeOK
    BY DEF MirrorInv
  <2>1. ASSUME NEW t \in Title, Edit(t) PROVE MirrorInv'
    <3>1. Event("edit", t, t) \in MirrorEvent /\ Titles(Event("edit", t, t)) = {t}
      BY DEF Event, MirrorEvent, Titles
    <3>2. PICK x \in {<<t, changes + 1>>, Redirected} : wiki' = [wiki EXCEPT ![t] = x]
      BY <2>1 DEF Edit
    <3>3. x \in MirrorText
      BY <2>0, <3>2 DEF MirrorText, MirrorTypeOK
    <3>4. wiki' \in [Title -> MirrorText] /\ \A u \in Title \ {t} : wiki'[u] = wiki[u]
      BY <2>0, <3>2, <3>3 DEF MirrorTypeOK
    <3> QED BY <2>1, <3>1, <3>4, ChangeKeeps DEF Edit
  <2>2. ASSUME NEW t \in Title, Delete(t) PROVE MirrorInv'
    <3>1. Event("delete", t, t) \in MirrorEvent /\ Titles(Event("delete", t, t)) = {t}
      BY DEF Event, MirrorEvent, Titles
    <3>2. wiki' \in [Title -> MirrorText] /\ \A u \in Title \ {t} : wiki'[u] = wiki[u]
      BY <2>0, <2>2 DEF Delete, MirrorTypeOK, MirrorText
    <3> QED BY <2>2, <3>1, <3>2, ChangeKeeps DEF Delete
  <2>3. ASSUME NEW t \in Title, NEW to \in Title, Move(t, to) PROVE MirrorInv'
    <3>1. Event("move", t, to) \in MirrorEvent /\ Titles(Event("move", t, to)) = {t, to}
      BY DEF Event, MirrorEvent, Titles
    <3>2. wiki' \in [Title -> MirrorText] /\ \A u \in Title \ {t, to} : wiki'[u] = wiki[u]
      BY <2>0, <2>3 DEF Move, MirrorTypeOK, MirrorText
    <3> QED BY <2>3, <3>1, <3>2, ChangeKeeps DEF Move
  <2>4. ASSUME NEW t \in Title, OtherEntry(t) PROVE MirrorInv'
    <3>1. PICK x \in {<<t, changes + 1>>, Redirected, Gone} : wiki' = [wiki EXCEPT ![t] = x]
      BY <2>4 DEF OtherEntry
    <3>2. x \in MirrorText
      BY <2>0, <3>1 DEF MirrorText, MirrorTypeOK
    <3>3. wiki' \in [Title -> MirrorText] /\ \A u \in Title \ {t} : wiki'[u] = wiki[u]
      BY <2>0, <3>1, <3>2 DEF MirrorTypeOK
    <3> QED BY <2>4, <3>3, IgnoredKeeps DEF OtherEntry
  <2>4a. ASSUME NEW t \in Title, NEW to \in Title, MoveOver(t, to) PROVE MirrorInv'
    <3>1. wiki' \in [Title -> MirrorText] /\ \A u \in Title \ {t, to} : wiki'[u] = wiki[u]
      BY <2>0, <2>4a DEF MoveOver, MirrorTypeOK, MirrorText
    <3> QED BY <2>4a, <3>1, IgnoredKeeps DEF MoveOver
  <2>5. CASE (\E t \in Title : OtherReads(t)) \/ OtherFills
    BY <2>5, OthersKeep
  <2>6. CASE TakeEvent
    BY <2>6, TakeEventKeeps
  <2>7. CASE Fetch
    BY <2>7, FetchKeeps
  <2>8. CASE Fill
    BY <2>8, FillKeeps
  <2>9. CASE Store \/ Evict \/ Rename
    BY <2>9, WritesKeep
  <2>10. CASE Exists
    BY <2>10, ExistsKeeps
  <2>11. CASE MirrorRestart
    BY <2>11, RestartKeeps
  <2>12. CASE UNCHANGED mirrorVars
    BY <2>0, <2>12, QuietKeeps DEF mirrorVars, MirrorInv, MirrorTypeOK, WorkerHasEvent
  <2> QED BY <2>1, <2>2, <2>3, <2>4, <2>4a, <2>5, <2>6, <2>7, <2>8, <2>9, <2>10, <2>11, <2>12
          DEF MirrorNext
<1> QED BY <1>1, <1>2, PTL DEF MirrorSpec

\* A title whose events were all worked off is cached with the page's text or not at all,
\* unless it changed since with a log entry the parser ignores, a message about it was lost
\* since, a late reader wrote over it, or a rename brought the text.
THEOREM MirrorAlwaysHeals == MirrorSpec => []MirrorHeals
<1>1. MirrorInv => MirrorHeals
  BY DEF MirrorInv, NoneForgotten, MirrorHeals, WorkedOff, Announced, Tended, Titles
<1> QED BY <1>1, MirrorInvariance, PTL

-----------------------------------------------------------------------------
\* The workers of wiktionary_irc

IrcPc == {"idle", "submit", "retry", "requeue", "release"}

IrcTypeOK ==
  /\ pages \in [Worker -> Seq(Page)] /\ held \in [Worker -> SUBSET Page]
  /\ tries \in [Worker -> [Page -> Nat]] /\ ids \in [Worker -> [Page -> Nat]]
  /\ busy \in [Worker -> Page \cup {NoPage}] /\ wpc \in [Worker -> IrcPc]
  /\ posted \in [Page -> SUBSET Nat] /\ accepted \in Nat

EntriesOf(s) == {s[i] : i \in DOMAIN s}
NoneTwice(s) == \A i, k \in DOMAIN s : s[i] = s[k] => i = k

\* A queue, the pages held for it, and the page its thread has in hand.
Line(s, h, b, pc) ==
  /\ NoneTwice(s) /\ Len(s) <= QueueSize
  /\ b \notin EntriesOf(s) /\ (pc = "idle" <=> b = NoPage)
  /\ h = EntriesOf(s) \cup ({b} \ {NoPage})

Lines == \A w \in Worker : Line(pages[w], held[w], busy[w], wpc[w])

\* A request id lives as long as the page is held, and so does what was posted with it.
RequestIds ==
  \A p \in Page :
    /\ ids["source"][p] # 0 <=> p \in held["source"]
    /\ posted[p] \subseteq IF p \in held["source"] THEN {ids["source"][p]} ELSE {}

IrcInv == IrcTypeOK /\ Lines /\ RequestIds

LEMMA IrcInitially == IrcInit => IrcInv
<1> SUFFICES ASSUME IrcInit PROVE IrcInv
  OBVIOUS
<1>1. IrcTypeOK
  BY DEF IrcInit, IrcTypeOK, ForPages, IrcPc
<1>2. Lines
  BY IrcAssumption DEF IrcInit, Lines, Line, EntriesOf, NoneTwice
<1>3. RequestIds
  BY DEF IrcInit, RequestIds, ForPages, Worker
<1> QED BY <1>1, <1>2, <1>3 DEF IrcInv

\* A page that is not in the queue is put at its end.
LEMMA EntryAppended ==
  ASSUME NEW s \in Seq(Page), NEW p \in Page, NoneTwice(s), p \notin EntriesOf(s)
  PROVE  /\ Append(s, p) \in Seq(Page) /\ Len(Append(s, p)) = Len(s) + 1
         /\ NoneTwice(Append(s, p)) /\ EntriesOf(Append(s, p)) = EntriesOf(s) \cup {p}
<1> DEFINE t == Append(s, p)
<1>1. /\ t \in Seq(Page) /\ Len(t) = Len(s) + 1 /\ Len(s) \in Nat
      /\ DOMAIN s = 1..Len(s) /\ DOMAIN t = 1..(Len(s) + 1)
      /\ \A i \in DOMAIN s : t[i] = s[i]
      /\ t[Len(s) + 1] = p
  OBVIOUS
<1>2. /\ \A i \in DOMAIN t : i \in DOMAIN s \/ i = Len(s) + 1
      /\ \A i \in DOMAIN s : i \in DOMAIN t
      /\ Len(s) + 1 \in DOMAIN t
  BY <1>1
<1> HIDE DEF t
<1>3. NoneTwice(t)
  BY <1>1, <1>2 DEF NoneTwice, EntriesOf
<1>4. EntriesOf(t) = EntriesOf(s) \cup {p}
  BY <1>1, <1>2 DEF EntriesOf
<1> QED BY <1>1, <1>3, <1>4 DEF t

\* The first page is taken off the queue.
LEMMA EntryTaken ==
  ASSUME NEW s \in Seq(Page), NoneTwice(s), s # <<>>
  PROVE  /\ Head(s) \in Page /\ Tail(s) \in Seq(Page) /\ Len(Tail(s)) = Len(s) - 1
         /\ NoneTwice(Tail(s)) /\ Head(s) \notin EntriesOf(Tail(s))
         /\ EntriesOf(s) = EntriesOf(Tail(s)) \cup {Head(s)}
<1> DEFINE t == Tail(s)
<1>1. /\ t \in Seq(Page) /\ Len(t) = Len(s) - 1 /\ Len(s) \in Nat \ {0} /\ Head(s) = s[1]
      /\ DOMAIN s = 1..Len(s) /\ DOMAIN t = 1..(Len(s) - 1) /\ Head(s) \in Page
      /\ \A i \in DOMAIN t : t[i] = s[i + 1]
  OBVIOUS
<1>2. /\ 1 \in DOMAIN s
      /\ \A i \in DOMAIN t : i + 1 \in DOMAIN s /\ i + 1 # 1
      /\ \A i, k \in DOMAIN t : i + 1 = k + 1 => i = k
      /\ \A i \in DOMAIN s : i = 1 \/ (i - 1 \in DOMAIN t /\ (i - 1) + 1 = i)
  BY <1>1
<1> HIDE DEF t
<1>3. NoneTwice(t)
  BY <1>1, <1>2 DEF NoneTwice
<1>4. Head(s) \notin EntriesOf(t)
  BY <1>1, <1>2 DEF NoneTwice, EntriesOf
<1>5. EntriesOf(s) \subseteq EntriesOf(t) \cup {Head(s)}
  <2> SUFFICES ASSUME NEW i \in DOMAIN s PROVE s[i] \in EntriesOf(t) \cup {Head(s)}
    BY DEF EntriesOf
  <2>1. CASE i = 1
    BY <1>1, <2>1
  <2>2. CASE i # 1
    <3>1. i - 1 \in DOMAIN t /\ t[i - 1] = s[i]
      BY <1>1, <1>2, <2>2
    <3> QED BY <3>1 DEF EntriesOf
  <2> QED BY <2>1, <2>2
<1>6. EntriesOf(t) \cup {Head(s)} \subseteq EntriesOf(s)
  BY <1>1, <1>2 DEF EntriesOf
<1> QED BY <1>1, <1>3, <1>4, <1>5, <1>6 DEF t

\* A step on the queue of one worker.
LEMMA OneLine ==
  ASSUME Lines, NEW w \in Worker,
         \A v \in Worker \ {w} : /\ pages'[v] = pages[v] /\ held'[v] = held[v]
                                 /\ busy'[v] = busy[v] /\ wpc'[v] = wpc[v],
         Line(pages'[w], held'[w], busy'[w], wpc'[w])
  PROVE  Lines'
BY DEF Lines, Line, EntriesOf, NoneTwice

\* enqueue
LEMMA EnqueueKeeps ==
  ASSUME IrcInv, NEW w \in Worker, NEW p \in Page, Enqueue(w, p)
  PROVE  IrcInv'
<1>1. IrcTypeOK /\ Lines /\ RequestIds /\ Line(pages[w], held[w], busy[w], wpc[w])
  BY DEF IrcInv, Lines
<1>2. /\ p \notin held[w] /\ Len(pages[w]) < QueueSize
      /\ pages' = [pages EXCEPT ![w] = Append(@, p)] /\ held' = [held EXCEPT ![w] = @ \cup {p}]
      /\ accepted' = accepted + 1
      /\ ids' = IF w = "source" THEN [ids EXCEPT ![w][p] = accepted + 1] ELSE ids
      /\ UNCHANGED <<tries, busy, wpc, posted>>
  BY DEF Enqueue, Taken
<1>3. /\ pages[w] \in Seq(Page) /\ p \notin EntriesOf(pages[w]) /\ NoneTwice(pages[w])
      /\ p # busy[w] /\ Len(pages[w]) \in Nat /\ QueueSize \in Nat
  BY <1>1, <1>2, IrcAssumption DEF IrcTypeOK, Line
<1>4. /\ Append(pages[w], p) \in Seq(Page) /\ Len(Append(pages[w], p)) = Len(pages[w]) + 1
      /\ NoneTwice(Append(pages[w], p))
      /\ EntriesOf(Append(pages[w], p)) = EntriesOf(pages[w]) \cup {p}
  BY <1>3, EntryAppended
<1>5. /\ pages'[w] = Append(pages[w], p) /\ held'[w] = held[w] \cup {p}
      /\ \A v \in Worker \ {w} : pages'[v] = pages[v] /\ held'[v] = held[v]
  BY <1>1, <1>2 DEF IrcTypeOK
<1>6. IrcTypeOK'
  BY <1>1, <1>2, <1>4 DEF IrcTypeOK
<1>7. Line(pages'[w], held'[w], busy'[w], wpc'[w])
  <2>1. Len(pages'[w]) <= QueueSize /\ NoneTwice(pages'[w])
    BY <1>2, <1>3, <1>4, <1>5
  <2>2. busy[w] \notin EntriesOf(pages'[w]) /\ held'[w] = EntriesOf(pages'[w]) \cup ({busy[w]} \ {NoPage})
    BY <1>1, <1>3, <1>4, <1>5 DEF Line
  <2> QED BY <1>1, <1>2, <2>1, <2>2 DEF Line
<1>8. Lines'
  BY <1>1, <1>2, <1>5, <1>7, OneLine
<1>9. RequestIds'
  <2>1. CASE w = "check"
    <3>1. ids' = ids /\ posted' = posted /\ held'["source"] = held["source"]
      BY <1>2, <1>5, <2>1 DEF Worker
    <3> QED BY <1>1, <3>1 DEF RequestIds
  <2>2. CASE w = "source"
    <3>1. /\ ids'["source"][p] = accepted + 1 /\ accepted + 1 # 0
          /\ \A q \in Page \ {p} : ids'["source"][q] = ids["source"][q]
      BY <1>1, <1>2, <2>2 DEF IrcTypeOK, Worker
    <3>2. posted' = posted /\ held'["source"] = held["source"] \cup {p} /\ p \notin held["source"]
      BY <1>2, <1>5, <2>2
    <3> QED BY <1>1, <3>1, <3>2 DEF RequestIds
  <2> QED BY <2>1, <2>2 DEF Worker
<1> QED BY <1>6, <1>8, <1>9 DEF IrcInv

\* run takes the next page.
LEMMA TakeKeeps ==
  ASSUME IrcInv, NEW w \in Worker, Take(w)
  PROVE  IrcInv'
<1>1. IrcTypeOK /\ Lines /\ RequestIds /\ Line(pages[w], held[w], busy[w], wpc[w])
  BY DEF IrcInv, Lines
<1>2. /\ wpc[w] = "idle" /\ pages[w] # <<>> /\ busy' = [busy EXCEPT ![w] = Head(pages[w])]
      /\ pages' = [pages EXCEPT ![w] = Tail(@)] /\ wpc' = [wpc EXCEPT ![w] = "submit"]
      /\ UNCHANGED <<held, tries, ids, posted, accepted>>
  BY DEF Take
<1>3. pages[w] \in Seq(Page) /\ NoneTwice(pages[w]) /\ busy[w] = NoPage
  BY <1>1, <1>2 DEF IrcTypeOK, Line
<1>4. /\ Head(pages[w]) \in Page /\ Tail(pages[w]) \in Seq(Page)
      /\ Len(Tail(pages[w])) = Len(pages[w]) - 1 /\ NoneTwice(Tail(pages[w]))
      /\ Head(pages[w]) \notin EntriesOf(Tail(pages[w]))
      /\ EntriesOf(pages[w]) = EntriesOf(Tail(pages[w])) \cup {Head(pages[w])}
  BY <1>2, <1>3, EntryTaken
<1>5. /\ pages'[w] = Tail(pages[w]) /\ busy'[w] = Head(pages[w]) /\ wpc'[w] = "submit"
      /\ \A v \in Worker \ {w} : pages'[v] = pages[v] /\ busy'[v] = busy[v] /\ wpc'[v] = wpc[v]
  BY <1>1, <1>2 DEF IrcTypeOK
<1>6. IrcTypeOK'
  BY <1>1, <1>2, <1>4 DEF IrcTypeOK, IrcPc
<1>7. Line(pages'[w], held'[w], busy'[w], wpc'[w])
  <2>1. Len(pages'[w]) <= QueueSize
    BY <1>1, <1>3, <1>4, <1>5, IrcAssumption DEF Line
  <2>2. busy'[w] # NoPage
    BY <1>4, <1>5, IrcAssumption
  <2> QED BY <1>1, <1>2, <1>3, <1>4, <1>5, <2>1, <2>2 DEF Line
<1>8. Lines'
  BY <1>1, <1>2, <1>5, <1>7, OneLine
<1>9. RequestIds'
  BY <1>1, <1>2 DEF RequestIds
<1> QED BY <1>6, <1>8, <1>9 DEF IrcInv

\* _submit and the count of _retry: the page stays in hand.
LEMMA SubmitKeeps ==
  ASSUME IrcInv, NEW w \in Worker, Post(w) \/ CountRetry(w)
  PROVE  IrcInv'
<1>1. IrcTypeOK /\ Lines /\ RequestIds /\ Line(pages[w], held[w], busy[w], wpc[w])
  BY DEF IrcInv, Lines
<1>2. /\ wpc[w] \in {"submit", "retry"} /\ UNCHANGED <<pages, held, busy, ids, accepted>>
      /\ \E pc \in IrcPc \ {"idle"} : wpc' = [wpc EXCEPT ![w] = pc]
  BY DEF Post, CountRetry, Answers, AfterRejection, IrcPc
<1>3. busy[w] \in Page /\ busy[w] \in held[w] /\ wpc[w] # "idle"
  BY <1>1, <1>2 DEF IrcTypeOK, Line
<1>4. /\ wpc'[w] # "idle" /\ \A v \in Worker \ {w} : wpc'[v] = wpc[v]
      /\ wpc' \in [Worker -> IrcPc]
  BY <1>1, <1>2 DEF IrcTypeOK
<1>5. tries' \in [Worker -> [Page -> Nat]]
  <2>1. UNCHANGED tries \/ tries' = [tries EXCEPT ![w][busy[w]] = @ + 1]
    BY DEF Post, CountRetry
  <2>2. tries \in [Worker -> [Page -> Nat]]
    BY <1>1 DEF IrcTypeOK
  <2> QED BY <1>3, <2>1, <2>2
<1>6. \/ UNCHANGED posted
      \/ w = "source" /\ posted' = [posted EXCEPT ![busy[w]] = @ \cup {ids[w][busy[w]]}]
  BY DEF Post, CountRetry
<1>7. IrcTypeOK'
  <2>1. ids[w][busy[w]] \in Nat
    BY <1>1, <1>3 DEF IrcTypeOK
  <2>2. posted \in [Page -> SUBSET Nat]
    BY <1>1 DEF IrcTypeOK
  <2>3. posted[busy[w]] \cup {ids[w][busy[w]]} \in SUBSET Nat
    BY <1>3, <2>1, <2>2
  <2>4. posted' \in [Page -> SUBSET Nat]
    BY <1>3, <1>6, <2>2, <2>3
  <2> QED BY <1>1, <1>2, <1>4, <1>5, <2>4 DEF IrcTypeOK
<1>8. Lines'
  <2>1. Line(pages'[w], held'[w], busy'[w], wpc'[w])
    BY <1>1, <1>2, <1>3, <1>4 DEF Line
  <2> QED BY <1>1, <1>2, <1>4, <2>1, OneLine
<1>9. RequestIds'
  <2>1. CASE UNCHANGED posted
    BY <1>1, <1>2, <2>1 DEF RequestIds
  <2>2. CASE w = "source" /\ posted' = [posted EXCEPT ![busy[w]] = @ \cup {ids[w][busy[w]]}]
    BY <1>1, <1>2, <1>3, <2>2 DEF RequestIds, IrcTypeOK
  <2> QED BY <1>6, <2>1, <2>2
<1> QED BY <1>7, <1>8, <1>9 DEF IrcInv

\* _retry puts the page back, or gives it up.
LEMMA PutBackKeeps ==
  ASSUME IrcInv, NEW w \in Worker, PutBack(w)
  PROVE  IrcInv'
<1>1. IrcTypeOK /\ Lines /\ RequestIds /\ Line(pages[w], held[w], busy[w], wpc[w])
  BY DEF IrcInv, Lines
<1>2. wpc[w] = "requeue" /\ UNCHANGED <<held, tries, ids, posted, accepted>>
  BY DEF PutBack
<1>3. /\ pages[w] \in Seq(Page) /\ NoneTwice(pages[w]) /\ busy[w] \in Page
      /\ busy[w] \notin EntriesOf(pages[w]) /\ Len(pages[w]) \in Nat /\ QueueSize \in Nat
  BY <1>1, <1>2, IrcAssumption DEF IrcTypeOK, Line
<1>4. RequestIds'
  BY <1>1, <1>2 DEF RequestIds
<1>5. CASE wpc' = [wpc EXCEPT ![w] = "release"] /\ UNCHANGED <<pages, busy>>
  <2>1. wpc'[w] = "release" /\ \A v \in Worker \ {w} : wpc'[v] = wpc[v]
    BY <1>1, <1>5 DEF IrcTypeOK
  <2>2. IrcTypeOK'
    BY <1>1, <1>2, <1>5 DEF IrcTypeOK, IrcPc
  <2>3. Line(pages'[w], held'[w], busy'[w], wpc'[w])
    BY <1>1, <1>2, <1>5, <2>1 DEF Line
  <2> QED BY <1>1, <1>2, <1>4, <1>5, <2>1, <2>2, <2>3, OneLine DEF IrcInv
<1>6. CASE /\ ~(Len(pages[w]) >= QueueSize)
           /\ pages' = [pages EXCEPT ![w] = Append(@, busy[w])]
           /\ busy' = [busy EXCEPT ![w] = NoPage] /\ wpc' = [wpc EXCEPT ![w] = "idle"]
  <2>1. /\ Append(pages[w], busy[w]) \in Seq(Page)
        /\ Len(Append(pages[w], busy[w])) = Len(pages[w]) + 1
        /\ NoneTwice(Append(pages[w], busy[w]))
        /\ EntriesOf(Append(pages[w], busy[w])) = EntriesOf(pages[w]) \cup {busy[w]}
    BY <1>3, EntryAppended
  <2>2. /\ pages'[w] = Append(pages[w], busy[w]) /\ busy'[w] = NoPage /\ wpc'[w] = "idle"
        /\ \A v \in Worker \ {w} : pages'[v] = pages[v] /\ busy'[v] = busy[v] /\ wpc'[v] = wpc[v]
    BY <1>1, <1>6 DEF IrcTypeOK
  <2>3. IrcTypeOK'
    BY <1>1, <1>2, <1>6, <2>1 DEF IrcTypeOK, IrcPc
  <2>4. NoPage \notin EntriesOf(pages[w]) /\ busy[w] # NoPage
    BY <1>3, IrcAssumption DEF EntriesOf
  <2>5. Len(pages'[w]) <= QueueSize
    BY <1>3, <1>6, <2>1, <2>2
  <2>6. Line(pages'[w], held'[w], busy'[w], wpc'[w])
    BY <1>1, <1>2, <2>1, <2>2, <2>4, <2>5 DEF Line
  <2> QED BY <1>1, <1>2, <1>4, <2>2, <2>3, <2>6, OneLine DEF IrcInv
<1> QED BY <1>5, <1>6 DEF PutBack

\* run forgets the page, its retries and its request id.
LEMMA ReleaseKeeps ==
  ASSUME IrcInv, NEW w \in Worker, Release(w)
  PROVE  IrcInv'
<1>1. IrcTypeOK /\ Lines /\ RequestIds /\ Line(pages[w], held[w], busy[w], wpc[w])
  BY DEF IrcInv, Lines
<1> DEFINE p == busy[w]
<1>2. /\ wpc[w] = "release" /\ held' = [held EXCEPT ![w] = @ \ {p}]
      /\ tries' = [tries EXCEPT ![w][p] = 0] /\ ids' = [ids EXCEPT ![w][p] = 0]
      /\ posted' = IF w = "source" THEN [posted EXCEPT ![p] = {}] ELSE posted
      /\ busy' = [busy EXCEPT ![w] = NoPage] /\ wpc' = [wpc EXCEPT ![w] = "idle"]
      /\ UNCHANGED <<pages, accepted>>
  BY DEF Release, Forgotten
<1>3. p \in Page /\ p \notin EntriesOf(pages[w]) /\ pages[w] \in Seq(Page)
  BY <1>1, <1>2 DEF IrcTypeOK, Line
<1>4. NoPage \notin EntriesOf(pages[w])
  BY <1>3, IrcAssumption DEF EntriesOf
<1>5. /\ held'[w] = held[w] \ {p} /\ busy'[w] = NoPage /\ wpc'[w] = "idle"
      /\ \A v \in Worker \ {w} : held'[v] = held[v] /\ busy'[v] = busy[v] /\ wpc'[v] = wpc[v]
  BY <1>1, <1>2 DEF IrcTypeOK
<1>6. IrcTypeOK'
  <2>1. tries' \in [Worker -> [Page -> Nat]] /\ ids' \in [Worker -> [Page -> Nat]]
    BY <1>1, <1>2, <1>3 DEF IrcTypeOK
  <2>2. posted' \in [Page -> SUBSET Nat]
    BY <1>1, <1>2, <1>3 DEF IrcTypeOK
  <2>3. held' \in [Worker -> SUBSET Page]
    BY <1>1, <1>2 DEF IrcTypeOK
  <2> QED BY <1>1, <1>2, <2>1, <2>2, <2>3 DEF IrcTypeOK, IrcPc
<1>7. Line(pages'[w], held'[w], busy'[w], wpc'[w])
  BY <1>1, <1>2, <1>3, <1>4, <1>5 DEF Line
<1>8. Lines'
  BY <1>1, <1>2, <1>5, <1>7, OneLine
<1>9. RequestIds'
  <2>1. CASE w = "check"
    <3>1. ids'["source"] = ids["source"] /\ posted' = posted /\ held'["source"] = held["source"]
      BY <1>1, <1>2, <1>5, <2>1 DEF Worker, IrcTypeOK
    <3> QED BY <1>1, <3>1 DEF RequestIds
  <2>2. CASE w = "source"
    <3>1. /\ ids'["source"][p] = 0 /\ \A q \in Page \ {p} : ids'["source"][q] = ids["source"][q]
          /\ posted'[p] = {} /\ \A q \in Page \ {p} : posted'[q] = posted[q]
          /\ held'["source"] = held["source"] \ {p}
      BY <1>1, <1>2, <1>3, <1>5, <2>2 DEF IrcTypeOK, Worker
    <3> QED BY <1>1, <3>1 DEF RequestIds
  <2> QED BY <2>1, <2>2 DEF Worker
<1> QED BY <1>6, <1>8, <1>9 DEF IrcInv

\* wiktionary_irc keeps its queues in order, whatever is edited, refused or retried.
THEOREM IrcInvariance == IrcSpec => []IrcInv
<1>1. IrcInit => IrcInv
  BY IrcInitially
<1>2. IrcInv /\ [IrcNext]_ircVars => IrcInv'
  <2> SUFFICES ASSUME IrcInv, [IrcNext]_ircVars PROVE IrcInv'
    OBVIOUS
  <2>1. ASSUME NEW w \in Worker, NEW p \in Page, Enqueue(w, p) PROVE IrcInv'
    BY <2>1, EnqueueKeeps
  <2>2. ASSUME NEW w \in Worker, Work(w) PROVE IrcInv'
    BY <2>2, TakeKeeps, SubmitKeeps, PutBackKeeps, ReleaseKeeps DEF Work
  <2>3. CASE Refresh \/ Configure \/ Stop \/ UNCHANGED ircVars
    <3>1. UNCHANGED <<pages, held, tries, ids, busy, wpc, posted, accepted>>
      BY <2>3 DEF Refresh, Configure, Stop, ircVars
    <3>2. IrcTypeOK' /\ RequestIds'
      BY <3>1 DEF IrcInv, IrcTypeOK, RequestIds
    <3>3. Lines'
      BY <3>1 DEF IrcInv, Lines, Line, EntriesOf, NoneTwice
    <3> QED BY <3>2, <3>3 DEF IrcInv
  <2> QED BY <2>1, <2>2, <2>3 DEF IrcNext
<1> QED BY <1>1, <1>2, PTL DEF IrcSpec

\* A queue without repetitions has as many pages as entries.
LEMMA EntriesCounted ==
  ASSUME NEW s \in Seq(Page), NoneTwice(s)
  PROVE  Cardinality(EntriesOf(s)) = Len(s)
<1>1. Len(s) \in Nat /\ DOMAIN s = 1..Len(s) /\ s \in [1..Len(s) -> EntriesOf(s)]
  BY DEF EntriesOf
<1>2. \A i, k \in 1..Len(s) : s[i] = s[k] => i = k
  BY <1>1 DEF NoneTwice
<1>3. \A p \in EntriesOf(s) : \E i \in 1..Len(s) : s[i] = p
  BY <1>1 DEF EntriesOf
<1>4. s \in Bijection(1..Len(s), EntriesOf(s))
  BY <1>1, <1>2, <1>3, Fun_IsBij
<1>5. ExistsBijection(1..Len(s), EntriesOf(s))
  BY <1>4, Fun_ExistsBij
<1> QED BY <1>1, <1>5, FS_CountingElements

\* Exactly the pages that wait or are being posted are held, each once, and everything
\* posted for a held source page carries its one request id.
THEOREM HeldPagesAlwaysWait == IrcSpec => []HeldPagesAreWaiting
<1>1. IrcInv => HeldPagesAreWaiting
  <2> SUFFICES ASSUME IrcInv, NEW w \in Worker
               PROVE  /\ held[w] = EntriesOf(pages[w]) \cup ({busy[w]} \ {NoPage})
                      /\ Cardinality(EntriesOf(pages[w])) = Len(pages[w])
                      /\ busy[w] \notin EntriesOf(pages[w])
                      /\ \A p \in Page :
                           /\ ids["source"][p] # 0 <=> p \in held["source"]
                           /\ posted[p] \subseteq {ids["source"][p]}
    BY DEF HeldPagesAreWaiting, EntriesOf
  <2>1. Line(pages[w], held[w], busy[w], wpc[w]) /\ pages[w] \in Seq(Page)
    BY DEF IrcInv, Lines, IrcTypeOK
  <2>2. Cardinality(EntriesOf(pages[w])) = Len(pages[w])
    BY <2>1, EntriesCounted DEF Line
  <2>3. \A p \in Page : /\ ids["source"][p] # 0 <=> p \in held["source"]
                        /\ posted[p] \subseteq {ids["source"][p]}
    BY DEF IrcInv, RequestIds
  <2> QED BY <2>1, <2>2, <2>3 DEF Line
<1> QED BY <1>1, IrcInvariance, PTL
==============================================================================
