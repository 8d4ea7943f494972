---------------------------- MODULE CacheMirror ----------------------------
(***************************************************************************)
(* english_wiktionary_cache_irc: the IRC callback queues the changes of       *)
(* English Wiktionary, and one worker applies them in order to the page cache *)
(* in Redis, which other processes read through and fill as well              *)
(* (RedisPage.get). A text is named by the page and the change it was         *)
(* written by.                                                               *)
(***************************************************************************)
EXTENDS Naturals, Sequences

CONSTANTS
  Title,
  MirrorQueue,      \* CACHE_QUEUE_SIZE
  MirrorRetries,    \* CACHE_UPDATE_MAX_RETRIES
  MaxChanges,       \* bound of the changes of the wiki
  MaxReads,         \* bound of the reads by other processes
  MaxMirrorFaults,  \* bound of the failing calls, lost messages and restarts
  Gone,             \* no page, nothing cached
  Redirected,       \* the page is a redirect
  NoEvent

\* CacheEvent: an edit and a deletion are about one title, a move about two.
MirrorEvent ==
  {e \in [kind : {"edit", "delete", "move"}, title : Title, to : Title] :
     e.kind # "move" => e.title = e.to}

ASSUME MirrorAssumption ==
  /\ MirrorQueue \in Nat \ {0} /\ MirrorRetries \in Nat
  /\ MaxChanges \in Nat /\ MaxReads \in Nat /\ MaxMirrorFaults \in Nat
  /\ NoEvent \notin MirrorEvent

VARIABLES
  wiki,       \* the pages
  cache,      \* the cached texts
  events,     \* the queue of the worker
  working,    \* the event it applies
  mpc,        \* what it does next
  fetched,    \* the text it read
  attempt,    \* failures of this event
  reader,     \* another process between its live read and its write to the cache
  changes, reads, mirrorFaults,
  unseen,     \* history: titles that changed without an event, whose events were lost, or
              \*   that were filled late, since the mirror read them
  renamed     \* history: titles whose cached text came with a rename

mirrorVars == <<wiki, cache, events, working, mpc, fetched, attempt, reader,
                changes, reads, mirrorFaults, unseen, renamed>>
workerVars == <<working, mpc, fetched, attempt>>

MirrorInit ==
  /\ wiki \in [Title -> {Gone, Redirected} \cup {<<t, 0>> : t \in Title}]
  /\ \A t \in Title : wiki[t] \in {Gone, Redirected, <<t, 0>>}
  /\ cache \in [Title -> {Gone} \cup {wiki[t] : t \in Title}]
  /\ \A t \in Title : cache[t] \in {Gone, wiki[t]} \ {Redirected}
  /\ events = <<>> /\ working = NoEvent /\ mpc = "idle" /\ fetched = Gone /\ attempt = 0
  /\ reader = NoEvent /\ changes = 0 /\ reads = 0 /\ mirrorFaults = 0
  /\ unseen = {} /\ renamed = {}

IsText(x) == x \notin {Gone, Redirected}
Event(kind, t, to) == [kind |-> kind, title |-> t, to |-> to]
Titles(e) == {e.title, e.to}
\* The title that is refreshed or evicted.
Target == working.to

MirrorFault == mirrorFaults < MaxMirrorFaults /\ mirrorFaults' = mirrorFaults + 1

-----------------------------------------------------------------------------
\* The wiki and the IRC callback

\* on_pubmsg and enqueue: an event is dropped when the queue is full; the network, or a
\* listener that is being restarted, may lose the message.
Announce(e) ==
  \/ /\ Len(events) < MirrorQueue
     /\ events' = Append(events, e)
     /\ UNCHANGED <<unseen, mirrorFaults>>
  \/ /\ Len(events) = MirrorQueue
     /\ unseen' = unseen \cup Titles(e)
     /\ UNCHANGED <<events, mirrorFaults>>
  \/ /\ MirrorFault
     /\ unseen' = unseen \cup Titles(e)
     /\ UNCHANGED events

Changed == changes < MaxChanges /\ changes' = changes + 1

Edit(t) ==
  /\ Changed
  /\ \E x \in {<<t, changes + 1>>, Redirected} : wiki' = [wiki EXCEPT ![t] = x]
  /\ Announce(Event("edit", t, t))
  /\ UNCHANGED <<cache, workerVars, reader, reads, renamed>>

Delete(t) ==
  /\ Changed /\ wiki[t] # Gone
  /\ wiki' = [wiki EXCEPT ![t] = Gone]
  /\ Announce(Event("delete", t, t))
  /\ UNCHANGED <<cache, workerVars, reader, reads, renamed>>

\* A move to a title without a page.
Move(t, to) ==
  /\ Changed /\ wiki[t] # Gone /\ wiki[to] = Gone
  /\ \E left \in {Gone, Redirected} :
       wiki' = [wiki EXCEPT ![to] = wiki[t], ![t] = left]
  /\ Announce(Event("move", t, to))
  /\ UNCHANGED <<cache, workerVars, reader, reads, renamed>>

\* parse_cache_event has no event for a log entry whose action is not the name of its log,
\* nor for other logs. The titles may change all the same; of one that had no page no
\* copy can be out of date.
Ignored(titles) ==
  /\ unseen' = unseen \cup {t \in titles : wiki[t] # Gone}
  /\ UNCHANGED <<cache, events, workerVars, reader, reads, mirrorFaults, renamed>>

\* The deletion log (restore, delete_redir), or another log that changes pages (import).
OtherEntry(t) ==
  /\ Changed
  /\ \E x \in {<<t, changes + 1>>, Redirected, Gone} : wiki' = [wiki EXCEPT ![t] = x]
  /\ Ignored({t})

\* The move log (move_redir): a page is moved over a redirect.
MoveOver(t, to) ==
  /\ Changed /\ t # to /\ wiki[t] # Gone /\ wiki[to] = Redirected
  /\ \E left \in {Gone, Redirected} :
       wiki' = [wiki EXCEPT ![to] = wiki[t], ![t] = left]
  /\ Ignored({t, to})

\* RedisPage.get in another process: the live read, then the cache.
OtherReads(t) ==
  /\ reads < MaxReads /\ reads' = reads + 1
  /\ reader = NoEvent /\ IsText(wiki[t])
  /\ reader' = [title |-> t, text |-> wiki[t]]
  /\ UNCHANGED <<wiki, cache, events, workerVars, changes, mirrorFaults, unseen, renamed>>
OtherFills ==
  /\ reader # NoEvent /\ reader' = NoEvent
  /\ cache' = [cache EXCEPT ![reader.title] = reader.text]
  /\ unseen' = IF reader.text = wiki[reader.title] THEN unseen ELSE unseen \cup {reader.title}
  /\ UNCHANGED <<wiki, events, workerVars, changes, reads, mirrorFaults, renamed>>

-----------------------------------------------------------------------------
\* The worker

StepOf(kind) ==
  CASE kind = "edit" -> "fetch"
    [] kind = "delete" -> "evict"
    [] kind = "move" -> "exists"

\* run: the next event.
TakeEvent ==
  /\ mpc = "idle" /\ events # <<>>
  /\ working' = Head(events) /\ events' = Tail(events)
  /\ mpc' = StepOf(Head(events).kind) /\ attempt' = 0
  /\ UNCHANGED <<wiki, cache, fetched, reader, changes, reads, mirrorFaults, unseen, renamed>>

Done == mpc' = "idle" /\ working' = NoEvent /\ fetched' = Gone /\ UNCHANGED attempt
Onward(pc) == mpc' = pc /\ UNCHANGED <<working, attempt>>

\* _apply_with_retries: the whole event is applied again, or dropped.
Failed ==
  \/ /\ attempt < MirrorRetries
     /\ attempt' = attempt + 1 /\ mpc' = StepOf(working.kind) /\ fetched' = Gone
     /\ UNCHANGED <<working, unseen>>
  \/ /\ attempt = MirrorRetries
     /\ Done /\ unseen' = unseen \cup Titles(working)

\* refresh: the live read of RedisPage.get(force_refresh=True). A redirect raises.
Fetch ==
  /\ mpc = "fetch"
  /\ \/ /\ wiki[Target] # Redirected
        /\ fetched' = wiki[Target]
        /\ Onward(IF wiki[Target] = Gone THEN "evict" ELSE "fill")
        /\ unseen' = unseen \ {Target} /\ renamed' = renamed \ {Target}
        /\ UNCHANGED mirrorFaults
     \/ wiki[Target] = Redirected /\ Failed /\ UNCHANGED <<renamed, mirrorFaults>>
     \/ MirrorFault /\ Failed /\ UNCHANGED renamed
  /\ UNCHANGED <<wiki, cache, events, reader, changes, reads>>

\* push_page ignores an error of Redis.
Fill ==
  /\ mpc = "fill"
  /\ \/ cache' = [cache EXCEPT ![Target] = fetched] /\ UNCHANGED mirrorFaults
     \/ MirrorFault /\ UNCHANGED cache
  /\ Onward("store") /\ UNCHANGED fetched
  /\ UNCHANGED <<wiki, events, reader, changes, reads, unseen, renamed>>

\* Faulty: the write of RedisPage.get is relied on.
WrittenBefore(t, text) == cache
\* refresh: the strict write.
Written(t, text) == [cache EXCEPT ![t] = text]

\* A write of the worker, which an error may hide.
Write(pc, after, moved, missed) ==
  /\ mpc = pc
  /\ \/ /\ cache' = after /\ Done
        /\ renamed' = moved /\ unseen' = missed /\ UNCHANGED mirrorFaults
     \/ /\ MirrorFault /\ Failed
        /\ \/ cache' = after /\ renamed' = moved
           \/ UNCHANGED <<cache, renamed>>
  /\ UNCHANGED <<wiki, events, reader, changes, reads>>

Store == Write("store", Written(Target, fetched), renamed, unseen)
Evict == Write("evict", [cache EXCEPT ![Target] = Gone], renamed \ {Target}, unseen \ {Target})

\* move: a cached source is renamed, otherwise the destination is fetched.
Exists ==
  /\ mpc = "exists"
  /\ \/ /\ Onward(IF cache[working.title] = Gone THEN "fetch" ELSE "rename")
        /\ UNCHANGED <<fetched, mirrorFaults, unseen>>
     \/ MirrorFault /\ Failed
  /\ UNCHANGED <<wiki, cache, events, reader, changes, reads, renamed>>

RenamedCache ==
  [cache EXCEPT ![working.to] = cache[working.title], ![working.title] = Gone]
Rename ==
  LET t == working.title IN
  Write("rename", RenamedCache, (renamed \ {t}) \cup {working.to},
        (unseen \ {t}) \cup (IF t \in unseen THEN {working.to} ELSE {}))

\* die and a new start: what was queued is forgotten.
MirrorRestart ==
  /\ MirrorFault
  /\ unseen' = unseen \cup (UNION {Titles(events[i]) : i \in DOMAIN events})
                      \cup (IF working = NoEvent THEN {} ELSE Titles(working))
  /\ events' = <<>> /\ working' = NoEvent /\ mpc' = "idle" /\ fetched' = Gone /\ attempt' = 0
  /\ UNCHANGED <<wiki, cache, reader, changes, reads, renamed>>

MirrorNext ==
  \/ \E t \in Title : Edit(t) \/ Delete(t) \/ OtherEntry(t) \/ OtherReads(t)
  \/ \E t, to \in Title : Move(t, to) \/ MoveOver(t, to)
  \/ OtherFills \/ TakeEvent
  \/ Fetch \/ Fill \/ Store \/ Evict \/ Exists \/ Rename
  \/ MirrorRestart

MirrorSpec == MirrorInit /\ [][MirrorNext]_mirrorVars

-----------------------------------------------------------------------------
\* No event about t waits or is being applied.
WorkedOff(t) ==
  /\ \A i \in DOMAIN events : t \notin Titles(events[i])
  /\ working = NoEvent \/ t \notin Titles(working)

Aligned(t) == cache[t] \in {Gone, wiki[t]}

\* CacheUpdateWorker brings a title back in line with every event it works off: unless the
\* page changed later with a log entry that parse_cache_event ignores, a later message was
\* lost, a later event dropped or a late reader wrote over it, or the text came with a
\* rename, what is cached is the page's text, whatever order changes, Redis errors,
\* retries and other readers came in. A rename carries what the source key
\* holds by then, which may be the text of a page that took the moved page's place.
MirrorHeals == \A t \in Title \ (unseen \cup renamed) : WorkedOff(t) => Aligned(t)
=============================================================================
