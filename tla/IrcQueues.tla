----------------------------- MODULE IrcQueues -----------------------------
(***************************************************************************)
(* The two workers of wiktionary_irc: the IRC callback puts pages into       *)
(* bounded queues without duplicates, and one thread per queue posts them to *)
(* the translator service, with bounded retries. PageCheckQueueWorker is the *)
(* worker "check", SourceTranslationQueueWorker the worker "source".         *)
(***************************************************************************)
EXTENDS Naturals, Sequences, FiniteSets

CONSTANTS
  Page,          \* titles, or pairs of language and title
  QueueSize,     \* PAGE_CHECK_QUEUE_SIZE, SOURCE_TRANSLATION_QUEUE_SIZE
  MaxRetries,    \* PAGE_CHECK_MAX_RETRIES, SOURCE_TRANSLATION_MAX_RETRIES
  MaxEdits,      \* bound of the edits that are queued
  NoPage

ASSUME IrcAssumption == NoPage \notin Page /\ QueueSize \in Nat \ {0} /\ MaxRetries \in Nat

Worker == {"check", "source"}

VARIABLES
  store,      \* the checker's settings in Redis: edits are sampled, or not
  snapshot,   \* PageCheckerSettingsCache
  pages,      \* the queue of each worker
  held,       \* _queued_titles, _queued_pages
  tries,      \* _retry_counts
  ids,        \* _request_ids, 0 for none
  busy,       \* the page a worker took from its queue
  wpc,        \* what it does with it
  stopping,   \* _stop_event
  posted,     \* history: the request ids posted for a source page since it is held
  accepted    \* history: edits that were put into a queue

ircVars == <<store, snapshot, pages, held, tries, ids, busy, wpc, stopping, posted, accepted>>

ForPages(v) == [w \in Worker |-> [p \in Page |-> v]]

IrcInit ==
  /\ store \in BOOLEAN /\ snapshot \in BOOLEAN /\ stopping = FALSE /\ accepted = 0
  /\ pages = [w \in Worker |-> <<>>] /\ held = [w \in Worker |-> {}]
  /\ tries = ForPages(0) /\ ids = ForPages(0) /\ posted = [p \in Page |-> {}]
  /\ busy = [w \in Worker |-> NoPage] /\ wpc = [w \in Worker |-> "idle"]

\* _consider_page_check: an edit is checked only when the snapshot selects it.
Selected(w) == w = "check" => snapshot

\* enqueue takes the page: one that is held is a duplicate, and one for which there is
\* no room is dropped.
Taken(w, p) == p \notin held[w] /\ Len(pages[w]) < QueueSize

\* on_pubmsg with an edit that is put into a queue, also while the listener stops.
Enqueue(w, p) ==
  /\ accepted < MaxEdits
  /\ Selected(w) /\ Taken(w, p)
  /\ pages' = [pages EXCEPT ![w] = Append(@, p)]
  /\ held' = [held EXCEPT ![w] = @ \cup {p}]
  /\ accepted' = accepted + 1
  /\ ids' = IF w = "source" THEN [ids EXCEPT ![w][p] = accepted + 1] ELSE ids
  /\ UNCHANGED <<store, snapshot, tries, busy, wpc, stopping, posted>>

\* PageCheckerSettingsCache.refresh; a load that fails keeps the snapshot.
Refresh ==
  /\ ~stopping /\ snapshot' = store
  /\ UNCHANGED <<store, pages, held, tries, ids, busy, wpc, stopping, posted, accepted>>

Configure ==
  /\ store' \in BOOLEAN
  /\ UNCHANGED <<snapshot, pages, held, tries, ids, busy, wpc, stopping, posted, accepted>>

\* run: the next page is taken.
Take(w) ==
  /\ ~stopping /\ wpc[w] = "idle" /\ pages[w] # <<>>
  /\ busy' = [busy EXCEPT ![w] = Head(pages[w])]
  /\ pages' = [pages EXCEPT ![w] = Tail(@)]
  /\ wpc' = [wpc EXCEPT ![w] = "submit"]
  /\ UNCHANGED <<store, snapshot, held, tries, ids, stopping, posted, accepted>>

\* Faulty: an unexpected error leaves the page held.
AfterRejectionHeld == "idle"
\* run: what follows an answer that is not worth a retry.
AfterRejection == "release"

\* handle_translation_response and handle_page_check_response: the job was accepted, the
\* request is refused, or it is worth a retry (429, 5xx).
Answers == {"release", AfterRejection, "retry"}

\* _submit of a check gives up on a stop while it waits for its cooldown.
GivesUp(w) == w = "check" /\ stopping

\* _submit: the page is posted, or there is no connection or no settings.
Post(w) ==
  LET p == busy[w] IN
  /\ wpc[w] = "submit"
  /\ \/ /\ posted' = IF w = "source" THEN [posted EXCEPT ![p] = @ \cup {ids[w][p]}] ELSE posted
        /\ \E answer \in Answers : wpc' = [wpc EXCEPT ![w] = answer]
     \/ wpc' = [wpc EXCEPT ![w] = "retry"] /\ UNCHANGED posted
     \/ GivesUp(w) /\ wpc' = [wpc EXCEPT ![w] = "release"] /\ UNCHANGED posted
  /\ UNCHANGED <<store, snapshot, pages, held, tries, ids, busy, stopping, accepted>>

\* _retry: the attempt is counted, or the page is given up.
CountRetry(w) ==
  LET p == busy[w] IN
  /\ wpc[w] = "retry"
  /\ IF tries[w][p] + 1 > MaxRetries
     THEN wpc' = [wpc EXCEPT ![w] = "release"] /\ UNCHANGED tries
     ELSE /\ tries' = [tries EXCEPT ![w][p] = @ + 1]
          /\ wpc' = [wpc EXCEPT ![w] = "requeue"]
  /\ UNCHANGED <<store, snapshot, pages, held, ids, busy, stopping, posted, accepted>>

\* _retry after the delay: a stop or a full queue ends it.
PutBack(w) ==
  /\ wpc[w] = "requeue"
  /\ IF stopping \/ Len(pages[w]) >= QueueSize
     THEN wpc' = [wpc EXCEPT ![w] = "release"] /\ UNCHANGED <<pages, busy>>
     ELSE /\ pages' = [pages EXCEPT ![w] = Append(@, busy[w])]
          /\ busy' = [busy EXCEPT ![w] = NoPage]
          /\ wpc' = [wpc EXCEPT ![w] = "idle"]
  /\ UNCHANGED <<store, snapshot, held, tries, ids, stopping, posted, accepted>>

\* Faulty: the request id survives the page.
ForgottenExceptId(w, p) == ids[w][p]
\* What run leaves of a request id.
Forgotten(w, p) == 0

\* run, finally: page, retries and request id are forgotten together.
Release(w) ==
  LET p == busy[w] IN
  /\ wpc[w] = "release"
  /\ held' = [held EXCEPT ![w] = @ \ {p}]
  /\ tries' = [tries EXCEPT ![w][p] = 0]
  /\ ids' = [ids EXCEPT ![w][p] = Forgotten(w, p)]
  /\ posted' = IF w = "source" THEN [posted EXCEPT ![p] = {}] ELSE posted
  /\ busy' = [busy EXCEPT ![w] = NoPage]
  /\ wpc' = [wpc EXCEPT ![w] = "idle"]
  /\ UNCHANGED <<store, snapshot, pages, stopping, accepted>>

\* die, or the end of irc_retrieve.
Stop ==
  /\ ~stopping /\ stopping' = TRUE
  /\ UNCHANGED <<store, snapshot, pages, held, tries, ids, busy, wpc, posted, accepted>>

Work(w) == Take(w) \/ Post(w) \/ CountRetry(w) \/ PutBack(w) \/ Release(w)

IrcNext ==
  \/ \E w \in Worker : Work(w) \/ \E p \in Page : Enqueue(w, p)
  \/ Refresh \/ Configure \/ Stop

IrcSpec == IrcInit /\ [][IrcNext]_ircVars

-----------------------------------------------------------------------------
\* enqueue, run and _retry: exactly the pages that wait or are being posted are held,
\* each of them once; so no page is blocked or posted by two entries. Everything posted
\* for a held source page carries the one request id that the service recognises.
HeldPagesAreWaiting ==
  \A w \in Worker :
    LET waiting == {pages[w][i] : i \in DOMAIN pages[w]} IN
    /\ held[w] = waiting \cup ({busy[w]} \ {NoPage})
    /\ Cardinality(waiting) = Len(pages[w]) /\ busy[w] \notin waiting
    /\ \A p \in Page :
         /\ ids["source"][p] # 0 <=> p \in held["source"]
         /\ posted[p] \subseteq {ids["source"][p]}

\* run: no page stays held, so that its next edit is queued again, unless the listener
\* stops.
EveryPageIsReleased ==
  \A w \in Worker : \A p \in Page : []<>(p \notin held[w] \/ stopping)
=============================================================================
