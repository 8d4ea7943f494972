# Verification of botjagwar's job system and the services around it

Botjagwar maintains Malagasy Wiktionary. Several *entry translator* processes
(`entry_translator_v2.py`, load-balanced, supervised by Supervisor) translate
pages of other Wiktionaries and check existing Malagasy pages. They share one
Redis server and hand page edits to RabbitMQ, from which a consumer writes them
to the wiki. What can go wrong is rarely inside one function: it is in the order
of Redis calls of several processes, in crashes and timeouts between them, and
in broker errors that hide an accepted message. That is what these modules model.

## Inventory

| Component | State | Operations | Interacts with | Hard behaviour | Correct when |
|---|---|---|---|---|---|
| Translation jobs (`entry_translator_service.py`) | active records and heartbeats in Redis (the *lease*), durable job records, process-local slots, counters, job ids, publish lock | enqueue, run, heartbeat, poll, recover, cancel, shut down | Redis, publisher, executor, pollers | duplicate requests, lease expiry, crashes, Redis errors on any call | a request id is published once, its record is truthful and final, slots are returned, jobs end |
| Translation publisher (`publishers.py`, `core.py`) | none | assemble, filter, guard, push, save | RabbitMQ, page cache, settings | ambiguous broker errors, filtered candidates | nothing is pushed without the lease; a rejected candidate is discarded |
| Page-check jobs (`entry_translator_service.py`) | one Redis hash of job records; tokens, attempts, review lifecycle | enqueue batch, run, guard, finish, hand off, recover | Redis, page checker, review queue | superseded workers, ambiguous writes, expiring claims, history limit | verdicts are truthful, failures are reviewed, events are neither lost nor replaced, jobs end |
| Page checker (`page_check_service.py`) | none | check a page, publish a fix | page cache, language model, publisher | page changes while it is checked | see page-check jobs |
| Review queue (`page_check_review_queue.py`) | RabbitMQ queue | publish an event, transfer the next one | page-check jobs, review inbox | acknowledgement after a durable store | at-least-once delivery of every event |
| Review inbox (`wiktionary_review_service.py`, CLI, MCP) | tasks and proposals in SQLite | accept an event, prepare, claim, push, release, mark queued or unknown, migrate | review queue, live pages, RabbitMQ | claims that expire while their holder lives, ambiguous publication, two tables | no event is lost, an event sends at most one edit, its verdict is true |
| Edit consumer (`rabbitmq_pywikibot.py`, `api/rabbitmq.py`) | RabbitMQ delivery state | validate, compare hash, write, ack, nack | wiki, rate limiter | redelivery, rate-limit requeue, edits in between | a guarded edit never overwrites a page that changed |
| Gateway (`webconsumer.py`, `rabbitmq_gateway_auth.py`, `api/rabbitmq.py`) | used nonces in SQLite | verify, claim nonce, purge, push | RabbitMQ, `RabbitMqWebService` | the same request delivered twice, clocks that differ, the last moment of the window | a request is forwarded once |
| Rate limiter (`wikimedia_rate_limiter.py`) | next start and embargo in Redis | reserve, sleep, extend | every live wiki call | embargo while others sleep | starts are spaced; an embargo is never shortened |
| Page cache (`redis_wikicache.py`) | page text in Redis | get, refresh, put, delete | wiki, rate limiter | refresh racing a write | a cached text is one the page had |
| Cache mirror (`english_wiktionary_cache_irc.py`) | bounded queue of changes, retries | enqueue, refresh, evict, rename | IRC, wiki, page cache | events applied late to a page that changed again | a title whose events are worked off is in line with the wiki |
| IRC listener (`wiktionary_irc.py`) | bounded queues without duplicates, retry counts, request ids | enqueue, submit, retry, stop | translator REST API | full queue, retries, a page that is edited while it is submitted | one page is in a queue once and leaves it again |
| Queue-fed translator client (`rabbitmq_entry_translator.py`) | RabbitMQ delivery state | wait, post, mark a page for deletion, ack, nack | translator REST API, wiki | redelivery while the first callback goes on | a deletion is not lost and marks a page once |
| Page-check agents (`scripts/page_check_agents.py`) | GitHub issues, labels and assignments | triage, dispatch | page-check API, GitHub | requests that fail after they were applied, overlapping runs | one issue per job, one assignment per issue |
| Supervisor control (`supervisor_control_service.py`) | journal of operations, Gemma endpoint in a file and in memory | begin, act, complete, configure, restart | Supervisor, Atlas | handler and browser completing one row; a restart between file and memory | the journal says what happened |
| Settings, statistics, release scripts | single keys | read, update | Atlas frontend | - | - |
| Parsers, renderers, importers, translation functions, dictionary service, frontend | data | pure text processing, CRUD | - | - | unit tests reach these |

`PROJECT.json` lists the components with their status and every hazard with its
line and the properties that cover it.

## Modules

* `TranslationJobs` - asynchronous translation jobs, end to end; `Ledger` is the abstract
  specification its job store implements.
* `PageCheckJobs` - asynchronous page checks and their review handoff; `Handover` is the
  abstract specification its job store implements.
* `EditQueue` - edits of one page from their producers through RabbitMQ and the
  consumer to the wiki, with the page cache; `Deliveries` is the abstract specification
  of a queue and its consumers, which it and `EditFeeder` implement.
* `ReviewInbox` - manual review, from the review queue through the SQLite inbox and
  its approvals to the edit queue; `Outbox` is the abstract specification it implements.
* `RateLimiter`, `IrcQueues`, `CacheMirror`, `HttpGateway`, `EditFeeder`,
  `IssueAgents`, `ServiceControl` - the services around them, one module each.
* `TranslationJobsProofs`, `PageCheckJobsProofs`, `EditQueueProofs`,
  `ReviewInboxProofs`, `EditFeederProofs` - the theorems about the module of that name;
  `EdgeProofs` about `RateLimiter` and `HttpGateway`, `IrcProofs` about `IrcQueues` and
  `CacheMirror`, `OperationsProofs` about `ServiceControl` and `IssueAgents`.
* `MCTranslationJobs`, `MCPageCheckJobs`, `MCEditQueue`, `MCReviewInbox` - the same
  with symmetry sets for TLC. `MCServices` puts the seven services into one state
  space in which `subject` names the one that moves: they share no state, so one run
  can check all seven, each against its own faults.

The modules meet where the code does. The review events `PageCheckJobs` delivers are
the messages `ReviewInbox` takes, which is why the one may deliver an event twice and
the other must accept that; `Push` of either job module, of `ReviewInbox` and of
`HttpGateway` is a message of `EditQueue`, which therefore starts from any of them;
the calls `EditQueue` makes to the wiki are `RateLimiter`'s calls, there only a call
that may be refused.

Operators commented *Faulty* are plausible bugs, defined beside the operator
they would replace; they are used by no specification. They document what each
property is able to notice.

### TranslationJobs

An **attempt** is one call of `enqueue_translation_job` with its task, and stands
for its owner token. `lease`/`hbAge` are the active record of a request id and
the age of its heartbeat, `job`/`updAge` the durable record and the age of its
`last_updated_at`. `pc`, `stage` and `pub` are an attempt's position, the
lifecycle stage it is storing and its in-memory `publication_state`. `accepting`,
`admitted`, `running`, `local`, `publishLock` are the process-local fields
`_accepting_async_jobs`, `_process_admitted_jobs`, `_process_running_jobs`,
`_local_job_ids`, `_publish_lock`.

| Actions | Code |
|---|---|
| `Poll`, `Get`, `Owns`, `Fence` | `get_translation_job`, `_get_existing_translation_request`, `_recover_unleased_translation_job` |
| `Enqueue`, `Reserve`, `Claim`, `Create`, `Spawn`, `SpawnFailed`, `Submit` | `enqueue_translation_job` up to the executor, with `_reserve_job_slot`, `claim_job`, `create` |
| `StartTask`, `Touch`, `Put`, `Fetch`, `Process`, `Lock`, `Assemble`, `Filter`, `Guard`, `Push`, `Save`, `Finish`, `Cleanup` | `task`, `_update_translation_job`, `publish_locked`, `filter_publication`, `assert_publication_lease`, `push`, `process_wiktionary_wiki_page`, `finish_job`, `cleanup` |
| `BeatSend`, `BeatArrive` | `_heartbeat_translation_job`; the time stamp is taken at the first, written at the second |
| `RecoverScan`, `RecoverEvict`, `RecoverRead`, `RecoverMark` | `_recover_stale_jobs`, `recover_stale_jobs` |
| `Shutdown`, `Crash`, `Tick` | `shutdown`, process death with a restart, passing time |

Each Redis call is one step, since Redis runs commands and scripts one at a time.
A call that raises may or may not have been applied (`RedisFault`), and an error
of the producer may hide an accepted message (`Push`). A fault is bounded, a
producer error is not.

`Ledger` says what the store promises a client that repeats its request id. A request is
accepted once, under one token; only that token sends, once, and not after its record
says filtered out; whoever stores the record later keeps its token, tells the truth about
what was sent, and leaves a finished record alone. A sending may follow the end of the
record: a worker that stalled past its lease may push after recovery failed its job. The
mapping is the identity on `job` and `pushed`. `JobsAreLedger` is checked by TLC and
proved.

### PageCheckJobs

An **execution** `<<job, token>>` is one run of `_build_check_task`'s task; the
token counts the recoveries of the job, where the code draws a fresh uuid and
counts `attempts`. `rec` is the stored record: status, token, attempts, outcome
of the single page, review state, review event (named by the token that built
it) and claim. An **actor** hands a review event off: a worker, or the recovery
of a process. `pushed` and `delivered` are what reached RabbitMQ.

| Actions | Code |
|---|---|
| `Enqueue` | `enqueue_page_check` with `_PUT_MANY_BOUNDED_SCRIPT` |
| `Start`, `Progress`, `Verdict`, `Guard`, `Push`, `Confirm`, `Final`, `Fail` | `_build_check_task`, `check_pages`, `check_page`, `_publish_fixes`, `_prepare_page_check_review` |
| `HandoffClaim`, `HandoffPublish`, `HandoffFinish` | `_publish_page_check_review`, `claim_review_handoff`, `publish_message`, `finish_review_handoff` |
| `RecoverScan`, `RecoverHandoff`, `RecoverClaim`, `RecoverPut` | `_recover_stale_check_jobs`, `claim_stale_job` |
| `Shutdown`, `Crash`, `Tick` | `shutdown`, process death with a restart, passing time |

A store operation reads a record and replaces it with a compare-and-set on the
raw value (`_update_existing`), retrying when it lost a race, so it is one step;
giving up after eight lost races is one of the `Fault`s.

Left out, and why: `_trim_check_jobs` never finds anything to remove, because the
enqueue script already keeps the history within its limit (`WithinCapacity`); the
order in which old jobs are removed and the batch of twenty handoffs per recovery
are choices here; a message the code has built always validates; the review queue
being disabled, or a record of an older version without a message, changes no
other behaviour; a launch that follows recovery's write is part of that step,
since a crash between the two looks like a crash of a queued task.

`Handover` says what the store promises the review queue. A job has at most one event,
recorded before it is sent and never replaced; sending may be repeated, also by somebody
who is late; it is concluded only after the broker has it. The mapping takes the stored
event of a job and its review state, and for a job that was removed from the history what
RabbitMQ got (`EventOf`, `SentOf`, `Concluded`): forgetting a job is then a conclusion, or
no step at all if its event was queued or it had none. `ChecksHandOver` is checked by TLC
and proved.

### EditQueue

The text of a page is the **set of contributions** it contains; `NoText` stands
for no page or nothing cached. `Fix`, `Translation`, `Removal` and `Junk` are the
kinds of messages. A fix carries the hash of the text it was built from (`basis`),
a translation does not, and is built from the cache. Equal hashes are equal texts.

| Actions | Code |
|---|---|
| `FixFetch`, `FixRecheck`, `Fill` | `check_page`, `_publish_fixes` and `RedisPage.get(force_refresh=True)` |
| `TranslationRead`, `Publish` | `publish_to_wiktionary` with `RedisPage.exists` and `get` |
| `Deliver`, `Read`, `Refresh` | `callback`, and `save_to_wiki` up to the comparison of hashes |
| `Save`, `SaveCache` | `RedisPage.put` and `delete`: the live call, then the cache |
| `Settle` | `basic_ack` and `basic_nack` |
| `Crash`, `Disconnect`, `Act` | a consumer dies; RabbitMQ gives up on a busy consumer, which goes on; other editors |

The wiki and RabbitMQ are external. As the code relies on them: a Pywikibot page
saves only over the revision it loaded; a message that is put back returns to the
head of the queue, marked as redelivered. A call to the wiki may do nothing, or
be carried out and still fail. Redis errors of the cache are ignored by the code.
The checks and jobs behind the producers are the other two modules; here a
producer may simply stop. Not modelled: publication without a publisher
(`page.put` by the checker itself), redirects and namespaces.

`Deliveries` says what a durable queue and consumers that settle each message themselves
promise together: a message is with one consumer at most, is settled once, and, if it owes
some work, is settled undone only after it was put back before. The mapping reads off where
an edit is (`PlaceOf`, `HoldersOf`): a consumer that lost its connection no longer has its
message, though it may still do the work, and a message that is nowhere would be in a
place `Deliveries` does not know. A guarded fix owes nothing, since it may be stale.
`EditsAreDelivered` is checked by TLC and proved.

### ReviewInbox and Outbox

`task` and `prop` are the tables `review_tasks` and `fix_proposals`, `schema` their
version. A **delivery** is a message of the review queue; a **clerk** is one tool call
of the MCP server (take an event, or prepare a fix); an **operator** is one approval
command, and stands for its claim token. `age` and `held` are the ages of a proposal
and of a claim. A **contract** stands for the two page snapshots and the replacement
text. `pushes` counts the edits RabbitMQ accepted for each proposal.

| Actions | Code |
|---|---|
| `Open` | `SqliteWiktionaryReviewStore.__init__`: new tables, or the migration of version 1 |
| `Take`, `Accept`, `Ack` | `transfer_next`, `accept_task`, `basic_ack` |
| `Prepare`, `Lookup`, `Save` | `prepare_fix`, `save_proposal` |
| `Show`, `Claim` | `confirm_and_queue`, `claim_for_queue` |
| `CheckExpiry`, `Verify`, `Push`, `Release`, `MarkQueued`, `MarkUnknown` | `queue_reviewed_fix` after the claim |
| `ClerkCrash`, `OperatorCrash`, `Tick` | process death, passing time |

Every store method is one SQLite transaction and one step; it may fail (`Fault`). The
live pages belong to the environment: each time they are read they are, or are not,
what was reviewed. A database of version 1 may hold an attempt whose edit was sent.

`Outbox` says what this amounts to. An item is open, busy, queued or unknown; it is
sent at most once; it goes back to open only if nothing was sent, and becomes queued
only if something was; nothing leaves queued or unknown. The mapping (`VerdictOf`,
`SentFor`) reads the verdict off the task and the sends off the proposals of its
event. `InboxIsOutbox` is checked by TLC and proved.

### RateLimiter

`schedule` and `embargo` are the two Redis keys with the time they expire; `calls`
the state of each call of `acquire` and of the request it guards; `declared` the latest
embargo anybody declared. `Acquire`, `Refuse`, `StartRequest` are `acquire` with
`_RESERVE_SCRIPT`; `Return` is `_call_live` with `observe_exception` and
`_EXTEND_EMBARGO_SCRIPT`, over every `Failure` an error can describe (`Timing`). A key
that expired counts as the present, so the time to live is part of the model.

### IrcQueues

The workers `check` (`PageCheckQueueWorker`) and `source`
(`SourceTranslationQueueWorker`), with `pages`, `held`, `tries`, `ids` for their queue,
set of queued pages, retry counts and request ids. `Enqueue`, `Take`, `Post`,
`CountRetry`, `PutBack`, `Release`, `Stop` are `enqueue`, `run`, `_submit`, `_retry` and
the `finally` block; `Refresh` and `Configure` are the snapshot of the settings. An
edit that is a duplicate or finds the queue full changes nothing; one may still be queued
while the listener stops, since `enqueue` does not look at the stop flag.

### CacheMirror

`wiki` and `cache` hold a text, `Gone` or `Redirected` for each title; `events`,
`working`, `mpc`, `attempt` are the queue and the worker of `CacheUpdateWorker`.

| Actions | Code |
|---|---|
| `Edit`, `Delete`, `Move` | a change of the wiki, classified by `parse_cache_event` and queued by `enqueue`, or lost |
| `OtherEntry`, `MoveOver` | a change whose log entry `parse_cache_event` ignores, because its action is not the name of its log (`restore`, `delete_redir`, `move_redir`) or the log is another one |
| `TakeEvent`, `Fetch`, `Fill`, `Store`, `Evict`, `Exists`, `Rename` | `run`, `apply`, `refresh`, `delete`, `move`, `_apply_with_retries` |
| `OtherReads`, `OtherFills` | `RedisPage.get` in another process |
| `MirrorRestart` | `die` and a new start |

That reading a redirect raises is how Pywikibot behaves. `unseen` and `renamed` are
history: the titles for which the mirror cannot vouch, and why.

### HttpGateway

`posts` are the calls of `RabbitMqWebService.publish`, each with its own nonce and the
client's clock; `handlers` the threads and processes of the gateway; `ledger` the table
of used nonces. `Deliver` (verification), `Claim` (purge and insert) and `Forward` (push)
are the steps of `send`; a request may be delivered any number of times.

### EditFeeder

`mail` is RabbitMQ's view of a message, `feeders` the callbacks. `Receive`, `Poll`,
`PostJob`, `Look`, `Read`, `Put`, `Settle` are `on_page_edit`, `on_page_edit_async`,
`mark_page_for_deletion` and `RabbitMqConsumer.callback`. `Lose` takes a message back
from a consumer that died, or that lost its connection and goes on. `ChangesAreDelivered`
is the refinement of `Deliveries`, with `Place` and `HasMessage` for the mapping: only a
deletion owes work, and it is done when the page is marked or missing.

### IssueAgents

`triage` and `dispatch` are the runs of the two agents, of which each runs at most once
at a time; `issues` the repository's issues. Every request may fail, before or after it
was applied, and ends the run (`TriageFails`, `DispatchFails`). A run of the fix agent that
follows the scheduled issue agent requires the autonomy setting
(`--require-autonomous-agent-enabled`, `DispatchStart(TRUE)`) and reads it again before
every assignment; one started by a label or by hand does not. People open an issue of
their own, queue one again or close one (`Person`). A listing is the set of issues as they
are at that moment, which the loop takes in ascending order of their numbers.

### ServiceControl

`journal` is the table of operations, `reqs` the requests being handled, `configFile`
and `active` the Gemma endpoint in the file and in use, `settingsLock` the lock between
them. `BeginOperation`, `Inspect`, `Supervise`, `Finish`, `LockSettings`,
`WriteSettings`, `ActivateSettings`, `CompleteOperation` are the handlers; the browser
begins and completes rows of its own (`BeginElsewhere`, `CompleteElsewhere`).

### Time

Ages are counted in ticks and saturate at the timeout they are compared with, so
one tick stands for "the timeout has passed". Any number of steps fits into a
tick, and a tick may come between any two steps, so every stall is covered; a
timeout of 1 loses only the distinction between partly and not at all elapsed.

## Runs

| Run | Instance | Shows |
|---|---|---|
| `translation_duplicates` | 2 processes, 1 request, 2 attempts, 1 crash | `TypeOK`, `SlotAccounting`, `PublicationFenced` |
| `translation_retries` | 1 process, 1 request, 2 attempts, 1 Redis error, 1 crash, 1 shutdown | `OnePublication`, `PublicationIsTrue`, `JobsAreLedger` |
| `translation_liveness` | 1 process, 1 attempt, 1 poller, 1 error, 1 crash | `EveryJobTerminates`, `EveryLeaseIsReleased` |
| `translation_filtered` | 1 process, 1 attempt | *violated*: `FilteredIsDiscarded` (see Findings) |
| `pagecheck_recovery` | 2 processes, 1 job, 2 tokens, 1 store error, 1 crash | `TypeOK`, `VerdictsMatchPushes`, `FailuresAreReviewed`, `FixFenced`, `HandoffFenced` |
| `pagecheck_history` | 1 process with 2 threads, 2 jobs in a history of 1, each recovered once, 1 error, 1 shutdown | `WithinCapacity`, `EventSurvives`, `FinishedStaysFinished`, `ChecksHandOver` |
| `pagecheck_liveness` | 1 process with 2 threads, 1 job, 4 tokens, 1 error, 1 crash | `EveryCheckEnds`, `EveryEventIsQueued` |
| `edits_guarded` | 1 fix, 1 translation, 2 consumers, 1 crash or lost connection, 1 other editor | `TypeOK`, `CacheIsPast`, `FixesLoseNothing`, `EditsAreDelivered` |
| `edits_settle` | 1 fix, 1 deletion, 1 invalid message, 1 consumer, 1 crash, 1 limiter failure, 1 editor | `AckedWasApplied`, `EveryEditSettles` |
| `edits_retry` | 1 fix, 1 translation, 1 consumer, 1 limiter failure | *violated*: `RetriedOnce` (see Findings) |
| `review_approvals` | 1 event with 2 payloads, 1 delivery, 2 proposals, 1 tool call, 2 operators, 1 fault, new or migrated database | `RowsAgree`, `NoEventIsLost`, `InboxIsOutbox`, `EveryEventIsTaken`, `EveryClaimEnds` |
| `services` | 3 limited calls; 2 pages, queues of 1, 1 retry; 2 titles, 2 changes, queue of 1, 1 other reader, 1 fault; 2 publications, 2 handlers; 1 message, 2 feeders, 2 losses; 2 jobs, 1 API error, 1 foreign action; 1 program, 2 requests, 2 endpoints | `PacedStarts`, `HeldPagesAreWaiting`, `MirrorHeals`, `ForwardedOnce`, `DeletionsAreMarked`, `AgentsActOnce`, `JournalMatchesEffects`, `EveryPageIsReleased`, `QueuedIssuesAreDispatched`, `ChangesAreDelivered` |

**Bounds.** Requests interact only through the process-local counters, so one
request with two attempts meets every race between callers, and two processes
every race between a worker, a reader and a foreign recovery. The two attempts
also share `Capacity` and `MaxWorkers`, so refusal and waiting for a thread
happen. `MaxFaults`, `MaxCrashes` and `MaxShutdowns` bound only the environment.
In `PageCheckJobs`, `MaxTokens` bounds the recoveries of one job; the liveness run
allows one more than retries, crash and error can use up, so the bound is never
what stops it. The history run makes the stored jobs as many as the limit, so
removal and refusal both happen.

In `EditQueue` one page is enough, since edits of different pages share only the
queue and the limiter. Other failures than the limiter's are not bounded:
`failures` counts up to the two the property asks about.

In `ReviewInbox` events share nothing but the queue, so one event is enough; two
proposals make one supersede the other, two operators make a second approval and a
claim that expires under its holder possible, and the second payload a conflicting
delivery. One delivery is redelivered as often as something fails. In `services`, three
calls and a horizon of two intervals let a key expire between reservations and an
embargo fall between two of them; two handlers and a window of one tick meet at the
last moment of a request; two feeders and two losses are what a lost message needs
before it is dropped; limits of one issue and one assignment per run make the second
job wait. For the mirror, two changes of two titles with a queue of one make an event
late, dropped, or overtaken by the other reader.

**Fairness.** Threads that can run do run; time passes; recovery runs again and
again, because every read of `/jobs`, `/health` or a job's status schedules it;
in `TranslationJobs` clients also keep polling a job they know, which is what
Atlas does. Nothing makes a client enqueue, a heartbeat arrive in time, a worker
report progress, or a process crash or shut down. In `EditQueue` consumers keep
consuming, which is what `start_consuming` and a supervisor provide. In `ReviewInbox`
the store opens, a call or command that has begun goes on, and somebody keeps asking
for events (strong fairness of `Take`, because a delivery that is put back is not
always ready); nobody has to prepare or approve anything. In `MCServices` the threads of
the IRC listener go on working; the fix agent's workflow goes on being started after the
scheduled issue agent, with the setting required, and a run that has begun goes on, while
nobody has to start one by hand. Faults are bounded, so liveness is claimed for a store that eventually
answers. The liveness runs use no symmetry.

**Deadlock** is checked in the runs of the job modules; `Tick` is always possible
there, so it is the liveness runs that show that nobody waits for ever. The edit
queue, the inbox and the services really come to rest, when everything is
settled and their bounded environment does nothing more.

## Findings

`translation_filtered`: when the publication prefilter rejects a candidate,
`publish_locked` records `filtered_out` and returns `None`, but
`process_wiktionary_wiki_page` stops only on `False`. The entries are saved and
their references published all the same, although
`test/unit_tests/test_api_translation_v2/test_core.py:1252` says a rejected
candidate must not persist data or publish references.

`edits_retry`: the comment at `rabbitmq_pywikibot.py:190` promises to "retry other
failures once", but the code decides by the redelivered flag, which a limiter
requeue sets as well: an edit that met the limiter loses its retry.

## Proofs

`TranslationJobsProofs` proves, for every value of the constants that satisfies
`ConstantsAssumption` and `NoneAssumption` (a timeout of at least one tick,
natural bounds, attempts and pollers distinct, `None` not a value of anything):

* `TypeCorrect`, from `TypeInv`, that is `TypeOK` with `CallShape`: a call that is
  not idle knows its process and its request, and a reader about to use its
  snapshot has one.
* `FinishedJobsAreFinal`: all writes go through the owned put, which requires an
  active record, or through create, which requires none.
* `RequestsPublishOnce`, from `Ownership`: an attempt past creation, or one that
  pushed, is the token of the durable record of its request, and no step takes a
  record away or changes its token. Two publishers of one request would both be
  its token. Without the first part the property is not inductive: nothing else
  stops a second attempt from reaching the push.
* `RecordedPublicationsAreTrue` (`PublicationIsTrue`), from `Record`: the worker,
  the stored record, every reader's snapshot and recovery's pending write carry a
  publication state that is true of the token they carry. Snapshots are written
  back, so they have to be part of the invariant; that a push cannot follow a
  filtered result needs that the attempt is past its publishing steps.
* `PublicationsAreFenced`, from `PushFence` and `ScanFence`: between guard and push
  an attempt either holds its lease with a heartbeat no older than its own stall,
  or has stalled for the whole timeout; and recovery evicts only a record whose
  heartbeat it saw expired and that nobody renewed since.
* `JobsImplementLedger`, the refinement of `Ledger`, step by step: `LedgerMoves` shows
  that a step creates a record, stores one or pushes, never two of these; `Makers` (the
  attempt a record names is past its creation step, with that request) makes a creation an
  acceptance of a fresh token; `Ownership` and `Record` make a push the first one of the
  record's own token; and that a stored state is true comes from `PublicationIsTrue` of the
  next state.
* `SlotsAreAccounted`, from `Slots`: besides the counters themselves, that the sets of
  attempts behind them are finite (they grow by one attempt at a time, so nothing is
  assumed of the constants), that an attempt that was not admitted has nothing to
  return to, and that only a task that left the queue counts as running.

`EditQueueProofs` proves, for any kinds of edits that do not overlap, any editors
and any number of consumers:

* `TypeCorrect`, from `TypeInv`: what is queued or worked on was published
  (`Queued`, `Working`), and every such edit of a page has a basis (`Built`).
* `GuardedEditsLoseNothing`, from `Guarded` (while the revision is the one a
  consumer loaded, so is the text, and it is the fix's basis) and `Fresh` (an edit
  that was not sent is in no text anywhere, so a fix is not in its own basis).
* `CachedTextsAreReal`, from `Past`: producers' and consumers' copies, and what is
  about to be cached, are texts the page had. The cache alone is not inductive.
* `AcknowledgedEditsWereApplied`, from `Outcome`.
* `EditQueueImplementsDeliveries`, the refinement of `Deliveries`, from `Verdicts` (what a
  consumer remembers is true: how the save ended, and that its message was put back if it
  was told so or lost its connection) and `Kept` (a message that was published and not settled is once in the queue, or with one
  connected consumer, and never both). `Moves` shows that a step publishes, takes, puts
  back, settles or applies one message, or moves none.

`PageCheckJobsProofs` proves every safety property of `PageCheckJobs`, for any
processes, timeouts and limits and any finite set of jobs (`PageCheckAssumption`), from
the layered invariant `CheckInv`:

* `LifeInv`: the types, `Tokens` (a token is drawn once: no execution, scan or claim
  knows one beyond the attempts of its record) and `Owners` (an execution whose token is
  still the record's and that has stored no verdict belongs to an unfinished job).
  `ChecksAreTyped`, `FinishedJobsStayFinished`.
* `Verdicts`: what a worker believes about its fix is true, one that pushed has yet to
  store a fix or an error, or has ended, and what is stored is true. With `Owners`, a late
  push never belongs to a job that has ended. `ChecksReportTheirPushes`,
  `FailuresReachReview`.
* `Claims`: the holder of a handoff claim has the stored event, and delivered it when it
  says so; one without the claim stalled for the whole lease.
  `QueuedEventsWereDelivered`, `HandoffsAreFenced`, `EventsSurvive`,
  `QueuedEventsAreFinal`.
* `Fences`: what a scan saw is still stale unless somebody wrote since; an execution
  between guard and push owns its job or stalled for the whole timeout.
  `FixesAreFenced`.
* `StoreStaysWithinCapacity` follows from the enqueue script by cardinality arguments.
* `ChecksImplementHandover`, the refinement of `Handover`, from `OneEvent`: whatever RabbitMQ
  has of a job, and whatever a publisher is about to send, is the job's one event, also
  when the record is gone. Publishers have to be part of it, because one carries a copy of
  the event and may send it long after it lost its claim; that the enqueue script removes
  no job whose event is undelivered makes a removal a conclusion or no step.

`ReviewInboxProofs`, for any events, payloads, deliveries, operators and times, from
`IInv`: the types, `CallsRefer` (calls and commands refer to rows that exist),
`TablesAgree`, `ClaimsHeld` (a command under way holds its claim alone, unless the claim
was declared unknown), `PushesRecorded` (the rows tell the truth about what was sent)
and `NoEventIsLost`. It yields `InboxIsTyped`, `RowsAlwaysAgree`, `OneEditIsSent`,
`NoEventIsEverLost` and the refinement `InboxImplementsOutbox`. That a claim may be
taken over only as unknown, never for a second attempt, is what carries
`OneEditIsSent`: a holder whose lease expired may still push.

`EdgeProofs`: `StartsArePaced`, from `KeysRemember` (a live schedule key lies an
interval after every start handed out, a dead one means that all starts are an interval
in the past; likewise for the embargo); `RequestsAreForwardedOnce`, from `ExpiriesAgree`
and `ClaimsRemembered` (a claimed nonce is in the ledger while its request is fresh).

`IrcProofs`:

* `HeldPagesAlwaysWait`, from `Lines` (a queue holds no page twice and stays within its
  size; what is held is what waits and what the thread has in hand, which is nothing
  exactly while it is idle) and `RequestIds` (a request id, and what was posted under it,
  lives as long as its page is held).
* `MirrorAlwaysHeals`, from `NoneForgotten` and `FetchedIsCurrent`. The property speaks only
  of titles whose events are worked off; for the others the invariant says who will see to
  them: a title whose copy may be wrong is announced by an event that waits, or the worker
  is about to write it; and what the worker read is the page's text unless a later event
  waits. A title that changes with an ignored log entry joins those the mirror cannot vouch
  for, unless it had no page and so no copy that could be out of date.

`OperationsProofs`:

* `JournalAlwaysMatches`, from `RequestsHaveRows` and `LockDiscipline`.
* `AgentsAlwaysActOnce`, from `TriageSound` and `DispatchSound`: both agents act on what a
  listing showed earlier, so the invariant says that what they remember is still true. The
  issue agent knows every job that has an issue, because nobody else opens issues about
  jobs; the fix agent's listing agrees with the issues it has not come to in their job and
  their assignee, because nobody else assigns.

`EditFeederProofs`: `DeletionsAreAlwaysMarked`, from `MessagesHeld`, `DeliveriesCounted`
and `StepsJustified`; `FeederImplementsDeliveries`, from these and `Orphans` (a
callback that outlived its connection works on a message the broker took back).

Each holds for every value of the module's constants under its `ASSUME`.

Every safety invariant, every action property and all five refinements that a run checks are
proved. Only model-checked is liveness, since fairness and ENABLED are out of the
prover's reach: `EveryJobTerminates`, `EveryLeaseIsReleased`, `EveryCheckEnds`,
`EveryEventIsQueued`, `EveryEditSettles`, `EveryEventIsTaken`, `EveryClaimEnds`,
`EveryPageIsReleased`, `QueuedIssuesAreDispatched`. Some theorems state
properties that no run checks by itself, because a refinement that is checked implies them:
`TerminalIsFinal` (`JobsAreLedger`), `QueuedMeansDelivered` and `QueuedIsFinal`
(`ChecksHandOver`), `OneEditPerEvent` (`InboxIsOutbox`).

## What is not guaranteed

* A gateway handler that verified a request within its window and claims the nonce
  only after the window is over finds a ledger that may have forgotten it;
  `ForwardedOnce` is about claims within the window.
* The queue-fed client prints and forgets errors of translation requests, by design.
* A translated page is queued without the hash of the text it was built from, so the
  consumer replaces whatever the page holds by then (`EditQueue` models it).
* A page check that waits for a thread longer than the stale timeout counts as stalled
  and uses up a retry.
* The mirror fetches a page as it is when the worker comes to the event, while a move
  renames whatever the old key holds by then. A page that is edited, moved away and
  created anew faster than the worker follows leaves the new page's text under the moved
  page's title until that is edited again; a reader that writes late has the same
  effect. `MirrorHeals` excludes these titles, and those whose messages were lost or
  dropped since the mirror last read them.
* `readme.md:104` says that the mirror "renames cached keys after page moves", but
  `parse_cache_event` has no event for a move over a redirect (`move_redir`), nor for
  restores, deletions of redirects and other logs. What is cached under such titles is
  out of date until the next event about them. `MirrorHeals` excludes them until then;
  what it promises is that this event brings them back in line.
* `unknown` in the review inbox is final for the program: a person has to look.

## Not modelled

* Parsers, renderers, importers, entry processors, translation functions and the
  language tables: most of the code by volume (the table of English language codes
  alone has 7579 lines), and text processing over unbounded inputs. What a model would
  say of them is what they are; unit tests are the right tool. The models cover the
  code that coordinates, which is a small part of the lines.
* The REST layer (`entry_translator_v2.py`): request parsing and error mapping; it
  keeps no state. Statistics and settings endpoints: aggregation over snapshots and
  single keys.
* `wiktionary_irc_rabbitmq.py`, `RabbitMqProducer` and the connectors: they keep a
  connection and nothing else; their callers' models treat a push as accepted, refused
  or uncertain.
* Gemma chat and host listings of the supervisor control; the dictionary service and
  the database models, which leave coordination to PostgreSQL; the Atlas frontend.
* Offline mode, dump imports, namespaces and redirects of the page cache, apart from the
  redirects the mirror meets.

## Possible extensions

Two compositions: `PageCheckJobs`' handoff with `ReviewInbox`, where `Handover`'s `sent` is
what the inbox takes its deliveries from, and the pushes of the job modules with
`EditQueue`, where each is a `Put` of `Deliveries`.
