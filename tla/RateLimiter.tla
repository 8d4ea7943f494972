---------------------------- MODULE RateLimiter ----------------------------
(***************************************************************************)
(* WikimediaRateLimiter: the processes that talk to Wikimedia reserve the    *)
(* starts of their requests in Redis, and share an embargo that an answer    *)
(* with retry timing extends. Each Redis script is one step; a key lives     *)
(* until its time to live is over.                                           *)
(***************************************************************************)
EXTENDS Integers

CONSTANTS
  Call,          \* calls of acquire and the requests they guard
  Interval,      \* between two starts
  MaxWait,       \* longest wait acquire accepts
  Grace,         \* what a key outlives the time it holds
  RetryAfter,    \* the retry timings answers carry
  Horizon,       \* bound of the model's time
  Absent         \* no value

ASSUME LimiterAssumption ==
  /\ Interval \in Nat \ {0} /\ MaxWait \in Nat /\ Grace \in Nat /\ Horizon \in Nat
  /\ RetryAfter \subseteq Nat /\ Absent \notin Nat

Key == [at : Nat, expires : Nat]
CallState == {"idle", "sleeping", "started", "done", "refused"}
CallRecord == [pc : CallState, start : Nat, known : Nat]

\* What an error of a request says: its status, whether it is a maxlag error, the
\* Retry-After it carries and the lag it reports.
Failure == [status : {"forbidden", "limited", "other"}, maxlag : BOOLEAN,
            retry : RetryAfter \cup {Absent}, lag : RetryAfter \cup {Absent}]

VARIABLES
  redisTime,
  schedule,    \* the next-start key
  embargo,     \* the embargo-until key
  calls,       \* what each call does, its reserved start and
               \*   the latest embargo declared when it reserved
  declared     \* history: the latest embargo anybody declared

limiterVars == <<redisTime, schedule, embargo, calls, declared>>

LimiterInit ==
  /\ redisTime = 0 /\ declared = 0
  /\ schedule = [at |-> 0, expires |-> 0] /\ embargo = [at |-> 0, expires |-> 0]
  /\ calls = [c \in Call |-> [pc |-> "idle", start |-> 0, known |-> 0]]

Later(a, b) == IF a < b THEN b ELSE a

\* A key that has expired counts as the present.
Value(key) == IF redisTime < key.expires THEN key.at ELSE redisTime

\* Faulty: the key lives for one interval, however long the caller waits.
ScheduleTtlShort(wait) == Interval + Grace
\* The time to live of the next-start key.
ScheduleTtl(wait) == wait + Interval + Grace

Start == Later(redisTime, Later(Value(schedule), Value(embargo)))

\* acquire with an accepted reservation. A caller that loses Redis' answer raises
\* although the start is taken.
Acquire(c) ==
  LET start == Start IN
  /\ calls[c].pc = "idle" /\ start - redisTime <= MaxWait
  /\ schedule' = [at |-> start + Interval,
                  expires |-> redisTime + ScheduleTtl(start - redisTime)]
  /\ \E pc \in {"sleeping", "refused"} :
       calls' = [calls EXCEPT ![c] = [pc |-> pc, start |-> start, known |-> declared]]
  /\ UNCHANGED <<redisTime, embargo, declared>>

\* acquire raises: the wait exceeds the budget, or Redis cannot be reached.
Refuse(c) ==
  /\ calls[c].pc = "idle"
  /\ calls' = [calls EXCEPT ![c].pc = "refused"]
  /\ UNCHANGED <<redisTime, schedule, embargo, declared>>

\* The sleep is over. Nobody looks at the embargo again.
StartRequest(c) ==
  /\ calls[c].pc = "sleeping" /\ redisTime >= calls[c].start
  /\ calls' = [calls EXCEPT ![c].pc = "started"]
  /\ UNCHANGED <<redisTime, schedule, embargo, declared>>

\* observe_exception: the retry timing of an error, if it calls for an embargo.
Timing(f) ==
  CASE f.status = "forbidden" -> Absent
    [] f.status # "forbidden" /\ f.status # "limited" /\ ~f.maxlag -> Absent
    [] f.status # "forbidden" /\ (f.status = "limited" \/ f.maxlag) ->
         IF f.retry = Absent /\ f.maxlag THEN f.lag ELSE f.retry

\* The embargo key after extend_embargo: it is never shortened.
Extended(retry) ==
  IF redisTime + retry > Value(embargo)
  THEN [at |-> redisTime + retry, expires |-> redisTime + retry + Grace]
  ELSE embargo

\* The request returns, or fails and may extend the embargo; Redis may fail then too.
Return(c) ==
  /\ calls[c].pc = "started"
  /\ calls' = [calls EXCEPT ![c].pc = "done"]
  /\ \/ UNCHANGED <<embargo, declared>>
     \/ \E f \in Failure :
          /\ Timing(f) # Absent
          /\ embargo' = Extended(Timing(f))
          /\ declared' = Later(declared, redisTime + Timing(f))
  /\ UNCHANGED <<redisTime, schedule>>

LimiterTick ==
  /\ redisTime < Horizon /\ redisTime' = redisTime + 1
  /\ UNCHANGED <<schedule, embargo, calls, declared>>

LimiterNext ==
  \/ \E c \in Call : Acquire(c) \/ Refuse(c) \/ StartRequest(c) \/ Return(c)
  \/ LimiterTick

LimiterSpec == LimiterInit /\ [][LimiterNext]_limiterVars

-----------------------------------------------------------------------------
\* Every variable has its type.
LimiterTypeOK ==
  /\ redisTime \in Nat /\ declared \in Nat
  /\ schedule \in Key /\ embargo \in Key
  /\ calls \in [Call -> CallRecord]

Reserved == {c \in Call : calls[c].pc \in {"sleeping", "started", "done"}}

\* acquire, extend_embargo and the expiry of their keys: starts that were handed out
\* are an interval apart, and none lies before the end of an embargo that had been
\* declared when it was handed out.
PacedStarts ==
  /\ \A c, d \in Reserved : c # d =>
       \/ calls[c].start + Interval <= calls[d].start
       \/ calls[d].start + Interval <= calls[c].start
  /\ \A c \in Reserved : calls[c].known <= calls[c].start
=============================================================================
