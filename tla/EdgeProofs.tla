----------------------------- MODULE EdgeProofs -----------------------------
(***************************************************************************)
(* Two guards at the edge of the system that decide from a key or a row       *)
(* which may have expired, proved for any number of calls and any timing.     *)
(*                                                                            *)
(* The rate limiter: the starts it hands out are paced, for any interval,     *)
(* budget and retry timings. The invariant says what the two keys still know  *)
(* after they have expired: every start handed out is an interval before the  *)
(* next-start key, and no declared embargo is later than both the embargo key *)
(* and the present.                                                           *)
(*                                                                            *)
(* The HTTP gateway: its ledger forwards a fresh request once, for any clock  *)
(* skew and any window. The invariant says why a purge is harmless: a nonce   *)
(* that was claimed is in the ledger until its request has expired.           *)
(***************************************************************************)
EXTENDS RateLimiter, HttpGateway, TLAPS

KeysRemember ==
  /\ schedule.at <= schedule.expires /\ embargo.at <= embargo.expires
  /\ \A c \in Reserved : calls[c].start + Interval <= schedule.at
  /\ declared <= embargo.at \/ declared <= redisTime

LimiterInv == LimiterTypeOK /\ KeysRemember /\ PacedStarts

\* Value reads a key: a time that is not before the present or the key's own time.
LEMMA ValueFacts ==
  ASSUME LimiterTypeOK, NEW key \in Key
  PROVE  /\ Value(key) \in Nat
         /\ key.at <= key.expires => Value(key) >= key.at \/ Value(key) = redisTime
         /\ key.at <= key.expires /\ key.at > redisTime => Value(key) = key.at
BY DEF LimiterTypeOK, Value, Key

\* The start acquire computes is not before the present or before either key.
LEMMA StartFacts ==
  ASSUME LimiterTypeOK, KeysRemember
  PROVE  /\ Start \in Nat /\ Start >= redisTime
         /\ Start >= schedule.at /\ Start >= embargo.at
<1>1. /\ Value(schedule) \in Nat /\ Value(embargo) \in Nat
      /\ Value(schedule) >= schedule.at \/ schedule.at <= redisTime
      /\ Value(embargo) >= embargo.at \/ embargo.at <= redisTime
  BY DEF LimiterTypeOK, KeysRemember, Value, Key
<1>2. redisTime \in Nat /\ schedule.at \in Nat /\ embargo.at \in Nat
  BY DEF LimiterTypeOK, Key
<1> QED BY <1>1, <1>2 DEF Start, Later

\* A timing that is not absent is a natural number.
LEMMA TimingFacts ==
  ASSUME NEW f \in Failure, Timing(f) # Absent
  PROVE  Timing(f) \in Nat
BY LimiterAssumption DEF Failure, Timing

\* The first state satisfies the invariant: nothing is handed out.
LEMMA LimiterInitially == LimiterInit => LimiterInv
BY LimiterAssumption
   DEF LimiterInit, LimiterInv, LimiterTypeOK, KeysRemember, PacedStarts, Reserved, Key,
       CallRecord, CallState

\* acquire keeps the invariant: the new start is after all others and after the embargo.
LEMMA AcquireKeeps ==
  ASSUME LimiterInv, NEW c \in Call, Acquire(c)
  PROVE  LimiterInv'
<1> USE LimiterAssumption
<1>1. Start \in Nat /\ Start >= redisTime /\ Start >= schedule.at /\ Start >= embargo.at
  BY StartFacts DEF LimiterInv
<1>2. PICK pc \in {"sleeping", "refused"} :
        calls' = [calls EXCEPT ![c] = [pc |-> pc, start |-> Start, known |-> declared]]
  BY DEF Acquire
<1>3. /\ schedule' = [at |-> Start + Interval, expires |-> Start + Interval + Grace]
      /\ UNCHANGED <<redisTime, embargo, declared>>
  BY <1>1 DEF Acquire, ScheduleTtl, LimiterInv, LimiterTypeOK
<1>4. LimiterTypeOK'
  <2>1. schedule' \in Key
    BY <1>1, <1>3 DEF Key
  <2>2. calls' \in [Call -> CallRecord]
    BY <1>1, <1>2 DEF LimiterInv, LimiterTypeOK, CallRecord, CallState
  <2> QED BY <1>3, <2>1, <2>2 DEF LimiterInv, LimiterTypeOK
<1>5. \A d \in Reserved' : d # c => d \in Reserved /\ calls'[d] = calls[d]
  BY <1>2 DEF Reserved, LimiterInv, LimiterTypeOK
<1>6. c \in Reserved' => calls'[c].start = Start /\ calls'[c].known = declared
  BY <1>2 DEF LimiterInv, LimiterTypeOK
<1>7. \A d \in Reserved : calls[d].start + Interval <= Start /\ calls[d].start \in Nat
  BY <1>1 DEF LimiterInv, KeysRemember, Reserved, LimiterTypeOK, CallRecord, Key
<1>8. declared <= Start
  BY <1>1 DEF LimiterInv, KeysRemember, LimiterTypeOK, Key
<1>9. KeysRemember'
  <2>1. \A d \in Reserved' : calls'[d].start + Interval <= schedule'.at
    BY <1>1, <1>3, <1>5, <1>6, <1>7
  <2>2. schedule'.at <= schedule'.expires
    BY <1>1, <1>3
  <2> QED BY <1>3, <2>1, <2>2 DEF LimiterInv, KeysRemember
<1>10. PacedStarts'
  <2>1. ASSUME NEW d \in Reserved', NEW e \in Reserved', d # e
        PROVE  \/ calls'[d].start + Interval <= calls'[e].start
               \/ calls'[e].start + Interval <= calls'[d].start
    BY <2>1, <1>5, <1>6, <1>7 DEF LimiterInv, PacedStarts
  <2>2. \A d \in Reserved' : calls'[d].known <= calls'[d].start
    BY <1>5, <1>6, <1>8 DEF LimiterInv, PacedStarts
  <2> QED BY <2>1, <2>2 DEF PacedStarts
<1> QED BY <1>4, <1>9, <1>10 DEF LimiterInv

\* The other steps hand out no start; a failed request can only lengthen the embargo.
LEMMA OthersKeep ==
  ASSUME LimiterInv, NEW c \in Call, Refuse(c) \/ StartRequest(c) \/ Return(c)
  PROVE  LimiterInv'
<1> USE LimiterAssumption
<1>1. PICK pc \in CallState : calls' = [calls EXCEPT ![c].pc = pc]
  BY DEF Refuse, StartRequest, Return, CallState
<1>2. /\ UNCHANGED <<redisTime, schedule>>
      /\ \A d \in Reserved' : d \in Reserved
  <2>1. calls \in [Call -> CallRecord]
    BY DEF LimiterInv, LimiterTypeOK
  <2>2. CASE Refuse(c)
    BY <2>1, <2>2 DEF Refuse, Reserved, CallRecord
  <2>3. CASE StartRequest(c)
    BY <2>1, <2>3 DEF StartRequest, Reserved, CallRecord
  <2>4. CASE Return(c)
    BY <2>1, <2>4 DEF Return, Reserved, CallRecord
  <2> QED BY <2>2, <2>3, <2>4
<1>3. \A d \in Call : calls'[d].start = calls[d].start /\ calls'[d].known = calls[d].known
  BY <1>1 DEF LimiterInv, LimiterTypeOK, CallRecord
<1>4. calls' \in [Call -> CallRecord]
  BY <1>1 DEF LimiterInv, LimiterTypeOK, CallRecord
<1>5. /\ embargo' \in Key /\ embargo'.at <= embargo'.expires /\ declared' \in Nat
      /\ declared' <= embargo'.at \/ declared' <= redisTime
  <2>1. CASE UNCHANGED <<embargo, declared>>
    BY <2>1 DEF LimiterInv, LimiterTypeOK, KeysRemember
  <2>2. CASE \E f \in Failure : /\ Timing(f) # Absent
                                /\ embargo' = Extended(Timing(f))
                                /\ declared' = Later(declared, redisTime + Timing(f))
    <3>1. PICK f \in Failure : /\ Timing(f) # Absent
                               /\ embargo' = Extended(Timing(f))
                               /\ declared' = Later(declared, redisTime + Timing(f))
      BY <2>2
    <3>2. Timing(f) \in Nat
      BY <3>1, TimingFacts
    <3>3. /\ redisTime \in Nat /\ declared \in Nat /\ embargo \in Key
          /\ embargo.at \in Nat /\ embargo.expires \in Nat
          /\ embargo.at <= embargo.expires
          /\ declared <= embargo.at \/ declared <= redisTime
      BY DEF LimiterInv, LimiterTypeOK, KeysRemember, Key
    <3>4. CASE redisTime + Timing(f) > Value(embargo)
      <4>1. embargo' = [at |-> redisTime + Timing(f), expires |-> redisTime + Timing(f) + Grace]
        BY <3>1, <3>4 DEF Extended
      <4>2. declared <= redisTime + Timing(f)
        BY <3>2, <3>3, <3>4 DEF Value
      <4> QED BY <3>1, <3>2, <3>3, <4>1, <4>2 DEF Later, Key
    <3>5. CASE ~(redisTime + Timing(f) > Value(embargo))
      <4>1. embargo' = embargo
        BY <3>1, <3>5 DEF Extended
      <4>2. redisTime + Timing(f) <= embargo.at \/ redisTime + Timing(f) <= redisTime
        BY <3>2, <3>3, <3>5 DEF Value
      <4> QED BY <3>1, <3>2, <3>3, <4>1, <4>2 DEF Later
    <3> QED BY <3>4, <3>5
  <2> QED BY <2>1, <2>2 DEF Refuse, StartRequest, Return
<1>6. Reserved \subseteq Call
  BY DEF Reserved
<1>7. LimiterTypeOK'
  BY <1>2, <1>4, <1>5 DEF LimiterInv, LimiterTypeOK
<1>8. KeysRemember'
  BY <1>2, <1>3, <1>5, <1>6 DEF LimiterInv, KeysRemember
<1>9. PacedStarts'
  BY <1>2, <1>3, <1>6 DEF LimiterInv, PacedStarts
<1> QED BY <1>7, <1>8, <1>9 DEF LimiterInv

\* Time passes: an expired key only becomes older.
LEMMA TickKeeps == LimiterInv /\ LimiterTick => LimiterInv'
BY LimiterAssumption
   DEF LimiterInv, LimiterTick, LimiterTypeOK, KeysRemember, PacedStarts, Reserved, Key

\* The scripts of acquire and extend_embargo keep the strengthened invariant.
THEOREM LimiterInvariance == LimiterSpec => []LimiterInv
<1>1. LimiterInv /\ [LimiterNext]_limiterVars => LimiterInv'
  <2> SUFFICES ASSUME LimiterInv, [LimiterNext]_limiterVars PROVE LimiterInv'
    OBVIOUS
  <2>1. CASE UNCHANGED limiterVars
    BY <2>1 DEF limiterVars, LimiterInv, LimiterTypeOK, KeysRemember, PacedStarts, Reserved
  <2>2. CASE LimiterNext
    BY <2>2, AcquireKeeps, OthersKeep, TickKeeps DEF LimiterNext
  <2> QED BY <2>1, <2>2
<1> QED BY <1>1, LimiterInitially, PTL DEF LimiterSpec

\* WikimediaRateLimiter: however many processes share the keys and whatever expires,
\* the starts that acquire hands out are an interval apart and respect every embargo
\* extend_embargo had declared.
THEOREM StartsArePaced == LimiterSpec => []PacedStarts
<1>1. LimiterInv => PacedStarts
  BY DEF LimiterInv
<1> QED BY <1>1, LimiterInvariance, PTL

-----------------------------------------------------------------------------
\* The expiry of a request is the one of its timestamp, wherever it was computed.
ExpiriesAgree ==
  /\ \A h \in Handler : handlers[h].pc # "free" =>
       /\ handlers[h].call \in Publish /\ posts[handlers[h].call].pc # "new"
       /\ handlers[h].expires = Expiry(posts[handlers[h].call].issued)
  /\ \A row \in ledger : /\ posts[row.nonce].pc # "new"
                         /\ row.expires = Expiry(posts[row.nonce].issued)

\* A claimed nonce is remembered while its request is fresh.
ClaimsRemembered ==
  \A c \in Publish : claims[c] > 0 =>
    /\ posts[c].pc # "new"
    /\ clock > Expiry(posts[c].issued) \/ \E row \in ledger : row.nonce = c

GatewayInv == GatewayTypeOK /\ ExpiriesAgree /\ ClaimsRemembered /\ ForwardedOnce

LEMMA GatewayInitially == GatewayInit => GatewayInv
BY GatewayAssumption
   DEF GatewayInit, GatewayInv, GatewayTypeOK, ExpiriesAgree, ClaimsRemembered, ForwardedOnce, Free

\* Time passes: what is remembered stays, what has expired stays expired.
LEMMA GatewayTickKeeps == GatewayInv /\ GatewayTick => GatewayInv'
<1> SUFFICES ASSUME GatewayInv, GatewayTick PROVE GatewayInv'
  OBVIOUS
<1>1. GatewayTypeOK' /\ ExpiriesAgree' /\ ForwardedOnce'
  BY DEF GatewayInv, GatewayTick, GatewayTypeOK, ExpiriesAgree, ForwardedOnce, Expiry
<1>2. \A c \in Publish : Expiry(posts[c].issued) \in Int
  BY GatewayAssumption DEF GatewayInv, GatewayTypeOK, Expiry
<1>3. ClaimsRemembered'
  BY <1>2 DEF GatewayInv, GatewayTick, GatewayTypeOK, ClaimsRemembered, Expiry
<1> QED BY <1>1, <1>3 DEF GatewayInv

\* A change of the callers that keeps the timestamps of the requests that were sent.
LEMMA PostsKeep ==
  ASSUME GatewayInv, UNCHANGED <<clock, ledger, claims>>,
         posts' \in [Publish -> [pc : {"new", "sent", "ok", "failed"}, issued : Int]],
         \A c \in Publish : posts[c].pc # "new" =>
           posts'[c].pc # "new" /\ posts'[c].issued = posts[c].issued
  PROVE  ClaimsRemembered' /\ \A row \in ledger' :
           posts'[row.nonce].pc # "new" /\ row.expires = Expiry(posts'[row.nonce].issued)
BY DEF GatewayInv, GatewayTypeOK, ClaimsRemembered, ExpiriesAgree, Expiry

\* publish signs a request, or gives up on it.
LEMMA ClientKeeps ==
  ASSUME GatewayInv, NEW c \in Publish, SendRequest(c) \/ GiveUp(c)
  PROVE  GatewayInv'
<1>1. UNCHANGED <<clock, handlers, ledger, broker, claims>> /\ GatewayTypeOK
  BY DEF SendRequest, GiveUp, GatewayInv
<1>2. posts' \in [Publish -> [pc : {"new", "sent", "ok", "failed"}, issued : Int]]
  <2>1. CASE SendRequest(c)
    <3>1. PICK skew \in Skew : posts' = [posts EXCEPT ![c] = [pc |-> "sent", issued |-> clock + skew]]
      BY <2>1 DEF SendRequest
    <3>2. clock + skew \in Int
      BY <1>1, GatewayAssumption DEF GatewayTypeOK
    <3> QED BY <1>1, <3>1, <3>2 DEF GatewayTypeOK
  <2>2. CASE GiveUp(c)
    BY <1>1, <2>2 DEF GiveUp, Fail, GatewayTypeOK
  <2> QED BY <2>1, <2>2
<1>3. \A x \in Publish : posts[x].pc # "new" =>
        posts'[x].pc # "new" /\ posts'[x].issued = posts[x].issued
  BY <1>1 DEF SendRequest, GiveUp, Fail, GatewayTypeOK
<1>4. \A x \in Publish : posts'[x].pc = "ok" => posts[x].pc = "ok"
  BY <1>1 DEF SendRequest, GiveUp, Fail, GatewayTypeOK
<1>5. ClaimsRemembered' /\ \A row \in ledger' :
        posts'[row.nonce].pc # "new" /\ row.expires = Expiry(posts'[row.nonce].issued)
  BY <1>1, <1>2, <1>3, PostsKeep
<1>6. ExpiriesAgree'
  <2>1. \A h \in Handler : handlers[h].pc # "free" =>
          /\ handlers[h].call \in Publish /\ posts'[handlers[h].call].pc # "new"
          /\ handlers[h].expires = Expiry(posts'[handlers[h].call].issued)
    BY <1>3 DEF GatewayInv, ExpiriesAgree, Expiry
  <2> QED BY <1>1, <1>5, <2>1 DEF ExpiriesAgree, Expiry
<1>7. ForwardedOnce'
  BY <1>1, <1>4 DEF GatewayInv, ForwardedOnce
<1>8. GatewayTypeOK'
  BY <1>1, <1>2 DEF GatewayTypeOK
<1> QED BY <1>5, <1>6, <1>7, <1>8 DEF GatewayInv

\* A handler that ends, whatever it answers; an answer of success follows the push.
LEMMA HandlerEnds ==
  ASSUME GatewayInv, NEW h \in Handler, NEW c \in Publish,
         handlers' = [handlers EXCEPT ![h] = Free] \/ UNCHANGED handlers,
         UNCHANGED <<clock, ledger, claims>>,
         posts' \in {posts, Fail(c), [posts EXCEPT ![c].pc = "ok"]},
         posts[c].pc # "new",
         broker' \in {broker, [broker EXCEPT ![c] = @ + 1]},
         posts'[c].pc = "ok" => posts[c].pc = "ok" \/ broker' = [broker EXCEPT ![c] = @ + 1]
  PROVE  GatewayInv'
<1> USE GatewayAssumption
<1>1. GatewayTypeOK
  BY DEF GatewayInv
<1>2. /\ posts' \in [Publish -> [pc : {"new", "sent", "ok", "failed"}, issued : Int]]
      /\ \A x \in Publish : posts[x].pc # "new" =>
           posts'[x].pc # "new" /\ posts'[x].issued = posts[x].issued
  <2>1. PICK pc \in {"ok", "failed"} : posts' = posts \/ posts' = [posts EXCEPT ![c].pc = pc]
    BY DEF Fail
  <2>2. CASE posts' = posts
    BY <1>1, <2>2 DEF GatewayTypeOK
  <2>3. CASE posts' = [posts EXCEPT ![c].pc = pc]
    <3>1. posts' \in [Publish -> [pc : {"new", "sent", "ok", "failed"}, issued : Int]]
      BY <1>1, <2>3 DEF GatewayTypeOK
    <3>2. \A x \in Publish : posts'[x].issued = posts[x].issued
      BY <1>1, <2>3 DEF GatewayTypeOK
    <3>3. \A x \in Publish : posts[x].pc # "new" => posts'[x].pc # "new"
      BY <1>1, <2>3 DEF GatewayTypeOK
    <3> QED BY <3>1, <3>2, <3>3
  <2> QED BY <2>1, <2>2, <2>3
<1>3. broker' \in [Publish -> Nat] /\ \A x \in Publish : broker'[x] >= broker[x]
  BY <1>1 DEF GatewayTypeOK
<1>4. handlers' \in [Handler -> [pc : {"free", "claim", "push"}, call : Publish \cup {NoPublish}, expires : Int]]
      /\ \A x \in Handler : handlers'[x].pc # "free" => handlers'[x] = handlers[x]
  <2>1. Free \in [pc : {"free", "claim", "push"}, call : Publish \cup {NoPublish}, expires : Int]
        /\ Free.pc = "free"
    BY DEF Free
  <2> QED BY <1>1, <2>1 DEF GatewayTypeOK
<1>5. ClaimsRemembered' /\ \A row \in ledger' :
        posts'[row.nonce].pc # "new" /\ row.expires = Expiry(posts'[row.nonce].issued)
  BY <1>2, PostsKeep
<1>6. ExpiriesAgree'
  <2>1. \A x \in Handler : handlers'[x].pc # "free" =>
          /\ handlers'[x].call \in Publish /\ posts'[handlers'[x].call].pc # "new"
          /\ handlers'[x].expires = Expiry(posts'[handlers'[x].call].issued)
    BY <1>2, <1>4 DEF GatewayInv, ExpiriesAgree, Expiry
  <2> QED BY <1>5, <2>1 DEF ExpiriesAgree, Expiry
<1>7. \A x \in Publish : posts'[x].pc = "ok" => broker'[x] > 0
  <2> SUFFICES ASSUME NEW x \in Publish, posts'[x].pc = "ok" PROVE broker'[x] > 0
    OBVIOUS
  <2>1. CASE posts[x].pc = "ok"
    BY <1>1, <1>3, <2>1 DEF GatewayInv, ForwardedOnce, GatewayTypeOK
  <2>2. CASE posts[x].pc # "ok"
    <3>1. x = c
      BY <1>1, <2>2 DEF Fail, GatewayTypeOK
    <3> QED BY <1>1, <2>2, <3>1 DEF GatewayTypeOK
  <2> QED BY <2>1, <2>2
<1>8. ForwardedOnce'
  BY <1>7 DEF GatewayInv, ForwardedOnce
<1>9. GatewayTypeOK'
  BY <1>1, <1>2, <1>3, <1>4 DEF GatewayTypeOK
<1> QED BY <1>5, <1>6, <1>8, <1>9 DEF GatewayInv

\* A failure never becomes a success.
LEMMA FailIsNoSuccess ==
  ASSUME GatewayTypeOK, NEW c \in Publish
  PROVE  Fail(c)[c].pc = "ok" => posts[c].pc = "ok"
BY DEF Fail, GatewayTypeOK

\* send up to the claim.
LEMMA DeliverKeeps ==
  ASSUME GatewayInv, NEW h \in Handler, NEW c \in Publish, Deliver(h, c)
  PROVE  GatewayInv'
<1> USE GatewayAssumption
<1>1. GatewayTypeOK /\ posts[c].pc # "new" /\ UNCHANGED <<clock, ledger, broker, claims>>
  BY DEF GatewayInv, Deliver
<1>2. CASE posts' = Fail(c) /\ UNCHANGED handlers
  BY <1>1, <1>2, HandlerEnds, FailIsNoSuccess
<1>3. CASE /\ UNCHANGED posts
           /\ handlers' = [handlers EXCEPT ![h] = [pc |-> "claim", call |-> c,
                                                   expires |-> Expiry(posts[c].issued)]]
  <2>1. Expiry(posts[c].issued) \in Int
    BY <1>1 DEF GatewayTypeOK, Expiry
  <2>2. GatewayTypeOK'
    BY <1>1, <1>3, <2>1 DEF GatewayTypeOK
  <2>3. ExpiriesAgree'
    BY <1>1, <1>3 DEF GatewayInv, ExpiriesAgree, GatewayTypeOK, Expiry
  <2>4. ClaimsRemembered' /\ ForwardedOnce'
    BY <1>1, <1>3 DEF GatewayInv, ClaimsRemembered, ForwardedOnce, Expiry
  <2> QED BY <2>2, <2>3, <2>4 DEF GatewayInv
<1> QED BY <1>2, <1>3 DEF Deliver

\* claim: the purge removes only nonces whose requests have expired, and an insertion
\* before the expiry is the first one.
LEMMA ClaimStepKeeps ==
  ASSUME GatewayInv, NEW h \in Handler, Claim(h)
  PROVE  GatewayInv'
<1> USE GatewayAssumption
<1> DEFINE c == handlers[h].call
           kept == ledger \ Purged
<1>1. /\ GatewayTypeOK /\ c \in Publish /\ posts[c].pc # "new" /\ handlers[h].pc = "claim"
      /\ handlers[h].expires = Expiry(posts[c].issued)
      /\ UNCHANGED <<clock, broker>>
  BY DEF GatewayInv, Claim, ExpiriesAgree
<1>2. \A x \in Publish : Expiry(posts[x].issued) \in Int
  BY <1>1 DEF GatewayTypeOK, Expiry
<1>3. \A x \in Publish : claims[x] > 0 =>
        /\ posts[x].pc # "new"
        /\ clock > Expiry(posts[x].issued) \/ \E row \in kept : row.nonce = x
  <2> SUFFICES ASSUME NEW x \in Publish, claims[x] > 0, ~(clock > Expiry(posts[x].issued))
               PROVE  /\ posts[x].pc # "new" /\ \E row \in kept : row.nonce = x
    BY DEF GatewayInv, ClaimsRemembered
  <2>1. PICK row \in ledger : row.nonce = x
    BY DEF GatewayInv, ClaimsRemembered
  <2>2. row.expires = Expiry(posts[x].issued)
    BY <2>1 DEF GatewayInv, ExpiriesAgree
  <2>3. row \in kept
    BY <1>1, <1>2, <2>1, <2>2 DEF Purged, GatewayTypeOK
  <2> QED BY <2>1, <2>3 DEF GatewayInv, ClaimsRemembered
<1>4. CASE /\ \A row \in kept : row.nonce # c
           /\ ledger' = kept \cup {[nonce |-> c, expires |-> handlers[h].expires]}
           /\ claims' = IF clock <= handlers[h].expires THEN [claims EXCEPT ![c] = @ + 1] ELSE claims
           /\ handlers' = [handlers EXCEPT ![h].pc = "push"] /\ UNCHANGED posts
  <2> DEFINE new == [nonce |-> c, expires |-> handlers[h].expires]
  <2>1. new \in [nonce : Publish, expires : Int] /\ new.nonce = c /\ new.expires = Expiry(posts[c].issued)
    BY <1>1, <1>2
  <2>2. ledger' \subseteq [nonce : Publish, expires : Int]
    BY <1>1, <1>4, <2>1 DEF GatewayTypeOK
  <2>3. clock <= Expiry(posts[c].issued) => claims[c] = 0
    BY <1>1, <1>2, <1>3, <1>4 DEF GatewayTypeOK
  <2>4. claims' \in [Publish -> Nat] /\ \A x \in Publish : claims'[x] <= 1
    BY <1>1, <1>4, <2>3 DEF GatewayTypeOK, GatewayInv, ForwardedOnce
  <2>5. /\ handlers' \in [Handler -> [pc : {"free", "claim", "push"}, call : Publish \cup {NoPublish}, expires : Int]]
        /\ \A x \in Handler : handlers'[x].call = handlers[x].call /\ handlers'[x].expires = handlers[x].expires
        /\ \A x \in Handler : handlers'[x].pc # "free" => handlers[x].pc # "free"
    BY <1>1, <1>4 DEF GatewayTypeOK
  <2>6. GatewayTypeOK'
    BY <1>1, <1>4, <2>2, <2>4, <2>5 DEF GatewayTypeOK
  <2>7. ExpiriesAgree'
    <3>1. \A x \in Handler : handlers'[x].pc # "free" =>
            /\ handlers'[x].call \in Publish /\ posts[handlers'[x].call].pc # "new"
            /\ handlers'[x].expires = Expiry(posts[handlers'[x].call].issued)
      BY <2>5 DEF GatewayInv, ExpiriesAgree
    <3>2. \A row \in ledger' : posts[row.nonce].pc # "new" /\ row.expires = Expiry(posts[row.nonce].issued)
      BY <1>1, <1>4, <2>1 DEF GatewayInv, ExpiriesAgree
    <3> QED BY <1>4, <3>1, <3>2 DEF ExpiriesAgree, Expiry
  <2>8. ClaimsRemembered'
    <3>1. ASSUME NEW x \in Publish, claims'[x] > 0
          PROVE  /\ posts[x].pc # "new"
                 /\ clock > Expiry(posts[x].issued) \/ \E row \in ledger' : row.nonce = x
      <4>1. CASE x = c
        BY <1>1, <1>4, <2>1, <4>1
      <4>2. CASE x # c
        <5>1. claims'[x] = claims[x]
          BY <1>1, <1>4, <4>2 DEF GatewayTypeOK
        <5> QED BY <1>3, <1>4, <3>1, <5>1
      <4> QED BY <4>1, <4>2
    <3> QED BY <1>1, <1>4, <3>1 DEF ClaimsRemembered, Expiry
  <2>9. ForwardedOnce'
    BY <1>1, <1>4, <2>4 DEF GatewayInv, ForwardedOnce
  <2> QED BY <2>6, <2>7, <2>8, <2>9 DEF GatewayInv
<1>5. CASE /\ ledger' = kept /\ posts' = Fail(c)
           /\ handlers' = [handlers EXCEPT ![h] = Free] /\ UNCHANGED claims
  <2>1. /\ posts' \in [Publish -> [pc : {"new", "sent", "ok", "failed"}, issued : Int]]
        /\ \A x \in Publish : /\ posts'[x].issued = posts[x].issued
                              /\ posts[x].pc # "new" => posts'[x].pc # "new"
                              /\ posts'[x].pc = "ok" => posts[x].pc = "ok"
    BY <1>1, <1>5 DEF GatewayTypeOK, Fail
  <2>2. /\ handlers' \in [Handler -> [pc : {"free", "claim", "push"}, call : Publish \cup {NoPublish}, expires : Int]]
        /\ \A x \in Handler : handlers'[x].pc # "free" => handlers'[x] = handlers[x]
    <3>1. Free \in [pc : {"free", "claim", "push"}, call : Publish \cup {NoPublish}, expires : Int]
          /\ Free.pc = "free"
      BY DEF Free
    <3> QED BY <1>1, <1>5, <3>1 DEF GatewayTypeOK
  <2>3. GatewayTypeOK'
    BY <1>1, <1>5, <2>1, <2>2 DEF GatewayTypeOK
  <2>4. ExpiriesAgree'
    <3>1. \A x \in Handler : handlers'[x].pc # "free" =>
            /\ handlers'[x].call \in Publish /\ posts'[handlers'[x].call].pc # "new"
            /\ handlers'[x].expires = Expiry(posts'[handlers'[x].call].issued)
      BY <2>1, <2>2 DEF GatewayInv, ExpiriesAgree, Expiry
    <3>2. \A row \in ledger' : posts'[row.nonce].pc # "new" /\ row.expires = Expiry(posts'[row.nonce].issued)
      BY <1>1, <1>5, <2>1 DEF GatewayInv, ExpiriesAgree, GatewayTypeOK, Expiry
    <3> QED BY <3>1, <3>2 DEF ExpiriesAgree, Expiry
  <2>5. ClaimsRemembered'
    BY <1>1, <1>3, <1>5, <2>1 DEF ClaimsRemembered, Expiry
  <2>6. ForwardedOnce'
    BY <1>1, <1>5, <2>1 DEF GatewayInv, ForwardedOnce
  <2> QED BY <2>3, <2>4, <2>5, <2>6 DEF GatewayInv
<1>6. CASE /\ posts' = Fail(c) /\ handlers' = [handlers EXCEPT ![h] = Free]
           /\ UNCHANGED <<ledger, claims>>
  <2>1. PICK x \in Publish : x = c
    BY <1>1
  <2>2. posts'[x].pc = "ok" => posts[x].pc = "ok"
    BY <1>1, <1>6, <2>1, FailIsNoSuccess
  <2> QED BY <1>1, <1>6, <2>1, <2>2, HandlerEnds
<1> QED BY <1>4, <1>5, <1>6 DEF Claim

\* The push and its answer, and the death of a handler.
LEMMA ForwardKeeps ==
  ASSUME GatewayInv, NEW h \in Handler, Forward(h) \/ HandlerDies(h)
  PROVE  GatewayInv'
<1> DEFINE c == handlers[h].call
<1>1. c \in Publish /\ posts[c].pc # "new" /\ UNCHANGED <<clock, ledger, claims>>
      /\ handlers' = [handlers EXCEPT ![h] = Free]
  BY DEF GatewayInv, ExpiriesAgree, Forward, HandlerDies
<1>2. CASE HandlerDies(h)
  <2>1. PICK x \in Publish : x = c
    BY <1>1
  <2>2. UNCHANGED <<posts, broker>>
    BY <1>2 DEF HandlerDies
  <2> QED BY <1>1, <2>1, <2>2, HandlerEnds
<1>3. CASE Forward(h)
  <2>1. PICK x \in Publish : x = c
    BY <1>1
  <2>2. /\ broker' \in {broker, [broker EXCEPT ![x] = @ + 1]}
        /\ \/ broker' = [broker EXCEPT ![x] = @ + 1]
              /\ posts' \in {posts, [posts EXCEPT ![x].pc = "ok"]}
           \/ posts' = Fail(x)
    BY <1>3, <2>1 DEF Forward
  <2>3. CASE broker' = [broker EXCEPT ![x] = @ + 1]
    BY <1>1, <2>1, <2>2, <2>3, HandlerEnds
  <2>4. CASE broker' = broker /\ posts' = Fail(x)
    <3>1. posts'[x].pc = "ok" => posts[x].pc = "ok"
      BY <2>4, FailIsNoSuccess DEF GatewayInv
    <3> QED BY <1>1, <2>1, <2>4, <3>1, HandlerEnds
  <2> QED BY <2>2, <2>3, <2>4
<1> QED BY <1>2, <1>3

\* Every step of clients, network, handlers and time keeps the invariant.
THEOREM GatewayInvariance == GatewaySpec => []GatewayInv
<1>1. GatewayInv /\ [GatewayNext]_gatewayVars => GatewayInv'
  <2> SUFFICES ASSUME GatewayInv, [GatewayNext]_gatewayVars PROVE GatewayInv'
    OBVIOUS
  <2>1. CASE UNCHANGED gatewayVars
    BY <2>1 DEF gatewayVars, GatewayInv, GatewayTypeOK, ExpiriesAgree, ClaimsRemembered,
                ForwardedOnce, Expiry
  <2>2. CASE GatewayNext
    BY <2>2, GatewayTickKeeps, ClientKeeps, DeliverKeeps, ClaimStepKeeps, ForwardKeeps
       DEF GatewayNext
  <2> QED BY <2>1, <2>2
<1> QED BY <1>1, GatewayInitially, PTL DEF GatewaySpec

\* send and the ledger: of the deliveries of a request that reach the ledger while it is
\* fresh one is forwarded, and publish reports success only for a queued message.
THEOREM RequestsAreForwardedOnce == GatewaySpec => []ForwardedOnce
<1>1. GatewayInv => ForwardedOnce
  BY DEF GatewayInv
<1> QED BY <1>1, GatewayInvariance, PTL
=============================================================================
