---------------------------- MODULE HttpGateway ----------------------------
(***************************************************************************)
(* webconsumer, its ledger of used requests, and RabbitMqWebService, its     *)
(* client. A call of publish signs one request with its own nonce and the    *)
(* client's clock. The network may deliver a request several times; each     *)
(* delivery is handled by a thread or process of its own, in the steps       *)
(* verify, claim and push, and only the ledger keeps two of them apart.      *)
(***************************************************************************)
EXTENDS Integers

CONSTANTS
  Publish,      \* calls of publish; each has a nonce of its own
  Handler,      \* threads and processes of the gateway
  MaxAge,       \* RABBITMQ_GATEWAY_MAX_AGE_SECONDS
  FutureSkew,   \* RABBITMQ_GATEWAY_FUTURE_SKEW_SECONDS
  Skew,         \* how far the client's clock may be off
  GatewayHorizon,   \* bound of the model's time
  NoPublish

ASSUME GatewayAssumption ==
  /\ NoPublish \notin Publish /\ MaxAge \in Nat /\ FutureSkew \in Nat
  /\ Skew \subseteq Int /\ GatewayHorizon \in Nat

VARIABLES
  clock,
  posts,      \* what became of each call of publish, and its timestamp
  handlers,   \* what each handler does, and the expiry it computed
  ledger,     \* rabbitmq_gateway_requests: the nonces and when they expire
  broker,     \* how many copies of a message the queue received
  claims      \* history: how often each nonce was claimed before it expired

gatewayVars == <<clock, posts, handlers, ledger, broker, claims>>

Free == [pc |-> "free", call |-> NoPublish, expires |-> 0]

GatewayInit ==
  /\ clock = 0
  /\ posts = [c \in Publish |-> [pc |-> "new", issued |-> 0]]
  /\ handlers = [h \in Handler |-> Free]
  /\ ledger = {} /\ broker = [c \in Publish |-> 0] /\ claims = [c \in Publish |-> 0]

GatewayTick ==
  /\ clock < GatewayHorizon /\ clock' = clock + 1
  /\ UNCHANGED <<posts, handlers, ledger, broker, claims>>

\* publish: rabbitmq_gateway_auth_headers signs the message, which is then sent.
SendRequest(c) ==
  /\ posts[c].pc = "new"
  /\ \E skew \in Skew : posts' = [posts EXCEPT ![c] = [pc |-> "sent", issued |-> clock + skew]]
  /\ UNCHANGED <<clock, handlers, ledger, broker, claims>>

\* publish raises on every status but 204, and when no answer comes.
Fail(c) == IF posts[c].pc = "sent" THEN [posts EXCEPT ![c].pc = "failed"] ELSE posts
GiveUp(c) ==
  /\ posts[c].pc = "sent" /\ posts' = Fail(c)
  /\ UNCHANGED <<clock, handlers, ledger, broker, claims>>

\* verify_rabbitmq_gateway_hmac: the window in which a timestamp is accepted.
Fresh(issued) == clock - MaxAge <= issued /\ issued <= clock + FutureSkew
Expiry(issued) == issued + MaxAge

\* send up to the claim: the request is delivered and verified, or refused. What is
\* invalid about a message is the same in every delivery of it.
Deliver(h, c) ==
  /\ handlers[h].pc = "free" /\ posts[c].pc # "new"
  /\ \/ /\ Fresh(posts[c].issued)
        /\ handlers' = [handlers EXCEPT ![h] = [pc |-> "claim", call |-> c,
                                                expires |-> Expiry(posts[c].issued)]]
        /\ UNCHANGED posts
     \/ ~Fresh(posts[c].issued) /\ posts' = Fail(c) /\ UNCHANGED handlers
  /\ UNCHANGED <<clock, ledger, broker, claims>>

\* Faulty: a nonce is forgotten at the last moment at which its request is fresh.
PurgedEarly == {row \in ledger : row.expires <= clock}
\* claim: the rows that are deleted first.
Purged == {row \in ledger : row.expires < clock}

\* claim, one transaction: the nonce is inserted, or found, which is answered 409. An
\* error of the store is answered 503.
Claim(h) ==
  LET c == handlers[h].call
      kept == ledger \ Purged IN
  /\ handlers[h].pc = "claim"
  /\ \/ /\ \A row \in kept : row.nonce # c
        /\ ledger' = kept \cup {[nonce |-> c, expires |-> handlers[h].expires]}
        /\ claims' = IF clock <= handlers[h].expires THEN [claims EXCEPT ![c] = @ + 1] ELSE claims
        /\ handlers' = [handlers EXCEPT ![h].pc = "push"] /\ UNCHANGED posts
     \/ /\ \E row \in kept : row.nonce = c
        /\ ledger' = kept /\ posts' = Fail(c)
        /\ handlers' = [handlers EXCEPT ![h] = Free] /\ UNCHANGED claims
     \/ /\ posts' = Fail(c) /\ handlers' = [handlers EXCEPT ![h] = Free]
        /\ UNCHANGED <<ledger, claims>>
  /\ UNCHANGED <<clock, broker>>

\* push, and the answer: 204 after the broker's confirmation, 502 after an error that
\* may have come after the message was queued. The nonce stays spent.
Forward(h) ==
  LET c == handlers[h].call IN
  /\ handlers[h].pc = "push"
  /\ \/ /\ broker' = [broker EXCEPT ![c] = @ + 1]
        /\ posts' = IF posts[c].pc = "sent" THEN [posts EXCEPT ![c].pc = "ok"] ELSE posts
     \/ broker' \in {broker, [broker EXCEPT ![c] = @ + 1]} /\ posts' = Fail(c)
  /\ handlers' = [handlers EXCEPT ![h] = Free]
  /\ UNCHANGED <<clock, ledger, claims>>

\* A handler dies; the ledger survives.
HandlerDies(h) ==
  /\ handlers[h].pc # "free"
  /\ handlers' = [handlers EXCEPT ![h] = Free]
  /\ UNCHANGED <<clock, posts, ledger, broker, claims>>

GatewayNext ==
  \/ GatewayTick
  \/ \E c \in Publish : SendRequest(c) \/ GiveUp(c)
  \/ \E h \in Handler : Claim(h) \/ Forward(h) \/ HandlerDies(h) \/ \E c \in Publish : Deliver(h, c)

GatewaySpec == GatewayInit /\ [][GatewayNext]_gatewayVars

-----------------------------------------------------------------------------
\* Every variable has its type.
GatewayTypeOK ==
  /\ clock \in Nat
  /\ posts \in [Publish -> [pc : {"new", "sent", "ok", "failed"}, issued : Int]]
  /\ handlers \in [Handler -> [pc : {"free", "claim", "push"}, call : Publish \cup {NoPublish}, expires : Int]]
  /\ ledger \subseteq [nonce : Publish, expires : Int]
  /\ broker \in [Publish -> Nat]
  /\ claims \in [Publish -> Nat]

\* send and claim: of all the deliveries of one request that reach the ledger while the
\* request is fresh, only one is forwarded, however they interleave and whatever dies;
\* and publish returns only when the message is in the queue.
ForwardedOnce ==
  \A c \in Publish :
    /\ claims[c] <= 1
    /\ posts[c].pc = "ok" => broker[c] > 0
=============================================================================
