---------------------------- MODULE LiveDelivery ----------------------------
(***************************************************************************)
(* How the steps of a live session reach the outside: the rows of the      *)
(* outbox that workers publish to JetStream, the Redis stream kept for     *)
(* replay, and the events that one process broadcasts to its SSE clients.  *)
(*                                                                         *)
(* A step writes the row of the session first and tells everybody else     *)
(* afterwards, with nothing to hold the parts together.  LiveSession has   *)
(* the steps themselves; here a step is the version it gave the row, and   *)
(* two may be telling at once (the host and the auto-close timer).         *)
(***************************************************************************)
EXTENDS Naturals, Sequences, FiniteSetsExt, SequencesExt

CONSTANTS
    None,
    MaxVersion,     \* bound on the steps of the session
    Workers,        \* outbox workers, one per replica
    Steady,         \* workers whose replica keeps running
    BatchSize,      \* rows claimed at once (50 in the code)
    MaxAttempts,    \* attempts to publish an event (10 in the code)
    Clients,        \* SSE clients
    Buffer,         \* capacity of a client's channel (256 in the code)
    ReplayLen,      \* length the Redis stream is cut to (1000 in the code)
    MaxRestarts     \* bound on the restarts of the process

ASSUME DeliveryConstants ==
    /\ Steady \subseteq Workers
    /\ MaxVersion \in Nat /\ MaxAttempts \in Nat \ {0} /\ Buffer \in Nat \ {0}
    /\ BatchSize \in Nat \ {0} /\ ReplayLen \in Nat \ {0} /\ MaxRestarts \in Nat

(* None is nothing a step has to tell, and no SSE request.                 *)
ASSUME DeliveryNulls ==
    /\ None \notin {"outbox", "stream", "air"}
    /\ None \notin [step : {"read", "replay", "stream"}, snapshot : 0..MaxVersion,
                    replay : Seq(1..MaxVersion), queue : Seq(1..MaxVersion),
                    shown : 0..MaxVersion,
                    before : SUBSET (1..MaxVersion), dropped : SUBSET (1..MaxVersion)]

VARIABLES
    version,    \* state_version of live_sessions
    telling,    \* steps that have written the row: what each does next
    aired,      \* versions broadcast so far
    restarts,   \* restarts so far
    outbox,     \* events whose row exists, oldest first
    published,  \* events with published_at
    attempts,   \* attempts of each event
    broker,     \* events JetStream has
    claimed,    \* rows a worker has read and not dealt with: [at, event, attempts]
    done,       \* what it has sent and will mark
    stream,     \* Redis stream of the session: ids of domain events
    client,     \* SSE requests, by client; of the history: what was broadcast
                \* before it was registered, and what was dropped for it
    lastID      \* Last-Event-ID a client would send

sessionVars == <<version, telling, aired, restarts>>
outboxVars == <<outbox, published, attempts, broker, claimed, done>>
sseVars == <<stream, client, lastID>>
deliveryVars == <<version, telling, aired, restarts, outbox, published, attempts, broker,
                  claimed, done, stream, client, lastID>>

Events == 1..MaxVersion
IDKinds == {"domain", "broadcast", "snapshot"}  \* uuid, "evt-...", "snapshot-..."
NoID == [kind |-> "none", of |-> 0]

DeliveryInit ==
    /\ version = 0 /\ aired = {} /\ restarts = 0
    /\ telling = [e \in Events |-> None]
    /\ outbox = <<>> /\ published = {} /\ broker = {}
    /\ attempts = [e \in Events |-> 0]
    /\ claimed = [w \in Workers |-> {}] /\ done = [w \in Workers |-> <<>>]
    /\ stream = <<>>
    /\ client = [c \in Clients |-> None]
    /\ lastID = [c \in Clients |-> NoID]

-----------------------------------------------------------------------------
(* A step of the session.                                                  *)

(* UpdateSessionCAS.                                                       *)
Step ==
    /\ version < MaxVersion
    /\ version' = version + 1
    /\ telling' = [telling EXCEPT ![version + 1] = "outbox"]
    /\ UNCHANGED <<aired, restarts, outboxVars, sseVars>>

(* publishEvent: the row of the outbox; its error is only logged.          *)
StoreEvent(e, stored) ==
    /\ telling[e] = "outbox"
    /\ outbox' = IF stored THEN Append(outbox, e) ELSE outbox
    /\ telling' = [telling EXCEPT ![e] = "stream"]
    /\ UNCHANGED <<version, aired, restarts, published, attempts, broker, claimed, done, sseVars>>

LastOf(s, n) == IF Len(s) <= n THEN s ELSE SubSeq(s, Len(s) - n + 1, Len(s))

(* PublishEvent of the Redis store: XADD with MAXLEN.                      *)
StreamEvent(e, stored) ==
    /\ telling[e] = "stream"
    /\ stream' = IF stored THEN LastOf(Append(stream, e), ReplayLen) ELSE stream
    /\ telling' = [telling EXCEPT ![e] = "air"]
    /\ UNCHANGED <<version, aired, restarts, outboxVars, client, lastID>>

(* Mutant of Sent: the client is registered once its replay is written.    *)
SentAfterReplay(c, e) ==
    IF client[c] = None \/ client[c].step # "stream" THEN client[c]
    ELSE IF Len(client[c].queue) >= Buffer THEN [client[c] EXCEPT !.dropped = @ \cup {e}]
    ELSE [client[c] EXCEPT !.queue = Append(@, e)]

(* BroadcastEvent, under the read lock: only registered clients are told,  *)
(* and a full channel drops the event.                                     *)
Sent(c, e) ==
    IF client[c] = None \/ client[c].step = "read" THEN client[c]
    ELSE IF Len(client[c].queue) >= Buffer THEN [client[c] EXCEPT !.dropped = @ \cup {e}]
    ELSE [client[c] EXCEPT !.queue = Append(@, e)]

Broadcast(e) ==
    /\ telling[e] = "air"
    /\ client' = [c \in Clients |-> Sent(c, e)]
    /\ aired' = aired \cup {e}
    /\ telling' = [telling EXCEPT ![e] = None]
    /\ UNCHANGED <<version, restarts, outboxVars, stream, lastID>>

-----------------------------------------------------------------------------
(* The outbox worker.                                                      *)

(* Rows without published_at, and the oldest of them: a row of the batch   *)
(* has fewer than BatchSize of them before it.                             *)
Unpublished == {i \in DOMAIN outbox : outbox[i] \notin published}
Batch == {i \in Unpublished : Cardinality({k \in Unpublished : k < i}) < BatchSize}

(* ClaimOutboxBatch: outside a transaction FOR UPDATE SKIP LOCKED holds    *)
(* nothing once the rows are read.                                         *)
Claim(w) ==
    /\ claimed[w] = {} /\ done[w] = <<>> /\ Unpublished # {}
    /\ claimed' = [claimed EXCEPT ![w] =
           {[at |-> i, event |-> outbox[i], attempts |-> attempts[outbox[i]]] : i \in Batch}]
    /\ UNCHANGED <<sessionVars, outbox, published, attempts, broker, done, sseVars>>

(* The row whose turn it is, oldest first.                                 *)
Turn(w) == CHOOSE x \in claimed[w] : \A y \in claimed[w] : x.at <= y.at

(* Another attempt is counted, as far as the model counts.                 *)
Counted(e) == [attempts EXCEPT ![e] = Min({@ + 1, MaxAttempts + 1})]

(* MarkPublishFailed, whose own error is ignored.                          *)
Failed(e) == attempts' \in {attempts, Counted(e)}

(* Mutant of GiveUp: such an event ends the batch. *)
GiveUpStopping(w) ==
    LET x == Turn(w) IN
    /\ claimed[w] # {} /\ x.attempts >= MaxAttempts
    /\ Failed(x.event)
    /\ claimed' = [claimed EXCEPT ![w] = {}]
    /\ UNCHANGED <<sessionVars, outbox, published, broker, done, sseVars>>

(* An event that had its attempts is counted once more and left.           *)
GiveUp(w) ==
    LET x == Turn(w) IN
    /\ claimed[w] # {} /\ x.attempts >= MaxAttempts
    /\ Failed(x.event)
    /\ claimed' = [claimed EXCEPT ![w] = @ \ {x}]
    /\ UNCHANGED <<sessionVars, outbox, published, broker, done, sseVars>>

(* Mutant of Publish: the publisher of the events package, which drops an  *)
(* event and reports success while it has no connection. *)
PublishDropping(w) ==
    LET x == Turn(w) IN
    /\ claimed[w] # {} /\ x.attempts < MaxAttempts
    /\ broker' \in {broker, broker \cup {x.event}}
    /\ done' = [done EXCEPT ![w] = Append(@, x.event)]
    /\ claimed' = [claimed EXCEPT ![w] = @ \ {x}]
    /\ UNCHANGED <<sessionVars, outbox, published, attempts, sseVars>>

(* Publish: JetStream drops an id it has; a failure may hide a success.    *)
Publish(w) ==
    LET x == Turn(w) IN
    /\ claimed[w] # {} /\ x.attempts < MaxAttempts
    /\ \/ /\ broker' = broker \cup {x.event}
          /\ done' = [done EXCEPT ![w] = Append(@, x.event)] /\ UNCHANGED attempts
       \/ broker' \in {broker, broker \cup {x.event}} /\ Failed(x.event) /\ UNCHANGED done
    /\ claimed' = [claimed EXCEPT ![w] = @ \ {x}]
    /\ UNCHANGED <<sessionVars, outbox, published, sseVars>>

(* MarkPublished, one UPDATE after another; the first error ends it.       *)
MarkPublished(w) ==
    /\ claimed[w] = {} /\ done[w] # <<>>
    /\ \/ published' = published \cup {Head(done[w])} /\ done' = [done EXCEPT ![w] = Tail(@)]
       \/ UNCHANGED published /\ done' = [done EXCEPT ![w] = <<>>]
    /\ UNCHANGED <<sessionVars, outbox, attempts, broker, claimed, sseVars>>

WorkerStep(w) == Claim(w) \/ GiveUp(w) \/ Publish(w) \/ MarkPublished(w)

-----------------------------------------------------------------------------
(* SSE.                                                                    *)

(* sseStream reads the row of the session; ReplayEvents looks the last id  *)
(* of the client up among the stored domain events.  Without it, a         *)
(* snapshot is sent.                                                       *)
Found(c) == lastID[c].kind = "domain" /\ lastID[c].of \in ToSet(stream)
After(s, e) == SubSeq(s, IndexFirstSubSeq(<<e>>, s) + 1, Len(s))
Replayed(c) == IF Found(c) THEN After(stream, lastID[c].of) ELSE <<>>

Connect(c) ==
    /\ client[c] = None
    /\ client' = [client EXCEPT ![c] =
           [step |-> "read", snapshot |-> version, replay |-> Replayed(c),
            queue |-> <<>>, shown |-> 0, before |-> {}, dropped |-> {}]]
    /\ UNCHANGED <<sessionVars, outboxVars, stream, lastID>>

(* HandleSSE registers the client before it writes the replay.             *)
Register(c) ==
    /\ client[c] # None /\ client[c].step = "read"
    /\ client' = [client EXCEPT ![c].step = "replay", ![c].before = aired]
    /\ UNCHANGED <<sessionVars, outboxVars, stream, lastID>>

WriteReplay(c) ==
    LET r == client[c].replay
        top == IF r = <<>> THEN client[c].snapshot ELSE Last(r)
    IN
    /\ client[c] # None /\ client[c].step = "replay"
    /\ client' = [client EXCEPT ![c].step = "stream", ![c].shown = Max({@, top})]
    /\ lastID' = [lastID EXCEPT ![c] =
           [kind |-> IF r = <<>> THEN "snapshot" ELSE "domain", of |-> top]]
    /\ UNCHANGED <<sessionVars, outboxVars, stream>>

(* An event of the channel is written.                                     *)
WriteEvent(c) ==
    /\ client[c] # None /\ client[c].step = "stream" /\ client[c].queue # <<>>
    /\ LET e == Head(client[c].queue) IN
       /\ client' = [client EXCEPT ![c].queue = Tail(@), ![c].shown = Max({@, e})]
       /\ lastID' = [lastID EXCEPT ![c] = [kind |-> "broadcast", of |-> e]]
    /\ UNCHANGED <<sessionVars, outboxVars, stream>>

Disconnect(c) ==
    /\ client[c] # None
    /\ client' = [client EXCEPT ![c] = None]
    /\ UNCHANGED <<sessionVars, outboxVars, stream, lastID>>

(* The process stops: what was not told is not told any more.              *)
Restart ==
    /\ restarts < MaxRestarts /\ restarts' = restarts + 1
    /\ telling' = [e \in Events |-> None]
    /\ client' = [c \in Clients |-> None]
    /\ claimed' = [w \in Workers |-> {}] /\ done' = [w \in Workers |-> <<>>]
    /\ UNCHANGED <<version, aired, outbox, published, attempts, broker, stream, lastID>>

-----------------------------------------------------------------------------
DeliveryNext ==
    \/ Step \/ Restart
    \/ \E e \in Events, stored \in BOOLEAN : StoreEvent(e, stored) \/ StreamEvent(e, stored)
    \/ \E e \in Events : Broadcast(e)
    \/ \E w \in Workers : WorkerStep(w)
    \/ \E c \in Clients :
          Connect(c) \/ Register(c) \/ WriteReplay(c) \/ WriteEvent(c) \/ Disconnect(c)

(* The loop of one worker goes on for ever, an attempt of it some day      *)
(* succeeds or is counted, and a database that keeps answering some day    *)
(* marks.  Nothing is assumed of the other workers.                        *)
Progress(w) == Publish(w) /\ (done' # done \/ attempts' # attempts)
Marked(w) == MarkPublished(w) /\ published' # published

DeliveryFairness ==
    \A w \in Steady :
        /\ WF_deliveryVars(WorkerStep(w))
        /\ SF_deliveryVars(Progress(w)) /\ SF_deliveryVars(Marked(w))

DeliverySpec == DeliveryInit /\ [][DeliveryNext]_deliveryVars /\ DeliveryFairness

-----------------------------------------------------------------------------
(* Properties.                                                             *)

DeliveryTypeOK ==
    /\ version \in 0..MaxVersion /\ aired \subseteq 1..version
    /\ telling \in [Events -> {None, "outbox", "stream", "air"}]
    /\ ToSet(outbox) \subseteq 1..version /\ published \subseteq ToSet(outbox)
    /\ broker \subseteq ToSet(outbox)
    /\ attempts \in [Events -> 0..MaxAttempts + 1]
    /\ Len(stream) <= ReplayLen
    /\ \A c \in Clients : client[c] # None => Len(client[c].queue) <= Buffer

(* An event is marked published only when the broker has it, whichever of  *)
(* two workers that claimed it together sent it.                           *)
PublishedWereSent == DeliveryTypeOK /\ published \subseteq broker

(* A client that streams and has emptied its channel.                      *)
Idle(c) == client[c] # None /\ client[c].step = "stream" /\ client[c].queue = <<>>

(* Such a client was shown each version that was broadcast, or a later one,*)
(* except what its full channel dropped and what was broadcast after its   *)
(* read of the session and before its registration.  What is broadcast     *)
(* while the replay is written is not lost.                                *)
CaughtUp ==
    \A c \in Clients : Idle(c) =>
        \A e \in aired :
            \/ e <= client[c].shown \/ e \in client[c].dropped
            \/ e \in client[c].before /\ client[c].snapshot < e

(* redisstore.go, ReplayEvents: without a replay "the caller will send a   *)
(* fresh snapshot", so a client is behind only by what was dropped for it. *)
SnapshotIsFresh ==
    \A c \in Clients : Idle(c) =>
        \A e \in aired : e <= client[c].shown \/ e \in client[c].dropped

Pending(e) == e \in ToSet(outbox) /\ e \notin published
Exhausted(e) == Pending(e) /\ attempts[e] >= MaxAttempts

(* An event in the outbox reaches the broker or uses up its attempts,      *)
(* unless a batch full of older events that did stands before it.          *)
EventPublished ==
    \A e \in Events :
        Pending(e) ~> \/ e \in broker \/ Exhausted(e)
                      \/ Cardinality({x \in Events : Exhausted(x)}) >= BatchSize
=============================================================================
