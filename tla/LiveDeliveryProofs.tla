------------------------- MODULE LiveDeliveryProofs -------------------------
(***************************************************************************)
(* Delivery of the steps of a live session, for every number of steps,     *)
(* workers and clients, and every size of a batch, a channel and the       *)
(* Redis stream.                                                           *)
(***************************************************************************)
EXTENDS LiveDelivery, SequenceTheorems, NaturalsInduction, WellFoundedInduction, TLAPS

-----------------------------------------------------------------------------
(* Numbers, and sequences of events.                                       *)

\* The larger and the smaller of two numbers.
LEMMA LargerOfTwo ==
    ASSUME NEW a \in Nat, NEW b \in Nat
    PROVE  Max({a, b}) \in {a, b} /\ a <= Max({a, b}) /\ b <= Max({a, b})
  <1>1. \E m \in {a, b} : \A k \in {a, b} : m >= k
    OBVIOUS
  <1>2. Max({a, b}) \in {a, b} /\ \A k \in {a, b} : Max({a, b}) >= k
    BY <1>1 DEF Max
  <1> QED
    BY <1>2

LEMMA SmallerOfTwo ==
    ASSUME NEW a \in Nat, NEW b \in Nat
    PROVE  Min({a, b}) \in {a, b} /\ Min({a, b}) <= b
  <1>1. \E m \in {a, b} : \A k \in {a, b} : m <= k
    OBVIOUS
  <1>2. Min({a, b}) \in {a, b} /\ \A k \in {a, b} : Min({a, b}) <= k
    BY <1>1 DEF Min
  <1> QED
    BY <1>2

\* The elements of a sequence are what its positions hold.
LEMMA ElementsAtPositions ==
    ASSUME NEW S, NEW q \in Seq(S)
    PROVE  /\ Len(q) \in Nat /\ DOMAIN q = 1..Len(q)
           /\ \A i \in 1..Len(q) : q[i] \in ToSet(q) /\ q[i] \in S
           /\ \A x \in ToSet(q) : \E i \in 1..Len(q) : x = q[i]
  BY DEF ToSet

\* An event is added to the channel, to the outbox or to what is sent.
LEMMA ElementAppended ==
    ASSUME NEW S, NEW q \in Seq(S), NEW x \in S
    PROVE  /\ Append(q, x) \in Seq(S) /\ Len(Append(q, x)) = Len(q) + 1
           /\ ToSet(Append(q, x)) = ToSet(q) \cup {x}
  <1> DEFINE r == Append(q, x)
  <1>1. /\ Len(q) \in Nat /\ \A i \in 1..Len(q) : q[i] \in ToSet(q)
        /\ \A y \in ToSet(q) : \E i \in 1..Len(q) : y = q[i]
    BY ElementsAtPositions
  <1>2. /\ r \in Seq(S) /\ Len(r) = Len(q) + 1 /\ r[Len(q) + 1] = x
        /\ \A i \in 1..Len(q) : r[i] = q[i]
    BY AppendProperties
  <1> HIDE DEF r
  <1>3. /\ \A i \in 1..Len(r) : r[i] \in ToSet(r)
        /\ \A y \in ToSet(r) : \E i \in 1..Len(r) : y = r[i]
    BY <1>2, ElementsAtPositions
  <1>4. \A i \in 1..Len(r) : i \in 1..Len(q) \/ i = Len(q) + 1
    BY <1>1, <1>2
  <1>5. Len(q) + 1 \in 1..Len(r) /\ \A i \in 1..Len(q) : i \in 1..Len(r)
    BY <1>1, <1>2
  <1>6. ToSet(r) \subseteq ToSet(q) \cup {x}
    BY <1>1, <1>2, <1>3, <1>4
  <1>7. ToSet(q) \cup {x} \subseteq ToSet(r)
    BY <1>1, <1>2, <1>3, <1>5
  <1> QED
    BY <1>2, <1>6, <1>7 DEF r

\* The head of a channel is one of its events; the tail has the others.
LEMMA HeadTaken ==
    ASSUME NEW S, NEW q \in Seq(S), q # <<>>
    PROVE  /\ Head(q) \in S /\ Tail(q) \in Seq(S)
           /\ Len(q) \in Nat /\ Len(Tail(q)) \in Nat /\ Len(Tail(q)) <= Len(q)
           /\ ToSet(q) = ToSet(Tail(q)) \cup {Head(q)}
  <1> DEFINE t == Tail(q)
             h == Head(q)
  <1>1. Len(q) \in Nat \ {0} /\ h = q[1]
    BY EmptySeq
  <1>2. t \in Seq(S) /\ Len(t) = Len(q) - 1 /\ \A i \in 1..Len(t) : t[i] = q[i + 1]
    BY HeadTailProperties
  <1>3. /\ \A i \in 1..Len(q) : q[i] \in ToSet(q) /\ q[i] \in S
        /\ \A y \in ToSet(q) : \E i \in 1..Len(q) : y = q[i]
    BY ElementsAtPositions
  <1> HIDE DEF t, h
  <1>4. /\ Len(t) \in Nat /\ \A i \in 1..Len(t) : t[i] \in ToSet(t)
        /\ \A y \in ToSet(t) : \E i \in 1..Len(t) : y = t[i]
    BY <1>2, ElementsAtPositions
  <1>5. ASSUME NEW i \in 1..Len(q), i # 1 PROVE q[i] \in ToSet(t)
    <2>1. i - 1 \in 1..Len(t) /\ (i - 1) + 1 = i
      BY <1>1, <1>2, <1>5
    <2>2. t[i - 1] = q[i]
      BY <1>2, <2>1
    <2> QED
      BY <1>4, <2>1, <2>2
  <1>6. \A i \in 1..Len(t) : i + 1 \in 1..Len(q)
    BY <1>1, <1>2
  <1>7. ToSet(q) \subseteq ToSet(t) \cup {h}
    BY <1>1, <1>3, <1>5
  <1>8. ToSet(t) \cup {h} \subseteq ToSet(q)
    <2>1. \A i \in 1..Len(t) : t[i] \in ToSet(q)
      BY <1>2, <1>3, <1>6
    <2>2. h \in ToSet(q)
      BY <1>1, <1>3
    <2> QED
      BY <1>4, <2>1, <2>2
  <1>9. h \in S
    BY <1>1, <1>3
  <1> QED
    BY <1>1, <1>2, <1>4, <1>7, <1>8, <1>9 DEF t, h

\* What is left of a stream that is cut.
LEMMA CutStream ==
    ASSUME NEW S, NEW q \in Seq(S), NEW n \in Nat
    PROVE  LastOf(q, n) \in Seq(S) /\ Len(LastOf(q, n)) <= n
  <1>1. Len(q) \in Nat /\ \A i \in 1..Len(q) : q[i] \in S
    BY ElementsAtPositions
  <1>2. CASE Len(q) <= n
    BY <1>2 DEF LastOf
  <1>3. CASE ~(Len(q) <= n)
    <2> DEFINE m == Len(q) - n + 1
    <2>1. m \in Nat \ {0} /\ m >= 1
      BY <1>1, <1>3
    <2>2. \A i \in m..Len(q) : i \in 1..Len(q)
      BY <1>1, <2>1
    <2>3. \A i \in m..Len(q) : q[i] \in S
      BY <1>1, <2>2
    <2>4. LastOf(q, n) = SubSeq(q, m, Len(q))
      BY <1>3 DEF LastOf
    <2>5. Len(q) - m + 1 = n /\ (m <= Len(q) \/ n = 0)
      BY <1>1
    <2> HIDE DEF m
    <2>6. /\ SubSeq(q, m, Len(q)) \in Seq(S)
          /\ Len(SubSeq(q, m, Len(q))) = IF m <= Len(q) THEN Len(q) - m + 1 ELSE 0
      BY <1>1, <2>1, <2>2, <2>3, SubSeqProperties
    <2> QED
      BY <2>4, <2>5, <2>6
  <1> QED
    BY <1>2, <1>3

\* A set of natural numbers that is not empty has a least element.
LEMMA LeastPosition ==
    ASSUME NEW N \in SUBSET Nat, N # {}
    PROVE  \E m \in N : \A k \in N : m <= k
  <1>1. PICK m \in N : \A k \in N : ~(<<k, m>> \in OpToRel(<, Nat))
    BY NatLessThanWellFounded, WFMin
  <1>2. \A k \in N : ~(k < m) /\ k \in Nat /\ m \in Nat
    BY <1>1 DEF OpToRel
  <1>3. \A k \in N : m <= k
    BY <1>2
  <1> QED
    BY <1>3

-----------------------------------------------------------------------------
(* The inductive invariant.                                                *)

Row == [at : Nat, event : Events, attempts : 0..MaxAttempts + 1]

\* An SSE request.  Nothing is ever replayed: a client is never told the id
\* of a domain event.
Stream == [step : {"read", "replay", "stream"}, snapshot : 0..MaxVersion, replay : {<<>>},
           queue : Seq(Events), shown : 0..MaxVersion,
           before : SUBSET Events, dropped : SUBSET Events]

DeliveryTyped ==
    /\ version \in 0..MaxVersion /\ aired \subseteq 1..version
    /\ telling \in [Events -> {None, "outbox", "stream", "air"}]
    /\ outbox \in Seq(Events) /\ stream \in Seq(Events)
    /\ attempts \in [Events -> 0..MaxAttempts + 1]
    /\ claimed \in [Workers -> SUBSET Row]
    /\ done \in [Workers -> Seq(Events)]
    /\ client \in [Clients -> {None} \cup Stream]
    /\ lastID \in [Clients -> [kind : {"none", "broadcast", "snapshot"}, of : 0..MaxVersion]]

\* Only steps that were made are told, and a step is stored before a worker
\* reads it, read before it is sent, and sent before it is marked.
Told ==
    /\ \A e \in Events : telling[e] # None => e <= version
    /\ ToSet(outbox) \subseteq 1..version
    /\ \A w \in Workers : \A x \in claimed[w] : x.event \in ToSet(outbox)
    /\ broker \subseteq ToSet(outbox)
    /\ \A w \in Workers : ToSet(done[w]) \subseteq broker
    /\ published \subseteq broker

Bounded ==
    /\ Len(stream) <= ReplayLen
    /\ \A c \in Clients : client[c] # None => Len(client[c].queue) <= Buffer

\* Where a registered client has a version that was broadcast: in its snapshot,
\* in its channel or on its screen, unless it was dropped or came too early.
Sees(r, e) ==
    \/ r.step = "replay" /\ e <= r.snapshot
    \/ e \in ToSet(r.queue)
    \/ r.step = "stream" /\ e <= r.shown
    \/ e \in r.dropped
    \/ e \in r.before /\ r.snapshot < e

InSight ==
    \A c \in Clients : client[c] # None /\ client[c].step # "read" =>
        \A e \in aired : Sees(client[c], e)

DInv == DeliveryTyped /\ Told /\ Bounded /\ InSight
-----------------------------------------------------------------------------
(* The steps of the session.                                               *)

LEMMA DeliveryStart == DeliveryInit => DInv
  <1> SUFFICES ASSUME DeliveryInit PROVE DInv
    OBVIOUS
  <1> USE DeliveryConstants DEF DeliveryInit
  <1>1. ToSet(outbox) = {} /\ \A w \in Workers : ToSet(done[w]) = {}
    BY DEF ToSet
  <1>2. DeliveryTyped
    BY DEF DeliveryTyped, NoID
  <1>3. Told
    BY <1>1 DEF Told
  <1>4. Bounded /\ InSight
    BY DEF Bounded, InSight
  <1> QED
    BY <1>2, <1>3, <1>4 DEF DInv

\* None is no stage of a step and no request.
LEMMA NullsApart == None \notin {"outbox", "stream", "air"} /\ None \notin Stream
  <1>1. Stream \subseteq [step : {"read", "replay", "stream"}, snapshot : 0..MaxVersion,
                          replay : Seq(1..MaxVersion), queue : Seq(1..MaxVersion),
                          shown : 0..MaxVersion,
                          before : SUBSET (1..MaxVersion), dropped : SUBSET (1..MaxVersion)]
    <2>1. \A r : r \in {<<>>} => r \in Seq(1..MaxVersion)
      OBVIOUS
    <2> QED
      BY <2>1 DEF Stream, Events
  <1> QED
    BY <1>1, DeliveryNulls

LEMMA StepKeeps == DInv /\ Step => DInv'
  <1> SUFFICES ASSUME DInv, Step PROVE DInv'
    OBVIOUS
  <1> USE DeliveryConstants DEF DInv
  <1>1. /\ version < MaxVersion /\ version' = version + 1
        /\ telling' = [telling EXCEPT ![version + 1] = "outbox"]
        /\ UNCHANGED <<aired, restarts, outboxVars, sseVars>>
    BY DEF Step
  <1>2. version \in Nat /\ version + 1 \in 0..MaxVersion /\ 1..version \subseteq 1..version'
    BY <1>1 DEF DeliveryTyped
  <1>3. DeliveryTyped'
    BY <1>1, <1>2 DEF DeliveryTyped, outboxVars, sseVars
  <1>4. Told'
    <2>1. \A e \in Events : telling'[e] # None => e <= version'
      BY <1>1, <1>2 DEF Told, DeliveryTyped, Events
    <2> QED
      BY <1>1, <1>2, <2>1 DEF Told, outboxVars
  <1>5. Bounded' /\ InSight'
    BY <1>1 DEF Bounded, InSight, sseVars
  <1> QED
    BY <1>3, <1>4, <1>5

LEMMA StoreEventKeeps ==
    ASSUME DInv, NEW e \in Events, NEW stored \in BOOLEAN, StoreEvent(e, stored)
    PROVE  DInv'
  <1> USE DeliveryConstants DEF DInv
  <1>1. /\ telling[e] = "outbox"
        /\ outbox' = IF stored THEN Append(outbox, e) ELSE outbox
        /\ telling' = [telling EXCEPT ![e] = "stream"]
        /\ UNCHANGED <<version, aired, restarts, published, attempts, broker, claimed, done,
                       sseVars>>
    BY DEF StoreEvent
  <1>2. /\ Append(outbox, e) \in Seq(Events)
        /\ ToSet(Append(outbox, e)) = ToSet(outbox) \cup {e}
    BY ElementAppended DEF DeliveryTyped
  <1>3. DeliveryTyped'
    BY <1>1, <1>2 DEF DeliveryTyped, sseVars
  <1>4. e \in 1..version
    BY <1>1, NullsApart DEF Told, DeliveryTyped, Events
  <1>5. Told'
    <2>1. ToSet(outbox) \subseteq ToSet(outbox') /\ ToSet(outbox') \subseteq 1..version'
      BY <1>1, <1>2, <1>4 DEF Told
    <2>2. \A f \in Events : telling'[f] # None => f <= version'
      BY <1>1, <1>4, NullsApart DEF Told, DeliveryTyped
    <2> QED
      BY <1>1, <2>1, <2>2 DEF Told
  <1>6. Bounded' /\ InSight'
    BY <1>1 DEF Bounded, InSight, sseVars
  <1> QED
    BY <1>3, <1>5, <1>6

LEMMA StreamEventKeeps ==
    ASSUME DInv, NEW e \in Events, NEW stored \in BOOLEAN, StreamEvent(e, stored)
    PROVE  DInv'
  <1> USE DeliveryConstants DEF DInv
  <1>1. /\ telling[e] = "stream"
        /\ stream' = IF stored THEN LastOf(Append(stream, e), ReplayLen) ELSE stream
        /\ telling' = [telling EXCEPT ![e] = "air"]
        /\ UNCHANGED <<version, aired, restarts, outboxVars, client, lastID>>
    BY DEF StreamEvent
  <1>2. Append(stream, e) \in Seq(Events)
    BY ElementAppended DEF DeliveryTyped
  <1>3. stream' \in Seq(Events) /\ Len(stream') <= ReplayLen
    BY <1>1, <1>2, CutStream DEF DeliveryTyped, Bounded
  <1>4. DeliveryTyped'
    BY <1>1, <1>3 DEF DeliveryTyped, outboxVars
  <1>5. Told'
    <2>1. \A f \in Events : telling'[f] # None => f <= version'
      BY <1>1, NullsApart DEF Told, DeliveryTyped
    <2> QED
      BY <1>1, <2>1 DEF Told, outboxVars
  <1>6. Bounded' /\ InSight'
    BY <1>1, <1>3 DEF Bounded, InSight
  <1> QED
    BY <1>4, <1>5, <1>6

\* What a broadcast does to a request.
LEMMA SentFields ==
    ASSUME DInv, NEW c \in Clients, NEW e \in Events
    PROVE  /\ Sent(c, e) \in {None} \cup Stream
           /\ (Sent(c, e) = None) <=> (client[c] = None)
           /\ client[c] # None =>
                 /\ Len(Sent(c, e).queue) <= Buffer
                 /\ Sent(c, e).step = client[c].step
                 /\ Sent(c, e).snapshot = client[c].snapshot
                 /\ Sent(c, e).shown = client[c].shown
                 /\ Sent(c, e).before = client[c].before
                 /\ client[c].dropped \subseteq Sent(c, e).dropped
                 /\ ToSet(client[c].queue) \subseteq ToSet(Sent(c, e).queue)
                 /\ client[c].step # "read" =>
                       e \in ToSet(Sent(c, e).queue) \/ e \in Sent(c, e).dropped
  <1> USE DeliveryConstants, NullsApart DEF DInv
  <1>1. CASE client[c] = None
    BY <1>1 DEF Sent
  <1>2. CASE client[c] # None
    <2> DEFINE r == client[c]
    <2>1. /\ r \in Stream /\ r.queue \in Seq(Events) /\ Len(r.queue) <= Buffer
          /\ r.step \in {"read", "replay", "stream"} /\ r.dropped \subseteq Events
      BY <1>2 DEF DeliveryTyped, Bounded, Stream
    <2>4. CASE r.step = "read"
      BY <1>2, <2>1, <2>4 DEF Sent
    <2>2. CASE r.step # "read" /\ Len(r.queue) >= Buffer
      <3> DEFINE d == r.dropped \cup {e}
      <3>1. Sent(c, e) = [r EXCEPT !.dropped = d] /\ d \subseteq Events
        BY <1>2, <2>1, <2>2 DEF Sent
      <3>2. e \in d /\ r.dropped \subseteq d
        OBVIOUS
      <3> HIDE DEF d
      <3> QED
        BY <1>2, <2>1, <3>1, <3>2 DEF Stream
    <2>3. CASE r.step # "read" /\ ~(Len(r.queue) >= Buffer)
      <3> DEFINE q == Append(r.queue, e)
      <3>1. Sent(c, e) = [r EXCEPT !.queue = q]
        BY <1>2, <2>3 DEF Sent
      <3>2. q \in Seq(Events) /\ Len(q) = Len(r.queue) + 1 /\ ToSet(q) = ToSet(r.queue) \cup {e}
        BY <2>1, ElementAppended
      <3>3. Len(q) <= Buffer
        BY <2>1, <2>3, <3>2
      <3> HIDE DEF q
      <3> QED
        BY <1>2, <2>1, <2>3, <3>1, <3>2, <3>3 DEF Stream
    <2> QED
      BY <2>2, <2>3, <2>4
  <1> QED
    BY <1>1, <1>2

LEMMA BroadcastKeeps ==
    ASSUME DInv, NEW e \in Events, Broadcast(e)
    PROVE  DInv'
  <1> USE DeliveryConstants DEF DInv
  <1>1. /\ telling[e] = "air"
        /\ client' = [c \in Clients |-> Sent(c, e)]
        /\ aired' = aired \cup {e}
        /\ telling' = [telling EXCEPT ![e] = None]
        /\ UNCHANGED <<version, restarts, outboxVars, stream, lastID>>
    BY DEF Broadcast
  <1>2. e \in 1..version
    BY <1>1, NullsApart DEF Told, DeliveryTyped, Events
  <1>3. DeliveryTyped'
    <2>1. client' \in [Clients -> {None} \cup Stream]
      BY <1>1, SentFields
    <2> QED
      BY <1>1, <1>2, <2>1 DEF DeliveryTyped, outboxVars
  <1>4. Told'
    <2>1. \A f \in Events : telling'[f] # None => f <= version'
      BY <1>1 DEF Told, DeliveryTyped
    <2> QED
      BY <1>1, <2>1 DEF Told, outboxVars
  <1>5. Bounded'
    <2>1. \A c \in Clients : client'[c] # None => Len(client'[c].queue) <= Buffer
      BY <1>1, SentFields
    <2> QED
      BY <1>1, <2>1 DEF Bounded
  <1>6. InSight'
    <2> SUFFICES ASSUME NEW c \in Clients, client'[c] # None, client'[c].step # "read",
                        NEW f \in aired'
                 PROVE  Sees(client'[c], f)
      BY DEF InSight, Sees
    <2> DEFINE new == Sent(c, e)
    <2>1. client'[c] = new
      BY <1>1
    <2>2. /\ client[c] # None /\ new.step = client[c].step /\ new.before = client[c].before
          /\ new.snapshot = client[c].snapshot /\ new.shown = client[c].shown
          /\ client[c].dropped \subseteq new.dropped /\ client[c].step # "read"
          /\ ToSet(client[c].queue) \subseteq ToSet(new.queue)
          /\ e \in ToSet(new.queue) \/ e \in new.dropped
      BY <2>1, SentFields
    <2> HIDE DEF new
    <2>3. CASE f = e
      BY <2>1, <2>2, <2>3 DEF Sees
    <2>4. CASE f \in aired
      BY <2>1, <2>2, <2>4 DEF InSight, Sees
    <2> QED
      BY <1>1, <2>3, <2>4
  <1> QED
    BY <1>3, <1>4, <1>5, <1>6
-----------------------------------------------------------------------------
(* The worker.                                                             *)

LEMMA ClaimKeeps ==
    ASSUME DInv, NEW w \in Workers, Claim(w)
    PROVE  DInv'
  <1> USE DEF DInv
  <1> DEFINE row(i) == [at |-> i, event |-> outbox[i], attempts |-> attempts[outbox[i]]]
             rows == {row(i) : i \in Batch}
  <1>1. /\ claimed' = [claimed EXCEPT ![w] = rows]
        /\ UNCHANGED <<sessionVars, outbox, published, attempts, broker, done, sseVars>>
    BY DEF Claim
  <1>2. \A i \in Batch : i \in 1..Len(outbox)
    BY ElementsAtPositions DEF Batch, Unpublished, DeliveryTyped
  <1>3. \A i \in Batch : outbox[i] \in Events /\ outbox[i] \in ToSet(outbox) /\ i \in Nat
    BY <1>2, ElementsAtPositions DEF DeliveryTyped
  <1>4. \A i \in Batch : row(i) \in Row /\ row(i).event \in ToSet(outbox)
    BY <1>3 DEF DeliveryTyped, Row
  <1> HIDE DEF row
  <1>5. rows \in SUBSET Row /\ \A x \in rows : x.event \in ToSet(outbox)
    BY <1>4
  <1> HIDE DEF rows
  <1>6. DeliveryTyped'
    BY <1>1, <1>5 DEF DeliveryTyped, sessionVars, sseVars
  <1>7. Told'
    BY <1>1, <1>5 DEF Told, DeliveryTyped, sessionVars
  <1>8. Bounded' /\ InSight'
    BY <1>1 DEF Bounded, InSight, sessionVars, sseVars
  <1> QED
    BY <1>6, <1>7, <1>8

\* The row whose turn it is was claimed.
LEMMA TurnClaimed ==
    ASSUME DInv, NEW w \in Workers, claimed[w] # {}
    PROVE  Turn(w) \in claimed[w] /\ Turn(w) \in Row /\ Turn(w).event \in ToSet(outbox)
  <1> USE DEF DInv
  <1> DEFINE positions == {x.at : x \in claimed[w]}
  <1>1. claimed[w] \subseteq Row /\ \A x \in claimed[w] : x.at \in Nat
    BY DEF DeliveryTyped, Row
  <1>2. positions \in SUBSET Nat /\ positions # {}
    BY <1>1
  <1>3. PICK m \in positions : \A k \in positions : m <= k
    BY <1>2, LeastPosition
  <1>4. \E x \in claimed[w] : \A y \in claimed[w] : x.at <= y.at
    BY <1>3
  <1>5. Turn(w) \in claimed[w]
    BY <1>4 DEF Turn
  <1> QED
    BY <1>1, <1>5 DEF Told

\* An attempt that is counted, or not.
LEMMA AttemptCounted ==
    ASSUME DInv, NEW e \in Events, Failed(e)
    PROVE  attempts' \in [Events -> 0..MaxAttempts + 1]
  <1> USE DeliveryConstants DEF DInv
  <1> DEFINE n == attempts[e] + 1
             m == MaxAttempts + 1
  <1>1. attempts \in [Events -> 0..MaxAttempts + 1] /\ n \in Nat /\ m \in Nat
    BY DEF DeliveryTyped
  <1>2. Counted(e) = [attempts EXCEPT ![e] = Min({n, m})]
    BY DEF Counted
  <1>3. attempts' \in {attempts, Counted(e)}
    BY DEF Failed
  <1> HIDE DEF n
  <1>4. Min({n, m}) \in {n, m} /\ Min({n, m}) <= m
    BY <1>1, SmallerOfTwo
  <1>5. Min({n, m}) \in 0..m
    BY <1>1, <1>4
  <1> QED
    BY <1>1, <1>2, <1>3, <1>5

\* A worker that has dealt with a row, whatever it had to count, to send and
\* to mark for it.
LEMMA RowDealtWith ==
    ASSUME DInv, NEW w \in Workers, NEW rows \in SUBSET claimed[w],
           claimed' = [claimed EXCEPT ![w] = rows],
           attempts' \in [Events -> 0..MaxAttempts + 1],
           NEW sent \in SUBSET ToSet(outbox), broker' = broker \cup sent,
           NEW marks \in Seq(Events), done' = [done EXCEPT ![w] = marks],
           ToSet(marks) \subseteq broker',
           published \subseteq published', published' \subseteq broker',
           UNCHANGED <<sessionVars, outbox, sseVars>>
    PROVE  DInv'
  <1> USE DEF DInv
  <1>1. rows \subseteq Row /\ \A x \in rows : x.event \in ToSet(outbox)
    BY DEF DeliveryTyped, Told
  <1>2. claimed' \in [Workers -> SUBSET Row] /\ done' \in [Workers -> Seq(Events)]
    BY <1>1 DEF DeliveryTyped
  <1>3. DeliveryTyped'
    BY <1>2 DEF DeliveryTyped, sessionVars, sseVars
  <1>4. \A v \in Workers : ToSet(done'[v]) \subseteq broker'
    BY DEF Told, DeliveryTyped
  <1>5. \A v \in Workers : \A x \in claimed'[v] : x.event \in ToSet(outbox')
    BY <1>1 DEF Told, DeliveryTyped
  <1>6. Told'
    BY <1>4, <1>5 DEF Told, sessionVars
  <1>7. Bounded' /\ InSight'
    BY DEF Bounded, InSight, sessionVars, sseVars
  <1> QED
    BY <1>3, <1>6, <1>7

LEMMA GiveUpKeeps ==
    ASSUME DInv, NEW w \in Workers, GiveUp(w)
    PROVE  DInv'
  <1> DEFINE x == Turn(w)
             rows == claimed[w] \ {x}
  <1>1. /\ claimed[w] # {} /\ Failed(x.event)
        /\ claimed' = [claimed EXCEPT ![w] = rows]
        /\ UNCHANGED <<sessionVars, outbox, published, broker, done, sseVars>>
    BY DEF GiveUp
  <1>2. x \in Row /\ x.event \in Events
    BY <1>1, TurnClaimed DEF Row
  <1>3. attempts' \in [Events -> 0..MaxAttempts + 1]
    BY <1>1, <1>2, AttemptCounted
  <1>4. /\ done[w] \in Seq(Events) /\ done' = [done EXCEPT ![w] = done[w]]
        /\ ToSet(done[w]) \subseteq broker' /\ published \subseteq broker'
    BY <1>1 DEF DInv, DeliveryTyped, Told
  <1>5. broker' = broker \cup {} /\ {} \in SUBSET ToSet(outbox) /\ published' = published
    BY <1>1
  <1>6. rows \in SUBSET claimed[w]
    OBVIOUS
  <1> HIDE DEF x, rows
  <1> QED
    BY <1>1, <1>3, <1>4, <1>5, <1>6, RowDealtWith

LEMMA PublishKeeps ==
    ASSUME DInv, NEW w \in Workers, Publish(w)
    PROVE  DInv'
  <1> DEFINE x == Turn(w)
             rows == claimed[w] \ {x}
  <1>1. /\ claimed[w] # {}
        /\ \/ /\ broker' = broker \cup {x.event}
              /\ done' = [done EXCEPT ![w] = Append(@, x.event)] /\ UNCHANGED attempts
           \/ broker' \in {broker, broker \cup {x.event}} /\ Failed(x.event) /\ UNCHANGED done
        /\ claimed' = [claimed EXCEPT ![w] = rows]
        /\ UNCHANGED <<sessionVars, outbox, published, sseVars>>
    BY DEF Publish
  <1>2. x \in Row /\ x.event \in Events /\ x.event \in ToSet(outbox)
    BY <1>1, TurnClaimed DEF Row
  <1>3. rows \in SUBSET claimed[w]
    OBVIOUS
  <1>4. /\ done \in [Workers -> Seq(Events)] /\ ToSet(done[w]) \subseteq broker
        /\ published \subseteq broker /\ attempts \in [Events -> 0..MaxAttempts + 1]
    BY DEF DInv, DeliveryTyped, Told
  <1> HIDE DEF x, rows
  <1>5. CASE /\ broker' = broker \cup {x.event}
             /\ done' = [done EXCEPT ![w] = Append(@, x.event)] /\ UNCHANGED attempts
    <2> DEFINE marks == Append(done[w], x.event)
    <2>1. marks \in Seq(Events) /\ ToSet(marks) = ToSet(done[w]) \cup {x.event}
      BY <1>2, <1>4, ElementAppended
    <2>2. done' = [done EXCEPT ![w] = marks]
      BY <1>5
    <2> HIDE DEF marks
    <2>3. ToSet(marks) \subseteq broker' /\ published' = published /\ published \subseteq broker'
      BY <1>1, <1>4, <1>5, <2>1
    <2> QED
      BY <1>1, <1>2, <1>3, <1>4, <1>5, <2>1, <2>2, <2>3, RowDealtWith
  <1>6. CASE broker' \in {broker, broker \cup {x.event}} /\ Failed(x.event) /\ UNCHANGED done
    <2>1. attempts' \in [Events -> 0..MaxAttempts + 1]
      BY <1>2, <1>6, AttemptCounted
    <2>2. PICK sent \in SUBSET ToSet(outbox) : broker' = broker \cup sent
      <3>1. broker' = broker \cup {} \/ broker' = broker \cup {x.event}
        BY <1>6
      <3> QED
        BY <1>2, <3>1
    <2>3. /\ done[w] \in Seq(Events) /\ done' = [done EXCEPT ![w] = done[w]]
          /\ ToSet(done[w]) \subseteq broker' /\ published' = published
          /\ published \subseteq broker'
      BY <1>1, <1>4, <1>6, <2>2
    <2> QED
      BY <1>1, <1>3, <2>1, <2>2, <2>3, RowDealtWith
  <1> QED
    BY <1>1, <1>5, <1>6

LEMMA MarkPublishedKeeps ==
    ASSUME DInv, NEW w \in Workers, MarkPublished(w)
    PROVE  DInv'
  <1>1. /\ done[w] # <<>>
        /\ \/ /\ published' = published \cup {Head(done[w])}
              /\ done' = [done EXCEPT ![w] = Tail(@)]
           \/ UNCHANGED published /\ done' = [done EXCEPT ![w] = <<>>]
        /\ UNCHANGED <<sessionVars, outbox, attempts, broker, claimed, sseVars>>
    BY DEF MarkPublished
  <1>2. /\ done \in [Workers -> Seq(Events)] /\ ToSet(done[w]) \subseteq broker
        /\ published \subseteq broker /\ attempts' \in [Events -> 0..MaxAttempts + 1]
        /\ claimed' = [claimed EXCEPT ![w] = claimed[w]] /\ claimed[w] \in SUBSET claimed[w]
        /\ broker' = broker \cup {} /\ {} \in SUBSET ToSet(outbox)
    BY <1>1 DEF DInv, DeliveryTyped, Told
  <1>3. /\ Tail(done[w]) \in Seq(Events)
        /\ ToSet(done[w]) = ToSet(Tail(done[w])) \cup {Head(done[w])}
    BY <1>1, <1>2, HeadTaken
  <1>4. <<>> \in Seq(Events) /\ ToSet(<<>>) = {}
    BY DEF ToSet
  <1>5. CASE published' = published \cup {Head(done[w])} /\ done' = [done EXCEPT ![w] = Tail(@)]
    <2> DEFINE marks == Tail(done[w])
    <2>1. done' = [done EXCEPT ![w] = marks] /\ marks \in Seq(Events)
      BY <1>3, <1>5
    <2>2. ToSet(marks) \subseteq broker'
      BY <1>1, <1>2, <1>3
    <2>3. published \subseteq published' /\ published' \subseteq broker'
      BY <1>1, <1>2, <1>3, <1>5
    <2> HIDE DEF marks
    <2> QED
      BY <1>1, <1>2, <2>1, <2>2, <2>3, RowDealtWith
  <1>6. CASE UNCHANGED published /\ done' = [done EXCEPT ![w] = <<>>]
    BY <1>1, <1>2, <1>4, <1>6, RowDealtWith
  <1> QED
    BY <1>1, <1>5, <1>6
-----------------------------------------------------------------------------
(* The requests.                                                           *)

\* A request within the bound of its channel that sees all that was broadcast,
\* once it is registered.
Shows(r) ==
    /\ Len(r.queue) <= Buffer
    /\ r.step # "read" => \A e \in aired : Sees(r, e)

\* So are the requests that are there; what else a step does with the
\* request of one client, and the id it keeps, matters to nobody else.
LEMMA RequestChanged ==
    ASSUME DInv, NEW c \in Clients, NEW r \in {None} \cup Stream,
           client' = [client EXCEPT ![c] = r], r # None => Shows(r),
           lastID' \in [Clients -> [kind : {"none", "broadcast", "snapshot"}, of : 0..MaxVersion]],
           UNCHANGED <<sessionVars, outboxVars, stream>>
    PROVE  DInv'
  <1> USE DEF DInv
  <1>1. DeliveryTyped'
    BY DEF DeliveryTyped, sessionVars, outboxVars
  <1>2. Told'
    BY DEF Told, sessionVars, outboxVars
  <1>3. \A d \in Clients : client'[d] = IF d = c THEN r ELSE client[d]
    BY DEF DeliveryTyped
  <1>4. Bounded'
    BY <1>3 DEF Bounded, Shows
  <1>5. InSight'
    <2> SUFFICES ASSUME NEW d \in Clients, client'[d] # None, client'[d].step # "read",
                        NEW e \in aired
                 PROVE  Sees(client'[d], e)
      BY DEF InSight, Sees, sessionVars
    <2>1. CASE d = c
      BY <1>3, <2>1 DEF Shows
    <2>2. CASE d # c
      BY <1>3, <2>2 DEF InSight
    <2> QED
      BY <2>1, <2>2
  <1> QED
    BY <1>1, <1>2, <1>4, <1>5

\* What is known of a request.
LEMMA RequestFields ==
    ASSUME DInv, NEW c \in Clients, client[c] # None
    PROVE  /\ client[c] \in Stream /\ Shows(client[c])
           /\ client[c].queue \in Seq(Events) /\ client[c].replay = <<>>
           /\ client[c].snapshot \in 0..MaxVersion /\ client[c].shown \in 0..MaxVersion
           /\ client[c].step \in {"read", "replay", "stream"}
  <1> USE DEF DInv
  <1>1. client[c] \in Stream
    BY DEF DeliveryTyped
  <1>2. Shows(client[c])
    BY DEF Shows, Bounded, InSight
  <1> QED
    BY <1>1, <1>2 DEF Stream

LEMMA ConnectKeeps ==
    ASSUME DInv, NEW c \in Clients, Connect(c)
    PROVE  DInv'
  <1> DEFINE r == [step |-> "read", snapshot |-> version, replay |-> <<>>,
                   queue |-> <<>>, shown |-> 0, before |-> {}, dropped |-> {}]
  <1>1. version \in 0..MaxVersion /\ aired \subseteq 1..version /\ MaxVersion \in Nat
    BY DeliveryConstants DEF DInv, DeliveryTyped
  <1>2. Replayed(c) = <<>>
    BY DEF Replayed, Found, DInv, DeliveryTyped
  <1>3. client' = [client EXCEPT ![c] = r] /\ UNCHANGED <<sessionVars, outboxVars, stream, lastID>>
    BY <1>2 DEF Connect
  <1>4. r \in Stream
    BY <1>1 DEF Stream
  <1>5. Shows(r)
    BY DeliveryConstants DEF Shows
  <1>6. lastID' \in [Clients -> [kind : {"none", "broadcast", "snapshot"}, of : 0..MaxVersion]]
    BY <1>3 DEF DInv, DeliveryTyped
  <1> HIDE DEF r
  <1> QED
    BY <1>3, <1>4, <1>5, <1>6, RequestChanged

LEMMA RegisterKeeps ==
    ASSUME DInv, NEW c \in Clients, Register(c)
    PROVE  DInv'
  <1> DEFINE old == client[c]
             r == [old EXCEPT !.step = "replay", !.before = aired]
  <1>1. /\ old # None /\ old.step = "read" /\ client' = [client EXCEPT ![c] = r]
        /\ UNCHANGED <<sessionVars, outboxVars, stream, lastID>>
    BY DEF Register
  <1>2. /\ old \in Stream /\ Shows(old) /\ old.snapshot \in Nat
        /\ aired \subseteq Events /\ aired \subseteq Nat
    <2>1. old \in Stream /\ Shows(old) /\ old.snapshot \in 0..MaxVersion
      BY <1>1, RequestFields
    <2>2. version \in 0..MaxVersion /\ aired \subseteq 1..version
      BY DEF DInv, DeliveryTyped
    <2> QED  BY <2>1, <2>2, DeliveryConstants DEF Events
  <1> HIDE DEF old
  <1>3. r \in Stream
    BY <1>2 DEF Stream
  <1>4. /\ r.step = "replay" /\ r.snapshot = old.snapshot /\ r.queue = old.queue
        /\ r.before = aired
    BY <1>2 DEF Stream
  <1> HIDE DEF r
  <1>5. Shows(r)
    <2>1. \A e \in aired : e <= r.snapshot \/ r.snapshot < e
      BY <1>2, <1>4
    <2> QED
      BY <1>2, <1>4, <2>1 DEF Shows, Sees
  <1>6. lastID' \in [Clients -> [kind : {"none", "broadcast", "snapshot"}, of : 0..MaxVersion]]
    BY <1>1 DEF DInv, DeliveryTyped
  <1> QED
    BY <1>1, <1>3, <1>5, <1>6, RequestChanged

LEMMA WriteReplayKeeps ==
    ASSUME DInv, NEW c \in Clients, WriteReplay(c)
    PROVE  DInv'
  <1> DEFINE old == client[c]
             m == Max({old.shown, old.snapshot})
             r == [old EXCEPT !.step = "stream", !.shown = m]
  <1>1. old # None /\ old.step = "replay"
    BY DEF WriteReplay
  <1>2. /\ old \in Stream /\ Shows(old) /\ old.replay = <<>>
        /\ old.snapshot \in 0..MaxVersion /\ old.shown \in 0..MaxVersion
    BY <1>1, RequestFields
  <1>3. /\ client' = [client EXCEPT ![c] = r]
        /\ lastID' = [lastID EXCEPT ![c] = [kind |-> "snapshot", of |-> old.snapshot]]
        /\ UNCHANGED <<sessionVars, outboxVars, stream>>
    <2>1. /\ client' = [client EXCEPT ![c].step = "stream", ![c].shown = m]
          /\ lastID' = [lastID EXCEPT ![c] = [kind |-> "snapshot", of |-> old.snapshot]]
          /\ UNCHANGED <<sessionVars, outboxVars, stream>>
      BY <1>2 DEF WriteReplay
    <2>2. client \in [Clients -> {None} \cup Stream]
      BY DEF DInv, DeliveryTyped
    <2> HIDE DEF m
    <2> QED
      BY <1>2, <2>1, <2>2 DEF Stream
  <1> HIDE DEF old
  <1>4. MaxVersion \in Nat /\ old.shown \in Nat /\ old.snapshot \in Nat
    BY <1>2, DeliveryConstants
  <1>5. m \in {old.shown, old.snapshot} /\ old.shown <= m /\ old.snapshot <= m
    BY <1>4, LargerOfTwo
  <1>6. m \in 0..MaxVersion /\ m \in Nat
    BY <1>2, <1>4, <1>5
  <1> HIDE DEF m
  <1>7. r \in Stream
    BY <1>2, <1>6 DEF Stream
  <1>8. /\ r.step = "stream" /\ r.shown = m /\ r.queue = old.queue
        /\ r.before = old.before /\ r.dropped = old.dropped /\ r.snapshot = old.snapshot
    BY <1>2 DEF Stream
  <1> HIDE DEF r
  <1>9. Shows(r)
    <2> SUFFICES ASSUME NEW e \in aired
                 PROVE  Sees(r, e)
      BY <1>2, <1>8 DEF Shows
    <2>1. e \in Nat
      BY DeliveryConstants DEF DInv, DeliveryTyped
    <2>2. Sees(old, e)
      BY <1>1, <1>2 DEF Shows
    <2>3. e <= old.snapshot => e <= m
      BY <1>4, <1>5, <1>6, <2>1
    <2> QED
      BY <1>1, <1>8, <2>2, <2>3 DEF Sees
  <1>10. lastID' \in [Clients -> [kind : {"none", "broadcast", "snapshot"}, of : 0..MaxVersion]]
    BY <1>2, <1>3 DEF DInv, DeliveryTyped
  <1> QED
    BY <1>3, <1>7, <1>9, <1>10, RequestChanged

LEMMA WriteEventKeeps ==
    ASSUME DInv, NEW c \in Clients, WriteEvent(c)
    PROVE  DInv'
  <1> DEFINE old == client[c]
             h == Head(old.queue)
             q == Tail(old.queue)
             m == Max({old.shown, h})
             r == [old EXCEPT !.queue = q, !.shown = m]
  <1>1. old # None /\ old.step = "stream" /\ old.queue # <<>>
    BY DEF WriteEvent
  <1>2. /\ old \in Stream /\ Shows(old) /\ old.queue \in Seq(Events)
        /\ old.shown \in 0..MaxVersion
    BY <1>1, RequestFields
  <1>3. /\ client' = [client EXCEPT ![c] = r]
        /\ lastID' = [lastID EXCEPT ![c] = [kind |-> "broadcast", of |-> h]]
        /\ UNCHANGED <<sessionVars, outboxVars, stream>>
    <2>1. /\ client' = [client EXCEPT ![c].queue = q, ![c].shown = m]
          /\ lastID' = [lastID EXCEPT ![c] = [kind |-> "broadcast", of |-> h]]
          /\ UNCHANGED <<sessionVars, outboxVars, stream>>
      BY DEF WriteEvent
    <2>2. client \in [Clients -> {None} \cup Stream]
      BY DEF DInv, DeliveryTyped
    <2> HIDE DEF m, h, q
    <2> QED
      BY <1>2, <2>1, <2>2 DEF Stream
  <1> HIDE DEF old
  <1>4. /\ h \in Events /\ q \in Seq(Events)
        /\ Len(old.queue) \in Nat /\ Len(q) \in Nat /\ Len(q) <= Len(old.queue)
        /\ ToSet(old.queue) = ToSet(q) \cup {h}
    BY <1>1, <1>2, HeadTaken
  <1> HIDE DEF h, q
  <1>5. MaxVersion \in Nat /\ old.shown \in Nat /\ h \in Nat /\ h \in 0..MaxVersion
    BY <1>2, <1>4, DeliveryConstants DEF Events
  <1>6. m \in {old.shown, h} /\ old.shown <= m /\ h <= m
    BY <1>5, LargerOfTwo
  <1>7. m \in 0..MaxVersion /\ m \in Nat
    BY <1>2, <1>5, <1>6
  <1> HIDE DEF m
  <1>8. r \in Stream
    BY <1>2, <1>4, <1>7 DEF Stream
  <1>9. /\ r.step = "stream" /\ r.shown = m /\ r.queue = q
        /\ r.before = old.before /\ r.dropped = old.dropped /\ r.snapshot = old.snapshot
    BY <1>1, <1>2 DEF Stream
  <1> HIDE DEF r
  <1>10. Shows(r)
    <2>1. Len(q) <= Buffer
      BY <1>2, <1>4, DeliveryConstants DEF Shows
    <2>2. ASSUME NEW e \in aired PROVE Sees(r, e)
      <3>1. e \in Nat
        BY DeliveryConstants DEF DInv, DeliveryTyped
      <3>2. Sees(old, e)
        BY <1>1, <1>2, <2>2 DEF Shows
      <3>3. e \in ToSet(old.queue) \/ e <= old.shown => e \in ToSet(q) \/ e <= m
        BY <1>4, <1>5, <1>6, <1>7, <3>1
      <3> QED
        BY <1>1, <1>9, <3>2, <3>3 DEF Sees
    <2> QED
      BY <1>9, <2>1, <2>2 DEF Shows
  <1>11. lastID' \in [Clients -> [kind : {"none", "broadcast", "snapshot"}, of : 0..MaxVersion]]
    BY <1>3, <1>5 DEF DInv, DeliveryTyped
  <1> QED
    BY <1>3, <1>8, <1>10, <1>11, RequestChanged

LEMMA DisconnectKeeps ==
    ASSUME DInv, NEW c \in Clients, Disconnect(c)
    PROVE  DInv'
  <1>1. client' = [client EXCEPT ![c] = None] /\ UNCHANGED <<sessionVars, outboxVars, stream, lastID>>
    BY DEF Disconnect
  <1>2. lastID' \in [Clients -> [kind : {"none", "broadcast", "snapshot"}, of : 0..MaxVersion]]
    BY <1>1 DEF DInv, DeliveryTyped
  <1> QED
    BY <1>1, <1>2, RequestChanged

\* The process stops: what it was doing is gone, what it had written stays.
LEMMA RestartKeeps ==
    ASSUME DInv, Restart
    PROVE  DInv'
  <1> USE DEF DInv
  <1>1. /\ telling' = [e \in Events |-> None] /\ client' = [c \in Clients |-> None]
        /\ claimed' = [w \in Workers |-> {}] /\ done' = [w \in Workers |-> <<>>]
        /\ UNCHANGED <<version, aired, outbox, published, attempts, broker, stream, lastID>>
    BY DEF Restart
  <1>2. ToSet(<<>>) = {} /\ <<>> \in Seq(Events)
    BY DEF ToSet
  <1>3. DeliveryTyped'
    BY <1>1, <1>2 DEF DeliveryTyped
  <1>4. Told'
    BY <1>1, <1>2 DEF Told
  <1>5. Bounded' /\ InSight'
    BY <1>1 DEF Bounded, InSight
  <1> QED
    BY <1>3, <1>4, <1>5

-----------------------------------------------------------------------------
(* The theorems.                                                           *)

LEMMA DInvStep == DInv /\ [DeliveryNext]_deliveryVars => DInv'
  <1> SUFFICES ASSUME DInv, [DeliveryNext]_deliveryVars PROVE DInv'
    OBVIOUS
  <1>1. CASE Step
    BY <1>1, StepKeeps
  <1>2. CASE Restart
    BY <1>2, RestartKeeps
  <1>3. CASE \E e \in Events, stored \in BOOLEAN : StoreEvent(e, stored) \/ StreamEvent(e, stored)
    BY <1>3, StoreEventKeeps, StreamEventKeeps
  <1>4. CASE \E e \in Events : Broadcast(e)
    BY <1>4, BroadcastKeeps
  <1>5. CASE \E w \in Workers : WorkerStep(w)
    BY <1>5, ClaimKeeps, GiveUpKeeps, PublishKeeps, MarkPublishedKeeps DEF WorkerStep
  <1>6. CASE \E c \in Clients : \/ Connect(c) \/ Register(c) \/ WriteReplay(c)
                                \/ WriteEvent(c) \/ Disconnect(c)
    BY <1>6, ConnectKeeps, RegisterKeeps, WriteReplayKeeps, WriteEventKeeps, DisconnectKeeps
  <1>7. CASE UNCHANGED deliveryVars
    BY <1>7 DEF deliveryVars, DInv, DeliveryTyped, Told, Bounded, InSight
  <1> QED
    BY <1>1, <1>2, <1>3, <1>4, <1>5, <1>6, <1>7 DEF DeliveryNext

LEMMA DInvAlways == DeliverySpec => []DInv
  <1>1. DeliverySpec => DeliveryInit /\ [][DeliveryNext]_deliveryVars
    BY DEF DeliverySpec
  <1> QED
    BY <1>1, DeliveryStart, DInvStep, PTL

\* An event is marked published only when JetStream has it, whichever of the
\* workers that claimed it together sent it, and only what a step wrote is
\* ever told (ClaimOutboxBatch, MarkPublished, publishEvent).
THEOREM OnlySentIsMarked == DeliverySpec => []PublishedWereSent
  <1>1. DInv => PublishedWereSent
    BY DEF DInv, DeliveryTyped, Told, Bounded, PublishedWereSent, DeliveryTypeOK
  <1> QED
    BY <1>1, DInvAlways, PTL

\* A client of the event stream whose channel is empty was shown every version
\* broadcast, or a later one, except those its full channel dropped and those
\* broadcast between its read of the session and its registration: the replay and
\* what is broadcast while it is written leave no gap (sseStream, HandleSSE,
\* BroadcastEvent).
THEOREM ClientsCatchUp == DeliverySpec => []CaughtUp
  <1>1. ToSet(<<>>) = {}
    BY DEF ToSet
  <1>2. DInv => CaughtUp
    BY <1>1 DEF DInv, InSight, Sees, Idle, CaughtUp
  <1> QED
    BY <1>2, DInvAlways, PTL
=============================================================================
