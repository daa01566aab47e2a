--------------------------- MODULE MCLiveDelivery ---------------------------
(* "outbox": two workers and the events of three steps, one more than a    *)
(* batch; "sse": a client of a session that makes two steps.               *)
EXTENDS LiveDelivery

CONSTANTS w1, w2, c1

VARIABLE scenario
mcVars == <<deliveryVars, scenario>>

MCWorkers == {w1, w2}
MCSteady == {w1}
MCClients == {c1}

MCInit ==
    \/ scenario = "sse" /\ DeliveryInit
    \/ /\ scenario = "outbox"
       /\ version = MaxVersion /\ aired = {} /\ restarts = 0
       /\ telling = [e \in Events |-> None]
       /\ outbox = [e \in Events |-> e] /\ published = {} /\ broker = {}
       /\ attempts = [e \in Events |-> 0]
       /\ claimed = [w \in Workers |-> {}] /\ done = [w \in Workers |-> <<>>]
       /\ stream = <<>>
       /\ client = [c \in Clients |-> None]
       /\ lastID = [c \in Clients |-> NoID]

MCStep == version < 2 /\ Step /\ UNCHANGED scenario
MCRestart == Restart /\ UNCHANGED scenario
MCTell == /\ \E e \in Events, stored \in BOOLEAN : StoreEvent(e, stored) \/ StreamEvent(e, stored)
          /\ UNCHANGED scenario
MCAir == (\E e \in Events : Broadcast(e)) /\ UNCHANGED scenario
MCWorker ==
    /\ scenario = "outbox" /\ UNCHANGED scenario
    /\ \E w \in Workers : WorkerStep(w)
MCClient ==
    /\ scenario = "sse" /\ UNCHANGED scenario
    /\ \E c \in Clients :
          Connect(c) \/ Register(c) \/ WriteReplay(c) \/ WriteEvent(c) \/ Disconnect(c)

MCNext == MCStep \/ MCRestart \/ MCTell \/ MCAir \/ MCWorker \/ MCClient

MCSpec == MCInit /\ [][MCNext]_mcVars /\ DeliveryFairness
=============================================================================
