---------------------------- MODULE CaptureIngressProofs ----------------------------
(***************************************************************************)
(* Proofs about CaptureIngress for every set of connections and messages   *)
(* and every capacity of the queue.                                        *)
(***************************************************************************)
EXTENDS CaptureIngress, CaptureHubProofs

-----------------------------------------------------------------------------------
(* The inductive invariant: the types, what a task knows of itself, that    *)
(* the queue and the waiting tasks agree, the count of the connected        *)
(* sources, and who will end what is in flight.                             *)

Live == {"open", "stamped", "waiting", "closing"}

Counted == {c \in Connections : phase[c] \in Live}

IngressFields ==
  /\ now \in Times
  /\ phase \in [Connections -> Phase]
  /\ sourceOf \in [Connections -> Sources \cup {None}]
  /\ errors \in [Connections -> 0 .. 3]
  /\ stamped \in [Connections -> IngressMessage \cup {None}]
  /\ stamp \in [Connections -> Times]
  /\ ingestQueue \in Seq([connection : Connections, capture : IngressMessage, receivedAt : Times])
  /\ answer \in [Connections -> Answer]
  /\ processing \in BOOLEAN
  /\ cutShort \subseteq Sources
  /\ clockSetBack \in BOOLEAN

TasksKnow ==
  \A c \in Connections :
    /\ phase[c] \in Live \cup {"leaving"} => sourceOf[c] \in Sources
    /\ phase[c] \in {"connecting", "open", "stamped", "waiting"} => errors[c] < 3
    /\ phase[c] = "stamped" => stamped[c] \in IngressMessage
    /\ ~clockSetBack => stamp[c] <= now

QueueMatchesTasks ==
  /\ \A i \in DOMAIN ingestQueue :
       /\ ~clockSetBack => ingestQueue[i].receivedAt <= now
       /\ phase[ingestQueue[i].connection] = "waiting"
       /\ answer[ingestQueue[i].connection] = "none"
  /\ \A i, j \in DOMAIN ingestQueue :
       ingestQueue[i].connection = ingestQueue[j].connection => i = j
  /\ \A c \in Connections :
       /\ phase[c] = "waiting" /\ answer[c] = "none" =>
            \E i \in DOMAIN ingestQueue : ingestQueue[i].connection = c
       /\ answer[c] # "none" => phase[c] = "waiting"

SourcesAreCounted == IsFiniteSet(Counted) /\ connectedSources = Cardinality(Counted)

(***************************************************************************)
(* Who ends an exchange received at that time: a connection of its source  *)
(* that has yet to stamp its disconnect, or has stamped it later.          *)
(***************************************************************************)
Ends(c, source, at) ==
  /\ sourceOf[c] = source
  /\ phase[c] \in Live \/ (phase[c] = "leaving" /\ at <= stamp[c])

UnfinishedAreEnded ==
  /\ \A k \in Retained(exchanges) : exchanges[k].receivedAt <= now
  /\ \A k \in ExchangeKeys : k.source \notin cutShort /\ IsInFlight(exchanges[k]) =>
       \E c \in Connections : Ends(c, k.source, exchanges[k].receivedAt)
  /\ \A k \in CommandKeys : k.source \notin cutShort /\ IsInFlight(commands[k]) =>
       \E c \in Connections : sourceOf[c] = k.source /\ phase[c] \in Live \cup {"leaving"}

IngressInv ==
  /\ HubInv /\ PartsMatchStates
  /\ IngressFields /\ TasksKnow /\ QueueMatchesTasks /\ SourcesAreCounted
  /\ ~clockSetBack => UnfinishedAreEnded

-----------------------------------------------------------------------------------

LEMMA IngressInvInit == IngressInit => IngressInv
<1> SUFFICES ASSUME IngressInit PROVE IngressInv
  OBVIOUS
<1>1. HubInv /\ PartsMatchStates
  BY HubInvInit, PartsInit DEF IngressInit
<1>2. ingestQueue = <<>> /\ DOMAIN ingestQueue = {}
  BY DEF IngressInit
<1>3. IngressFields
  <2>1. processing \in BOOLEAN /\ clockSetBack \in BOOLEAN /\ cutShort \subseteq Sources
    BY DEF IngressInit
  <2>2. ingestQueue \in Seq([connection : Connections, capture : IngressMessage, receivedAt : Times])
    BY <1>2, EmptySeq
  <2>3. /\ now \in Times /\ stamp \in [Connections -> Times]
        /\ phase \in [Connections -> Phase] /\ sourceOf \in [Connections -> Sources \cup {None}]
        /\ errors \in [Connections -> 0 .. 3]
        /\ stamped \in [Connections -> IngressMessage \cup {None}]
        /\ answer \in [Connections -> Answer]
    BY DEF IngressInit, Phase, Answer
  <2> QED
    BY <2>1, <2>2, <2>3 DEF IngressFields
<1>4. TasksKnow
  BY TimesAssumption DEF IngressInit, TasksKnow, Live
<1>5. QueueMatchesTasks
  BY <1>2 DEF IngressInit, QueueMatchesTasks
<1>6. Counted = {}
  BY DEF IngressInit, Counted, Live
<1>7. SourcesAreCounted
  BY <1>6, FS_EmptySet DEF IngressInit, SourcesAreCounted
<1>8. UnfinishedAreEnded
  BY DEF IngressInit, HubInit, UnfinishedAreEnded, Retained, IsExchange, IsInFlight
<1> QED
  BY <1>1, <1>3, <1>4, <1>5, <1>7, <1>8 DEF IngressInv

-----------------------------------------------------------------------------------
(* Every step of the ingress is a step of the hub, or leaves it alone. *)

LEMMA IngestIsHubStep ==
  ASSUME NEW source \in Sources, NEW m \in IngressMessage, NEW at \in Times,
         Ingest(source, m, at)
  PROVE  [HubNext]_hubVars
<1>1. CASE m.repository = "exchanges" /\ IngestExchange(source, m.message, at, TRUE)
  <2>1. m.message \in ExchangeMessage
    BY <1>1, MessagesAssumption DEF IngressMessage
  <2> QED
    BY <1>1, <2>1 DEF HubNext
<1>2. CASE m.repository = "commands" /\ IngestCommand(source, m.message, TRUE)
  <2>1. m.message \in DatabaseMessage
    BY <1>2, MessagesAssumption DEF IngressMessage
  <2> QED
    BY <1>2, <2>1 DEF HubNext
<1> QED
  BY <1>1, <1>2 DEF Ingest

(* What the processor takes from the queue. *)
LEMMA HeadOfQueue ==
  ASSUME IngressInv, ingestQueue # <<>>
  PROVE  LET queued == Head(ingestQueue)
         IN  /\ 1 \in DOMAIN ingestQueue /\ queued = ingestQueue[1]
             /\ queued.connection \in Connections /\ queued.capture \in IngressMessage
             /\ queued.receivedAt \in Times /\ (~clockSetBack => queued.receivedAt <= now)
             /\ phase[queued.connection] = "waiting"
             /\ sourceOf[queued.connection] \in Sources
<1>1. /\ ingestQueue \in Seq([connection : Connections, capture : IngressMessage, receivedAt : Times])
      /\ TasksKnow /\ QueueMatchesTasks
  BY DEF IngressInv, IngressFields
<1>2. 1 \in DOMAIN ingestQueue /\ Head(ingestQueue) = ingestQueue[1]
  BY <1>1, EmptySeq, LenProperties, HeadTailProperties
<1>3. ingestQueue[1] \in [connection : Connections, capture : IngressMessage, receivedAt : Times]
  BY <1>1, <1>2, LenProperties, ElementOfSeq
<1> QED
  BY <1>1, <1>2, <1>3 DEF TasksKnow, QueueMatchesTasks, Live

LEMMA IngressStepIsHubStep == IngressInv /\ [IngressNext]_ingressVars => [HubNext]_hubVars
<1> SUFFICES ASSUME IngressInv, [IngressNext]_ingressVars PROVE [HubNext]_hubVars
  OBVIOUS
<1>1. ASSUME NEW c \in Connections, Leave(c)
      PROVE  [HubNext]_hubVars
  <2>1. sourceOf[c] \in Sources /\ stamp[c] \in Times
    BY <1>1 DEF IngressInv, IngressFields, TasksKnow, Leave
  <2> QED
    BY <1>1, <2>1 DEF Leave, HubNext
<1>2. CASE ProcessNext
  BY <1>2, HeadOfQueue, IngestIsHubStep DEF ProcessNext
<1>3. CASE UseSession
  BY <1>3 DEF UseSession, HubNext
<1>4. CASE \/ UNCHANGED ingressVars \/ Shutdown \/ Tick
           \/ \E c \in Connections :
                \/ \E source \in Sources : AcceptHello(c, source)
                \/ \E m \in IngressMessage : ReceiveMessage(c, m)
                \/ RejectHello(c) \/ ReceiveUnusableFrame(c) \/ LoseClient(c)
                \/ TryQueue(c) \/ Resume(c) \/ StampLeave(c)
  <2>1. UNCHANGED hubVars
    BY <1>4 DEF ingressVars, Shutdown, Tick, AcceptHello, ReceiveMessage, RejectHello,
       ReceiveUnusableFrame, LoseClient, TryQueue, Resume, StampLeave
  <2> QED
    BY <2>1
<1> QED
  BY <1>1, <1>2, <1>3, <1>4 DEF IngressNext, TaskStep

-----------------------------------------------------------------------------------
(* The types. *)

LEMMA IngressFieldsNext ==
  ASSUME IngressInv, [IngressNext]_ingressVars
  PROVE  IngressFields'
<1> USE DEF IngressFields
<1>0. IngressFields /\ TasksKnow
  BY DEF IngressInv
<1>1. ASSUME NEW c \in Connections, NEW source \in Sources, AcceptHello(c, source)
      PROVE  IngressFields'
  BY <1>0, <1>1 DEF AcceptHello, queueVars, auxiliaryVars, Phase
<1>2. ASSUME NEW c \in Connections, RejectHello(c)
      PROVE  IngressFields'
  BY <1>0, <1>2 DEF RejectHello, queueVars, auxiliaryVars, Phase
<1>3. ASSUME NEW c \in Connections, NEW m \in IngressMessage, ReceiveMessage(c, m)
      PROVE  IngressFields'
  BY <1>0, <1>3 DEF ReceiveMessage, queueVars, auxiliaryVars, Phase
<1>4. ASSUME NEW c \in Connections, ReceiveUnusableFrame(c)
      PROVE  IngressFields'
  BY <1>0, <1>4 DEF ReceiveUnusableFrame, AfterError, TasksKnow, queueVars, auxiliaryVars, Phase
<1>5. ASSUME NEW c \in Connections, LoseClient(c)
      PROVE  IngressFields'
  BY <1>0, <1>5 DEF LoseClient, queueVars, auxiliaryVars, Phase
<1>6. ASSUME NEW c \in Connections, TryQueue(c)
      PROVE  IngressFields'
  <2> DEFINE Item == [connection : Connections, capture : IngressMessage, receivedAt : Times]
             item == [connection |-> c, capture |-> stamped[c], receivedAt |-> stamp[c]]
  <2>1. item \in Item
    BY <1>0, <1>6 DEF TryQueue, TasksKnow
  <2>2. ingestQueue' \in Seq(Item)
    <3>1. ingestQueue \in Seq(Item)
      BY <1>0
    <3>2. Append(ingestQueue, item) \in Seq(Item)
      BY <2>1, <3>1, AppendProperties
    <3> QED
      BY <1>6, <3>1, <3>2 DEF TryQueue
  <2>3. /\ stamped' = [stamped EXCEPT ![c] = None]
        /\ \/ phase' = [phase EXCEPT ![c] = "waiting"] /\ errors' = errors
           \/ /\ phase' = [phase EXCEPT ![c] = "closing"]
              /\ errors' = [errors EXCEPT ![c] = @ + 1] /\ errors[c] < 3
    BY <1>0, <1>6 DEF TryQueue, TasksKnow
  <2>4. errors' \in [Connections -> 0 .. 3] /\ phase' \in [Connections -> Phase]
    BY <1>0, <2>3 DEF Phase
  <2>5. UNCHANGED <<now, sourceOf, stamp, answer, processing, cutShort, clockSetBack>>
    BY <1>6 DEF TryQueue, auxiliaryVars
  <2>6. stamped' \in [Connections -> IngressMessage \cup {None}]
    BY <1>0, <2>3
  <2>7. processing' \in BOOLEAN /\ clockSetBack' \in BOOLEAN
    BY <1>0, <2>5
  <2>8. now' \in Times /\ sourceOf' \in [Connections -> Sources \cup {None}]
    BY <1>0, <2>5
  <2>9. /\ stamp' \in [Connections -> Times] /\ answer' \in [Connections -> Answer]
        /\ cutShort' \subseteq Sources
    BY <1>0, <2>5
  <2> QED
    BY <2>2, <2>4, <2>6, <2>7, <2>8, <2>9
<1>7. ASSUME NEW c \in Connections, Resume(c)
      PROVE  IngressFields'
  <2>1. /\ phase' \in [Connections -> Phase] /\ answer' \in [Connections -> Answer]
        /\ errors' \in [Connections -> 0 .. 3]
    <3>1. errors[c] < 3
      BY <1>0, <1>7 DEF Resume, TasksKnow
    <3>2. phase \in [Connections -> Phase] /\ answer \in [Connections -> Answer]
      BY <1>0
    <3>3. errors \in [Connections -> 0 .. 3]
      BY <1>0
    <3> HIDE DEF IngressFields
    <3> QED
      BY <1>7, <3>1, <3>2, <3>3 DEF Resume, AfterError, Phase, Answer
  <2>2. UNCHANGED <<now, sourceOf, stamped, stamp, ingestQueue, processing, cutShort, clockSetBack>>
    BY <1>7 DEF Resume, auxiliaryVars
  <2>3. processing' \in BOOLEAN /\ clockSetBack' \in BOOLEAN
    BY <1>0, <2>2
  <2>4. /\ now' \in Times /\ sourceOf' \in [Connections -> Sources \cup {None}]
        /\ stamped' \in [Connections -> IngressMessage \cup {None}]
    BY <1>0, <2>2
  <2>5. /\ stamp' \in [Connections -> Times] /\ cutShort' \subseteq Sources
        /\ ingestQueue' \in Seq([connection : Connections, capture : IngressMessage, receivedAt : Times])
    BY <1>0, <2>2
  <2> QED
    BY <2>1, <2>3, <2>4, <2>5
<1>8. ASSUME NEW c \in Connections, StampLeave(c)
      PROVE  IngressFields'
  BY <1>0, <1>8 DEF StampLeave, queueVars, auxiliaryVars, Phase
<1>9. ASSUME NEW c \in Connections, Leave(c)
      PROVE  IngressFields'
  <2>1. cutShort' \subseteq Sources
    BY <1>0, <1>9 DEF Leave, CutShortBy, TasksKnow
  <2> QED
    BY <1>0, <1>9, <2>1 DEF Leave, queueVars, Phase
<1>10. CASE ProcessNext
  <2>1. ingestQueue' \in Seq([connection : Connections, capture : IngressMessage, receivedAt : Times])
    BY <1>0, <1>10, HeadTailProperties DEF ProcessNext
  <2>2. answer' \in [Connections -> Answer]
    BY <1>0, <1>10 DEF ProcessNext, Answer
  <2> QED
    BY <1>0, <1>10, <2>1, <2>2 DEF ProcessNext, connectionVars, auxiliaryVars
<1>11. CASE Shutdown
  BY <1>0, <1>11, EmptySeq DEF Shutdown, connectionVars, auxiliaryVars, Answer
<1>12. CASE UseSession
  BY <1>0, <1>12 DEF UseSession, connectionVars, queueVars, auxiliaryVars
<1>13. CASE Tick
  BY <1>0, <1>13 DEF Tick, connectionVars, queueVars
<1>14. CASE UNCHANGED ingressVars
  BY <1>0, <1>14 DEF ingressVars, connectionVars, queueVars, auxiliaryVars
<1> QED
  BY <1>1, <1>2, <1>3, <1>4, <1>5, <1>6, <1>7, <1>8, <1>9, <1>10, <1>11, <1>12, <1>13, <1>14
  DEF IngressNext, TaskStep

-----------------------------------------------------------------------------------
(* What a task knows of itself. *)

LEMMA TasksKnowNext ==
  ASSUME IngressInv, [IngressNext]_ingressVars
  PROVE  TasksKnow'
<1> USE DEF TasksKnow, Live
<1>0. IngressFields /\ TasksKnow /\ now \in Nat /\ stamp \in [Connections -> Nat]
  BY TimesAssumption DEF IngressInv, IngressFields
<1>1. ASSUME NEW c \in Connections, NEW source \in Sources, AcceptHello(c, source)
      PROVE  TasksKnow'
  BY <1>0, <1>1 DEF AcceptHello, auxiliaryVars, IngressFields
<1>2. ASSUME NEW c \in Connections, RejectHello(c)
      PROVE  TasksKnow'
  BY <1>0, <1>2 DEF RejectHello, auxiliaryVars, IngressFields
<1>3. ASSUME NEW c \in Connections, NEW m \in IngressMessage, ReceiveMessage(c, m)
      PROVE  TasksKnow'
  BY <1>0, <1>3 DEF ReceiveMessage, auxiliaryVars, IngressFields
<1>4. ASSUME NEW c \in Connections, ReceiveUnusableFrame(c)
      PROVE  TasksKnow'
  BY <1>0, <1>4 DEF ReceiveUnusableFrame, AfterError, auxiliaryVars, IngressFields
<1>5. ASSUME NEW c \in Connections, LoseClient(c)
      PROVE  TasksKnow'
  BY <1>0, <1>5 DEF LoseClient, auxiliaryVars, IngressFields
<1>6. ASSUME NEW c \in Connections, TryQueue(c)
      PROVE  TasksKnow'
  BY <1>0, <1>6 DEF TryQueue, auxiliaryVars, IngressFields
<1>7. ASSUME NEW c \in Connections, Resume(c)
      PROVE  TasksKnow'
  BY <1>0, <1>7 DEF Resume, AfterError, auxiliaryVars, IngressFields
<1>8. ASSUME NEW c \in Connections, StampLeave(c)
      PROVE  TasksKnow'
  BY <1>0, <1>8 DEF StampLeave, auxiliaryVars, IngressFields
<1>9. ASSUME NEW c \in Connections, Leave(c)
      PROVE  TasksKnow'
  BY <1>0, <1>9 DEF Leave, auxiliaryVars, IngressFields
<1>10. CASE \/ ProcessNext \/ Shutdown \/ UseSession \/ UNCHANGED ingressVars
  BY <1>0, <1>10 DEF ProcessNext, Shutdown, UseSession, ingressVars, connectionVars,
     auxiliaryVars
<1>11. CASE Tick
  <2>1. /\ now' \in Nat /\ UNCHANGED <<phase, sourceOf, errors, stamped, stamp>>
        /\ ~clockSetBack' => ~clockSetBack /\ ~(now' < now)
    BY <1>11, TimesAssumption DEF Tick, connectionVars
  <2>2. ASSUME NEW c \in Connections, ~clockSetBack'
        PROVE  stamp[c] <= now'
    <3>1. stamp[c] \in Nat /\ stamp[c] <= now
      BY <1>0, <2>1, <2>2
    <3> QED
      BY <1>0, <2>1, <2>2, <3>1
  <2> QED
    BY <1>0, <2>1, <2>2
<1> QED
  BY <1>1, <1>2, <1>3, <1>4, <1>5, <1>6, <1>7, <1>8, <1>9, <1>10, <1>11
  DEF IngressNext, TaskStep

-----------------------------------------------------------------------------------
(* The queue and the waiting tasks. *)

LEMMA QueueNext ==
  ASSUME IngressInv, [IngressNext]_ingressVars
  PROVE  QueueMatchesTasks'
<1> DEFINE Item == [connection : Connections, capture : IngressMessage, receivedAt : Times]
<1>0. /\ IngressFields /\ TasksKnow /\ QueueMatchesTasks
      /\ now \in Nat /\ stamp \in [Connections -> Nat]
      /\ ingestQueue \in Seq(Item)
      /\ \A i \in DOMAIN ingestQueue : ingestQueue[i] \in Item
  <2>1. ingestQueue \in Seq(Item)
    BY DEF IngressInv, IngressFields
  <2> QED
    BY <2>1, TimesAssumption, LenProperties, ElementOfSeq DEF IngressInv, IngressFields
<1>1. ASSUME NEW c \in Connections, phase[c] # "waiting",
             UNCHANGED <<now, clockSetBack, ingestQueue, answer>>,
             \A d \in Connections \ {c} : phase'[d] = phase[d],
             phase'[c] # "waiting"
      PROVE  QueueMatchesTasks'
  <2>1. \A i \in DOMAIN ingestQueue :
          /\ ingestQueue[i].connection \in Connections \ {c}
          /\ phase'[ingestQueue[i].connection] = "waiting"
    BY <1>0, <1>1 DEF QueueMatchesTasks
  <2>2. answer[c] = "none"
    BY <1>0, <1>1 DEF QueueMatchesTasks
  <2> QED
    BY <1>0, <1>1, <2>1, <2>2 DEF QueueMatchesTasks
<1>2. ASSUME NEW c \in Connections,
             \/ \E source \in Sources : AcceptHello(c, source)
             \/ \E m \in IngressMessage : ReceiveMessage(c, m)
             \/ RejectHello(c) \/ ReceiveUnusableFrame(c) \/ LoseClient(c)
             \/ StampLeave(c) \/ Leave(c)
      PROVE  QueueMatchesTasks'
  <2>1. /\ phase[c] # "waiting" /\ UNCHANGED <<now, clockSetBack, ingestQueue, answer>>
        /\ \E p \in {"open", "stamped", "closing", "leaving", "closed"} :
             phase' = [phase EXCEPT ![c] = p]
    BY <1>2 DEF AcceptHello, ReceiveMessage, RejectHello, ReceiveUnusableFrame, AfterError,
       LoseClient, StampLeave, Leave, queueVars, auxiliaryVars
  <2>2. (\A d \in Connections \ {c} : phase'[d] = phase[d]) /\ phase'[c] # "waiting"
    BY <1>0, <2>1 DEF IngressFields
  <2> QED
    BY <1>1, <2>1, <2>2
<1>3. ASSUME NEW c \in Connections, TryQueue(c)
      PROVE  QueueMatchesTasks'
  <2> DEFINE item == [connection |-> c, capture |-> stamped[c], receivedAt |-> stamp[c]]
  <2>1. /\ phase[c] = "stamped" /\ UNCHANGED <<now, clockSetBack, answer>>
    BY <1>3 DEF TryQueue, auxiliaryVars
  <2>2. CASE phase' = [phase EXCEPT ![c] = "closing"] /\ ingestQueue' = ingestQueue
    BY <1>0, <1>1, <2>1, <2>2 DEF IngressFields
  <2>3. CASE /\ phase' = [phase EXCEPT ![c] = "waiting"]
             /\ ingestQueue' = Append(ingestQueue, item)
    <3>1. /\ DOMAIN ingestQueue' = DOMAIN ingestQueue \cup {Len(ingestQueue) + 1}
          /\ \A i \in DOMAIN ingestQueue : ingestQueue'[i] = ingestQueue[i]
          /\ ingestQueue'[Len(ingestQueue) + 1] = item
          /\ Len(ingestQueue) + 1 \notin DOMAIN ingestQueue
      <4>1. item \in Item
        BY <1>0, <2>1 DEF IngressFields, TasksKnow
      <4>2. Len(ingestQueue) \in Nat /\ DOMAIN ingestQueue = 1 .. Len(ingestQueue)
        BY <1>0, LenProperties
      <4>3. /\ Len(ingestQueue') = Len(ingestQueue) + 1 /\ ingestQueue' \in Seq(Item)
            /\ \A i \in 1 .. Len(ingestQueue) : ingestQueue'[i] = ingestQueue[i]
            /\ ingestQueue'[Len(ingestQueue) + 1] = item
        BY <1>0, <2>3, <4>1, AppendProperties
      <4>4. DOMAIN ingestQueue' = 1 .. Len(ingestQueue) + 1
        BY <4>3, LenProperties
      <4> QED
        BY <4>2, <4>3, <4>4
    <3>2. /\ phase'[c] = "waiting" /\ \A d \in Connections \ {c} : phase'[d] = phase[d]
      BY <1>0, <2>3 DEF IngressFields
    <3>3. answer[c] = "none" /\ (~clockSetBack => stamp[c] <= now)
      BY <1>0, <2>1 DEF QueueMatchesTasks, TasksKnow
    <3>4. \A i \in DOMAIN ingestQueue : ingestQueue[i].connection \in Connections \ {c}
      BY <1>0, <2>1 DEF QueueMatchesTasks
    <3>5. item.connection = c /\ item.receivedAt = stamp[c]
      OBVIOUS
    <3> HIDE DEF item, Item
    <3> QED
      BY <1>0, <2>1, <3>1, <3>2, <3>3, <3>4, <3>5 DEF QueueMatchesTasks
  <2> QED
    BY <1>3, <2>2, <2>3 DEF TryQueue
<1>4. ASSUME NEW c \in Connections, Resume(c)
      PROVE  QueueMatchesTasks'
  <2>1. /\ phase[c] = "waiting" /\ answer[c] # "none" /\ UNCHANGED <<now, clockSetBack, ingestQueue>>
        /\ answer' = [answer EXCEPT ![c] = "none"]
        /\ \E p \in {"open", "closing"} : phase' = [phase EXCEPT ![c] = p]
    BY <1>4 DEF Resume, AfterError, auxiliaryVars
  <2>2. \A i \in DOMAIN ingestQueue : ingestQueue[i].connection \in Connections \ {c}
    BY <1>0, <2>1 DEF QueueMatchesTasks
  <2>3. /\ \A d \in Connections \ {c} : phase'[d] = phase[d] /\ answer'[d] = answer[d]
        /\ phase'[c] # "waiting" /\ answer'[c] = "none"
    BY <1>0, <2>1 DEF IngressFields
  <2> QED
    BY <1>0, <2>1, <2>2, <2>3 DEF QueueMatchesTasks
<1>5. CASE ProcessNext
  <2> DEFINE c == Head(ingestQueue).connection
             rest == Tail(ingestQueue)
  <2>1. /\ ingestQueue # <<>> /\ ingestQueue' = rest
        /\ UNCHANGED <<now, clockSetBack, phase>>
        /\ \E a \in {"rejected", "accepted"} : answer' = [answer EXCEPT ![c] = a]
    BY <1>5 DEF ProcessNext, connectionVars, auxiliaryVars
  <2>2. /\ 1 \in DOMAIN ingestQueue /\ c = ingestQueue[1].connection /\ c \in Connections
        /\ phase[c] = "waiting"
    BY <2>1, HeadOfQueue
  <2>3. /\ \A d \in Connections \ {c} : answer'[d] = answer[d]
        /\ answer'[c] # "none"
    BY <1>0, <2>1, <2>2 DEF IngressFields
  <2>4. /\ \A i \in DOMAIN rest : i + 1 \in DOMAIN ingestQueue /\ i + 1 # 1 /\ i \in Nat
                                    /\ rest[i] = ingestQueue[i + 1]
        /\ \A j \in DOMAIN ingestQueue \ {1} :
             j - 1 \in DOMAIN rest /\ ingestQueue[j] = rest[j - 1]
    <3>1. Len(ingestQueue) \in Nat /\ DOMAIN ingestQueue = 1 .. Len(ingestQueue)
      BY <1>0, LenProperties
    <3>2. /\ rest \in Seq(Item) /\ Len(rest) = Len(ingestQueue) - 1
          /\ \A i \in 1 .. Len(rest) : rest[i] = ingestQueue[i + 1]
      BY <1>0, <2>1, HeadTailProperties
    <3>3. DOMAIN rest = 1 .. Len(rest)
      BY <3>2, LenProperties
    <3> HIDE DEF rest
    <3>4. \A i \in 1 .. Len(rest) : i + 1 \in 1 .. Len(ingestQueue) /\ i + 1 # 1 /\ i \in Nat
      BY <3>1, <3>2
    <3>5. ASSUME NEW j \in (1 .. Len(ingestQueue)) \ {1}
          PROVE  j - 1 \in 1 .. Len(rest) /\ ingestQueue[j] = rest[j - 1]
      <4>1. j - 1 \in 1 .. Len(rest) /\ (j - 1) + 1 = j
        BY <3>1, <3>2
      <4> QED
        BY <3>2, <4>1
    <3> QED
      BY <3>1, <3>2, <3>3, <3>4, <3>5
  <2> HIDE DEF rest, c, Item
  <2>5. \A i \in DOMAIN rest : /\ rest[i].connection \in Connections \ {c}
                               /\ ~clockSetBack => rest[i].receivedAt <= now
                               /\ phase[rest[i].connection] = "waiting"
                               /\ answer[rest[i].connection] = "none"
    <3> SUFFICES ASSUME NEW i \in DOMAIN rest
                 PROVE  /\ rest[i].connection \in Connections \ {c}
                        /\ ~clockSetBack => rest[i].receivedAt <= now
                        /\ phase[rest[i].connection] = "waiting"
                        /\ answer[rest[i].connection] = "none"
      OBVIOUS
    <3>1. i + 1 \in DOMAIN ingestQueue /\ i + 1 # 1 /\ rest[i] = ingestQueue[i + 1]
      BY <2>4
    <3>2. ingestQueue[i + 1].connection \in Connections
      BY <1>0, <3>1 DEF Item
    <3> QED
      BY <1>0, <2>2, <3>1, <3>2 DEF QueueMatchesTasks
  <2>6. \A i, j \in DOMAIN rest : rest[i].connection = rest[j].connection => i = j
    <3> SUFFICES ASSUME NEW i \in DOMAIN rest, NEW j \in DOMAIN rest,
                        rest[i].connection = rest[j].connection
                 PROVE  i = j
      OBVIOUS
    <3>1. i + 1 = j + 1 /\ i \in Nat /\ j \in Nat
      BY <1>0, <2>4 DEF QueueMatchesTasks
    <3> QED
      BY <3>1
  <2>7. ASSUME NEW d \in Connections, phase[d] = "waiting", answer'[d] = "none"
        PROVE  \E i \in DOMAIN rest : rest[i].connection = d
    <3>1. d # c /\ answer[d] = "none"
      BY <2>3, <2>7
    <3>2. PICK j \in DOMAIN ingestQueue : ingestQueue[j].connection = d
      BY <1>0, <2>7, <3>1 DEF QueueMatchesTasks
    <3>3. j # 1
      BY <2>2, <3>1, <3>2
    <3> QED
      BY <2>4, <3>2, <3>3
  <2>8. \A d \in Connections : answer'[d] # "none" => phase[d] = "waiting"
    BY <1>0, <2>2, <2>3 DEF QueueMatchesTasks
  <2>9. \A i \in DOMAIN rest : answer'[rest[i].connection] = "none"
    BY <2>3, <2>5
  <2> QED
    BY <2>1, <2>5, <2>6, <2>7, <2>8, <2>9 DEF QueueMatchesTasks
<1>6. CASE Shutdown
  <2>1. /\ ingestQueue' = <<>> /\ DOMAIN ingestQueue' = {} /\ UNCHANGED <<now, phase>>
        /\ \A d \in Connections :
             answer'[d] = IF \E i \in DOMAIN ingestQueue : ingestQueue[i].connection = d
                          THEN "unavailable" ELSE answer[d]
    BY <1>6 DEF Shutdown, connectionVars
  <2> QED
    BY <1>0, <2>1 DEF QueueMatchesTasks
<1>7. CASE UseSession \/ UNCHANGED ingressVars
  BY <1>0, <1>7 DEF QueueMatchesTasks, UseSession, ingressVars, connectionVars, queueVars, auxiliaryVars
<1>8. CASE Tick
  <2>1. /\ now' \in Nat /\ UNCHANGED <<phase, ingestQueue, answer>>
        /\ ~clockSetBack' => ~clockSetBack /\ ~(now' < now)
    BY <1>8, TimesAssumption DEF Tick, connectionVars, queueVars
  <2>2. ASSUME NEW i \in DOMAIN ingestQueue, ~clockSetBack'
        PROVE  ingestQueue[i].receivedAt <= now'
    <3>1. ingestQueue[i].receivedAt \in Nat /\ ingestQueue[i].receivedAt <= now
      BY <1>0, <2>1, <2>2, TimesAssumption DEF QueueMatchesTasks
    <3> QED
      BY <1>0, <2>1, <2>2, <3>1
  <2> QED
    BY <1>0, <2>1, <2>2 DEF QueueMatchesTasks
<1> QED
  BY <1>2, <1>3, <1>4, <1>5, <1>6, <1>7, <1>8 DEF IngressNext, TaskStep

-----------------------------------------------------------------------------------
(* The count of the connected sources. *)

LEMMA CountNext ==
  ASSUME IngressInv, [IngressNext]_ingressVars
  PROVE  SourcesAreCounted'
<1>0. /\ IngressFields /\ QueueMatchesTasks /\ SourcesAreCounted
      /\ Cardinality(Counted) \in Nat
  BY FS_CardinalityType DEF IngressInv, SourcesAreCounted
<1>1. ASSUME NEW c \in Connections, NEW source \in Sources, AcceptHello(c, source)
      PROVE  SourcesAreCounted'
  <2>1. Counted' = Counted \cup {c} /\ c \notin Counted
    BY <1>0, <1>1 DEF AcceptHello, Counted, Live, IngressFields
  <2> QED
    BY <1>0, <1>1, <2>1, FS_AddElement DEF AcceptHello, SourcesAreCounted
<1>2. ASSUME NEW c \in Connections, StampLeave(c)
      PROVE  SourcesAreCounted'
  <2>1. Counted' = Counted \ {c} /\ c \in Counted
    BY <1>0, <1>2 DEF StampLeave, Counted, Live, IngressFields
  <2> QED
    BY <1>0, <1>2, <2>1, FS_RemoveElement DEF StampLeave, SourcesAreCounted
<1>3. ASSUME NEW c \in Connections,
             \/ \E m \in IngressMessage : ReceiveMessage(c, m)
             \/ RejectHello(c) \/ ReceiveUnusableFrame(c) \/ LoseClient(c)
             \/ TryQueue(c) \/ Resume(c) \/ Leave(c)
      PROVE  SourcesAreCounted'
  <2>1. UNCHANGED connectedSources
    BY <1>3 DEF ReceiveMessage, RejectHello, ReceiveUnusableFrame, LoseClient, TryQueue,
       Resume, Leave
  <2>2. \/ /\ phase[c] \in Live
           /\ \E p \in Live : phase' = [phase EXCEPT ![c] = p]
        \/ phase[c] \in {"connecting", "leaving"} /\ phase' = [phase EXCEPT ![c] = "closed"]
    BY <1>3 DEF ReceiveMessage, RejectHello, ReceiveUnusableFrame, AfterError, LoseClient,
       TryQueue, Resume, Leave, Live
  <2>3. Counted' = Counted
    BY <1>0, <2>2 DEF Counted, Live, IngressFields
  <2> QED
    BY <1>0, <2>1, <2>3 DEF SourcesAreCounted
<1>4. CASE ProcessNext \/ Shutdown \/ UseSession \/ Tick \/ UNCHANGED ingressVars
  <2>1. UNCHANGED <<connectedSources, phase>>
    BY <1>4 DEF ProcessNext, Shutdown, UseSession, Tick, ingressVars, connectionVars
  <2> QED
    BY <1>0, <2>1 DEF SourcesAreCounted, Counted
<1> QED
  BY <1>1, <1>2, <1>3, <1>4 DEF IngressNext, TaskStep

-----------------------------------------------------------------------------------
(* Who ends what is in flight. *)

(* A merge keeps the receipt time of the exchange, a snapshot renews it. *)
LEMMA MergeReceipt ==
  ASSUME NEW current \in Exchange \cup {None}, NEW m \in ExchangeMessage,
         NEW at \in Times, NEW arrival \in Nat
  PROVE  LET merged == MergeMessage(current, m, at, arrival)
         IN  merged.receivedAt = at \/ (IsExchange(current) /\ merged.receivedAt = current.receivedAt)
<1> DEFINE e == [BeginOrCurrent(current, m, at, arrival) EXCEPT
                   !.revision = m.revision,
                   !.metadata = IF m.metadata = "kept" THEN @ ELSE m.metadata]
<1>1. /\ DOMAIN e = {"revision", "arrival", "state", "request", "response", "failure",
                     "metadata", "receivedAt"}
      /\ e.receivedAt = IF IsExchange(current) THEN current.receivedAt ELSE at
  BY DEF BeginOrCurrent, MissingStartExchange, IsExchange, Exchange
<1> HIDE DEF e
<1>2. CASE m \in LifecycleMessage
  <2>1. m.kind \in {"started", "completed", "failed", "cancelled"}
    BY <1>2 DEF LifecycleMessage, StartedMessage, CompletedMessage, FailedMessage, CancelledMessage
  <2>2. MergeMessage(current, m, at, arrival).receivedAt = e.receivedAt
    BY <1>1, <2>1 DEF MergeMessage, e
  <2> QED
    BY <1>1, <2>2
<1>3. CASE m \in SnapshotMessage
  <2>1. m.kind = "snapshot"
    BY <1>3 DEF SnapshotMessage
  <2>2. MergeMessage(current, m, at, arrival).receivedAt = at
    BY <2>1 DEF MergeMessage
  <2> QED
    BY <2>2
<1> QED
  BY <1>2, <1>3 DEF ExchangeMessage

LEMMA IngestedExchange ==
  ASSUME HubInv, NEW source, NEW m \in ExchangeMessage, NEW at \in Times,
         IngestExchange(source, m, at, TRUE), NEW k \in Retained(exchanges')
  PROVE  \/ /\ k = m.key /\ k.source = source
            /\ \/ exchanges'[k].receivedAt = at
               \/ /\ k \in Retained(exchanges)
                  /\ exchanges'[k].receivedAt = exchanges[k].receivedAt
         \/ k \in Retained(exchanges) /\ exchanges'[k] = exchanges[k]
<1> DEFINE current == exchanges[m.key]
           merged  == MergeMessage(current, m, at, ArrivalFor(current))
<1>1. StoreExchange(m, at) /\ m.key.source = source
  BY DEF IngestExchange, StoresExchange, Accepts
<1>2. /\ m.key \in ExchangeKeys /\ merged \in Exchange
      /\ IsUpsert(exchanges, arrivalOrder, nextArrival, m.key, merged,
                  exchanges', arrivalOrder', nextArrival')
  BY <1>1, StoreExchangeIsUpsert
<1>3. current \in Exchange \cup {None} /\ ArrivalFor(current) \in Nat
  BY <1>2 DEF HubInv, HubTypeOK, ArrivalFor, Exchange, IsExchange
<1>4. \/ merged.receivedAt = at
      \/ IsExchange(current) /\ merged.receivedAt = current.receivedAt
  BY <1>3, MergeReceipt
<1>5. IsExchange(current) => m.key \in Retained(exchanges)
  BY <1>2 DEF HubInv, HubTypeOK, Retained
<1> HIDE DEF merged
<1>6. \/ k = m.key /\ exchanges'[k] = merged
      \/ k # m.key /\ k \in Retained(exchanges) /\ exchanges'[k] = exchanges[k]
  <2>1. IsRepository(ExchangeKeys, Exchange, exchanges, arrivalOrder, nextArrival)
    BY HubInvRepositories
  <2> QED
    BY <1>2, <2>1, UpsertOrigins
<1> QED
  BY <1>1, <1>4, <1>5, <1>6

LEMMA IngestedCommand ==
  ASSUME HubInv, NEW source, NEW m \in DatabaseMessage, IngestCommand(source, m, TRUE),
         NEW k \in Retained(commands')
  PROVE  \/ k = m.key /\ k.source = source
         \/ k \in Retained(commands) /\ commands'[k] = commands[k]
<1> DEFINE merged == MergeDatabaseMessage(commands[m.key], m, ArrivalFor(commands[m.key]))
<1>1. StoreCommand(m) /\ m.key.source = source
  BY DEF IngestCommand, StoresCommand, Accepts
<1>2. /\ m.key \in CommandKeys /\ merged \in Command
      /\ IsUpsert(commands, commandOrder, nextArrival, m.key, merged,
                  commands', commandOrder', nextArrival')
  BY <1>1, StoreCommandIsUpsert
<1> HIDE DEF merged
<1>3. \/ k = m.key /\ commands'[k] = merged
      \/ k # m.key /\ k \in Retained(commands) /\ commands'[k] = commands[k]
  <2>1. IsRepository(CommandKeys, Command, commands, commandOrder, nextArrival)
    BY HubInvRepositories
  <2> QED
    BY <1>2, <2>1, UpsertOrigins
<1> QED
  BY <1>1, <1>3

(* In-flight entries are listed by their deque. *)
LEMMA InFlightIsListed ==
  ASSUME HubInv
  PROVE  /\ \A k \in ExchangeKeys : IsInFlight(exchanges[k]) =>
              \E i \in DOMAIN arrivalOrder : arrivalOrder[i] = k
         /\ \A k \in CommandKeys : IsInFlight(commands[k]) =>
              \E i \in DOMAIN commandOrder : commandOrder[i] = k
BY DEF HubInv, HubTypeOK, ArrivalOrderAgrees, OrderListsMap, Retained, IsInFlight

(***************************************************************************)
(* What a disconnect does to the exchanges and commands of its source: all *)
(* are ended, or it stopped at an exchange without room for the reason, or *)
(* one of its exchanges was received later.                                *)
(***************************************************************************)
LEMMA DisconnectEnds ==
  ASSUME IngressInv, NEW source \in Sources, NEW at \in Times, MarkSourceDisconnected(source, at)
  PROVE  /\ \A k \in ExchangeKeys : IsInFlight(exchanges'[k]) =>
              IsInFlight(exchanges[k]) /\ exchanges'[k].receivedAt = exchanges[k].receivedAt
         /\ \A k \in CommandKeys : IsInFlight(commands'[k]) => IsInFlight(commands[k])
         /\ DisconnectSucceeds(source, at) =>
              /\ \A k \in ExchangeKeys : k.source = source => ~IsInFlight(exchanges'[k])
              /\ \A k \in CommandKeys : k.source = source => ~IsInFlight(commands'[k])
         /\ ~DisconnectSucceeds(source, at) =>
              \/ MeetsFullMetadata(source, at)
              \/ \E k \in ExchangeKeys : /\ k.source = source /\ IsInFlight(exchanges[k])
                                         /\ exchanges[k].receivedAt > at
<1>0. HubInv /\ PartsMatchStates
  BY DEF IngressInv
<1>1. /\ \A k \in ExchangeKeys : exchanges'[k] = IF k \in MarkedExchanges(source, at)
                                                 THEN MarkIncomplete(exchanges[k])
                                                 ELSE exchanges[k]
      /\ \A k \in CommandKeys : commands'[k] = IF k \in MarkedCommands(source, at)
                                               THEN MarkCommandIncomplete(commands[k])
                                               ELSE commands[k]
  BY DEF MarkSourceDisconnected
<1>2. /\ \A k \in MarkedExchanges(source, at) : exchanges[k] \in Exchange
      /\ \A k \in MarkedCommands(source, at) : commands[k] \in Command
  BY <1>0, MarkedAreInFlight, NoneAssumption DEF HubInv, HubTypeOK, IsInFlight, IsExchange
<1>3. /\ \A e \in Exchange : ~IsInFlight(MarkIncomplete(e))
      /\ \A c \in Command : ~IsInFlight(MarkCommandIncomplete(c))
  BY DEF Exchange, Command, MarkIncomplete, MarkCommandIncomplete, IsInFlight
<1>4. /\ \A k \in ExchangeKeys : IsInFlight(exchanges'[k]) =>
           k \notin MarkedExchanges(source, at) /\ exchanges'[k] = exchanges[k]
      /\ \A k \in CommandKeys : IsInFlight(commands'[k]) =>
           k \notin MarkedCommands(source, at) /\ commands'[k] = commands[k]
  BY <1>1, <1>2, <1>3
<1>5. CASE DisconnectSucceeds(source, at)
  <2>1. ASSUME NEW k \in ExchangeKeys, k.source = source, IsInFlight(exchanges[k])
        PROVE  k \in MarkedExchanges(source, at)
    <3>1. PICK i \in DOMAIN arrivalOrder : arrivalOrder[i] = k
      BY <1>0, <2>1, InFlightIsListed
    <3>2. i \in InFlightPositions(source, exchanges, arrivalOrder)
      BY <2>1, <3>1 DEF InFlightPositions
    <3> QED
      BY <1>5, <3>1, <3>2 DEF MarkedExchanges, DisconnectSucceeds, Before
  <2>2. ASSUME NEW k \in CommandKeys, k.source = source, IsInFlight(commands[k])
        PROVE  k \in MarkedCommands(source, at)
    <3>1. PICK i \in DOMAIN commandOrder : commandOrder[i] = k
      BY <1>0, <2>2, InFlightIsListed
    <3>2. i \in InFlightPositions(source, commands, commandOrder)
      BY <2>2, <3>1 DEF InFlightPositions
    <3> QED
      BY <1>5, <3>1, <3>2 DEF MarkedCommands
  <2> QED
    BY <1>4, <1>5, <2>1, <2>2
<1>6. CASE ~DisconnectSucceeds(source, at)
  <2> DEFINE open == InFlightPositions(source, exchanges, arrivalOrder)
             failing == {i \in open : FailsValidation(i, at)}
  <2>1. PICK i \in failing : \A j \in failing : i <= j
    <3>1. failing \in SUBSET Nat
      BY <1>0, LenProperties DEF InFlightPositions, HubInv, HubTypeOK
    <3>2. failing # {}
      BY <1>6 DEF DisconnectSucceeds
    <3> HIDE DEF failing
    <3> QED
      BY <3>1, <3>2, Totals!LeastNatural
  <2>2. i \in open /\ FailsValidation(i, at) /\ i \in DOMAIN arrivalOrder
    BY <2>1 DEF InFlightPositions
  <2>3. /\ arrivalOrder[i] \in ExchangeKeys /\ arrivalOrder[i].source = source
        /\ IsInFlight(exchanges[arrivalOrder[i]])
    BY <1>0, <2>2, LenProperties, ElementOfSeq DEF InFlightPositions, HubInv, HubTypeOK
  (* The first exchange to fail is changed before it is validated. *)
  <2>4. arrivalOrder[i] \in MarkedExchanges(source, at)
    <3>1. \A j \in open : j \in Nat
      BY <1>0, LenProperties DEF InFlightPositions, HubInv, HubTypeOK
    <3>2. ASSUME NEW j \in Before(open, i)
          PROVE  ~FailsValidation(j, at)
      <4>1. j \in open /\ j < i /\ j \in Nat /\ i \in Nat
        BY <2>2, <3>1, <3>2 DEF Before
      <4> QED
        BY <2>1, <4>1
    <3> QED
      BY <2>2, <3>2 DEF MarkedExchanges
  <2> HIDE DEF open, failing
  <2>5. PICK e \in Exchange : e = exchanges[arrivalOrder[i]]
    BY <1>0, <2>3, NoneAssumption DEF HubInv, HubTypeOK, IsInFlight, IsExchange
  <2>6. e.arrival > 0 /\ StateMatchesParts(e) /\ e.state = "inFlight"
    <3>1. arrivalOrder[i] \in Retained(exchanges)
      BY <1>0, <2>3 DEF HubInv, HubTypeOK, Retained, IsInFlight
    <3>2. exchanges[arrivalOrder[i]].arrival \in 1 .. nextArrival - 1
      BY <1>0, <2>2 DEF HubInv, ArrivalOrderAgrees, OrderListsMap
    <3> QED
      BY <1>0, <2>3, <2>5, <3>1, <3>2 DEF PartsMatchStates, IsInFlight, HubInv, HubTypeOK
  <2>7. /\ MarkIncomplete(e).revision > 0 /\ MarkIncomplete(e).arrival = e.arrival
        /\ MarkIncomplete(e).receivedAt = e.receivedAt /\ StateMatchesParts(MarkIncomplete(e))
    <3>1. MarkIncomplete(e).revision = e.revision + 1 /\ e.revision \in Nat
      BY MarkType DEF Exchange
    <3>2. /\ MarkIncomplete(e).receivedAt = e.receivedAt
          /\ MarkIncomplete(e).state = "incomplete" /\ MarkIncomplete(e).failure = e.failure
      BY DEF Exchange, MarkIncomplete
    <3> QED
      BY <2>6, <3>1, <3>2, MarkType DEF StateMatchesParts
  <2>8. ~IsValidAt(MarkIncomplete(e), at)
    BY <2>2, <2>5 DEF FailsValidation
  <2>9. e.receivedAt \in Nat /\ at \in Nat
    BY TimesAssumption DEF Exchange
  <2>10. CASE MarkIncomplete(e).metadata = "over"
    <3>1. i \in InFlightPositions(source, exchanges, arrivalOrder)
      BY <2>2 DEF open
    <3>2. MarkIncomplete(exchanges[arrivalOrder[i]]).metadata = "over"
      BY <2>5, <2>10
    <3>3. MeetsFullMetadata(source, at)
      BY <2>4, <3>1, <3>2 DEF MeetsFullMetadata
    <3> QED
      BY <1>4, <1>6, <3>3
  <2>11. CASE MarkIncomplete(e).metadata # "over"
    <3>1. ~(e.receivedAt <= at)
      BY <2>6, <2>7, <2>8, <2>11 DEF IsValidAt
    <3>2. exchanges[arrivalOrder[i]].receivedAt > at
      BY <2>5, <2>9, <3>1
    <3> QED
      BY <1>4, <1>6, <2>3, <3>2
  <2> QED
    BY <2>10, <2>11
<1> QED
  BY <1>5, <1>6

(* The clock that was set back stays so for the session. *)
LEMMA ClockNext ==
  ASSUME [IngressNext]_ingressVars, ~clockSetBack'
  PROVE  ~clockSetBack
BY DEF IngressNext, TaskStep, AcceptHello, RejectHello, ReceiveMessage, ReceiveUnusableFrame,
   LoseClient, TryQueue, Resume, StampLeave, Leave, ProcessNext, Shutdown, UseSession, Tick,
   ingressVars, auxiliaryVars

LEMMA UnfinishedNext ==
  ASSUME IngressInv, [IngressNext]_ingressVars, ~clockSetBack'
  PROVE  UnfinishedAreEnded'
<1>00. ~clockSetBack /\ UnfinishedAreEnded
  BY ClockNext DEF IngressInv
<1>0. /\ HubInv /\ IngressFields /\ TasksKnow /\ UnfinishedAreEnded
      /\ now \in Nat /\ stamp \in [Connections -> Nat]
      /\ \A k \in Retained(exchanges) : exchanges[k].receivedAt \in Nat
      /\ \A k \in ExchangeKeys : IsInFlight(exchanges[k]) => k \in Retained(exchanges)
  <2>1. HubInv /\ IngressFields
    BY DEF IngressInv
  <2>2. /\ exchanges \in [ExchangeKeys -> Exchange \cup {None}]
        /\ now \in Times /\ stamp \in [Connections -> Times]
    BY <2>1 DEF HubInv, HubTypeOK, IngressFields
  <2>3. \A k \in Retained(exchanges) : exchanges[k] \in Exchange
    BY <2>2 DEF Retained, IsExchange
  <2>4. \A k \in ExchangeKeys : IsInFlight(exchanges[k]) => k \in Retained(exchanges)
    BY <2>2 DEF Retained, IsInFlight
  <2> QED
    BY <1>00, <2>1, <2>2, <2>3, <2>4, TimesAssumption DEF IngressInv, Exchange
(* A task goes on, or stamps its disconnect after everything received. *)
<1>1. ASSUME UNCHANGED <<exchanges, commands, now, cutShort>>, NEW c \in Connections,
             \A d \in Connections \ {c} :
               phase'[d] = phase[d] /\ sourceOf'[d] = sourceOf[d] /\ stamp'[d] = stamp[d],
             \/ phase[c] \in {"connecting", "closed"}
             \/ /\ phase[c] \in Live /\ sourceOf'[c] = sourceOf[c]
                /\ phase'[c] \in Live \/ (phase'[c] = "leaving" /\ stamp'[c] = now)
      PROVE  UnfinishedAreEnded'
  <2>1. ASSUME NEW d \in Connections, NEW source, NEW at \in Nat, at <= now, Ends(d, source, at)
        PROVE  Ends(d, source, at)'
    BY <1>1, <2>1 DEF Ends, Live
  <2>2. ASSUME NEW d \in Connections, phase[d] \in Live \cup {"leaving"}
        PROVE  sourceOf'[d] = sourceOf[d] /\ phase'[d] \in Live \cup {"leaving"}
    BY <1>1, <2>2 DEF Live
  <2>3. ASSUME NEW k \in ExchangeKeys, k.source \notin cutShort, IsInFlight(exchanges[k])
        PROVE  \E d \in Connections : Ends(d, k.source, exchanges[k].receivedAt)'
    <3>1. exchanges[k].receivedAt \in Nat /\ exchanges[k].receivedAt <= now
      BY <1>0, <2>3 DEF UnfinishedAreEnded
    <3>2. PICK d \in Connections : Ends(d, k.source, exchanges[k].receivedAt)
      BY <1>0, <2>3 DEF UnfinishedAreEnded
    <3>3. Ends(d, k.source, exchanges[k].receivedAt)'
      BY <1>1, <2>1, <3>1, <3>2 DEF Ends
    <3> QED
      BY <3>3
  <2> QED
    BY <1>0, <1>1, <2>2, <2>3 DEF UnfinishedAreEnded
<1>2. ASSUME NEW c \in Connections,
             \/ \E source \in Sources : AcceptHello(c, source)
             \/ \E m \in IngressMessage : ReceiveMessage(c, m)
             \/ RejectHello(c) \/ ReceiveUnusableFrame(c) \/ LoseClient(c)
             \/ TryQueue(c) \/ Resume(c) \/ StampLeave(c)
      PROVE  UnfinishedAreEnded'
  <2>1. /\ UNCHANGED <<hubVars, now, cutShort>>
        /\ sourceOf' = sourceOf \/ (phase[c] = "connecting" /\ \E s : sourceOf' = [sourceOf EXCEPT ![c] = s])
        /\ stamp' = stamp \/ stamp' = [stamp EXCEPT ![c] = now]
        /\ \/ /\ phase[c] = "connecting" /\ stamp' = stamp
              /\ \E p : phase' = [phase EXCEPT ![c] = p]
           \/ /\ phase[c] \in Live /\ sourceOf' = sourceOf
              /\ \E p \in Live : phase' = [phase EXCEPT ![c] = p]
           \/ /\ phase[c] \in Live /\ sourceOf' = sourceOf
              /\ phase' = [phase EXCEPT ![c] = "leaving"]
              /\ stamp' = [stamp EXCEPT ![c] = now]
    BY <1>2 DEF AcceptHello, ReceiveMessage, RejectHello, ReceiveUnusableFrame, AfterError,
       LoseClient, TryQueue, Resume, StampLeave, auxiliaryVars, Live
  <2>2. \A d \in Connections \ {c} :
          phase'[d] = phase[d] /\ sourceOf'[d] = sourceOf[d] /\ stamp'[d] = stamp[d]
    BY <1>0, <2>1 DEF IngressFields
  <2>3. \/ phase[c] \in {"connecting", "closed"}
        \/ /\ phase[c] \in Live /\ sourceOf'[c] = sourceOf[c]
           /\ phase'[c] \in Live \/ (phase'[c] = "leaving" /\ stamp'[c] = now)
    BY <1>0, <2>1 DEF IngressFields
  <2> QED
    BY <1>1, <2>1, <2>2, <2>3 DEF hubVars
<1>3. ASSUME NEW c \in Connections, Leave(c)
      PROVE  UnfinishedAreEnded'
  <2> DEFINE source == sourceOf[c]
             at == stamp[c]
  <2>1. /\ phase[c] = "leaving" /\ phase' = [phase EXCEPT ![c] = "closed"]
        /\ source \in Sources /\ at \in Times /\ at \in Nat
        /\ MarkSourceDisconnected(source, at)
        /\ cutShort' = CutShortBy(source, at)
        /\ UNCHANGED <<now, sourceOf, stamp>>
    BY <1>0, <1>3 DEF Leave, TasksKnow, IngressFields
  <2>2. \A d \in Connections \ {c} : phase'[d] = phase[d]
    BY <1>0, <2>1 DEF IngressFields
  <2>3. /\ \A k \in ExchangeKeys : IsInFlight(exchanges'[k]) =>
             IsInFlight(exchanges[k]) /\ exchanges'[k].receivedAt = exchanges[k].receivedAt
        /\ \A k \in CommandKeys : IsInFlight(commands'[k]) => IsInFlight(commands[k])
        /\ DisconnectSucceeds(source, at) =>
             /\ \A k \in ExchangeKeys : k.source = source => ~IsInFlight(exchanges'[k])
             /\ \A k \in CommandKeys : k.source = source => ~IsInFlight(commands'[k])
        /\ ~DisconnectSucceeds(source, at) =>
             \/ MeetsFullMetadata(source, at)
             \/ \E k \in ExchangeKeys : /\ k.source = source /\ IsInFlight(exchanges[k])
                                        /\ exchanges[k].receivedAt > at
    BY <2>1, DisconnectEnds
  <2>4. /\ \A s : s # source /\ s \notin cutShort' => s \notin cutShort
        /\ source \notin cutShort' /\ ~DisconnectSucceeds(source, at) =>
             source \notin cutShort /\ ~MeetsFullMetadata(source, at)
    BY <2>1 DEF CutShortBy
  (* The exchange that refuses the disconnect has another connection to end it. *)
  <2>5. ASSUME source \notin cutShort', ~DisconnectSucceeds(source, at)
        PROVE  \E d \in Connections \ {c} :
                 /\ sourceOf[d] = source
                 /\ phase[d] \in Live \/ (phase[d] = "leaving" /\ at <= stamp[d])
    <3>1. PICK late \in ExchangeKeys : /\ late.source = source /\ IsInFlight(exchanges[late])
                                       /\ exchanges[late].receivedAt > at
      BY <2>3, <2>4, <2>5
    <3>2. PICK d \in Connections : Ends(d, source, exchanges[late].receivedAt)
      BY <1>0, <2>4, <2>5, <3>1 DEF UnfinishedAreEnded
    <3>3. exchanges[late].receivedAt \in Nat /\ stamp[d] \in Nat
      BY <1>0, <3>1
    <3>4. d # c
      BY <2>1, <3>1, <3>2, <3>3 DEF Ends, Live
    <3> QED
      BY <2>1, <3>1, <3>2, <3>3, <3>4 DEF Ends
  <2>6. source = sourceOf[c]
    OBVIOUS
  <2> HIDE DEF source, at
  <2>7. ASSUME NEW k \in ExchangeKeys, k.source \notin cutShort', IsInFlight(exchanges'[k])
        PROVE  \E d \in Connections : Ends(d, k.source, exchanges[k].receivedAt)'
    <3>1. IsInFlight(exchanges[k]) /\ exchanges'[k].receivedAt = exchanges[k].receivedAt
      BY <2>3, <2>7
    <3>2. CASE k.source # source
      <4>1. PICK d \in Connections : Ends(d, k.source, exchanges[k].receivedAt)
        BY <1>0, <2>4, <2>7, <3>1, <3>2 DEF UnfinishedAreEnded
      <4>2. d # c
        BY <2>6, <3>2, <4>1 DEF Ends
      <4>3. Ends(d, k.source, exchanges[k].receivedAt)'
        BY <2>1, <2>2, <3>1, <4>1, <4>2 DEF Ends
      <4> QED
        BY <4>3
    <3>3. CASE k.source = source
      <4>1. ~DisconnectSucceeds(source, at) /\ source \notin cutShort
        BY <2>3, <2>4, <2>7, <3>3
      <4>2. PICK d \in Connections : Ends(d, k.source, exchanges[k].receivedAt)
        BY <1>0, <3>1, <3>3, <4>1 DEF UnfinishedAreEnded
      <4>3. CASE d # c
        <5>1. Ends(d, k.source, exchanges[k].receivedAt)'
          BY <2>1, <2>2, <3>1, <4>2, <4>3 DEF Ends
        <5> QED
          BY <5>1
      <4>4. CASE d = c
        <5>1. exchanges[k].receivedAt <= at /\ exchanges[k].receivedAt \in Nat
          BY <1>0, <2>1, <3>1, <4>2, <4>4 DEF Ends, Live, at
        <5>2. PICK other \in Connections \ {c} :
                /\ sourceOf[other] = source
                /\ phase[other] \in Live \/ (phase[other] = "leaving" /\ at <= stamp[other])
          BY <2>5, <2>7, <3>3, <4>1
        <5>3. at <= stamp[other] => exchanges[k].receivedAt <= stamp[other]
          BY <1>0, <2>1, <5>1
        <5>4. Ends(other, k.source, exchanges[k].receivedAt)'
          BY <2>1, <2>2, <3>1, <3>3, <5>2, <5>3 DEF Ends
        <5> QED
          BY <5>4
      <4> QED
        BY <4>3, <4>4
    <3> QED
      BY <3>2, <3>3
  <2>8. ASSUME NEW k \in CommandKeys, k.source \notin cutShort', IsInFlight(commands'[k])
        PROVE  \E d \in Connections : sourceOf'[d] = k.source /\ phase'[d] \in Live \cup {"leaving"}
    <3>1. IsInFlight(commands[k])
      BY <2>3, <2>8
    <3>2. CASE k.source # source
      <4>1. PICK d \in Connections : sourceOf[d] = k.source /\ phase[d] \in Live \cup {"leaving"}
        BY <1>0, <2>4, <2>8, <3>1, <3>2 DEF UnfinishedAreEnded
      <4> QED
        BY <2>1, <2>2, <2>6, <3>2, <4>1
    <3>3. CASE k.source = source
      <4>1. PICK other \in Connections \ {c} :
              sourceOf[other] = source /\ phase[other] \in Live \cup {"leaving"}
        BY <2>3, <2>5, <2>8, <3>3
      <4> QED
        BY <2>1, <2>2, <3>3, <4>1
    <3> QED
      BY <3>2, <3>3
  <2>9. \A k \in Retained(exchanges') : exchanges'[k].receivedAt <= now
    <3>1. \A k \in ExchangeKeys : exchanges'[k] = IF k \in MarkedExchanges(source, at)
                                                  THEN MarkIncomplete(exchanges[k])
                                                  ELSE exchanges[k]
      BY <2>1 DEF MarkSourceDisconnected
    <3>2. exchanges \in [ExchangeKeys -> Exchange \cup {None}]
      BY <1>0 DEF HubInv, HubTypeOK
    <3>3. \A e \in Exchange : MarkIncomplete(e).receivedAt = e.receivedAt
      BY DEF Exchange, MarkIncomplete
    <3>4. \A k \in MarkedExchanges(source, at) : k \in Retained(exchanges) /\ exchanges[k] \in Exchange
      BY <1>0, <3>2, MarkedAreInFlight DEF Retained, IsInFlight, IsExchange
    <3>5. DOMAIN exchanges' = ExchangeKeys
      BY <2>1 DEF MarkSourceDisconnected
    <3>6. ASSUME NEW k \in Retained(exchanges')
          PROVE  k \in Retained(exchanges) /\ exchanges'[k].receivedAt = exchanges[k].receivedAt
      <4>1. k \in ExchangeKeys /\ IsExchange(exchanges'[k])
        BY <3>5, <3>6 DEF Retained
      <4>2. CASE k \in MarkedExchanges(source, at)
        BY <3>1, <3>3, <3>4, <4>1, <4>2
      <4>3. CASE k \notin MarkedExchanges(source, at)
        BY <3>1, <3>2, <4>1, <4>3 DEF Retained
      <4> QED
        BY <4>2, <4>3
    <3> QED
      BY <1>0, <3>6 DEF UnfinishedAreEnded
  <2> QED
    BY <2>1, <2>7, <2>8, <2>9 DEF UnfinishedAreEnded, Ends
<1>4. CASE ProcessNext
  <2> DEFINE c == Head(ingestQueue).connection
             m == Head(ingestQueue).capture
             at == Head(ingestQueue).receivedAt
  <2>1. /\ Ingest(sourceOf[c], m, at) /\ ingestQueue # <<>>
        /\ UNCHANGED <<now, phase, sourceOf, stamp, cutShort>>
    BY <1>4 DEF ProcessNext, connectionVars, auxiliaryVars
  <2>2. /\ c \in Connections /\ m \in IngressMessage /\ at \in Times /\ at <= now
        /\ phase[c] = "waiting"
    BY <1>00, <2>1, HeadOfQueue
  <2> HIDE DEF c, m, at
  <2>3. HubInv'
    BY <1>0, HubInvNext, IngressStepIsHubStep
  <2>4. \A k \in ExchangeKeys : IsInFlight(exchanges'[k]) => k \in Retained(exchanges')
    BY <2>3 DEF HubInv, HubTypeOK, Retained, IsInFlight
  <2>5. \A k \in CommandKeys : IsInFlight(commands'[k]) => k \in Retained(commands')
    BY <2>3 DEF HubInv, HubTypeOK, Retained, IsInFlight
  <2>6. CASE m.repository = "exchanges" /\ IngestExchange(sourceOf[c], m.message, at, TRUE)
    <3>1. m.message \in ExchangeMessage
      BY <2>2, <2>6, MessagesAssumption DEF IngressMessage
    <3>2. \A k \in Retained(exchanges') :
            \/ /\ k.source = sourceOf[c]
               /\ \/ exchanges'[k].receivedAt = at
                  \/ /\ k \in Retained(exchanges)
                     /\ exchanges'[k].receivedAt = exchanges[k].receivedAt
            \/ k \in Retained(exchanges) /\ exchanges'[k] = exchanges[k]
      BY <1>0, <2>2, <2>6, <3>1, IngestedExchange
    <3>3. commands' = commands
      BY <2>6 DEF IngestExchange, StoreExchange, databaseVars
    <3>4. \A k \in Retained(exchanges') : exchanges'[k].receivedAt <= now'
      BY <1>0, <2>1, <2>2, <3>2 DEF UnfinishedAreEnded
    <3>5. ASSUME NEW k \in ExchangeKeys, k.source \notin cutShort', IsInFlight(exchanges'[k])
          PROVE  \E d \in Connections : Ends(d, k.source, exchanges[k].receivedAt)'
      <4>1. CASE k.source = sourceOf[c]
        BY <2>1, <2>2, <4>1 DEF Ends, Live
      <4>2. CASE k.source # sourceOf[c]
        <5>1. exchanges'[k] = exchanges[k]
          BY <2>4, <3>2, <3>5, <4>2
        <5>2. PICK d \in Connections : Ends(d, k.source, exchanges[k].receivedAt)
          BY <1>0, <2>1, <3>5, <5>1 DEF UnfinishedAreEnded
        <5>3. Ends(d, k.source, exchanges[k].receivedAt)'
          BY <2>1, <5>1, <5>2 DEF Ends
        <5> QED
          BY <5>3
      <4> QED
        BY <4>1, <4>2
    <3> QED
      BY <1>0, <2>1, <3>3, <3>4, <3>5 DEF UnfinishedAreEnded
  <2>7. CASE m.repository = "commands" /\ IngestCommand(sourceOf[c], m.message, TRUE)
    <3>1. m.message \in DatabaseMessage
      BY <2>2, <2>7, MessagesAssumption DEF IngressMessage
    <3>2. \A k \in Retained(commands') : \/ k.source = sourceOf[c]
                                         \/ commands'[k] = commands[k]
      BY <1>0, <2>7, <3>1, IngestedCommand
    <3>3. exchanges' = exchanges
      BY <2>7 DEF IngestCommand, StoreCommand, exchangeVars
    <3>4. ASSUME NEW k \in CommandKeys, k.source \notin cutShort', IsInFlight(commands'[k])
          PROVE  \E d \in Connections : sourceOf'[d] = k.source /\ phase'[d] \in Live \cup {"leaving"}
      <4>1. CASE k.source = sourceOf[c]
        BY <2>1, <2>2, <4>1 DEF Live
      <4>2. CASE k.source # sourceOf[c]
        BY <1>0, <2>1, <2>5, <3>2, <3>4, <4>2 DEF UnfinishedAreEnded
      <4> QED
        BY <4>1, <4>2
    <3> QED
      BY <1>0, <2>1, <3>3, <3>4 DEF UnfinishedAreEnded, Ends
  <2>8. CASE UNCHANGED hubVars
    BY <1>0, <2>1, <2>8 DEF UnfinishedAreEnded, Ends, hubVars
  <2> QED
    BY <2>1, <2>6, <2>7, <2>8 DEF Ingest
<1>5. CASE UseSession
  <2>1. UNCHANGED <<now, phase, sourceOf, stamp, cutShort>>
    BY <1>5 DEF UseSession, connectionVars, auxiliaryVars
  <2>2. CASE \E on \in BOOLEAN : SetRecording(on)
    BY <1>0, <2>1, <2>2 DEF SetRecording, exchangeVars, databaseVars, UnfinishedAreEnded, Ends
  <2>3. CASE ClearSession
    BY <2>3 DEF ClearSession, UnfinishedAreEnded, Retained, IsExchange, IsInFlight
  <2> QED
    BY <1>5, <2>2, <2>3 DEF UseSession
<1>6. CASE Shutdown \/ UNCHANGED ingressVars
  <2>1. UNCHANGED <<exchanges, commands, now, phase, sourceOf, stamp, cutShort>>
    BY <1>6 DEF Shutdown, ingressVars, hubVars, connectionVars, auxiliaryVars
  <2> QED
    BY <1>0, <2>1 DEF UnfinishedAreEnded, Ends
<1>7. CASE Tick
  <2>1. /\ UNCHANGED <<exchanges, commands, phase, sourceOf, stamp, cutShort>>
        /\ now' \in Nat /\ now <= now'
    <3>1. /\ UNCHANGED <<exchanges, commands, phase, sourceOf, stamp, cutShort>>
          /\ now' \in Nat /\ ~(now' < now)
      BY <1>7, TimesAssumption DEF Tick, hubVars, connectionVars
    <3> QED
      BY <1>0, <3>1
  <2>2. \A k \in Retained(exchanges) : exchanges[k].receivedAt <= now'
    BY <1>0, <2>1 DEF UnfinishedAreEnded
  <2> QED
    BY <1>0, <2>1, <2>2 DEF UnfinishedAreEnded, Ends
<1> QED
  BY <1>2, <1>3, <1>4, <1>5, <1>6, <1>7 DEF IngressNext, TaskStep

-----------------------------------------------------------------------------------
(* The theorems. *)

LEMMA IngressInvNext == IngressInv /\ [IngressNext]_ingressVars => IngressInv'
<1> SUFFICES ASSUME IngressInv, [IngressNext]_ingressVars PROVE IngressInv'
  OBVIOUS
<1>1. HubInv' /\ PartsMatchStates'
  BY HubInvNext, PartsNext, IngressStepIsHubStep DEF IngressInv
<1> QED
  BY <1>1, IngressFieldsNext, TasksKnowNext, QueueNext, CountNext, UnfinishedNext DEF IngressInv

LEMMA IngressInvariant == IngressSpec => []IngressInv
BY IngressInvInit, IngressInvNext, PTL DEF IngressSpec

(* The connections, the queue and its processor use the hub only as its    *)
(* own specification allows, so that every theorem about the hub holds of  *)
(* the whole ingress: what a task stamps and queues is a source and a time *)
(* the hub may be called with when the processor comes to it.              *)
THEOREM IngressUsesHub == IngressSpec => HubSpec
<1>1. IngressInit => HubInit
  BY DEF IngressInit
<1> QED
  BY <1>1, IngressInvariant, IngressStepIsHubStep, PTL DEF IngressSpec, HubSpec

(* The variables of the ingress always hold values of their types: a task  *)
(* gives up at its third error in a row, and the number of connected       *)
(* sources never goes below zero.                                          *)
THEOREM IngressTypeCorrect == IngressSpec => []IngressTypeOK
<1>1. IngressInv => IngressTypeOK
  BY FS_CardinalityType
  DEF IngressInv, HubInv, IngressFields, SourcesAreCounted, IngressTypeOK
<1> QED
  BY <1>1, IngressInvariant, PTL

(* A task waits exactly while its capture is queued or answered, whatever  *)
(* the queue refuses and whenever the processor is aborted.                *)
THEOREM WaitersCorrect == IngressSpec => []WaitersAreQueued
<1>1. IngressInv => WaitersAreQueued
  <2> SUFFICES ASSUME IngressInv, NEW c \in Connections
               PROVE  /\ Cardinality(QueuedBy(c)) =
                           IF phase[c] = "waiting" /\ answer[c] = "none" THEN 1 ELSE 0
                      /\ answer[c] # "none" => phase[c] = "waiting"
    BY DEF WaitersAreQueued
  <2>1. QueueMatchesTasks
    BY DEF IngressInv
  <2>2. CASE phase[c] = "waiting" /\ answer[c] = "none"
    <3>1. PICK i \in DOMAIN ingestQueue : ingestQueue[i].connection = c
      BY <2>1, <2>2 DEF QueueMatchesTasks
    <3>2. QueuedBy(c) = {i}
      BY <2>1, <3>1 DEF QueuedBy, QueueMatchesTasks
    <3> QED
      BY <2>2, <3>2, FS_Singleton
  <2>3. CASE ~(phase[c] = "waiting" /\ answer[c] = "none")
    <3>1. QueuedBy(c) = {}
      BY <2>1, <2>3 DEF QueuedBy, QueueMatchesTasks
    <3>2. answer[c] # "none" => phase[c] = "waiting"
      BY <2>1 DEF QueueMatchesTasks
    <3> QED
      BY <2>3, <3>1, <3>2, FS_EmptySet
  <2> QED
    BY <2>2, <2>3
<1> QED
  BY <1>1, IngressInvariant, PTL

(* Once every connection of a source is gone, nothing of it stays in       *)
(* flight, also when a disconnect was refused because of an exchange that  *)
(* another connection of the source received after it was stamped; unless  *)
(* the clock was set back or the last disconnect of the source to walk its *)
(* exchanges ended at one whose metadata had no room for the reason.       *)
THEOREM GoneSourcesCorrect == IngressSpec => []GoneSourceHasNothingInFlight
<1>1. IngressInv => GoneSourceHasNothingInFlight
  <2> SUFFICES ASSUME IngressInv, NEW source \in Sources \ cutShort, ~clockSetBack,
                      \A c \in Connections : sourceOf[c] = source => phase[c] = "closed"
               PROVE  /\ \A k \in ExchangeKeys : k.source = source => ~IsInFlight(exchanges[k])
                      /\ \A k \in CommandKeys : k.source = source => ~IsInFlight(commands[k])
    BY DEF GoneSourceHasNothingInFlight
  <2> QED
    BY DEF IngressInv, UnfinishedAreEnded, Ends, Live
<1> QED
  BY <1>1, IngressInvariant, PTL
=====================================================================================
