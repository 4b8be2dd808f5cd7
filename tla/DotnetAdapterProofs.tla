---------------------------- MODULE DotnetAdapterProofs ----------------------------
(***************************************************************************)
(* Proofs about DotnetAdapter for any exchanges, commands, capacities and  *)
(* bounds.                                                                 *)
(***************************************************************************)
EXTENDS DotnetAdapter, FiniteSetTheorems, SequenceTheorems, TLAPS

Known == {x \in Exchanges : tracked[x] # None}

(***************************************************************************)
(* The types, with what the steps rely on: the adapter counts finite sets, *)
(* a message is in the worker's hand exactly while it dispatches, and      *)
(* there is a worker only once the adapter has been started.               *)
(***************************************************************************)
TypeInv ==
  /\ AdapterTypeOK
  /\ IsFiniteSet(Known) /\ \A s \in Stream : IsFiniteSet(pending[s])
  /\ IF worker = "dispatching" THEN inHand \in Message ELSE inHand = None
  /\ ~started => worker = "none"

(* A stop that has returned has waited for the worker. *)
StopInv == StoppedHoldsNothing /\ (stop = "stopped" => worker \in {"none", "ended"})

(***************************************************************************)
(* What the messages that are on their way know: no handle has them before *)
(* it is opened, its outcome comes once, and a snapshot of an ended        *)
(* exchange is not newer than the adapter's revision.                      *)
(***************************************************************************)
FreshInv ==
  /\ \A m \in OnItsWay :
       IF m.kind = "heartbeat" THEN m.revision <= heartbeats
       ELSE /\ handle[m.subject] # "unused"
            /\ m.kind = "terminal" => handle[m.subject] = "done"
            /\ m.kind = "snapshot" /\ m.state # "inFlight" =>
                 /\ handle[m.subject] = "done"
                 /\ tracked[m.subject] # None => m.revision <= tracked[m.subject].revision
  /\ \A x \in Known :
       /\ handle[x] # "unused"
       /\ tracked[x].state # "inFlight" => handle[x] = "done"
  /\ \A d \in trackedCommands : handle[d] # "unused"

AdapterInv ==
  /\ TypeInv /\ NoWakeUpIsLost /\ StopInv
  /\ MessagesInOnePlace /\ FreshInv /\ InFlightRevisionsGrow /\ OutcomesAreNotLost

-----------------------------------------------------------------------------------
(* Messages and queues. *)

LEMMA MessageFields ==
  ASSUME NEW m \in Message
  PROVE  /\ m # None /\ m.stream \in Stream
         /\ m.kind \in {"started", "terminal", "snapshot", "heartbeat"}
         /\ m.kind = "heartbeat" => m.subject = None
         /\ m.kind # "heartbeat" => m.subject \in Exchanges \cup Commands
         /\ m.stream = "http" /\ m.kind # "heartbeat" => m.subject \in Exchanges
         /\ m.stream = "database" => m.subject \in Commands /\ m.kind \in {"started", "terminal"}
         /\ m.revision \in Nat
         /\ m.state \in {"inFlight", "ended"} \cup Outcomes
<1>1. m # None
  BY IdsAssumption
<1> QED
  BY <1>1 DEF Message, Stream

LEMMA NewMessages ==
  /\ \A x \in Exchanges :
       /\ StartedMessage(x) \in Message
       /\ \A outcome \in Outcomes : TerminalMessage(x, outcome) \in Message
       /\ \A e \in ExchangeState : SnapshotMessage(x, e) \in Message
  /\ \A d \in Commands :
       CommandMessage(d, "started") \in Message /\ CommandMessage(d, "terminal") \in Message
  /\ \A n \in Nat : HeartbeatMessage(n) \in Message
BY DEF StartedMessage, TerminalMessage, SnapshotMessage, CommandMessage, HeartbeatMessage,
   Message, ExchangeState

LEMMA ConcatElements ==
  ASSUME NEW q \in Seq(Message), NEW r \in Seq(Message)
  PROVE  /\ q \o r \in Seq(Message) /\ Range(q \o r) = Range(q) \cup Range(r)
         /\ IsInjective(q) /\ IsInjective(r) /\ Range(q) \cap Range(r) = {} =>
              IsInjective(q \o r)
<1>1. /\ q \o r \in Seq(Message) /\ Len(q \o r) = Len(q) + Len(r)
      /\ \A i \in 1 .. Len(q) + Len(r) :
           (q \o r)[i] = IF i <= Len(q) THEN q[i] ELSE r[i - Len(q)]
  BY ConcatProperties
<1>2. /\ Len(q) \in Nat /\ DOMAIN q = 1 .. Len(q)
      /\ Len(r) \in Nat /\ DOMAIN r = 1 .. Len(r)
      /\ DOMAIN (q \o r) = 1 .. Len(q) + Len(r)
  BY <1>1, LenProperties
<1>3. Range(q \o r) = Range(q) \cup Range(r)
  BY RangeConcatenation
<1>4. ASSUME IsInjective(q), IsInjective(r), Range(q) \cap Range(r) = {}
      PROVE  IsInjective(q \o r)
  <2>1. \A i \in 1 .. Len(q), j \in 1 .. Len(r) : q[i] # r[j]
    BY <1>2, <1>4 DEF Range
  <2> QED
    BY <1>1, <1>2, <1>4, <2>1 DEF IsInjective
<1> QED
  BY <1>1, <1>3, <1>4

LEMMA SingleElement ==
  ASSUME NEW m \in Message
  PROVE  <<m>> \in Seq(Message) /\ <<m>> # <<>> /\ Range(<<m>>) = {m} /\ IsInjective(<<m>>)
BY DEF Range, IsInjective

LEMMA AppendElements ==
  ASSUME NEW q \in Seq(Message), NEW m \in Message
  PROVE  /\ Append(q, m) \in Seq(Message) /\ Append(q, m) # <<>>
         /\ Range(Append(q, m)) = Range(q) \cup {m}
         /\ IsInjective(q) /\ m \notin Range(q) => IsInjective(Append(q, m))
<1>1. Append(q, m) = q \o <<m>> /\ Append(q, m) # <<>>
  BY AppendIsConcat, AppendProperties
<1>2. <<m>> \in Seq(Message) /\ Range(<<m>>) = {m} /\ IsInjective(<<m>>)
  BY SingleElement
<1>3. /\ q \o <<m>> \in Seq(Message) /\ Range(q \o <<m>>) = Range(q) \cup {m}
      /\ IsInjective(q) /\ Range(q) \cap {m} = {} => IsInjective(q \o <<m>>)
  BY <1>2, ConcatElements
<1> QED
  BY <1>1, <1>3

LEMMA PrependElements ==
  ASSUME NEW q \in Seq(Message), NEW m \in Message
  PROVE  /\ <<m>> \o q \in Seq(Message)
         /\ Range(<<m>> \o q) = Range(q) \cup {m}
         /\ IsInjective(q) /\ m \notin Range(q) => IsInjective(<<m>> \o q)
<1>1. <<m>> \in Seq(Message) /\ Range(<<m>>) = {m} /\ IsInjective(<<m>>)
  BY SingleElement
<1>2. /\ <<m>> \o q \in Seq(Message) /\ Range(<<m>> \o q) = {m} \cup Range(q)
      /\ IsInjective(q) /\ {m} \cap Range(q) = {} => IsInjective(<<m>> \o q)
  BY <1>1, ConcatElements
<1> QED
  BY <1>2

LEMMA TailElements ==
  ASSUME NEW q \in Seq(Message), q # <<>>
  PROVE  /\ Head(q) \in Message /\ Tail(q) \in Seq(Message)
         /\ Head(q) \in Range(q) /\ Range(q) = Range(Tail(q)) \cup {Head(q)}
         /\ IsInjective(q) => IsInjective(Tail(q)) /\ Head(q) \notin Range(Tail(q))
<1>1. /\ Head(q) \in Message /\ Tail(q) \in Seq(Message) /\ Len(Tail(q)) = Len(q) - 1
      /\ \A i \in 1 .. Len(Tail(q)) : Tail(q)[i] = q[i + 1]
  BY HeadTailProperties
<1>2. Len(q) \in Nat \ {0} /\ DOMAIN q = 1 .. Len(q) /\ DOMAIN Tail(q) = 1 .. Len(q) - 1
  BY <1>1, LenProperties, EmptySeq
<1>3. Head(q) = q[1]
  OBVIOUS
<1>4. Range(q) = Range(Tail(q)) \cup {Head(q)}
  <2>1. ASSUME NEW i \in 1 .. Len(q) PROVE q[i] \in Range(Tail(q)) \cup {Head(q)}
    <3>1. CASE i = 1
      BY <1>3, <3>1
    <3>2. CASE i # 1
      <4>1. i - 1 \in 1 .. Len(q) - 1 /\ Tail(q)[i - 1] = q[i]
        BY <1>1, <1>2, <3>2
      <4> QED
        BY <1>2, <4>1 DEF Range
    <3> QED
      BY <3>1, <3>2
  <2> QED
    BY <1>1, <1>2, <1>3, <2>1 DEF Range
<1>5. IsInjective(q) => IsInjective(Tail(q)) /\ Head(q) \notin Range(Tail(q))
  BY <1>1, <1>2, <1>3 DEF Range, IsInjective
<1> QED
  BY <1>1, <1>4, <1>5
-----------------------------------------------------------------------------------
(* What the steps do to the queues. *)

LEMMA QueuedIsRange ==
  \A s \in Stream : Queued(s) = Range(queue[s]) /\ Queued(s)' = Range(queue'[s])
BY DEF Queued, Range

LEMMA EnqueueFacts ==
  ASSUME TypeInv, NEW m \in Message, Enqueue(m)
  PROVE  /\ queue' \in [Stream -> Seq(Message)] /\ queue'[m.stream] # <<>>
         /\ \A s \in Stream : s # m.stream => queue'[s] = queue[s]
         /\ Queued(m.stream)' = Queued(m.stream) \cup {m}
         /\ \A s \in Stream : s # m.stream => Queued(s)' = Queued(s)
         /\ (\A s \in Stream : IsInjective(queue[s])) /\ m \notin Queued(m.stream) =>
              \A s \in Stream : IsInjective(queue'[s])
<1>1. m.stream \in Stream /\ queue \in [Stream -> Seq(Message)]
  BY MessageFields DEF TypeInv, AdapterTypeOK
<1>2. /\ queue' \in [Stream -> Seq(Message)]
      /\ queue'[m.stream] = Append(queue[m.stream], m)
      /\ \A s \in Stream : s # m.stream => queue'[s] = queue[s]
  BY <1>1, AppendElements DEF Enqueue
<1> QED
  <2>1. queue[m.stream] \in Seq(Message)
    BY <1>1
  <2>2. /\ queue'[m.stream] # <<>>
        /\ Range(queue'[m.stream]) = Range(queue[m.stream]) \cup {m}
        /\ IsInjective(queue[m.stream]) /\ m \notin Range(queue[m.stream]) =>
             IsInjective(queue'[m.stream])
    BY <1>2, <2>1, AppendElements
  <2> QED
    BY <1>1, <1>2, <2>2, QueuedIsRange

LEMMA PutBackFacts ==
  ASSUME TypeInv, NEW m \in Message, PutBack(m)
  PROVE  /\ queue' \in [Stream -> Seq(Message)]
         /\ wake' \in {wake, TRUE} /\ (queue' # queue => wake' = TRUE)
         /\ Stopped => queue' = queue
         /\ Queued(m.stream)' = IF Stopped THEN Queued(m.stream) ELSE Queued(m.stream) \cup {m}
         /\ \A s \in Stream : s # m.stream => Queued(s)' = Queued(s)
         /\ (\A s \in Stream : IsInjective(queue[s])) /\ m \notin Queued(m.stream) =>
              \A s \in Stream : IsInjective(queue'[s])
<1>1. m.stream \in Stream /\ queue \in [Stream -> Seq(Message)]
  BY MessageFields DEF TypeInv, AdapterTypeOK
<1>2. CASE Stopped
  BY <1>1, <1>2 DEF PutBack, Queued
<1>3. CASE ~Stopped
  <2>1. /\ queue' \in [Stream -> Seq(Message)] /\ wake' = TRUE
        /\ queue'[m.stream] = <<m>> \o queue[m.stream]
        /\ \A s \in Stream : s # m.stream => queue'[s] = queue[s]
    <3>1. <<m>> \o queue[m.stream] \in Seq(Message)
      BY <1>1, PrependElements
    <3> QED
      BY <1>1, <1>3, <3>1 DEF PutBack
  <2>2. queue[m.stream] \in Seq(Message)
    BY <1>1
  <2>3. /\ Range(queue'[m.stream]) = Range(queue[m.stream]) \cup {m}
        /\ IsInjective(queue[m.stream]) /\ m \notin Range(queue[m.stream]) =>
             IsInjective(queue'[m.stream])
    BY <2>1, <2>2, PrependElements
  <2> QED
    BY <1>1, <1>3, <2>1, <2>3, QueuedIsRange
<1> QED
  BY <1>2, <1>3

LEMMA DequeueFacts ==
  ASSUME TypeInv, Dequeue, NEW s \in Stream, s = NextStream
  PROVE  /\ queue' \in [Stream -> Seq(Message)] /\ inHand' \in Message
         /\ inHand' \in Queued(s) /\ Queued(s) = Queued(s)' \cup {inHand'}
         /\ \A t \in Stream : t # s => queue'[t] = queue[t] /\ Queued(t)' = Queued(t)
         /\ IsInjective(queue[s]) => IsInjective(queue'[s]) /\ inHand' \notin Queued(s)'
<1>1. s \in Stream /\ queue \in [Stream -> Seq(Message)] /\ queue[s] # <<>>
  BY DEF TypeInv, AdapterTypeOK, Dequeue
<1>2. inHand' = Head(queue[s]) /\ queue' = [queue EXCEPT ![s] = Tail(@)]
  BY DEF Dequeue
<1>3. /\ queue' \in [Stream -> Seq(Message)] /\ queue'[s] = Tail(queue[s])
      /\ \A t \in Stream : t # s => queue'[t] = queue[t]
  BY <1>1, <1>2, TailElements
<1>4. /\ inHand' \in Message /\ inHand' \in Queued(s)
      /\ Queued(s) = Queued(s)' \cup {inHand'}
      /\ IsInjective(queue[s]) => IsInjective(queue'[s]) /\ inHand' \notin Queued(s)'
  <2>1. queue[s] \in Seq(Message)
    BY <1>1
  <2>2. /\ Head(queue[s]) \in Message /\ Head(queue[s]) \in Range(queue[s])
        /\ Range(queue[s]) = Range(queue'[s]) \cup {Head(queue[s])}
        /\ IsInjective(queue[s]) =>
             IsInjective(queue'[s]) /\ Head(queue[s]) \notin Range(queue'[s])
    BY <1>1, <1>3, <2>1, TailElements
  <2> QED
    BY <1>1, <1>2, <2>2, QueuedIsRange
<1>5. \A t \in Stream : t # s => Queued(t)' = Queued(t)
  BY <1>3, QueuedIsRange
<1> QED
  BY <1>1, <1>3, <1>4, <1>5

LEMMA RecoverFacts ==
  ASSUME TypeInv, Recover
  PROVE  /\ tracked' \in [Exchanges -> ExchangeState \cup {None}] /\ Known' = Known
         /\ \A x \in Known : /\ tracked'[x].state = tracked[x].state
                             /\ tracked'[x].revision = tracked[x].revision + 2
         /\ queue' \in [Stream -> Seq(Message)] /\ queue'["database"] = queue["database"]
         /\ \E new \in SUBSET {SnapshotMessage(x, tracked'[x]) : x \in Known} :
              /\ Queued("http")' = Queued("http") \cup new
              /\ IsInjective(queue["http"]) /\ new \cap Queued("http") = {} =>
                   IsInjective(queue'["http"])
<1>1. /\ tracked' = [x \in Exchanges |-> IF x \in Known THEN Recovered(tracked[x]) ELSE None]
      /\ tracked \in [Exchanges -> ExchangeState \cup {None}]
  BY DEF TypeInv, AdapterTypeOK, Recover, Known
<1>2. /\ tracked' \in [Exchanges -> ExchangeState \cup {None}]
      /\ \A x \in Known : /\ tracked'[x] \in ExchangeState
                          /\ tracked'[x].state = tracked[x].state
                          /\ tracked'[x].revision = tracked[x].revision + 2
      /\ \A x \in Exchanges \ Known : tracked'[x] = None
  BY <1>1 DEF Known, Recovered, ExchangeState
<1>3. Known' = Known
  BY <1>1, <1>2, IdsAssumption DEF Known
<1> DEFINE left == HttpCapacity - Len(queue["http"]) - Cardinality(pending["http"])
           room == IF left > 0 THEN left ELSE 0
           n    == Cardinality(Known)
<1>4. /\ queue \in [Stream -> Seq(Message)] /\ {"http", "database"} = Stream
      /\ room \in Nat /\ n \in Nat
  <2>1. queue \in [Stream -> Seq(Message)] /\ {"http", "database"} = Stream
    BY DEF TypeInv, AdapterTypeOK, Stream
  <2>2. Len(queue["http"]) \in Nat /\ Cardinality(pending["http"]) \in Nat /\ n \in Nat
    BY <2>1, FS_CardinalityType, LenProperties DEF TypeInv
  <2> QED
    BY <2>1, <2>2, CapacityAssumption
<1> HIDE DEF room, n
<1>5. PICK order \in SetToSeqs(Known) :
        LET snapshots == [i \in DOMAIN order |-> SnapshotMessage(order[i], tracked'[order[i]])]
            fitting   == IF Len(order) <= room THEN Len(order) ELSE room
        IN  queue' = [queue EXCEPT !["http"] = @ \o SubSeq(snapshots, 1, fitting)]
  BY DEF Recover, Known, room
<1>6. /\ order \in [1 .. n -> Known] /\ order \in Seq(Known) /\ Len(order) = n
      /\ \A i, j \in 1 .. n : i # j => order[i] # order[j]
  BY <1>4, <1>5 DEF SetToSeqs, n
<1> DEFINE snapshots == [i \in 1 .. n |-> SnapshotMessage(order[i], tracked'[order[i]])]
           fitting   == IF n <= room THEN n ELSE room
           added     == SubSeq(snapshots, 1, fitting)
<1>7. /\ \A i \in 1 .. n : /\ snapshots[i] = SnapshotMessage(order[i], tracked'[order[i]])
                           /\ snapshots[i] \in Message /\ snapshots[i].subject = order[i]
                           /\ order[i] \in Known
      /\ fitting \in 0 .. n
      /\ queue' = [queue EXCEPT !["http"] = @ \o added]
  <2>1. ASSUME NEW i \in 1 .. n
        PROVE  /\ snapshots[i] \in Message /\ snapshots[i].subject = order[i] /\ order[i] \in Known
    BY <1>2, <1>6, NewMessages DEF SnapshotMessage, Known
  <2> QED
    BY <1>4, <1>5, <1>6, <2>1
<1> HIDE DEF snapshots, fitting
<1>8. /\ added \in Seq(Message) /\ Len(added) = fitting
      /\ \A i \in 1 .. fitting : added[i] = snapshots[i]
  <2>1. fitting \in Int /\ \A i \in 1 .. fitting : snapshots[i] \in Message
    BY <1>4, <1>7
  <2> QED
    BY <1>4, <1>7, <2>1, SubSeqProperties
<1> HIDE DEF added
<1>9. DOMAIN added = 1 .. fitting /\ fitting \in 0 .. n /\ n \in Nat
  BY <1>4, <1>7, <1>8, LenProperties
<1>10. Range(added) \subseteq {SnapshotMessage(x, tracked'[x]) : x \in Known}
  BY <1>4, <1>7, <1>8, <1>9 DEF Range
<1>11. IsInjective(added)
  <2>1. \A i, j \in 1 .. fitting : i # j => added[i].subject # added[j].subject
    BY <1>6, <1>7, <1>8, <1>9
  <2> QED
    BY <1>9, <2>1 DEF IsInjective
<1>12. /\ queue' \in [Stream -> Seq(Message)] /\ queue'["database"] = queue["database"]
       /\ queue'["http"] = queue["http"] \o added
  BY <1>4, <1>7, <1>8, ConcatElements
<1>13. /\ Queued("http")' = Queued("http") \cup Range(added)
       /\ IsInjective(queue["http"]) /\ Range(added) \cap Queued("http") = {} =>
            IsInjective(queue'["http"])
  <2>1. queue["http"] \in Seq(Message)
    BY <1>4
  <2>2. /\ Range(queue'["http"]) = Range(queue["http"]) \cup Range(added)
        /\ IsInjective(queue["http"]) /\ Range(queue["http"]) \cap Range(added) = {} =>
             IsInjective(queue'["http"])
    BY <1>8, <1>11, <1>12, <2>1, ConcatElements
  <2> QED
    BY <1>4, <2>2, QueuedIsRange
<1> QED
  BY <1>2, <1>3, <1>10, <1>12, <1>13

LEMMA ForgetFacts ==
  ASSUME TypeInv, NEW m \in Message, Forget(m)
  PROVE  /\ pending' \in [Stream -> SUBSET Message]
         /\ \A s \in Stream : IsFiniteSet(pending'[s]) /\ pending'[s] \subseteq pending[s]
         /\ pending'[m.stream] = pending[m.stream] \ {m}
         /\ \A s \in Stream : s # m.stream => pending'[s] = pending[s]
<1>1. /\ m.stream \in Stream /\ pending \in [Stream -> SUBSET Message]
      /\ \A s \in Stream : IsFiniteSet(pending[s])
  BY MessageFields DEF TypeInv, AdapterTypeOK
<1>2. IsFiniteSet(pending[m.stream] \ {m})
  BY <1>1, FS_RemoveElement
<1> QED
  BY <1>1, <1>2 DEF Forget

-----------------------------------------------------------------------------------
(* The types. *)

LEMMA KnownStaysFinite ==
  ASSUME TypeInv, NEW x, Known' \subseteq Known \cup {x}
  PROVE  IsFiniteSet(Known')
<1>1. IsFiniteSet(Known \cup {x})
  BY FS_AddElement DEF TypeInv
<1> QED
  BY <1>1, FS_Subset

LEMMA CallerKeepsTypes == ASSUME TypeInv, CallerStep PROVE TypeInv'
<1> USE DEF callerVars, trackVars, observerVars, workerVars
<1>1. CASE Start
  BY <1>1 DEF Start, TypeInv, AdapterTypeOK, Known
<1>2. ASSUME NEW x \in Exchanges \cup Commands, NEW m \in Message, Capture(x, m),
             m.subject = x, m.kind = "started"
      PROVE  TypeInv'
  <2>1. /\ handle' \in [Exchanges \cup Commands -> {"unused", "open", "done"}]
        /\ wake' \in BOOLEAN /\ trackedCommands' \subseteq Commands
    <3>1. m.stream = "database" => x \in Commands
      BY <1>2, MessageFields
    <3>2. m.stream # "http" => m.stream = "database"
      BY MessageFields DEF Stream
    <3>3. trackedCommands' \subseteq trackedCommands \cup IF m.stream = "database" THEN {x} ELSE {}
      BY <1>2, <3>2 DEF Capture
    <3>4. wake' \in {wake, TRUE}
      BY <1>2 DEF Capture
    <3>5. handle' \in [Exchanges \cup Commands -> {"unused", "open", "done"}]
      BY <1>2 DEF Capture, TypeInv, AdapterTypeOK
    <3> QED
      BY <3>1, <3>3, <3>4, <3>5 DEF TypeInv, AdapterTypeOK
  <2>2. queue' \in [Stream -> Seq(Message)]
    BY <1>2, EnqueueFacts DEF Capture, TypeInv, AdapterTypeOK
  <2>3. tracked' \in [Exchanges -> ExchangeState \cup {None}] /\ Known' \subseteq Known \cup {x}
    BY <1>2, MessageFields DEF Capture, TypeInv, AdapterTypeOK, ExchangeState, Known, Stream
  <2>4. IsFiniteSet(Known')
    BY <2>3, KnownStaysFinite
  <2> QED
    BY <1>2, <2>1, <2>2, <2>3, <2>4 DEF Capture, TypeInv, AdapterTypeOK
<1>3. ASSUME NEW x \in Exchanges, NEW outcome \in Outcomes, QueueTerminal(x, outcome)
      PROVE  TypeInv'
  <2>1. TerminalMessage(x, outcome) \in Message
    BY NewMessages
  <2>2. /\ handle' \in [Exchanges \cup Commands -> {"unused", "open", "done"}]
        /\ wake' \in BOOLEAN
    BY <1>3 DEF QueueTerminal, TypeInv, AdapterTypeOK
  <2>3. queue' \in [Stream -> Seq(Message)]
    BY <1>3, <2>1, EnqueueFacts DEF QueueTerminal, TypeInv, AdapterTypeOK
  <2>4. tracked' \in [Exchanges -> ExchangeState \cup {None}] /\ Known' \subseteq Known \cup {x}
    BY <1>3 DEF QueueTerminal, TypeInv, AdapterTypeOK, ExchangeState, Known
  <2>5. IsFiniteSet(Known')
    BY <2>4, KnownStaysFinite
  <2> QED
    BY <1>3, <2>2, <2>3, <2>4, <2>5 DEF QueueTerminal, TypeInv, AdapterTypeOK
<1>4. ASSUME NEW d \in Commands, QueueDatabaseTerminal(d) PROVE TypeInv'
  <2>1. CommandMessage(d, "terminal") \in Message
    BY NewMessages
  <2>2. queue' \in [Stream -> Seq(Message)]
    BY <1>4, <2>1, EnqueueFacts DEF QueueDatabaseTerminal, TypeInv, AdapterTypeOK
  <2>3. trackedCommands' \subseteq trackedCommands /\ wake' \in {wake, TRUE}
    BY <1>4 DEF QueueDatabaseTerminal
  <2>4. /\ handle' = [handle EXCEPT ![d] = "done"]
        /\ UNCHANGED <<started, stop, tracked, pending, observerVars, workerVars, faulted, heartbeats>>
    BY <1>4 DEF QueueDatabaseTerminal
  <2>5. Known' = Known
    BY <2>4 DEF Known
  <2>6. wake' \in BOOLEAN
    BY <2>3 DEF TypeInv, AdapterTypeOK
  <2> QED
    BY <2>2, <2>3, <2>4, <2>5, <2>6 DEF TypeInv, AdapterTypeOK
<1>5. CASE Heartbeat
  <2>1. heartbeats + 1 \in 0 .. MaxHeartbeats
    BY <1>5, CapacityAssumption DEF Heartbeat, TypeInv, AdapterTypeOK
  <2>2. HeartbeatMessage(heartbeats + 1) \in Message
    BY <2>1, NewMessages
  <2>3. queue' \in [Stream -> Seq(Message)]
    BY <1>5, <2>2, EnqueueFacts DEF Heartbeat, TypeInv, AdapterTypeOK
  <2> QED
    BY <1>5, <2>1, <2>3 DEF Heartbeat, TypeInv, AdapterTypeOK, Known
<1>6. \A x \in Exchanges : CaptureStarted(x) => TypeInv'
  BY <1>2, NewMessages DEF CaptureStarted, StartedMessage
<1>7. \A d \in Commands : CaptureDatabaseStarted(d) => TypeInv'
  BY <1>2, NewMessages DEF CaptureDatabaseStarted, CommandMessage
<1> QED
  BY <1>1, <1>3, <1>4, <1>5, <1>6, <1>7 DEF CallerStep

LEMMA WorkerKeepsTypes == ASSUME TypeInv, WorkerStep PROVE TypeInv'
<1> USE DEF callerVars, trackVars, observerVars, workerVars
<1>1. CASE Recover
  <2>1. /\ tracked' \in [Exchanges -> ExchangeState \cup {None}] /\ Known' = Known
        /\ queue' \in [Stream -> Seq(Message)]
    BY <1>1, RecoverFacts
  <2>2. /\ worker = "recovering" /\ worker' = "running" /\ wake' = TRUE
        /\ UNCHANGED <<started, handle, stop, trackedCommands, pending, awaiting, refused, failed,
                       signalling, lost, inHand, session, faulted, connects, reconnectDisabled,
                       heartbeats>>
    BY <1>1 DEF Recover
  <2> QED
    BY <2>1, <2>2 DEF TypeInv, AdapterTypeOK
<1>2. CASE Dequeue
  <2>1. queue' \in [Stream -> Seq(Message)] /\ inHand' \in Message
    BY <1>2, DequeueFacts DEF NextStream, Stream
  <2> QED
    BY <1>2, <2>1 DEF Dequeue, TypeInv, AdapterTypeOK, Known
<1>3. CASE Dispatch
  <2>1. inHand \in Message /\ inHand.stream \in Stream
    BY <1>3, MessageFields DEF Dispatch, TypeInv
  <2>2. pending \in [Stream -> SUBSET Message] /\ \A s \in Stream : IsFiniteSet(pending[s])
    BY DEF TypeInv, AdapterTypeOK
  <2>3. IsFiniteSet(pending[inHand.stream] \cup {inHand})
    BY <2>1, <2>2, FS_AddElement
  <2>4. pending' \in [Stream -> SUBSET Message] /\ \A s \in Stream : IsFiniteSet(pending'[s])
    BY <1>3, <2>1, <2>2, <2>3 DEF Dispatch
  <2> QED
    BY <1>3, <2>1, <2>4 DEF Dispatch, TypeInv, AdapterTypeOK, Known
<1>4. CASE Sleep \/ WakeUp \/ EndBackoff
  BY <1>4 DEF Sleep, WakeUp, EndBackoff, TypeInv, AdapterTypeOK, Known
<1>5. CASE Disconnect
  BY <1>5 DEF Disconnect, CloseTransport, TypeInv, AdapterTypeOK, Known
<1> QED
  BY <1>1, <1>2, <1>3, <1>4, <1>5 DEF WorkerStep

LEMMA ObserverKeepsTypes == ASSUME TypeInv, RetryStep \/ AnswerStep PROVE TypeInv'
<1> USE DEF callerVars, trackVars, observerVars, workerVars
<1>1. ASSUME NEW m \in Message, RetryRefused(m) \/ RetryFailed(m) PROVE TypeInv'
  <2>1. Forget(m) /\ PutBack(m)
    BY <1>1 DEF RetryRefused, RetryFailed
  <2>2. /\ pending' \in [Stream -> SUBSET Message] /\ \A s \in Stream : IsFiniteSet(pending'[s])
        /\ queue' \in [Stream -> Seq(Message)] /\ wake' \in {wake, TRUE}
    BY <2>1, ForgetFacts, PutBackFacts
  <2>3. /\ refused' \subseteq refused /\ failed' \subseteq failed
        /\ signalling' \subseteq signalling \cup {m}
        /\ UNCHANGED <<started, stop, handle, tracked, trackedCommands, lost, awaiting, workerVars,
                       faulted, heartbeats>>
    BY <1>1 DEF RetryRefused, RetryFailed
  <2>4. Known' = Known
    BY <2>3 DEF Known
  <2>5. wake' \in BOOLEAN
    BY <2>2 DEF TypeInv, AdapterTypeOK
  <2> QED
    BY <2>2, <2>3, <2>4, <2>5 DEF TypeInv, AdapterTypeOK
<1>2. ASSUME NEW m \in Message, SignalConnectionFault(m) PROVE TypeInv'
  BY <1>2 DEF SignalConnectionFault, TypeInv, AdapterTypeOK, Known
<1>3. ASSUME NEW m \in Message, Accepted(m) PROVE TypeInv'
  <2>1. /\ pending' \in [Stream -> SUBSET Message]
        /\ \A s \in Stream : IsFiniteSet(pending'[s])
    BY <1>3, ForgetFacts DEF Accepted
  <2>2. tracked' \in [Exchanges -> ExchangeState \cup {None}] /\ Known' \subseteq Known \cup {None}
    BY <1>3 DEF Accepted, Known, TypeInv, AdapterTypeOK
  <2>3. IsFiniteSet(Known')
    BY <2>2, KnownStaysFinite
  <2> QED
    BY <1>3, <2>1, <2>2, <2>3 DEF Accepted, TypeInv, AdapterTypeOK
<1>4. ASSUME NEW m \in Message, NEW b \in BOOLEAN, Rejected(m, b) PROVE TypeInv'
  <2>1. /\ pending' \in [Stream -> SUBSET Message]
        /\ \A s \in Stream : IsFiniteSet(pending'[s])
    BY <1>4, ForgetFacts DEF Rejected
  <2> QED
    BY <1>4, <2>1 DEF Rejected, TypeInv, AdapterTypeOK, Known
<1>5. ASSUME NEW m \in Message, FailSend(m) \/ Abandon(m) PROVE TypeInv'
  <2>1. /\ awaiting' \subseteq awaiting /\ failed' \subseteq failed \cup {m}
        /\ UNCHANGED <<started, stop, handle, tracked, trackedCommands, queue, pending, refused,
                       signalling, lost, wake, workerVars, faulted, heartbeats>>
    BY <1>5 DEF FailSend, Abandon
  <2> QED
    BY <2>1 DEF TypeInv, AdapterTypeOK, Known
<1>6. awaiting \cup refused \cup failed \cup signalling \subseteq Message
  BY DEF TypeInv, AdapterTypeOK
<1> QED
  BY <1>1, <1>2, <1>3, <1>4, <1>5, <1>6 DEF RetryStep, AnswerStep

LEMMA ConnectKeepsTypes == ASSUME TypeInv, BeginStop \/ StopStep \/ ConnectStep PROVE TypeInv'
<1> USE DEF callerVars, trackVars, observerVars, workerVars
<1>1. CASE BeginStop \/ CancelWorkers
  BY <1>1 DEF BeginStop, CancelWorkers, TypeInv, AdapterTypeOK, Known
<1>2. CASE CloseForStop
  BY <1>2 DEF CloseForStop, CloseTransport, TypeInv, AdapterTypeOK, Known
<1>3. CASE EndStop
  <2>1. CASE stop' = "stopped"
    <3>1. IsFiniteSet(Known') /\ IsFiniteSet({})
      BY <1>3, <2>1, FS_EmptySet DEF EndStop, Known
    <3>2. <<>> \in Seq(Message)
      OBVIOUS
    <3> QED
      BY <1>3, <2>1, <3>1, <3>2 DEF EndStop, TypeInv, AdapterTypeOK
  <2>2. CASE stop' = "threw"
    BY <1>3, <2>2 DEF EndStop, TypeInv, AdapterTypeOK, Known
  <2> QED
    BY <1>3, <2>1, <2>2 DEF EndStop
<1>4. ASSUME NEW b \in BOOLEAN, Connect(b) PROVE TypeInv'
  <2>1. connects' \in 0 .. MaxConnects
    BY <1>4, CapacityAssumption DEF Connect, TypeInv, AdapterTypeOK
  <2>2. queue' \in [Stream -> Seq(Message)] /\ trackedCommands' \subseteq Commands
    <3>1. <<>> \in Seq(Message)
      OBVIOUS
    <3>2. queue' \in {queue, [queue EXCEPT !["database"] = <<>>]}
      BY <1>4 DEF Connect
    <3>3. trackedCommands' \subseteq trackedCommands
      BY <1>4 DEF Connect
    <3> QED
      BY <3>1, <3>2, <3>3 DEF TypeInv, AdapterTypeOK
  <2>3. /\ pending' \in [Stream -> SUBSET Message]
        /\ \A s \in Stream : IsFiniteSet(pending'[s])
    BY <1>4, FS_EmptySet DEF Connect, TypeInv, AdapterTypeOK
  <2> QED
    BY <1>4, <2>1, <2>2, <2>3 DEF Connect, TypeInv, AdapterTypeOK, Known
<1>5. ASSUME NEW b \in BOOLEAN, FailConnect(b) PROVE TypeInv'
  BY <1>5 DEF FailConnect, CloseTransport, TypeInv, AdapterTypeOK, Known
<1> QED
  BY <1>1, <1>2, <1>3, <1>4, <1>5 DEF StopStep, ConnectStep

LEMMA TypeInvNext == TypeInv /\ [AdapterNext]_adapterVars => TypeInv'
<1> SUFFICES ASSUME TypeInv, [AdapterNext]_adapterVars PROVE TypeInv'
  OBVIOUS
<1>1. CASE UNCHANGED adapterVars
  BY <1>1 DEF adapterVars, TypeInv, AdapterTypeOK, Known
<1> QED
  BY <1>1, CallerKeepsTypes, WorkerKeepsTypes, ObserverKeepsTypes, ConnectKeepsTypes
  DEF AdapterNext

-----------------------------------------------------------------------------------
(* The worker's sleep: whoever gives it work wakes it. *)

LEMMA WakeUpNext ==
  NoWakeUpIsLost /\ [AdapterNext]_adapterVars => NoWakeUpIsLost'
<1> SUFFICES ASSUME NoWakeUpIsLost, [AdapterNext]_adapterVars,
                    worker' = "asleep", ~wake'
             PROVE  /\ \A s \in Stream : queue'[s] = <<>>
                    /\ ~faulted' /\ ~Cancelled'
  BY DEF NoWakeUpIsLost
<1> USE DEF callerVars, trackVars, observerVars, workerVars
<1>1. CASE UNCHANGED <<worker, wake, queue, faulted, stop>>
  BY <1>1 DEF NoWakeUpIsLost, Cancelled
<1>2. CASE CallerStep
  <2>1. CASE Start \/ Heartbeat
    BY <2>1 DEF Start, Heartbeat
  <2>2. ASSUME NEW x, NEW m, Capture(x, m)
        PROVE  wake' \/ UNCHANGED <<worker, wake, queue, faulted, stop>>
    BY <2>2 DEF Capture
  <2>3. ASSUME NEW x, NEW outcome, QueueTerminal(x, outcome)
        PROVE  wake' \/ UNCHANGED <<worker, wake, queue, faulted, stop>>
    BY <2>3 DEF QueueTerminal
  <2>4. ASSUME NEW d, QueueDatabaseTerminal(d)
        PROVE  wake' \/ UNCHANGED <<worker, wake, queue, faulted, stop>>
    BY <2>4 DEF QueueDatabaseTerminal
  <2> QED
    BY <1>1, <1>2, <2>1, <2>2, <2>3, <2>4 DEF CallerStep, CaptureStarted, CaptureDatabaseStarted
<1>3. CASE WorkerStep
  <2>1. CASE Sleep
    <3>1. ~faulted'
      BY <2>1 DEF Sleep
    <3>2. (\A s \in Stream : queue'[s] = <<>>) /\ ~Cancelled'
      BY <2>1 DEF Sleep, Cancelled
    <3> QED
      BY <3>1, <3>2
  <2>2. CASE Recover \/ Dequeue \/ Dispatch \/ WakeUp \/ Disconnect \/ EndBackoff
    BY <2>2 DEF Recover, Dequeue, Dispatch, WakeUp, Disconnect, EndBackoff
  <2> QED
    BY <1>3, <2>1, <2>2 DEF WorkerStep
<1>4. CASE RetryStep
  <2>1. ASSUME NEW m, RetryRefused(m) \/ RetryFailed(m)
        PROVE  wake' \/ UNCHANGED <<worker, wake, queue, faulted, stop>>
    BY <2>1 DEF RetryRefused, RetryFailed, PutBack
  <2>2. ASSUME NEW m, SignalConnectionFault(m) PROVE wake'
    BY <2>2 DEF SignalConnectionFault
  <2> QED
    BY <1>1, <1>4, <2>1, <2>2 DEF RetryStep
<1>5. CASE BeginStop \/ StopStep
  <2>1. CASE BeginStop
    BY <2>1 DEF BeginStop, NoWakeUpIsLost, Cancelled
  <2>2. CASE CancelWorkers
    BY <2>2 DEF CancelWorkers
  <2>3. CASE CloseForStop \/ EndStop
    BY <2>3 DEF CloseForStop, EndStop, NoWakeUpIsLost, Cancelled
  <2> QED
    BY <1>5, <2>1, <2>2, <2>3 DEF StopStep
<1>6. CASE ConnectStep
  BY <1>6 DEF ConnectStep, Connect, FailConnect
<1>7. CASE AnswerStep
  BY <1>1, <1>7 DEF AnswerStep, Accepted, Rejected, FailSend, Abandon
<1>8. CASE UNCHANGED adapterVars
  BY <1>1, <1>8 DEF adapterVars
<1> QED
  BY <1>2, <1>3, <1>4, <1>5, <1>6, <1>7, <1>8 DEF AdapterNext

-----------------------------------------------------------------------------------
(* The stop: nothing is taken up once it has returned. *)

Holdings == <<stop, tracked, trackedCommands, queue, pending, worker, inHand, session>>

LEMMA StopNext == TypeInv /\ StopInv /\ [AdapterNext]_adapterVars => StopInv'
<1> SUFFICES ASSUME TypeInv, StopInv, [AdapterNext]_adapterVars, stop' = "stopped" PROVE StopInv'
  BY DEF StopInv, StoppedHoldsNothing
<1> USE DEF callerVars, trackVars, observerVars, workerVars
<1>1. CASE UNCHANGED Holdings
  BY <1>1 DEF Holdings, StopInv, StoppedHoldsNothing
<1>2. CASE EndStop
  BY <1>2 DEF EndStop, StopInv, StoppedHoldsNothing, TypeInv
<1>3. CASE stop = "stopped" /\ ~EndStop
  <2>1. /\ Stopped /\ worker \in {"none", "ended"}
        /\ \A s \in Stream : queue[s] = <<>> /\ pending[s] = {}
        /\ tracked \in [Exchanges -> ExchangeState \cup {None}]
        /\ \A x \in Exchanges : tracked[x] = None
        /\ trackedCommands = {} /\ inHand = None /\ session = None
    BY <1>3 DEF Stopped, StopInv, StoppedHoldsNothing, TypeInv, AdapterTypeOK
  <2>2. CASE CallerStep
    <3>1. \A x, m : Capture(x, m) => UNCHANGED Holdings
      BY <2>1 DEF Capture, Holdings
    <3>2. \A x, outcome : QueueTerminal(x, outcome) => UNCHANGED Holdings
      BY <2>1 DEF QueueTerminal, Holdings
    <3>3. \A d : QueueDatabaseTerminal(d) => UNCHANGED Holdings
      BY <2>1 DEF QueueDatabaseTerminal, Holdings
    <3>4. ~Start /\ ~Heartbeat
      BY <2>1 DEF Start, Heartbeat
    <3> QED
      BY <1>1, <2>2, <3>1, <3>2, <3>3, <3>4 DEF CallerStep, CaptureStarted, CaptureDatabaseStarted
  <2>3. ~WorkerStep
    BY <2>1 DEF WorkerStep, Recover, Dequeue, Dispatch, Sleep, WakeUp, Disconnect, EndBackoff
  <2>4. ~ConnectStep
    BY <2>1 DEF ConnectStep, Connect, FailConnect
  <2>5. ASSUME NEW m \in Message, Forget(m) PROVE \A s \in Stream : pending'[s] = {}
    BY <2>1, <2>5, ForgetFacts
  <2>6. CASE RetryStep \/ AnswerStep
    <3>1. PICK m \in Message :
            \/ RetryRefused(m) \/ RetryFailed(m) \/ SignalConnectionFault(m) \/ Accepted(m)
            \/ FailSend(m) \/ Abandon(m) \/ \E b \in BOOLEAN : Rejected(m, b)
      BY <2>6 DEF RetryStep, AnswerStep, TypeInv, AdapterTypeOK
    <3>2. CASE RetryRefused(m) \/ RetryFailed(m)
      <4>1. Forget(m) /\ queue' = queue
        BY <2>1, <3>2 DEF RetryRefused, RetryFailed, PutBack
      <4>2. UNCHANGED <<stop, tracked, trackedCommands, worker, inHand, session>>
        BY <3>2 DEF RetryRefused, RetryFailed
      <4> QED
        BY <2>1, <2>5, <4>1, <4>2 DEF StopInv, StoppedHoldsNothing
    <3>3. CASE SignalConnectionFault(m) \/ FailSend(m) \/ Abandon(m)
      BY <1>1, <3>3 DEF SignalConnectionFault, FailSend, Abandon, Holdings
    <3>4. CASE Accepted(m)
      <4>1. Forget(m) /\ UNCHANGED <<stop, queue, worker, inHand, session>>
        BY <3>4 DEF Accepted
      <4>2. trackedCommands' = {} /\ \A x \in Exchanges : tracked'[x] = None
        BY <2>1, <3>4 DEF Accepted
      <4> QED
        BY <2>1, <2>5, <4>1, <4>2 DEF StopInv, StoppedHoldsNothing
    <3>5. ASSUME NEW b \in BOOLEAN, Rejected(m, b) PROVE StopInv'
      <4>1. Forget(m) /\ UNCHANGED <<stop, queue, tracked, trackedCommands, worker, inHand, session>>
        BY <3>5 DEF Rejected
      <4> QED
        BY <2>1, <2>5, <4>1 DEF StopInv, StoppedHoldsNothing
    <3> QED
      BY <3>1, <3>2, <3>3, <3>4, <3>5
  <2>7. CASE BeginStop \/ StopStep
    BY <1>3, <2>7 DEF BeginStop, StopStep, CancelWorkers, CloseForStop
  <2>8. CASE UNCHANGED adapterVars
    BY <1>1, <2>8 DEF adapterVars, Holdings
  <2> QED
    BY <2>2, <2>3, <2>4, <2>6, <2>7, <2>8 DEF AdapterNext
<1>4. CASE stop # "stopped" /\ ~EndStop
  <2>1. \A x, m : Capture(x, m) => stop' = stop
    BY DEF Capture
  <2>2. CASE CallerStep
    BY <1>4, <2>1, <2>2 DEF CallerStep, Start, CaptureStarted, CaptureDatabaseStarted, QueueTerminal,
       QueueDatabaseTerminal, Heartbeat
  <2>3. CASE WorkerStep
    BY <1>4, <2>3 DEF WorkerStep, Recover, Dequeue, Dispatch, Sleep, WakeUp, Disconnect, EndBackoff
  <2>4. CASE RetryStep \/ AnswerStep
    BY <1>4, <2>4 DEF RetryStep, RetryRefused, RetryFailed, SignalConnectionFault, AnswerStep,
       Accepted, FailSend, Abandon, Rejected
  <2>5. CASE BeginStop \/ StopStep \/ ConnectStep \/ UNCHANGED adapterVars
    BY <1>4, <2>5 DEF BeginStop, StopStep, CancelWorkers, CloseForStop, ConnectStep, Connect,
       FailConnect, adapterVars
  <2> QED
    BY <2>2, <2>3, <2>4, <2>5 DEF AdapterNext
<1> QED
  BY <1>2, <1>3, <1>4

-----------------------------------------------------------------------------------
(***************************************************************************)
(* Steps that only move messages: each stays in one place, none is new, no *)
(* revision is raised, and until a stop none that would release something  *)
(* still tracked disappears, unless the listener refused it for good.      *)
(***************************************************************************)
Dropped(n) ==
  IF n.stream = "http" THEN tracked[n.subject] = None ELSE n.subject \notin trackedCommands

KeepsReleases ==
  \A n \in OnItsWay \cup lost : Releases(n) => n \in (OnItsWay \cup lost)' \/ Dropped(n)'

Moves ==
  /\ MessagesInOnePlace'
  /\ OnItsWay' \subseteq OnItsWay
  /\ heartbeats' \in {heartbeats, heartbeats + 1}
  /\ \A x \in Exchanges \cup Commands : handle'[x] \in {handle[x], "done"}
  /\ \A x \in Exchanges : tracked'[x] \in {tracked[x], None}
  /\ trackedCommands' \subseteq trackedCommands
  /\ stop' = "no" => /\ stop = "no" /\ KeepsReleases
                     /\ \A d \in trackedCommands' : handle'[d] = handle[d]

LEMMA OnItsWayMembers ==
  /\ OnItsWay = Queued("http") \cup Queued("database") \cup awaiting \cup refused \cup failed
                \cup ({inHand} \ {None})
  /\ OnItsWay' = Queued("http")' \cup Queued("database")' \cup awaiting' \cup refused' \cup failed'
                 \cup ({inHand'} \ {None})
<1>1. /\ (UNION {Queued(s) : s \in Stream}) = Queued("http") \cup Queued("database")
      /\ (UNION {Queued(s) : s \in Stream})' = Queued("http")' \cup Queued("database")'
  BY DEF Stream
<1> QED
  BY <1>1 DEF OnItsWay, Observed, InHand

LEMMA OnItsWayType == TypeInv => OnItsWay \cup lost \subseteq Message
<1> SUFFICES ASSUME TypeInv PROVE OnItsWay \cup lost \subseteq Message
  OBVIOUS
<1>1. Queued("http") \subseteq Message /\ Queued("database") \subseteq Message
  BY ElementOfSeq, LenProperties DEF TypeInv, AdapterTypeOK, Queued, Stream
<1> QED
  BY <1>1, OnItsWayMembers DEF TypeInv, AdapterTypeOK

LEMMA MovesKeepRevisions ==
  ASSUME TypeInv, TypeInv', FreshInv, InFlightRevisionsGrow, OutcomesAreNotLost, Moves
  PROVE  FreshInv' /\ InFlightRevisionsGrow' /\ OutcomesAreNotLost'
<1>1. /\ heartbeats' \in {heartbeats, heartbeats + 1} /\ OnItsWay' \subseteq OnItsWay
      /\ \A x \in Exchanges \cup Commands : handle'[x] \in {handle[x], "done"}
      /\ \A x \in Exchanges : tracked'[x] \in {tracked[x], None}
      /\ trackedCommands' \subseteq trackedCommands /\ trackedCommands' \subseteq Commands
      /\ stop' = "no" => /\ stop = "no" /\ KeepsReleases
                         /\ \A d \in trackedCommands' : handle'[d] = handle[d]
      /\ heartbeats \in Nat
  BY CapacityAssumption DEF Moves, TypeInv, AdapterTypeOK
<1>2. OnItsWay \cup lost \subseteq Message
  BY OnItsWayType
<1>3. FreshInv'
  <2>1. ASSUME NEW m \in OnItsWay'
        PROVE  IF m.kind = "heartbeat" THEN m.revision <= heartbeats'
               ELSE /\ handle'[m.subject] # "unused"
                    /\ m.kind = "terminal" => handle'[m.subject] = "done"
                    /\ m.kind = "snapshot" /\ m.state # "inFlight" =>
                         /\ handle'[m.subject] = "done"
                         /\ tracked'[m.subject] # None => m.revision <= tracked'[m.subject].revision
    <3>1. m \in OnItsWay /\ m \in Message
      BY <1>1, <1>2, <2>1
    <3>2. CASE m.kind = "heartbeat"
      <4>1. m.revision \in Nat /\ m.revision <= heartbeats
        BY <3>1, <3>2, MessageFields DEF FreshInv
      <4> QED
        BY <1>1, <3>2, <4>1
    <3>3. CASE m.kind # "heartbeat"
      <4>1. /\ m.subject \in Exchanges \cup Commands
            /\ m.kind = "snapshot" => m.subject \in Exchanges
        BY <3>1, <3>3 DEF Message
      <4>2. handle'[m.subject] \in {handle[m.subject], "done"}
        BY <1>1, <4>1
      <4> QED
        BY <1>1, <3>1, <3>3, <4>1, <4>2 DEF FreshInv
    <3> QED
      BY <3>2, <3>3
  <2>2. ASSUME NEW x \in Known'
        PROVE  handle'[x] # "unused" /\ (tracked'[x].state # "inFlight" => handle'[x] = "done")
    <3>1. x \in Known /\ tracked'[x] = tracked[x] /\ x \in Exchanges
      BY <1>1, <2>2 DEF Known
    <3> QED
      BY <1>1, <3>1 DEF FreshInv
  <2>3. \A d \in trackedCommands' : handle'[d] # "unused"
    <3> TAKE d \in trackedCommands'
    <3>1. d \in trackedCommands /\ handle'[d] \in {handle[d], "done"}
      BY <1>1
    <3> QED
      BY <3>1 DEF FreshInv
  <2> QED
    BY <2>1, <2>2, <2>3 DEF FreshInv
<1>4. InFlightRevisionsGrow'
  <2> SUFFICES ASSUME NEW x \in Exchanges, tracked'[x] # None, tracked'[x].state = "inFlight"
               PROVE  /\ \A m \in About(x)' : m.revision <= tracked'[x].revision
                      /\ \A m, n \in About(x)' : m.revision = n.revision => m = n
    BY DEF InFlightRevisionsGrow
  <2>1. tracked'[x] = tracked[x] /\ About(x)' \subseteq About(x)
    BY <1>1 DEF About
  <2> QED
    BY <2>1 DEF InFlightRevisionsGrow
<1>5. OutcomesAreNotLost'
  <2> SUFFICES ASSUME stop' = "no" PROVE OutcomesAreNotLost'
    BY DEF OutcomesAreNotLost
  <2>1. ASSUME NEW x \in Exchanges, tracked'[x] # None, tracked'[x].state # "inFlight"
        PROVE  \E m \in (OnItsWay \cup lost)' : m.subject = x /\ Releases(m)
    <3>1. PICK m \in OnItsWay \cup lost : m.subject = x /\ Releases(m)
      BY <1>1, <2>1 DEF OutcomesAreNotLost
    <3>2. m.stream = "http"
      BY <1>2, <3>1, MessageFields, IdsAssumption DEF Stream
    <3> QED
      BY <1>1, <2>1, <3>1, <3>2 DEF KeepsReleases, Dropped
  <2>2. ASSUME NEW d \in trackedCommands', handle'[d] = "done"
        PROVE  \E m \in (OnItsWay \cup lost)' : m.subject = d /\ Releases(m)
    <3>1. PICK m \in OnItsWay \cup lost : m.subject = d /\ Releases(m)
      BY <1>1, <2>2 DEF OutcomesAreNotLost
    <3>2. m.stream # "http"
      <4>1. d \in Commands
        BY <2>2 DEF TypeInv, AdapterTypeOK
      <4>2. m \in Message /\ m.kind # "heartbeat"
        BY <1>2, <3>1 DEF Releases
      <4> QED
        BY <3>1, <4>1, <4>2, MessageFields, IdsAssumption
    <3> QED
      BY <1>1, <2>2, <3>1, <3>2 DEF KeepsReleases, Dropped
  <2> QED
    BY <2>1, <2>2 DEF OutcomesAreNotLost
<1> QED
  BY <1>3, <1>4, <1>5

Places == <<queue, awaiting, refused, failed, inHand>>

LEMMA SamePlaces ==
  ASSUME TypeInv, MessagesInOnePlace, UNCHANGED <<Places, pending, lost>>,
         UNCHANGED <<handle, tracked, trackedCommands, heartbeats>>,
         Cancelled => Cancelled', stop' = "no" => stop = "no"
  PROVE  Moves
<1>1. OnItsWay' = OnItsWay
  BY OnItsWayMembers DEF Places, Queued
<1>2. MessagesInOnePlace'
  BY DEF MessagesInOnePlace, Places, Queued, Observed, InHand
<1> QED
  BY <1>1, <1>2 DEF Moves, KeepsReleases

(* FailPending: who waited for an answer holds an exception now. *)
LEMMA CloseMoves ==
  ASSUME TypeInv, MessagesInOnePlace, CloseTransport,
         UNCHANGED <<queue, refused, inHand, pending, lost, handle, tracked, trackedCommands,
                     heartbeats>>,
         Cancelled => Cancelled', stop' = "no" => stop = "no"
  PROVE  Moves
<1>1. OnItsWay' = OnItsWay
  BY OnItsWayMembers DEF CloseTransport, Queued
<1>2. awaiting' = {} /\ failed' = failed \cup awaiting
  BY DEF CloseTransport
<1>3. Observed' = Observed /\ InHand' = InHand /\ \A s \in Stream : Queued(s)' = Queued(s)
  BY <1>2 DEF Observed, InHand, Queued
<1>4. MessagesInOnePlace'
  <2>1. Queued("http")' = Queued("http") /\ Queued("database")' = Queued("database")
    BY DEF Queued
  <2>2. UNCHANGED <<queue, refused, pending>> /\ (Cancelled => Cancelled')
    OBVIOUS
  <2> QED
    BY <1>2, <1>3, <2>1, <2>2 DEF MessagesInOnePlace
<1> QED
  BY <1>1, <1>4 DEF Moves, KeepsReleases

LEMMA WorkerMoves ==
  ASSUME TypeInv, TypeInv', MessagesInOnePlace,
         \/ Dequeue \/ Dispatch \/ Sleep \/ WakeUp \/ Disconnect \/ EndBackoff
  PROVE  Moves
<1> USE DEF callerVars, trackVars, observerVars, workerVars
<1>1. CASE Sleep \/ WakeUp \/ EndBackoff
  BY <1>1, SamePlaces DEF Sleep, WakeUp, EndBackoff, Places, Cancelled
<1>2. CASE Disconnect
  BY <1>2, CloseMoves DEF Disconnect, Cancelled
<1>3. CASE Dequeue
  <2>1. PICK s \in Stream : s = NextStream
    BY DEF NextStream, Stream
  <2>2. /\ inHand' \in Queued(s) /\ Queued(s) = Queued(s)' \cup {inHand'}
        /\ \A t \in Stream : t # s => queue'[t] = queue[t] /\ Queued(t)' = Queued(t)
        /\ IsInjective(queue[s]) => IsInjective(queue'[s]) /\ inHand' \notin Queued(s)'
        /\ inHand' \in Message
    BY <1>3, <2>1, DequeueFacts
  <2>3. inHand = None /\ InHand = {} /\ InHand' = {inHand'} /\ inHand' # None
    BY <1>3, <2>2, MessageFields DEF Dequeue, TypeInv, InHand
  <2>4. /\ UNCHANGED <<awaiting, refused, failed, pending, lost, stop, handle, tracked,
                       trackedCommands, heartbeats>>
        /\ Observed' = Observed
    BY <1>3 DEF Dequeue, Observed
  <2>5. \A t \in Stream : t # s => inHand' \notin Queued(t)
    BY <2>1, <2>2 DEF MessagesInOnePlace, Stream
  <2>6. MessagesInOnePlace'
    BY <2>1, <2>2, <2>3, <2>4, <2>5 DEF MessagesInOnePlace, Cancelled, Stream
  <2>7. OnItsWay' = OnItsWay
    BY <2>1, <2>2, <2>3, <2>4, OnItsWayMembers DEF Stream
  <2> QED
    BY <2>4, <2>6, <2>7 DEF Moves, KeepsReleases
<1>4. CASE Dispatch
  <2>1. inHand \in Message /\ inHand # None /\ inHand.stream \in Stream
    BY <1>4, MessageFields DEF Dispatch, TypeInv
  <2>2. /\ awaiting' = awaiting \cup {inHand} /\ inHand' = None
        /\ InHand = {inHand} /\ InHand' = {} /\ \A s \in Stream : Queued(s)' = Queued(s)
        /\ UNCHANGED <<queue, refused, failed, lost, stop, handle, tracked, trackedCommands,
                       heartbeats>>
    BY <1>4, <2>1 DEF Dispatch, InHand, Queued
  <2>3. /\ pending'[inHand.stream] = pending[inHand.stream] \cup {inHand}
        /\ \A s \in Stream : s # inHand.stream => pending'[s] = pending[s]
    BY <1>4, <2>1 DEF Dispatch, TypeInv, AdapterTypeOK
  <2>4. Observed' = Observed \cup {inHand} /\ inHand \notin Observed
    BY <2>2 DEF Observed, MessagesInOnePlace
  <2>5. ~Cancelled' => /\ pending'["http"] = {m \in awaiting' \cup failed' : m.stream = "http"}
                       /\ pending'["database"]
                            \subseteq {n \in awaiting' \cup failed' : n.stream = "database"}
    BY <2>1, <2>2, <2>3 DEF MessagesInOnePlace, Stream, Cancelled
  <2>6. MessagesInOnePlace'
    <3>1. Queued("http")' = Queued("http") /\ Queued("database")' = Queued("database")
      BY <2>2 DEF Stream
    <3> QED
      BY <2>2, <2>4, <2>5, <3>1 DEF MessagesInOnePlace, Observed
  <2>7. OnItsWay' = OnItsWay
    BY <2>1, <2>2, OnItsWayMembers DEF Stream
  <2> QED
    BY <2>2, <2>6, <2>7 DEF Moves, KeepsReleases
<1> QED
  BY <1>1, <1>2, <1>3, <1>4

LEMMA ConnectMoves ==
  ASSUME TypeInv, MessagesInOnePlace, Start \/ ConnectStep \/ BeginStop \/ StopStep
  PROVE  Moves
<1> USE DEF callerVars, trackVars, observerVars, workerVars
<1>1. CASE Start \/ BeginStop \/ CancelWorkers
  BY <1>1, SamePlaces DEF Start, BeginStop, CancelWorkers, Places, Cancelled
<1>2. CASE CloseForStop
  BY <1>2, CloseMoves DEF CloseForStop, Cancelled
<1>3. ASSUME NEW b \in BOOLEAN, FailConnect(b) PROVE Moves
  BY <1>3, CloseMoves DEF FailConnect, Cancelled
<1>4. CASE EndStop
  <2>1. CASE stop' = "threw"
    BY <1>4, <2>1, SamePlaces DEF EndStop, Places, Cancelled
  <2>2. CASE stop' = "stopped"
    <3>1. /\ \A s \in Stream : queue'[s] = <<>>
          /\ UNCHANGED <<awaiting, refused, failed, inHand, handle, heartbeats>>
          /\ Observed' = Observed /\ InHand' = InHand
          /\ \A x \in Exchanges : tracked'[x] = None
          /\ trackedCommands' = {}
      BY <1>4, <2>2 DEF EndStop, Observed, InHand
    <3>2. \A s \in Stream : Queued(s)' = {} /\ IsInjective(queue'[s])
      BY <3>1 DEF Queued, IsInjective
    <3>3. Queued("http")' = {} /\ Queued("database")' = {}
      BY <3>2 DEF Stream
    <3>4. MessagesInOnePlace'
      BY <2>2, <3>1, <3>2, <3>3 DEF MessagesInOnePlace, Cancelled
    <3>5. OnItsWay' \subseteq OnItsWay
      BY <3>1, <3>3, OnItsWayMembers
    <3> QED
      BY <2>2, <3>1, <3>4, <3>5 DEF Moves
  <2> QED
    BY <1>4, <2>1, <2>2 DEF EndStop
<1>5. ASSUME NEW b \in BOOLEAN, Connect(b) PROVE Moves
  <2>1. /\ UNCHANGED <<awaiting, refused, failed, inHand, handle, heartbeats, tracked, lost, stop>>
        /\ Observed' = Observed /\ InHand' = InHand
    BY <1>5 DEF Connect, Observed, InHand
  <2>2. CASE b
    BY <1>5, <2>1, <2>2, SamePlaces DEF Connect, Places, Cancelled
  <2>3. CASE ~b
    <3>1. /\ queue'["http"] = queue["http"] /\ queue'["database"] = <<>>
          /\ pending'["http"] = pending["http"] /\ pending'["database"] = {}
          /\ trackedCommands' = {}
      BY <1>5, <2>3 DEF Connect, TypeInv, AdapterTypeOK, Stream
    <3>2. /\ Queued("http")' = Queued("http") /\ Queued("database")' = {}
          /\ IsInjective(queue'["database"])
      BY <3>1 DEF Queued, IsInjective
    <3>3. MessagesInOnePlace'
      BY <2>1, <3>1, <3>2 DEF MessagesInOnePlace, Cancelled, Stream
    <3>4. /\ OnItsWay' \subseteq OnItsWay
          /\ \A n \in OnItsWay : n \in OnItsWay' \/ n \in Queued("database")
      BY <2>1, <3>2, OnItsWayMembers
    <3>5. ASSUME NEW n \in OnItsWay \cup lost, Releases(n)
          PROVE  n \in (OnItsWay \cup lost)' \/ Dropped(n)'
      <4>1. CASE n.stream = "http"
        <5>1. n \notin Queued("database")
          BY <4>1 DEF MessagesInOnePlace, Stream
        <5> QED
          BY <2>1, <3>4, <5>1
      <4>2. CASE n.stream # "http"
        BY <3>1, <4>2 DEF Dropped
      <4> QED
        BY <4>1, <4>2
    <3> QED
      BY <2>1, <3>1, <3>3, <3>4, <3>5 DEF Moves, KeepsReleases
  <2> QED
    BY <2>2, <2>3
<1> QED
  BY <1>1, <1>2, <1>3, <1>4, <1>5 DEF ConnectStep, StopStep

LEMMA ObserverMoves ==
  ASSUME TypeInv, MessagesInOnePlace, RetryStep \/ AnswerStep
  PROVE  Moves
<1> USE DEF callerVars, trackVars, observerVars, workerVars
<1>1. awaiting \cup refused \cup failed \cup signalling \subseteq Message
  BY DEF TypeInv, AdapterTypeOK
<1>2. ASSUME NEW m \in Message, RetryRefused(m) \/ RetryFailed(m) PROVE Moves
  <2>1. /\ m \in refused \cup failed /\ Forget(m) /\ PutBack(m)
        /\ refused' = refused \ {m} /\ failed' = failed \ {m}
        /\ UNCHANGED <<awaiting, inHand, stop, handle, tracked, trackedCommands, heartbeats, lost>>
    BY <1>2 DEF RetryRefused, RetryFailed, MessagesInOnePlace
  <2>2. m.stream \in Stream /\ {"http", "database"} = Stream
    BY MessageFields DEF Stream
  <2>3. /\ m \in Observed /\ m \notin awaiting /\ m \notin InHand
        /\ Observed' = Observed \ {m} /\ InHand' = InHand
        /\ \A s \in Stream : m \notin Queued(s)
    BY <2>1 DEF MessagesInOnePlace, Observed, InHand
  <2>4. /\ Queued(m.stream)' = IF Stopped THEN Queued(m.stream) ELSE Queued(m.stream) \cup {m}
        /\ \A s \in Stream : s # m.stream => Queued(s)' = Queued(s)
        /\ \A s \in Stream : IsInjective(queue'[s])
    BY <2>1, <2>2, <2>3, PutBackFacts DEF MessagesInOnePlace
  <2>5. \A s \in Stream : pending'[s] = IF s = m.stream THEN pending[s] \ {m} ELSE pending[s]
    BY <2>1, ForgetFacts
  <2>6. ~Cancelled' => /\ pending'["http"] = {n \in awaiting' \cup failed' : n.stream = "http"}
                       /\ pending'["database"]
                            \subseteq {n \in awaiting' \cup failed' : n.stream = "database"}
    <3> SUFFICES ASSUME ~Cancelled
                 PROVE  /\ pending'["http"] = {n \in awaiting' \cup failed' : n.stream = "http"}
                        /\ pending'["database"]
                             \subseteq {n \in awaiting' \cup failed' : n.stream = "database"}
      BY <2>1 DEF Cancelled
    <3>1. /\ pending["http"] = {n \in awaiting \cup failed : n.stream = "http"}
          /\ pending["database"] \subseteq {n \in awaiting \cup failed : n.stream = "database"}
      BY DEF MessagesInOnePlace
    <3>2. awaiting' \cup failed' = (awaiting \cup failed) \ {m}
      BY <2>1, <2>3
    <3>3. /\ pending'["http"] = IF m.stream = "http" THEN pending["http"] \ {m} ELSE pending["http"]
          /\ pending'["database"] =
               IF m.stream = "database" THEN pending["database"] \ {m} ELSE pending["database"]
      BY <2>2, <2>5
    <3> QED
      BY <2>2, <3>1, <3>2, <3>3
  <2>7. MessagesInOnePlace'
    <3>1. \A s \in Stream : Queued(s)' \cap (Observed' \cup InHand') = {}
      BY <2>2, <2>3, <2>4 DEF MessagesInOnePlace
    <3>2. \A s \in Stream : \A n \in Queued(s)' : n.stream = s
      BY <2>2, <2>4 DEF MessagesInOnePlace
    <3>3. InHand' \cap Observed' = {}
      BY <2>3 DEF MessagesInOnePlace
    <3> QED
      BY <2>1, <2>4, <2>6, <3>1, <3>2, <3>3 DEF MessagesInOnePlace
  <2>8. /\ OnItsWay' \subseteq OnItsWay
        /\ ~Stopped => OnItsWay' = OnItsWay
    BY <2>1, <2>2, <2>3, <2>4, OnItsWayMembers DEF Observed
  <2> QED
    BY <2>1, <2>7, <2>8 DEF Moves, KeepsReleases, Stopped
<1>3. ASSUME NEW m \in Message, SignalConnectionFault(m) PROVE Moves
  BY <1>3, SamePlaces DEF SignalConnectionFault, Places, Cancelled
<1>4. ASSUME NEW m \in Message, m \in awaiting, awaiting' = awaiting \ {m},
             UNCHANGED <<queue, inHand, stop, handle, heartbeats>>,
             refused' \subseteq refused \cup {m}, refused \subseteq refused',
             failed' \subseteq failed \cup {m}, failed \subseteq failed',
             m \notin refused' \/ m \notin failed',
             \/ Forget(m) /\ m \notin failed'
             \/ pending' = pending /\ (Cancelled \/ m \in failed')
      PROVE  /\ MessagesInOnePlace'
             /\ OnItsWay' \subseteq OnItsWay /\ \A n \in OnItsWay : n = m \/ n \in OnItsWay'
  <2>1. /\ Queued("http")' = Queued("http") /\ Queued("database")' = Queued("database")
        /\ \A s \in Stream : Queued(s)' = Queued(s)
        /\ InHand' = InHand /\ Observed' \subseteq Observed
    BY <1>4 DEF Queued, InHand, Observed
  <2>2. m.stream \in Stream /\ m \notin refused /\ m \notin failed
    BY <1>4, MessageFields DEF MessagesInOnePlace
  <2>3. ~Cancelled' => /\ pending'["http"] = {n \in awaiting' \cup failed' : n.stream = "http"}
                       /\ pending'["database"]
                            \subseteq {n \in awaiting' \cup failed' : n.stream = "database"}
    <3>1. CASE Forget(m) /\ m \notin failed'
      <4>1. \A s \in Stream : pending'[s] = IF s = m.stream THEN pending[s] \ {m} ELSE pending[s]
        BY <3>1, ForgetFacts
      <4>2. failed' = failed
        BY <1>4, <3>1
      <4> SUFFICES ASSUME ~Cancelled
                   PROVE  /\ pending'["http"] = {n \in awaiting' \cup failed' : n.stream = "http"}
                          /\ pending'["database"]
                            \subseteq {n \in awaiting' \cup failed' : n.stream = "database"}
        BY <1>4 DEF Cancelled
      <4>3. /\ pending["http"] = {n \in awaiting \cup failed : n.stream = "http"}
            /\ pending["database"] \subseteq {n \in awaiting \cup failed : n.stream = "database"}
        BY DEF MessagesInOnePlace
      <4>4. pending'["http"] = {n \in awaiting' \cup failed' : n.stream = "http"}
        BY <1>4, <2>2, <4>1, <4>2, <4>3 DEF Stream
      <4>5. pending'["database"] \subseteq {n \in awaiting' \cup failed' : n.stream = "database"}
        BY <1>4, <2>2, <4>1, <4>2, <4>3 DEF Stream
      <4> QED
        BY <4>4, <4>5
    <3>2. CASE pending' = pending /\ (Cancelled \/ m \in failed')
      <4>1. ~Cancelled' => awaiting' \cup failed' = awaiting \cup failed
        BY <1>4, <3>2 DEF Cancelled
      <4> QED
        BY <1>4, <3>2, <4>1 DEF MessagesInOnePlace, Cancelled
    <3> QED
      BY <1>4, <3>1, <3>2
  <2>4. MessagesInOnePlace'
    BY <1>4, <2>1, <2>2, <2>3 DEF MessagesInOnePlace
  <2>5. OnItsWay' \subseteq OnItsWay /\ \A n \in OnItsWay : n = m \/ n \in OnItsWay'
    BY <1>4, <2>1, OnItsWayMembers
  <2> QED
    BY <2>4, <2>5
<1>5. ASSUME NEW m \in Message, Accepted(m) PROVE Moves
  <2>1. /\ MessagesInOnePlace'
        /\ OnItsWay' \subseteq OnItsWay /\ \A n \in OnItsWay : n = m \/ n \in OnItsWay'
    <3>1. m \in awaiting /\ m \notin failed /\ m \notin refused
      BY <1>5 DEF Accepted, MessagesInOnePlace
    <3>2. /\ awaiting' = awaiting \ {m} /\ Forget(m)
          /\ UNCHANGED <<queue, inHand, stop, handle, heartbeats, refused, failed>>
      BY <1>5 DEF Accepted
    <3> QED
      BY <1>4, <3>1, <3>2
  <2>2. Releases(m) => Dropped(m)'
    <3>1. Releases(m) /\ m.stream = "http" => m.subject \in Exchanges
      BY MessageFields DEF Releases
    <3> QED
      BY <1>5, <3>1, MessageFields DEF Accepted, Dropped, Stream, TypeInv, AdapterTypeOK
  <2>3. /\ UNCHANGED <<handle, heartbeats, stop, lost>>
        /\ \A x \in Exchanges : tracked'[x] \in {tracked[x], None}
        /\ trackedCommands' \subseteq trackedCommands
    BY <1>5 DEF Accepted, TypeInv, AdapterTypeOK
  <2>4. KeepsReleases
    BY <2>1, <2>2, <2>3 DEF KeepsReleases
  <2> QED
    BY <2>1, <2>3, <2>4 DEF Moves
<1>6. ASSUME NEW m \in Message, NEW b \in BOOLEAN, Rejected(m, b) PROVE Moves
  <2>1. /\ m \in awaiting /\ m \notin failed /\ m \notin refused
        /\ awaiting' = awaiting \ {m} /\ Forget(m)
        /\ refused' \subseteq refused \cup {m} /\ refused \subseteq refused'
        /\ m \in refused' \/ lost' = lost \cup {m}
        /\ lost \subseteq lost'
        /\ UNCHANGED <<queue, inHand, stop, handle, tracked, trackedCommands, heartbeats, failed>>
    BY <1>6 DEF Rejected, MessagesInOnePlace
  <2>2. /\ MessagesInOnePlace'
        /\ OnItsWay' \subseteq OnItsWay /\ \A n \in OnItsWay : n = m \/ n \in OnItsWay'
    BY <1>4, <2>1
  <2>3. m \in (OnItsWay \cup lost)'
    BY <2>1, OnItsWayMembers
  <2> QED
    BY <2>1, <2>2, <2>3 DEF Moves, KeepsReleases
<1>7. ASSUME NEW m \in Message, FailSend(m) PROVE Moves
  <2>1. /\ m \in awaiting /\ m \notin refused
        /\ awaiting' = awaiting \ {m} /\ failed' = failed \cup {m}
        /\ UNCHANGED <<queue, inHand, stop, handle, tracked, trackedCommands, heartbeats, refused,
                       pending, lost>>
    BY <1>7 DEF FailSend, MessagesInOnePlace
  <2>2. /\ MessagesInOnePlace'
        /\ OnItsWay' \subseteq OnItsWay /\ \A n \in OnItsWay : n = m \/ n \in OnItsWay'
    BY <1>4, <2>1
  <2>3. m \in OnItsWay'
    BY <2>1, OnItsWayMembers
  <2> QED
    BY <2>1, <2>2, <2>3 DEF Moves, KeepsReleases
<1>8. ASSUME NEW m \in Message, Abandon(m) PROVE Moves
  <2>1. /\ m \in awaiting /\ m \notin refused /\ m \notin failed /\ Cancelled
        /\ awaiting' = awaiting \ {m}
        /\ UNCHANGED <<queue, inHand, stop, handle, tracked, trackedCommands, heartbeats, refused,
                       failed, pending, lost>>
    BY <1>8 DEF Abandon, MessagesInOnePlace
  <2>2. MessagesInOnePlace' /\ OnItsWay' \subseteq OnItsWay
    BY <1>4, <2>1
  <2> QED
    BY <2>1, <2>2 DEF Moves, Cancelled
<1> QED
  BY <1>1, <1>2, <1>3, <1>5, <1>6, <1>7, <1>8 DEF RetryStep, AnswerStep

-----------------------------------------------------------------------------------
(* Steps that make a message. *)

MessagesInv ==
  MessagesInOnePlace /\ FreshInv /\ InFlightRevisionsGrow /\ OutcomesAreNotLost

LEMMA NewMessageInOnePlace ==
  ASSUME TypeInv, MessagesInOnePlace, NEW m \in Message, m \notin OnItsWay, Enqueue(m),
         UNCHANGED <<awaiting, refused, failed, inHand, pending, stop>>
  PROVE  MessagesInOnePlace' /\ OnItsWay' = OnItsWay \cup {m}
<1>1. /\ Observed' = Observed /\ InHand' = InHand
      /\ m \notin Queued(m.stream) /\ m \notin Observed /\ m \notin InHand
      /\ m.stream \in Stream
  BY OnItsWayMembers, MessageFields DEF Observed, InHand, Stream
<1>2. /\ Queued(m.stream)' = Queued(m.stream) \cup {m}
      /\ \A s \in Stream : s # m.stream => Queued(s)' = Queued(s)
      /\ \A s \in Stream : IsInjective(queue'[s])
  BY <1>1, EnqueueFacts DEF MessagesInOnePlace
<1>3. /\ \A s \in Stream : Queued(s)' \cap (Observed' \cup InHand') = {}
      /\ \A s \in Stream : \A n \in Queued(s)' : n.stream = s
  BY <1>1, <1>2 DEF MessagesInOnePlace
<1>4. MessagesInOnePlace'
  BY <1>1, <1>2, <1>3 DEF MessagesInOnePlace, Cancelled
<1>5. OnItsWay' = OnItsWay \cup {m}
  BY <1>1, <1>2, OnItsWayMembers DEF Stream
<1> QED
  BY <1>4, <1>5

LEMMA CaptureKeepsMessages ==
  ASSUME TypeInv, TypeInv', MessagesInv, NEW x \in Exchanges \cup Commands, NEW m \in Message,
         m.subject = x, m.kind = "started", m.revision = 1, Capture(x, m)
  PROVE  MessagesInv'
<1> USE DEF callerVars, trackVars, observerVars, workerVars
<1>1. /\ handle[x] = "unused" /\ About(x) = {}
      /\ x \notin trackedCommands /\ (x \in Exchanges => tracked[x] = None)
  <2>1. handle[x] = "unused"
    BY DEF Capture
  <2>2. \A n \in OnItsWay : n.subject # x
    BY <2>1, OnItsWayType, MessageFields, IdsAssumption DEF MessagesInv, FreshInv
  <2> QED
    BY <2>1, <2>2 DEF About, MessagesInv, FreshInv, Known
<1>2. CASE ~Stopped /\ Enqueues(m.stream)
  <2>1. /\ handle' = [handle EXCEPT ![x] = "open"] /\ Enqueue(m)
        /\ UNCHANGED <<awaiting, refused, failed, inHand, pending, stop, lost, heartbeats>>
    BY <1>2 DEF Capture
  <2>2. m \notin OnItsWay
    BY <1>1 DEF About
  <2>3. MessagesInOnePlace' /\ OnItsWay' = OnItsWay \cup {m}
    BY <2>1, <2>2, NewMessageInOnePlace DEF MessagesInv
  <2>4. /\ handle'[x] = "open" /\ \A y : y # x => handle'[y] = handle[y]
        /\ handle \in [Exchanges \cup Commands -> {"unused", "open", "done"}]
    BY <2>1 DEF TypeInv, AdapterTypeOK
  <2>5. /\ tracked \in [Exchanges -> ExchangeState \cup {None}]
        /\ \A y \in Exchanges : y # x => tracked'[y] = tracked[y]
        /\ x \in Exchanges => tracked'[x] \in {tracked[x], [revision |-> 1, state |-> "inFlight"]}
        /\ trackedCommands' \subseteq trackedCommands \cup {x}
    BY <1>2 DEF Capture, TypeInv, AdapterTypeOK
  <2>6. FreshInv'
    <3>1. ASSUME NEW n \in OnItsWay', n # m
          PROVE  IF n.kind = "heartbeat" THEN n.revision <= heartbeats'
                 ELSE /\ handle'[n.subject] # "unused"
                      /\ n.kind = "terminal" => handle'[n.subject] = "done"
                      /\ n.kind = "snapshot" /\ n.state # "inFlight" =>
                           /\ handle'[n.subject] = "done"
                           /\ tracked'[n.subject] # None =>
                                n.revision <= tracked'[n.subject].revision
      <4>1. n \in OnItsWay /\ n.subject # x /\ n \in Message
        BY <1>1, <2>3, <3>1, OnItsWayType DEF About
      <4>2. n.kind = "snapshot" => n.subject \in Exchanges
        BY <4>1 DEF Message
      <4> QED
        BY <2>1, <2>4, <2>5, <4>1, <4>2 DEF MessagesInv, FreshInv
    <3>2. ASSUME NEW y \in Known'
          PROVE  handle'[y] # "unused" /\ (tracked'[y].state # "inFlight" => handle'[y] = "done")
      <4>1. CASE y = x
        BY <1>1, <2>4, <2>5, <3>2, <4>1 DEF Known
      <4>2. CASE y # x
        BY <2>4, <2>5, <3>2, <4>2 DEF MessagesInv, FreshInv, Known
      <4> QED
        BY <4>1, <4>2
    <3>3. \A d \in trackedCommands' : handle'[d] # "unused"
      BY <2>4, <2>5 DEF MessagesInv, FreshInv
    <3> QED
      BY <2>4, <3>1, <3>2, <3>3 DEF FreshInv
  <2>7. InFlightRevisionsGrow'
    <3>1. ASSUME NEW y \in Exchanges, tracked'[y] # None, tracked'[y].state = "inFlight"
          PROVE  /\ \A n \in About(y)' : n.revision <= tracked'[y].revision
                 /\ \A n, k \in About(y)' : n.revision = k.revision => n = k
      <4>1. CASE y = x
        <5>1. About(y)' = {m} /\ tracked'[y].revision = 1
          BY <1>1, <2>3, <2>5, <3>1, <4>1 DEF About
        <5> QED
          BY <5>1
      <4>2. CASE y # x
        <5>1. About(y)' = About(y) /\ tracked'[y] = tracked[y]
          BY <2>3, <2>5, <4>2 DEF About
        <5> QED
          BY <3>1, <5>1 DEF MessagesInv, InFlightRevisionsGrow
      <4> QED
        BY <4>1, <4>2
    <3> QED
      BY <3>1 DEF InFlightRevisionsGrow
  <2>8. OutcomesAreNotLost'
    <3>1. ASSUME stop' = "no", NEW y \in Exchanges, tracked'[y] # None,
                 tracked'[y].state # "inFlight"
          PROVE  \E n \in (OnItsWay \cup lost)' : n.subject = y /\ Releases(n)
      <4>1. y # x
        BY <1>1, <2>5, <3>1
      <4> QED
        BY <2>1, <2>3, <2>5, <3>1, <4>1 DEF MessagesInv, OutcomesAreNotLost
    <3>2. ASSUME stop' = "no", NEW d \in trackedCommands', handle'[d] = "done"
          PROVE  \E n \in (OnItsWay \cup lost)' : n.subject = d /\ Releases(n)
      <4>1. d # x
        BY <2>4, <3>2
      <4> QED
        BY <2>1, <2>3, <2>4, <2>5, <3>2, <4>1 DEF MessagesInv, OutcomesAreNotLost
    <3> QED
      BY <3>1, <3>2 DEF OutcomesAreNotLost
  <2> QED
    BY <2>3, <2>6, <2>7, <2>8 DEF MessagesInv
<1>3. CASE Stopped \/ ~Enqueues(m.stream)
  <2>1. /\ handle' = [handle EXCEPT ![x] = "done"]
        /\ UNCHANGED <<Places, pending, lost, tracked, trackedCommands, heartbeats, stop>>
    BY <1>3 DEF Capture, Places
  <2>2. /\ OnItsWay' = OnItsWay /\ MessagesInOnePlace'
    <3>1. OnItsWay' = OnItsWay
      BY <2>1, OnItsWayMembers DEF Places, Queued
    <3> QED
      BY <2>1, <3>1 DEF MessagesInv, MessagesInOnePlace, Places, Queued, Observed, InHand, Cancelled
  <2>3. Moves
    BY <1>1, <2>1, <2>2 DEF Moves, KeepsReleases, TypeInv, AdapterTypeOK
  <2> QED
    BY <2>2, <2>3, MovesKeepRevisions DEF MessagesInv
<1> QED
  BY <1>2, <1>3

LEMMA TerminalKeepsMessages ==
  ASSUME TypeInv, TypeInv', MessagesInv, NEW x \in Exchanges, NEW outcome \in Outcomes,
         QueueTerminal(x, outcome)
  PROVE  MessagesInv'
<1> USE DEF callerVars, trackVars, observerVars, workerVars
<1> DEFINE m == TerminalMessage(x, outcome)
<1>1. /\ m \in Message /\ m.subject = x /\ m.kind = "terminal" /\ m.state = outcome
      /\ m.revision = 2 /\ m.stream = "http" /\ Releases(m) /\ outcome # "inFlight"
  BY NewMessages, OutcomesAssumption DEF TerminalMessage, Releases
<1> HIDE DEF m
<1>2. handle[x] = "open" /\ handle' = [handle EXCEPT ![x] = "done"]
  BY DEF QueueTerminal
<1>3. /\ handle \in [Exchanges \cup Commands -> {"unused", "open", "done"}]
      /\ handle'[x] = "done" /\ \A y : y # x => handle'[y] = handle[y]
      /\ tracked \in [Exchanges -> ExchangeState \cup {None}]
      /\ x \notin trackedCommands
  BY <1>2, IdsAssumption DEF TypeInv, AdapterTypeOK
<1>4. CASE ~Stopped /\ tracked[x] # None /\ Enqueues("http")
  <2>1. /\ Enqueue(m)
        /\ tracked' = [tracked EXCEPT ![x] = [revision |-> 2, state |-> outcome]]
        /\ UNCHANGED <<awaiting, refused, failed, inHand, pending, stop, lost, heartbeats,
                       trackedCommands>>
    BY <1>4 DEF QueueTerminal, m
  <2>2. /\ tracked'[x].revision = 2 /\ tracked'[x].state = outcome /\ tracked'[x] # None
        /\ \A y \in Exchanges : y # x => tracked'[y] = tracked[y]
    <3>1. [revision |-> 2, state |-> outcome] \in ExchangeState
      BY DEF ExchangeState
    <3> QED
      BY <1>3, <2>1, <3>1, IdsAssumption
  <2>3. m \notin OnItsWay
    BY <1>1, <1>2 DEF MessagesInv, FreshInv
  <2>4. MessagesInOnePlace' /\ OnItsWay' = OnItsWay \cup {m}
    BY <1>1, <2>1, <2>3, NewMessageInOnePlace DEF MessagesInv
  <2>5. FreshInv'
    <3>1. ASSUME NEW n \in OnItsWay', n # m
          PROVE  IF n.kind = "heartbeat" THEN n.revision <= heartbeats'
                 ELSE /\ handle'[n.subject] # "unused"
                      /\ n.kind = "terminal" => handle'[n.subject] = "done"
                      /\ n.kind = "snapshot" /\ n.state # "inFlight" =>
                           /\ handle'[n.subject] = "done"
                           /\ tracked'[n.subject] # None =>
                                n.revision <= tracked'[n.subject].revision
      <4>1. n \in OnItsWay /\ n \in Message
        BY <2>4, <3>1, OnItsWayType
      <4>2. n.kind = "snapshot" => n.subject \in Exchanges
        BY <4>1 DEF Message
      <4>3. n.kind = "snapshot" /\ n.state # "inFlight" => n.subject # x
        BY <1>2, <4>1 DEF MessagesInv, FreshInv
      <4> QED
        BY <1>3, <2>1, <2>2, <4>1, <4>2, <4>3 DEF MessagesInv, FreshInv
    <3>2. ASSUME NEW y \in Known'
          PROVE  handle'[y] # "unused" /\ (tracked'[y].state # "inFlight" => handle'[y] = "done")
      <4>1. CASE y = x
        BY <1>3, <4>1
      <4>2. CASE y # x
        BY <1>3, <2>2, <3>2, <4>2 DEF MessagesInv, FreshInv, Known
      <4> QED
        BY <4>1, <4>2
    <3>3. \A d \in trackedCommands' : handle'[d] # "unused"
      BY <1>3, <2>1 DEF MessagesInv, FreshInv
    <3> QED
      BY <1>1, <1>3, <3>1, <3>2, <3>3 DEF FreshInv
  <2>6. InFlightRevisionsGrow'
    <3>1. ASSUME NEW y \in Exchanges, tracked'[y] # None, tracked'[y].state = "inFlight"
          PROVE  /\ \A n \in About(y)' : n.revision <= tracked'[y].revision
                 /\ \A n, k \in About(y)' : n.revision = k.revision => n = k
      <4>1. y # x
        BY <1>1, <2>2, <3>1
      <4>2. About(y)' = About(y) /\ tracked'[y] = tracked[y]
        BY <1>1, <2>2, <2>4, <4>1 DEF About
      <4> QED
        BY <3>1, <4>2 DEF MessagesInv, InFlightRevisionsGrow
    <3> QED
      BY <3>1 DEF InFlightRevisionsGrow
  <2>7. OutcomesAreNotLost'
    <3>1. ASSUME stop' = "no", NEW y \in Exchanges, tracked'[y] # None,
                 tracked'[y].state # "inFlight"
          PROVE  \E n \in (OnItsWay \cup lost)' : n.subject = y /\ Releases(n)
      <4>1. CASE y = x
        BY <1>1, <2>4, <4>1
      <4>2. CASE y # x
        BY <2>1, <2>2, <2>4, <3>1, <4>2 DEF MessagesInv, OutcomesAreNotLost
      <4> QED
        BY <4>1, <4>2
    <3>2. ASSUME stop' = "no", NEW d \in trackedCommands', handle'[d] = "done"
          PROVE  \E n \in (OnItsWay \cup lost)' : n.subject = d /\ Releases(n)
      <4>1. d # x
        BY <1>3, <2>1
      <4> QED
        BY <1>3, <2>1, <2>4, <3>2, <4>1 DEF MessagesInv, OutcomesAreNotLost
    <3> QED
      BY <3>1, <3>2 DEF OutcomesAreNotLost
  <2> QED
    BY <2>4, <2>5, <2>6, <2>7 DEF MessagesInv
<1>5. CASE Stopped \/ tracked[x] = None \/ ~Enqueues("http")
  <2>1. /\ UNCHANGED <<Places, pending, lost, trackedCommands, heartbeats, stop>>
        /\ \A y \in Exchanges : tracked'[y] \in {tracked[y], None}
    BY <1>3, <1>5 DEF QueueTerminal, Places
  <2>2. OnItsWay' = OnItsWay /\ MessagesInOnePlace'
    <3>1. OnItsWay' = OnItsWay
      BY <2>1, OnItsWayMembers DEF Places, Queued
    <3> QED
      BY <2>1, <3>1 DEF MessagesInv, MessagesInOnePlace, Places, Queued, Observed, InHand, Cancelled
  <2>3. /\ \A y \in Exchanges \cup Commands : handle'[y] \in {handle[y], "done"}
        /\ \A d \in trackedCommands' : handle'[d] = handle[d]
    BY <1>3, <2>1
  <2>4. Moves
    BY <2>1, <2>2, <2>3 DEF Moves, KeepsReleases
  <2> QED
    BY <2>2, <2>4, MovesKeepRevisions DEF MessagesInv
<1> QED
  BY <1>4, <1>5

LEMMA DatabaseTerminalKeepsMessages ==
  ASSUME TypeInv, TypeInv', MessagesInv, NEW d \in Commands, QueueDatabaseTerminal(d)
  PROVE  MessagesInv'
<1> USE DEF callerVars, trackVars, observerVars, workerVars
<1> DEFINE m == CommandMessage(d, "terminal")
<1>1. /\ m \in Message /\ m.subject = d /\ m.kind = "terminal" /\ m.stream = "database"
      /\ m.state = "ended" /\ Releases(m)
  BY NewMessages DEF CommandMessage, Releases
<1> HIDE DEF m
<1>2. handle[d] = "open" /\ handle' = [handle EXCEPT ![d] = "done"]
  BY DEF QueueDatabaseTerminal
<1>3. /\ handle \in [Exchanges \cup Commands -> {"unused", "open", "done"}]
      /\ handle'[d] = "done" /\ \A y : y # d => handle'[y] = handle[y]
      /\ d \notin Exchanges /\ trackedCommands \subseteq Commands
  BY <1>2, IdsAssumption DEF TypeInv, AdapterTypeOK
<1>4. CASE ~Stopped /\ d \in trackedCommands /\ Enqueues("database")
  <2>1. /\ Enqueue(m)
        /\ UNCHANGED <<awaiting, refused, failed, inHand, pending, stop, lost, heartbeats,
                       tracked, trackedCommands>>
    BY <1>4 DEF QueueDatabaseTerminal, m
  <2>2. m \notin OnItsWay
    BY <1>1, <1>2 DEF MessagesInv, FreshInv
  <2>3. MessagesInOnePlace' /\ OnItsWay' = OnItsWay \cup {m}
    BY <1>1, <2>1, <2>2, NewMessageInOnePlace DEF MessagesInv
  <2>4. FreshInv'
    <3>1. ASSUME NEW n \in OnItsWay', n # m
          PROVE  IF n.kind = "heartbeat" THEN n.revision <= heartbeats'
                 ELSE /\ handle'[n.subject] # "unused"
                      /\ n.kind = "terminal" => handle'[n.subject] = "done"
                      /\ n.kind = "snapshot" /\ n.state # "inFlight" =>
                           /\ handle'[n.subject] = "done"
                           /\ tracked'[n.subject] # None =>
                                n.revision <= tracked'[n.subject].revision
      <4>1. n \in OnItsWay
        BY <2>3, <3>1
      <4> QED
        BY <1>3, <2>1, <4>1 DEF MessagesInv, FreshInv
    <3>2. ASSUME NEW y \in Known'
          PROVE  handle'[y] # "unused" /\ (tracked'[y].state # "inFlight" => handle'[y] = "done")
      BY <1>3, <2>1, <3>2 DEF MessagesInv, FreshInv, Known
    <3>3. \A e \in trackedCommands' : handle'[e] # "unused"
      BY <1>3, <2>1 DEF MessagesInv, FreshInv
    <3> QED
      BY <1>1, <1>3, <3>1, <3>2, <3>3 DEF FreshInv
  <2>5. InFlightRevisionsGrow'
    <3>1. \A y \in Exchanges : About(y)' = About(y)
      BY <1>1, <1>3, <2>3 DEF About
    <3> QED
      BY <2>1, <3>1 DEF MessagesInv, InFlightRevisionsGrow
  <2>6. OutcomesAreNotLost'
    BY <1>1, <1>3, <2>1, <2>3 DEF MessagesInv, OutcomesAreNotLost
  <2> QED
    BY <2>3, <2>4, <2>5, <2>6 DEF MessagesInv
<1>5. CASE Stopped \/ d \notin trackedCommands \/ ~Enqueues("database")
  <2>1. /\ UNCHANGED <<Places, pending, lost, tracked, heartbeats, stop>>
        /\ trackedCommands' \subseteq trackedCommands
        /\ ~Stopped => d \notin trackedCommands'
    BY <1>3, <1>5 DEF QueueDatabaseTerminal, Places
  <2>2. OnItsWay' = OnItsWay /\ MessagesInOnePlace'
    <3>1. OnItsWay' = OnItsWay
      BY <2>1, OnItsWayMembers DEF Places, Queued
    <3> QED
      BY <2>1, <3>1 DEF MessagesInv, MessagesInOnePlace, Places, Queued, Observed, InHand, Cancelled
  <2>3. /\ \A y \in Exchanges \cup Commands : handle'[y] \in {handle[y], "done"}
        /\ stop' = "no" => \A e \in trackedCommands' : handle'[e] = handle[e]
    BY <1>3, <2>1 DEF Stopped
  <2>4. Moves
    BY <2>1, <2>2, <2>3 DEF Moves, KeepsReleases
  <2> QED
    BY <2>2, <2>4, MovesKeepRevisions DEF MessagesInv
<1> QED
  BY <1>4, <1>5

LEMMA HeartbeatKeepsMessages ==
  ASSUME TypeInv, TypeInv', MessagesInv, Heartbeat
  PROVE  MessagesInv'
<1> USE DEF callerVars, trackVars, observerVars, workerVars
<1> DEFINE m == HeartbeatMessage(heartbeats + 1)
<1>1. /\ heartbeats \in Nat /\ m \in Message /\ m.kind = "heartbeat" /\ m.subject = None
      /\ m.revision = heartbeats + 1 /\ m.state = "inFlight" /\ ~Releases(m)
  <2>1. heartbeats \in Nat
    BY CapacityAssumption DEF TypeInv, AdapterTypeOK
  <2> QED
    BY <2>1, NewMessages DEF HeartbeatMessage, Releases
<1> HIDE DEF m
<1>2. /\ heartbeats' = heartbeats + 1
      /\ UNCHANGED <<handle, tracked, trackedCommands, awaiting, refused, failed, inHand, pending,
                     stop, lost>>
  BY DEF Heartbeat
<1>3. CASE Enqueues("http")
  <2>1. Enqueue(m)
    BY <1>3 DEF Heartbeat, m
  <2>2. m \notin OnItsWay
    BY <1>1 DEF MessagesInv, FreshInv
  <2>3. MessagesInOnePlace' /\ OnItsWay' = OnItsWay \cup {m}
    BY <1>1, <1>2, <2>1, <2>2, NewMessageInOnePlace DEF MessagesInv
  <2>4. \A n \in OnItsWay : n \in Message /\ n.revision \in Nat
    BY OnItsWayType, MessageFields
  <2>5. FreshInv'
    BY <1>1, <1>2, <2>3, <2>4 DEF MessagesInv, FreshInv, Known
  <2>6. InFlightRevisionsGrow'
    <3>1. \A y \in Exchanges : About(y)' = About(y)
      BY <1>1, <2>3, IdsAssumption DEF About
    <3> QED
      BY <1>2, <3>1 DEF MessagesInv, InFlightRevisionsGrow
  <2>7. OutcomesAreNotLost'
    BY <1>2, <2>3 DEF MessagesInv, OutcomesAreNotLost
  <2> QED
    BY <2>3, <2>5, <2>6, <2>7 DEF MessagesInv
<1>4. CASE ~Enqueues("http")
  <2>1. UNCHANGED Places
    BY <1>2, <1>4 DEF Heartbeat, Places
  <2>2. OnItsWay' = OnItsWay /\ MessagesInOnePlace'
    <3>1. OnItsWay' = OnItsWay
      BY <2>1, OnItsWayMembers DEF Places, Queued
    <3> QED
      BY <1>2, <2>1, <3>1
      DEF MessagesInv, MessagesInOnePlace, Places, Queued, Observed, InHand, Cancelled
  <2>3. Moves
    BY <1>2, <2>2 DEF Moves, KeepsReleases
  <2> QED
    BY <2>2, <2>3, MovesKeepRevisions DEF MessagesInv
<1> QED
  BY <1>3, <1>4

LEMMA RecoverKeepsMessages ==
  ASSUME TypeInv, TypeInv', MessagesInv, Recover
  PROVE  MessagesInv'
<1> USE DEF callerVars, trackVars, observerVars, workerVars
<1>1. UNCHANGED <<handle, trackedCommands, awaiting, refused, failed, inHand, pending, stop, lost,
                  heartbeats>>
  BY DEF Recover
<1>2. /\ tracked \in [Exchanges -> ExchangeState \cup {None}]
      /\ Known' = Known /\ queue'["database"] = queue["database"]
      /\ \A x \in Known : /\ tracked'[x].state = tracked[x].state
                          /\ tracked'[x].revision = tracked[x].revision + 2
                          /\ tracked[x].revision \in Nat
  BY RecoverFacts DEF TypeInv, AdapterTypeOK, Known, ExchangeState
<1>3. PICK new \in SUBSET {SnapshotMessage(x, tracked'[x]) : x \in Known} :
        /\ Queued("http")' = Queued("http") \cup new
        /\ IsInjective(queue["http"]) /\ new \cap Queued("http") = {} => IsInjective(queue'["http"])
  BY RecoverFacts
<1>4. ASSUME NEW n \in new
      PROVE  /\ n.subject \in Known /\ n.kind = "snapshot" /\ n.stream = "http"
             /\ n.revision = tracked[n.subject].revision + 2 /\ n.state = tracked[n.subject].state
             /\ n = SnapshotMessage(n.subject, tracked'[n.subject])
  BY <1>2, <1>3, <1>4 DEF SnapshotMessage
<1>5. \A n \in OnItsWay : n \in Message /\ n.revision \in Nat
  BY OnItsWayType, MessageFields
<1>6. \A n \in new : n \notin OnItsWay
  <2> SUFFICES ASSUME NEW n \in new, n \in OnItsWay PROVE FALSE
    OBVIOUS
  <2>1. n.subject \in Known /\ n.subject \in Exchanges /\ tracked[n.subject] # None
    BY <1>4 DEF Known
  <2>2. n.revision <= tracked[n.subject].revision
    <3>1. CASE n.state = "inFlight"
      BY <1>4, <2>1, <3>1 DEF MessagesInv, InFlightRevisionsGrow, About
    <3>2. CASE n.state # "inFlight"
      BY <1>4, <2>1, <3>2 DEF MessagesInv, FreshInv
    <3> QED
      BY <3>1, <3>2
  <2> QED
    BY <1>2, <1>4, <1>5, <2>1, <2>2
<1>7. /\ Queued("database")' = Queued("database")
      /\ Observed' = Observed /\ InHand' = InHand
      /\ OnItsWay' = OnItsWay \cup new
  BY <1>1, <1>2, <1>3, OnItsWayMembers DEF Queued, Observed, InHand
<1>8. MessagesInOnePlace'
  <2>1. \A s \in Stream : IsInjective(queue'[s])
    BY <1>2, <1>3, <1>6, OnItsWayMembers DEF MessagesInv, MessagesInOnePlace, Stream
  <2>2. \A s \in Stream : Queued(s)' \cap (Observed' \cup InHand') = {}
    BY <1>3, <1>6, <1>7, OnItsWayMembers DEF MessagesInv, MessagesInOnePlace, Stream, Observed, InHand
  <2>3. \A s \in Stream : \A n \in Queued(s)' : n.stream = s
    BY <1>3, <1>4, <1>7 DEF MessagesInv, MessagesInOnePlace, Stream
  <2> QED
    BY <1>1, <1>7, <2>1, <2>2, <2>3 DEF MessagesInv, MessagesInOnePlace, Cancelled
<1>9. FreshInv'
  <2>1. ASSUME NEW n \in OnItsWay'
        PROVE  IF n.kind = "heartbeat" THEN n.revision <= heartbeats'
               ELSE /\ handle'[n.subject] # "unused"
                    /\ n.kind = "terminal" => handle'[n.subject] = "done"
                    /\ n.kind = "snapshot" /\ n.state # "inFlight" =>
                         /\ handle'[n.subject] = "done"
                         /\ tracked'[n.subject] # None => n.revision <= tracked'[n.subject].revision
    <3>1. CASE n \in new
      BY <1>1, <1>2, <1>4, <3>1 DEF MessagesInv, FreshInv
    <3>2. CASE n \in OnItsWay
      <4>1. n.kind = "snapshot" => n.subject \in Exchanges
        BY <1>5, <3>2 DEF Message
      <4>2. n.kind = "snapshot" /\ tracked'[n.subject] # None => n.subject \in Known
        BY <1>2, <4>1 DEF Known
      <4> QED
        BY <1>1, <1>2, <1>5, <3>2, <4>1, <4>2 DEF MessagesInv, FreshInv, Known
    <3> QED
      BY <1>7, <2>1, <3>1, <3>2
  <2>2. \A x \in Known' : /\ handle'[x] # "unused"
                          /\ tracked'[x].state # "inFlight" => handle'[x] = "done"
    BY <1>1, <1>2 DEF MessagesInv, FreshInv
  <2>3. \A d \in trackedCommands' : handle'[d] # "unused"
    BY <1>1 DEF MessagesInv, FreshInv
  <2> QED
    BY <2>1, <2>2, <2>3 DEF FreshInv
<1>10. InFlightRevisionsGrow'
  <2>1. ASSUME NEW x \in Exchanges, tracked'[x] # None, tracked'[x].state = "inFlight"
        PROVE  /\ \A n \in About(x)' : n.revision <= tracked'[x].revision
               /\ \A n, k \in About(x)' : n.revision = k.revision => n = k
    <3>1. x \in Known /\ tracked[x] # None /\ tracked[x].state = "inFlight"
      BY <1>2, <2>1 DEF Known
    <3>2. \A n \in About(x)' : \/ n \in About(x) /\ n.revision <= tracked[x].revision
                               \/ /\ n = SnapshotMessage(x, tracked'[x])
                                  /\ n.revision = tracked[x].revision + 2
      BY <1>4, <1>7, <3>1 DEF About, MessagesInv, InFlightRevisionsGrow
    <3>3. \A n \in About(x) : n.revision \in Nat
      BY <1>5 DEF About
    <3> QED
      BY <1>2, <3>1, <3>2, <3>3 DEF MessagesInv, InFlightRevisionsGrow
  <2> QED
    BY <2>1 DEF InFlightRevisionsGrow
<1>11. OutcomesAreNotLost'
  <2>1. ASSUME stop' = "no", NEW y \in Exchanges, tracked'[y] # None, tracked'[y].state # "inFlight"
        PROVE  \E n \in (OnItsWay \cup lost)' : n.subject = y /\ Releases(n)
    <3>1. tracked[y] # None /\ tracked[y].state # "inFlight"
      BY <1>2, <2>1 DEF Known
    <3> QED
      BY <1>1, <1>7, <2>1, <3>1 DEF MessagesInv, OutcomesAreNotLost
  <2>2. ASSUME stop' = "no", NEW d \in trackedCommands', handle'[d] = "done"
        PROVE  \E n \in (OnItsWay \cup lost)' : n.subject = d /\ Releases(n)
    BY <1>1, <1>7, <2>2 DEF MessagesInv, OutcomesAreNotLost
  <2> QED
    BY <2>1, <2>2 DEF OutcomesAreNotLost
<1> QED
  BY <1>8, <1>9, <1>10, <1>11 DEF MessagesInv

LEMMA MessagesNext ==
  ASSUME TypeInv, TypeInv', MessagesInv, [AdapterNext]_adapterVars
  PROVE  MessagesInv'
<1>1. ASSUME Moves PROVE MessagesInv'
  BY <1>1, MovesKeepRevisions DEF MessagesInv, Moves
<1>2. CASE UNCHANGED adapterVars
  <2>1. /\ UNCHANGED <<Places, pending, lost>>
        /\ UNCHANGED <<handle, tracked, trackedCommands, heartbeats, stop>>
    BY <1>2 DEF adapterVars, Places
  <2>2. Moves
    BY <2>1, SamePlaces DEF MessagesInv, Cancelled
  <2> QED
    BY <1>1, <2>2
<1>3. CASE CallerStep
  <2>1. ASSUME NEW x \in Exchanges, CaptureStarted(x) PROVE MessagesInv'
    <3>1. /\ StartedMessage(x) \in Message /\ StartedMessage(x).subject = x
          /\ StartedMessage(x).kind = "started" /\ StartedMessage(x).revision = 1
      BY NewMessages DEF StartedMessage
    <3> QED
      BY <2>1, <3>1, CaptureKeepsMessages DEF CaptureStarted
  <2>2. ASSUME NEW d \in Commands, CaptureDatabaseStarted(d) PROVE MessagesInv'
    <3>1. /\ CommandMessage(d, "started") \in Message
          /\ CommandMessage(d, "started").subject = d
          /\ CommandMessage(d, "started").kind = "started"
          /\ CommandMessage(d, "started").revision = 1
      BY NewMessages DEF CommandMessage
    <3> QED
      BY <2>2, <3>1, CaptureKeepsMessages DEF CaptureDatabaseStarted
  <2>3. CASE Start
    BY <1>1, <2>3, ConnectMoves DEF MessagesInv
  <2> QED
    BY <1>3, <2>1, <2>2, <2>3, TerminalKeepsMessages, DatabaseTerminalKeepsMessages,
       HeartbeatKeepsMessages DEF CallerStep
<1>4. CASE WorkerStep
  BY <1>1, <1>4, RecoverKeepsMessages, WorkerMoves DEF WorkerStep, MessagesInv
<1>5. CASE RetryStep \/ AnswerStep
  BY <1>1, <1>5, ObserverMoves DEF MessagesInv
<1>6. CASE BeginStop \/ StopStep \/ ConnectStep
  BY <1>1, <1>6, ConnectMoves DEF MessagesInv
<1> QED
  BY <1>2, <1>3, <1>4, <1>5, <1>6 DEF AdapterNext

-----------------------------------------------------------------------------------
LEMMA InitInv == AdapterInit => AdapterInv
<1> SUFFICES ASSUME AdapterInit PROVE AdapterInv
  OBVIOUS
<1>1. Known = {} /\ IsFiniteSet({})
  BY FS_EmptySet DEF AdapterInit, Known
<1>2. /\ queue = [s \in Stream |-> <<>>] /\ pending = [s \in Stream |-> {}]
      /\ <<>> \in Seq(Message)
  BY DEF AdapterInit
<1>3. \A s \in Stream : queue[s] = <<>> /\ Queued(s) = {}
  BY <1>2 DEF Queued
<1>4. OnItsWay = {} /\ Observed = {} /\ InHand = {}
  BY <1>3, OnItsWayMembers DEF AdapterInit, Observed, InHand, Stream
<1>5. TypeInv
  <2>1. /\ queue \in [Stream -> Seq(Message)] /\ pending \in [Stream -> SUBSET Message]
        /\ \A s \in Stream : IsFiniteSet(pending[s])
    BY <1>1, <1>2
  <2>2. /\ handle \in [Exchanges \cup Commands -> {"unused", "open", "done"}]
        /\ tracked \in [Exchanges -> ExchangeState \cup {None}]
        /\ connects \in 0 .. MaxConnects /\ heartbeats \in 0 .. MaxHeartbeats
    BY CapacityAssumption DEF AdapterInit
  <2> QED
    BY <1>1, <2>1, <2>2 DEF AdapterInit, TypeInv, AdapterTypeOK
<1>6. NoWakeUpIsLost /\ StopInv
  BY DEF AdapterInit, NoWakeUpIsLost, StopInv, StoppedHoldsNothing
<1>7. MessagesInOnePlace
  <2>1. \A s \in Stream : IsInjective(queue[s])
    BY <1>3 DEF IsInjective
  <2>2. pending["http"] = {} /\ pending["database"] = {} /\ awaiting = {} /\ failed = {}
        /\ refused = {}
    BY <1>2 DEF AdapterInit, Stream
  <2> QED
    BY <1>3, <1>4, <2>1, <2>2 DEF MessagesInOnePlace
<1>8. FreshInv
  BY <1>1, <1>4 DEF AdapterInit, FreshInv
<1>9. InFlightRevisionsGrow /\ OutcomesAreNotLost
  BY DEF AdapterInit, InFlightRevisionsGrow, OutcomesAreNotLost
<1> QED
  BY <1>5, <1>6, <1>7, <1>8, <1>9 DEF AdapterInv

LEMMA NextInv == AdapterInv /\ [AdapterNext]_adapterVars => AdapterInv'
<1> SUFFICES ASSUME AdapterInv, [AdapterNext]_adapterVars PROVE AdapterInv'
  OBVIOUS
<1>1. TypeInv' /\ NoWakeUpIsLost' /\ StopInv'
  BY TypeInvNext, WakeUpNext, StopNext DEF AdapterInv
<1>2. MessagesInv'
  BY <1>1, MessagesNext DEF AdapterInv, MessagesInv
<1> QED
  BY <1>1, <1>2 DEF AdapterInv, MessagesInv

LEMMA SpecInv == AdapterSpec => []AdapterInv
BY InitInv, NextInv, PTL DEF AdapterSpec

(***************************************************************************)
(* Every variable of the adapter keeps its type: in particular what it     *)
(* queues and counts as pending are messages it made itself.               *)
(***************************************************************************)
THEOREM AdapterTypeCorrect == AdapterSpec => []AdapterTypeOK
<1>1. AdapterInv => AdapterTypeOK
  BY DEF AdapterInv, TypeInv
<1> QED
  BY <1>1, SpecInv, PTL

(***************************************************************************)
(* A message is queued, in the worker's hand or with one observer, and the *)
(* pending ones are those that an observer will take out again, however    *)
(* the worker, the observers, the reconnects and the callers interleave.   *)
(***************************************************************************)
THEOREM PlacesCorrect == AdapterSpec => []MessagesInOnePlace
<1>1. AdapterInv => MessagesInOnePlace
  BY DEF AdapterInv
<1> QED
  BY <1>1, SpecInv, PTL

(***************************************************************************)
(* The connection worker never sleeps without a release of _wake while     *)
(* there is a message to send, a fault or a cancellation to notice.        *)
(***************************************************************************)
THEOREM NoWakeUpLost == AdapterSpec => []NoWakeUpIsLost
<1>1. AdapterInv => NoWakeUpIsLost
  BY DEF AdapterInv
<1> QED
  BY <1>1, SpecInv, PTL

(***************************************************************************)
(* While an exchange is in flight no message about it is newer than the    *)
(* adapter's revision and no two share one, for any number of reconnects.  *)
(***************************************************************************)
THEOREM AdapterRevisionsCorrect == AdapterSpec => []InFlightRevisionsGrow
<1>1. AdapterInv => InFlightRevisionsGrow
  BY DEF AdapterInv
<1> QED
  BY <1>1, SpecInv, PTL

(***************************************************************************)
(* Until somebody stops the adapter, what ended and is still tracked has a *)
(* message on its way that will release it, or that the listener refused   *)
(* for good.                                                               *)
(***************************************************************************)
THEOREM OutcomesKept == AdapterSpec => []OutcomesAreNotLost
<1>1. AdapterInv => OutcomesAreNotLost
  BY DEF AdapterInv
<1> QED
  BY <1>1, SpecInv, PTL

(***************************************************************************)
(* Nothing fills the adapter again once StopAsync has returned: neither an *)
(* observer that outlives it, nor a late caller.                           *)
(***************************************************************************)
THEOREM StoppedCorrect == AdapterSpec => []StoppedHoldsNothing
<1>1. AdapterInv => StoppedHoldsNothing
  BY DEF AdapterInv, StopInv
<1> QED
  BY <1>1, SpecInv, PTL
===================================================================================
