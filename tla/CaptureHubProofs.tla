----------------------------- MODULE CaptureHubProofs -----------------------------
(***************************************************************************)
(* Proofs about CaptureHub for every set of sources and keys, every limit  *)
(* and every bound.                                                        *)
(***************************************************************************)
EXTENDS CaptureHub, FiniteSetTheorems, SequenceTheorems, TLAPS

-----------------------------------------------------------------------------------
(* The merges return exchanges and commands. *)

LEMMA MergeType ==
  ASSUME NEW current \in Exchange \cup {None}, NEW m \in ExchangeMessage,
         NEW at \in Times, NEW arrival \in Nat,
         IsExchange(current) => current.arrival = arrival
  PROVE  LET merged == MergeMessage(current, m, at, arrival)
         IN  /\ merged \in Exchange
             /\ merged.revision = m.revision
             /\ merged.arrival = arrival
<1> DEFINE found == BeginOrCurrent(current, m, at, arrival)
           e == [found EXCEPT !.revision = m.revision,
                              !.metadata = IF m.metadata = "kept" THEN @ ELSE m.metadata]
<1>1. m.revision \in Nat /\ m.metadata \in MetadataSize \cup {"kept"}
  BY MaxRevisionAssumption, MetadataAssumption DEF ExchangeMessage, LifecycleMessage,
     StartedMessage, CompletedMessage, FailedMessage, CancelledMessage, SnapshotMessage,
     MessageRevision
<1>2. e \in Exchange /\ e.revision = m.revision /\ e.arrival = arrival
  <2>1. found \in Exchange /\ found.arrival = arrival
    BY <1>1, TimesAssumption DEF BeginOrCurrent, MissingStartExchange, IsExchange, Exchange,
       ExchangeState, MetadataSize
  <2> HIDE DEF found
  <2>2. (IF m.metadata = "kept" THEN found.metadata ELSE m.metadata) \in MetadataSize
    BY <1>1, <2>1 DEF Exchange
  <2> QED
    BY <1>1, <2>1, <2>2 DEF Exchange
<1> HIDE DEF e
<1>3. CASE m \in StartedMessage
  <2>1. m.kind = "started"
    BY <1>3 DEF StartedMessage
  <2>2. MergeMessage(current, m, at, arrival) = [e EXCEPT !.request = "captured"]
    BY <2>1 DEF MergeMessage, e
  <2> QED
    BY <1>2, <2>2 DEF Exchange
<1>4. CASE m \in CompletedMessage
  <2>1. m.kind = "completed"
    BY <1>4 DEF CompletedMessage
  <2>2. MergeMessage(current, m, at, arrival)
          = [e EXCEPT !.state = "completed", !.response = TRUE, !.failure = FALSE]
    BY <2>1 DEF MergeMessage, e
  <2> QED
    BY <1>2, <2>2 DEF Exchange, ExchangeState
<1>5. CASE m \in FailedMessage
  <2>1. m.kind = "failed" /\ m.response \in BOOLEAN
    BY <1>5 DEF FailedMessage
  <2>2. MergeMessage(current, m, at, arrival)
          = [e EXCEPT !.state = "failed", !.response = m.response, !.failure = TRUE]
    BY <2>1 DEF MergeMessage, e
  <2> QED
    BY <1>2, <2>1, <2>2 DEF Exchange, ExchangeState
<1>6. CASE m \in CancelledMessage
  <2>1. m.kind = "cancelled"
    BY <1>6 DEF CancelledMessage
  <2>2. MergeMessage(current, m, at, arrival)
          = [e EXCEPT !.state = "cancelled", !.failure = FALSE]
    BY <2>1 DEF MergeMessage, e
  <2> QED
    BY <1>2, <2>2 DEF Exchange, ExchangeState
<1>7. CASE m \in SnapshotMessage
  <2>1. m.kind = "snapshot" /\ m.state \in ExchangeState /\ m.response \in BOOLEAN
           /\ m.failure \in BOOLEAN /\ m.metadata \in MetadataSize
    BY <1>7, MetadataAssumption DEF SnapshotMessage
  <2>2. MergeMessage(current, m, at, arrival)
          = [revision |-> m.revision, arrival |-> arrival, state |-> m.state,
             request |-> "captured", response |-> m.response, failure |-> m.failure,
             metadata |-> m.metadata, receivedAt |-> at]
    BY <2>1 DEF MergeMessage
  <2> QED
    BY <1>1, <2>1, <2>2, TimesAssumption DEF Exchange
<1> QED
  BY <1>3, <1>4, <1>5, <1>6, <1>7 DEF ExchangeMessage, LifecycleMessage

LEMMA DatabaseMergeType ==
  ASSUME NEW current \in Command \cup {None}, NEW m \in DatabaseMessage, NEW arrival \in Nat,
         IsExchange(current) => current.arrival = arrival
  PROVE  LET merged == MergeDatabaseMessage(current, m, arrival)
         IN  /\ merged \in Command
             /\ merged.revision = m.revision
             /\ merged.arrival = arrival
<1> DEFINE c == [BeginOrCurrentCommand(current, m, arrival) EXCEPT !.revision = m.revision]
<1>1. m.revision \in Nat
  BY MaxRevisionAssumption DEF DatabaseMessage, DatabaseLifecycleMessage,
     DatabaseStartedMessage, DatabaseOutcomeMessage, DatabaseSnapshotMessage, MessageRevision
<1>2. c \in Command /\ c.revision = m.revision /\ c.arrival = arrival
  BY <1>1 DEF BeginOrCurrentCommand, MissingStartCommand, IsExchange, Command,
     ExchangeState, PlaceholderBytes, PlaceholderReasonBytes
<1> HIDE DEF c
<1>3. CASE m \in DatabaseStartedMessage
  <2>1. m.kind = "started" /\ m.query \in Nat
    BY <1>3, SizesAssumption DEF DatabaseStartedMessage
  <2>2. MergeDatabaseMessage(current, m, arrival) = [c EXCEPT !.query = m.query]
    BY <2>1 DEF MergeDatabaseMessage, c
  <2> QED
    BY <1>2, <2>1, <2>2 DEF Command
<1>4. CASE m \in DatabaseOutcomeMessage
  <2>1. /\ m.kind \in {"completed", "failed", "cancelled"}
        /\ m.outcome \in Nat /\ m.reason \in Nat
    BY <1>4, SizesAssumption DEF DatabaseOutcomeMessage
  <2>2. PICK failure \in BOOLEAN :
          MergeDatabaseMessage(current, m, arrival)
            = [c EXCEPT !.state = m.kind, !.failure = failure, !.outcome = m.outcome,
                        !.reason = m.reason]
    BY <2>1, Zenon DEF MergeDatabaseMessage, c
  <2> QED
    BY <1>2, <2>1, <2>2 DEF Command, ExchangeState
<1>5. CASE m \in DatabaseSnapshotMessage
  <2>1. /\ m.kind = "snapshot" /\ m.state \in ExchangeState /\ m.failure \in BOOLEAN
        /\ m.query \in Nat /\ m.outcome \in Nat /\ m.reason \in Nat
    BY <1>5, SizesAssumption DEF DatabaseSnapshotMessage
  <2>2. MergeDatabaseMessage(current, m, arrival)
          = [revision |-> m.revision, arrival |-> arrival, state |-> m.state,
             failure |-> m.failure, query |-> m.query, outcome |-> m.outcome,
             reason |-> m.reason]
    BY <2>1 DEF MergeDatabaseMessage
  <2> QED
    BY <1>1, <2>1, <2>2 DEF Command
<1> QED
  BY <1>3, <1>4, <1>5 DEF DatabaseMessage, DatabaseLifecycleMessage

-----------------------------------------------------------------------------------
(* What happens to the deque and the map of a repository.  Item is the set *)
(* of exchanges, or of commands.                                           *)

(* One repository of the hub, well formed. *)
IsRepository(K, Item, map, order, next) ==
  /\ None \notin Item
  /\ map \in [K -> Item \cup {None}]
  /\ order \in Seq(K)
  /\ next \in Nat \ {0}
  /\ OrderListsMap(map, order, next)

(* pick says which position of the order each entry of the rest comes from. *)
Selects(pick, rest, order, positions) ==
  /\ pick \in [DOMAIN rest -> DOMAIN order \ positions]
  /\ \A i, j \in DOMAIN rest : i < j => pick[i] < pick[j]
  /\ \A i \in DOMAIN rest : rest[i] = order[pick[i]]
  /\ \A p \in DOMAIN order \ positions : \E i \in DOMAIN rest : pick[i] = p

(* The rest of an order lists exactly the kept positions, in their order. *)
LEMMA RestProperties ==
  ASSUME NEW K, NEW order \in Seq(K), NEW positions \in SUBSET (DOMAIN order), NEW rest,
         IsRest(rest, order, positions)
  PROVE  /\ rest \in Seq(K)
         /\ \E pick : Selects(pick, rest, order, positions)
<1> DEFINE kept == DOMAIN order \ positions
           n == Cardinality(kept)
<1>1. DOMAIN order = 1 .. Len(order) /\ Len(order) \in Nat
  BY LenProperties
<1>2. IsFiniteSet(kept) /\ n \in Nat
  <2>1. IsFiniteSet(1 .. Len(order))
    BY <1>1, FS_Interval
  <2> QED
    BY <1>1, <2>1, FS_Difference, FS_CardinalityType
<1>3. PICK pick \in [1 .. n -> kept] :
        /\ \A i, j \in 1 .. n : i < j => pick[i] < pick[j]
        /\ rest = [i \in 1 .. n |-> order[pick[i]]]
  BY DEF IsRest
<1>4. \A i \in 1 .. n : order[pick[i]] \in K
  BY <1>1, <1>3, ElementOfSeq
<1> HIDE DEF n
<1>5. DOMAIN rest = 1 .. n /\ rest \in Seq(K)
  <2>1. rest \in [1 .. n -> K]
    BY <1>3, <1>4
  <2> QED
    BY <1>2, <2>1, SeqDef
<1>6. pick \in Injection(1 .. n, kept)
  <2>1. \A i, j \in 1 .. n : pick[i] = pick[j] => i = j
    <3>1. \A p \in kept : p \in Nat
      BY <1>1
    <3> QED
      BY <1>2, <1>3, <3>1
  <2> QED
    BY <1>3, <2>1 DEF Injection, IsInjective
<1>7. Cardinality(1 .. n) = n
  BY <1>2, FS_Interval
<1>8. pick \in Surjection(1 .. n, kept)
  BY <1>2, <1>6, <1>7, FS_Injection DEF n
<1> QED
  BY <1>3, <1>5, <1>8 DEF Surjection, Selects

LEMMA EachKeyOnce ==
  ASSUME NEW K, NEW Item, NEW map, NEW order, NEW next, IsRepository(K, Item, map, order, next)
  PROVE  \A i, j \in DOMAIN order : order[i] = order[j] => i = j
<1> SUFFICES ASSUME NEW i \in DOMAIN order, NEW j \in DOMAIN order, order[i] = order[j]
             PROVE  i = j
  OBVIOUS
<1>1. DOMAIN order = 1 .. Len(order) /\ Len(order) \in Nat
  BY LenProperties DEF IsRepository
<1>2. map[order[i]].arrival \in Nat
  BY DEF OrderListsMap, IsRepository
<1>3. ~(i < j) /\ ~(j < i)
  BY <1>2 DEF OrderListsMap, IsRepository
<1> QED
  BY <1>1, <1>3

LEMMA UpdateKeepsOrder ==
  ASSUME NEW K, NEW Item, NEW map, NEW order, NEW next,
         IsRepository(K, Item, map, order, next),
         NEW k \in K, IsExchange(map[k]), NEW item \in Item, item.arrival = map[k].arrival
  PROVE  IsRepository(K, Item, [map EXCEPT ![k] = item], order, next)
<1> USE DEF IsRepository
<1> DEFINE new == [map EXCEPT ![k] = item]
<1>1. \A i \in DOMAIN order : order[i] \in K
  BY LenProperties, ElementOfSeq
<1>2. Retained(new) = Retained(map)
  BY DEF Retained, IsExchange
<1>3. \A i \in DOMAIN order : new[order[i]].arrival = map[order[i]].arrival
  BY <1>1
<1> QED
  BY <1>2, <1>3 DEF OrderListsMap

LEMMA AppendKeepsOrder ==
  ASSUME NEW K, NEW Item, NEW map, NEW order, NEW next,
         IsRepository(K, Item, map, order, next),
         NEW k \in K, ~IsExchange(map[k]), NEW item \in Item, item.arrival = next
  PROVE  IsRepository(K, Item, [map EXCEPT ![k] = item], Append(order, k), next + 1)
<1> USE DEF IsRepository
<1> DEFINE new == [map EXCEPT ![k] = item]
           longer == Append(order, k)
<1>1. /\ DOMAIN order = 1 .. Len(order) /\ Len(order) \in Nat
      /\ DOMAIN longer = 1 .. Len(order) + 1
      /\ \A i \in 1 .. Len(order) : longer[i] = order[i] /\ order[i] \in K
      /\ longer[Len(order) + 1] = k
  BY LenProperties, AppendProperties, ElementOfSeq
<1>2. \A i \in 1 .. Len(order) : IsExchange(map[order[i]]) /\ order[i] # k
  BY <1>1 DEF OrderListsMap, Retained
<1>3. Retained(new) = Retained(map) \cup {k}
  BY DEF Retained, IsExchange
<1>4. {longer[i] : i \in DOMAIN longer} = {order[i] : i \in DOMAIN order} \cup {k}
  BY <1>1
<1>5. \A i \in 1 .. Len(order) : new[longer[i]].arrival = map[order[i]].arrival
  BY <1>1, <1>2
<1>6. new[longer[Len(order) + 1]].arrival = next
  BY <1>1
<1>7. \A i \in 1 .. Len(order) : map[order[i]].arrival \in 1 .. next - 1
  BY <1>1 DEF OrderListsMap
<1>8. \A i, j \in 1 .. Len(order) + 1 : i < j => new[longer[i]].arrival < new[longer[j]].arrival
  <2> TAKE i, j \in 1 .. Len(order) + 1
  <2> HAVE i < j
  <2>1. i \in 1 .. Len(order)
    BY <1>1
  <2>2. CASE j = Len(order) + 1
    BY <1>5, <1>6, <1>7, <2>1, <2>2
  <2>3. CASE j \in 1 .. Len(order)
    BY <1>1, <1>5, <2>1, <2>3 DEF OrderListsMap
  <2> QED
    BY <1>1, <2>2, <2>3
<1>9. \A i \in 1 .. Len(order) + 1 : new[longer[i]].arrival \in 1 .. (next + 1) - 1
  <2> TAKE i \in 1 .. Len(order) + 1
  <2>1. CASE i = Len(order) + 1
    BY <1>6, <2>1
  <2>2. CASE i \in 1 .. Len(order)
    BY <1>5, <1>7, <2>2
  <2> QED
    BY <1>1, <2>1, <2>2
<1>10. Retained(new) = {longer[i] : i \in DOMAIN longer}
  BY <1>3, <1>4 DEF OrderListsMap
<1>11. OrderListsMap(new, longer, next + 1)
  BY <1>1, <1>8, <1>9, <1>10 DEF OrderListsMap
<1> QED
  BY <1>11, AppendProperties

LEMMA RemovalKeepsOrder ==
  ASSUME NEW K, NEW Item, NEW map, NEW order, NEW next,
         IsRepository(K, Item, map, order, next),
         NEW positions \in SUBSET (DOMAIN order), NEW rest, IsRest(rest, order, positions)
  PROVE  IsRepository(K, Item, WithoutPositions(map, order, positions), rest, next)
<1> USE DEF IsRepository
<1> DEFINE new == WithoutPositions(map, order, positions)
<1>1. DOMAIN order = 1 .. Len(order) /\ Len(order) \in Nat
  BY LenProperties
<1>2. PICK pick : Selects(pick, rest, order, positions)
  BY RestProperties
<1>3. rest \in Seq(K)
  BY RestProperties
<1>4. new = [k \in K |-> IF \E i \in positions : order[i] = k THEN None ELSE map[k]]
  BY DEF WithoutPositions
<1>5. \A i, j \in DOMAIN order : order[i] = order[j] => i = j
  <2> TAKE i, j \in DOMAIN order
  <2> HAVE order[i] = order[j]
  <2>1. map[order[i]].arrival \in Nat
    BY DEF OrderListsMap
  <2>2. ~(i < j) /\ ~(j < i)
    BY <2>1 DEF OrderListsMap
  <2> QED
    BY <1>1, <2>2
<1>6. \A i \in DOMAIN order : order[i] \in K
  BY <1>1, ElementOfSeq
<1>7. \A p \in DOMAIN order \ positions : new[order[p]] = map[order[p]]
  BY <1>4, <1>5, <1>6
<1>8. \A i \in DOMAIN rest : new[rest[i]] = map[order[pick[i]]]
  BY <1>2, <1>7 DEF Selects
<1>9. Retained(new) = {rest[i] : i \in DOMAIN rest}
  <2>1. ASSUME NEW k \in Retained(new) PROVE \E i \in DOMAIN rest : rest[i] = k
    <3>1. k \in K /\ IsExchange(map[k]) /\ ~(\E i \in positions : order[i] = k)
      BY <1>4, <2>1 DEF Retained, IsExchange
    <3>2. PICK p \in DOMAIN order : order[p] = k
      BY <3>1 DEF OrderListsMap, Retained
    <3> QED
      BY <1>2, <3>1, <3>2 DEF Selects
  <2>2. ASSUME NEW i \in DOMAIN rest PROVE rest[i] \in Retained(new)
    <3>1. pick[i] \in DOMAIN order \ positions
      BY <1>2 DEF Selects
    <3>2. order[pick[i]] \in Retained(map)
      BY <3>1 DEF OrderListsMap
    <3> QED
      BY <1>2, <1>4, <1>8, <3>1, <3>2 DEF Retained, Selects
  <2> QED
    BY <2>1, <2>2
<1>10. \A i, j \in DOMAIN rest : i < j => new[rest[i]].arrival < new[rest[j]].arrival
  BY <1>2, <1>8 DEF OrderListsMap, Selects
<1>11. \A i \in DOMAIN rest : new[rest[i]].arrival \in 1 .. next - 1
  BY <1>2, <1>8 DEF OrderListsMap, Selects
<1>12. new \in [K -> Item \cup {None}]
  BY <1>4
<1> QED
  BY <1>3, <1>9, <1>10, <1>11, <1>12 DEF OrderListsMap

(***************************************************************************)
(* What a store does to one repository, whichever positions it evicts: put *)
(* item at k, at the end of the order if k is new, then remove positions.  *)
(***************************************************************************)
IsUpsert(map, order, next, k, item, newMap, newOrder, newNext) ==
  /\ item.arrival = IF IsExchange(map[k]) THEN map[k].arrival ELSE next
  /\ newNext = IF IsExchange(map[k]) THEN next ELSE next + 1
  /\ \E positions \in SUBSET (DOMAIN Longer(map, order, k)) :
       /\ newMap = WithoutPositions([map EXCEPT ![k] = item], Longer(map, order, k), positions)
       /\ IsRest(newOrder, Longer(map, order, k), positions)

LEMMA PutKeepsOrder ==
  ASSUME NEW K, NEW Item, NEW map, NEW order, NEW next,
         IsRepository(K, Item, map, order, next),
         NEW k \in K, NEW item \in Item, NEW newMap, NEW newOrder, NEW newNext,
         IsUpsert(map, order, next, k, item, newMap, newOrder, newNext)
  PROVE  IsRepository(K, Item, [map EXCEPT ![k] = item], Longer(map, order, k), newNext)
<1>1. CASE IsExchange(map[k])
  BY <1>1, UpdateKeepsOrder DEF IsUpsert, Longer
<1>2. CASE ~IsExchange(map[k])
  BY <1>2, AppendKeepsOrder DEF IsUpsert, Longer
<1> QED
  BY <1>1, <1>2

LEMMA PutKeepsOrderAt ==
  ASSUME NEW K, NEW Item, NEW map, NEW order, NEW next,
         IsRepository(K, Item, map, order, next), NEW k \in K, NEW item \in Item,
         item.arrival = IF IsExchange(map[k]) THEN map[k].arrival ELSE next
  PROVE  \E newNext : IsRepository(K, Item, [map EXCEPT ![k] = item], Longer(map, order, k), newNext)
<1>1. CASE IsExchange(map[k])
  BY <1>1, UpdateKeepsOrder DEF Longer
<1>2. CASE ~IsExchange(map[k])
  BY <1>2, AppendKeepsOrder DEF Longer
<1> QED
  BY <1>1, <1>2

LEMMA UpsertKeepsOrder ==
  ASSUME NEW K, NEW Item, NEW map, NEW order, NEW next,
         IsRepository(K, Item, map, order, next),
         NEW k \in K, NEW item \in Item, NEW newMap, NEW newOrder, NEW newNext,
         IsUpsert(map, order, next, k, item, newMap, newOrder, newNext)
  PROVE  IsRepository(K, Item, newMap, newOrder, newNext)
<1> DEFINE stored == [map EXCEPT ![k] = item]
           longer == Longer(map, order, k)
<1>1. IsRepository(K, Item, stored, longer, newNext)
  BY PutKeepsOrder
<1>2. PICK positions \in SUBSET (DOMAIN longer) :
        newMap = WithoutPositions(stored, longer, positions) /\ IsRest(newOrder, longer, positions)
  BY DEF IsUpsert
<1> HIDE DEF stored, longer
<1> QED
  BY <1>1, <1>2, RemovalKeepsOrder

(* Where the entries of a repository come from after a store. *)
LEMMA UpsertOrigins ==
  ASSUME NEW K, NEW Item, NEW map, NEW order, NEW next,
         IsRepository(K, Item, map, order, next),
         NEW k \in K, NEW item \in Item, NEW newMap, NEW newOrder, NEW newNext,
         IsUpsert(map, order, next, k, item, newMap, newOrder, newNext),
         NEW e \in Retained(newMap)
  PROVE  \/ e = k /\ newMap[e] = item
         \/ e # k /\ e \in Retained(map) /\ newMap[e] = map[e]
BY DEF Retained, WithoutPositions, IsExchange, IsUpsert, IsRepository

(* A store in one repository leaves the arrivals of the two distinct. *)
LEMMA UpsertKeepsDistinct ==
  ASSUME NEW K, NEW Item, NEW map, NEW order, NEW next,
         IsRepository(K, Item, map, order, next),
         NEW L, NEW Other, NEW other, NEW otherOrder,
         IsRepository(L, Other, other, otherOrder, next),
         \A e \in Retained(map), c \in Retained(other) : map[e].arrival # other[c].arrival,
         NEW k \in K, NEW item \in Item, NEW newMap, NEW newOrder, NEW newNext,
         IsUpsert(map, order, next, k, item, newMap, newOrder, newNext)
  PROVE  /\ IsRepository(L, Other, other, otherOrder, newNext)
         /\ \A e \in Retained(newMap), c \in Retained(other) :
               newMap[e].arrival # other[c].arrival
<1>1. newNext \in Nat \ {0} /\ next \in Nat \ {0} /\ next <= newNext
  BY DEF IsUpsert, IsRepository
<1>2. \A a \in 1 .. next - 1 : a \in 1 .. newNext - 1
  BY <1>1
<1>3. IsRepository(L, Other, other, otherOrder, newNext)
  BY <1>1, <1>2 DEF IsRepository, OrderListsMap
<1>4. ASSUME NEW e \in Retained(newMap), NEW c \in Retained(other)
      PROVE  newMap[e].arrival # other[c].arrival
  <2>1. other[c].arrival \in 1 .. next - 1
    BY DEF IsRepository, OrderListsMap
  <2>2. CASE e = k /\ newMap[e] = item /\ ~IsExchange(map[k])
    BY <1>1, <2>1, <2>2 DEF IsUpsert
  <2>3. CASE e = k /\ newMap[e] = item /\ IsExchange(map[k])
    BY <2>3 DEF IsUpsert, Retained, IsRepository
  <2>4. CASE e \in Retained(map) /\ newMap[e] = map[e]
    BY <2>4
  <2> QED
    BY <2>2, <2>3, <2>4, UpsertOrigins
<1> QED
  BY <1>3, <1>4

LEMMA SameArrivalsSameOrder ==
  ASSUME NEW map, NEW new, NEW order, NEW next, OrderListsMap(map, order, next),
         Retained(new) = Retained(map),
         \A k \in Retained(map) : new[k].arrival = map[k].arrival
  PROVE  OrderListsMap(new, order, next)
<1>1. \A i \in DOMAIN order : new[order[i]].arrival = map[order[i]].arrival
  BY DEF OrderListsMap
<1> QED
  BY <1>1 DEF OrderListsMap

LEMMA EmptyOrder ==
  ASSUME NEW K, NEW Item, None \notin Item
  PROVE  IsRepository(K, Item, [k \in K |-> None], <<>>, 1)
<1>1. DOMAIN <<>> = {} /\ <<>> \in Seq(K)
  BY EmptySeq
<1>2. Retained([k \in K |-> None]) = {}
  BY DEF Retained, IsExchange
<1>3. OrderListsMap([k \in K |-> None], <<>>, 1)
  BY <1>1, <1>2 DEF OrderListsMap
<1> QED
  BY <1>1, <1>3 DEF IsRepository

LEMMA MinusType == \A a \in Nat : \A b : Minus(a, b) \in Nat
BY DEF Minus

LEMMA RetainedByteLengthType ==
  \A c \in Command \cup {None} : RetainedByteLength(c) \in Nat
BY DEF RetainedByteLength, Command, IsExchange

-----------------------------------------------------------------------------------
(* The inductive invariant: the types and the agreement of each deque with *)
(* its map.  The agreement is inductive only together with the types, and  *)
(* needs arrivals below the shared counter to make new ones distinct.      *)

HubInv == HubTypeOK /\ ArrivalOrderAgrees

(* The invariant, read as two repositories that share a counter. *)
LEMMA HubInvRepositories ==
  HubInv <=> /\ recording \in BOOLEAN
             /\ retentionBlocked \in BOOLEAN
             /\ databaseBlocked \in BOOLEAN
             /\ retainedBytes \in Nat
             /\ IsRepository(ExchangeKeys, Exchange, exchanges, arrivalOrder, nextArrival)
             /\ IsRepository(CommandKeys, Command, commands, commandOrder, nextArrival)
             /\ \A e \in Retained(exchanges), c \in Retained(commands) :
                  exchanges[e].arrival # commands[c].arrival
BY NoneAssumption DEF HubInv, HubTypeOK, ArrivalOrderAgrees, IsRepository

LEMMA HubInvInit == HubInit => HubInv
<1> SUFFICES ASSUME HubInit PROVE HubInv
  OBVIOUS
<1>1. /\ IsRepository(ExchangeKeys, Exchange, exchanges, arrivalOrder, nextArrival)
      /\ IsRepository(CommandKeys, Command, commands, commandOrder, nextArrival)
  BY NoneAssumption, EmptyOrder DEF HubInit
<1>2. Retained(exchanges) = {}
  BY DEF HubInit, Retained, IsExchange
<1> QED
  BY <1>1, <1>2, HubInvRepositories DEF HubInit

(* What the merge of a message stores. *)
LEMMA ExchangeMergeIsStored ==
  ASSUME HubInv, NEW m \in ExchangeMessage, NEW at \in Times
  PROVE  LET current == exchanges[m.key]
             merged  == MergeMessage(current, m, at, ArrivalFor(current))
         IN  /\ m.key \in ExchangeKeys
             /\ merged \in Exchange /\ merged.revision = m.revision
             /\ merged.arrival = ArrivalFor(current)
<1> DEFINE current == exchanges[m.key]
<1>1. m.key \in ExchangeKeys
  BY DEF ExchangeMessage, LifecycleMessage, StartedMessage, CompletedMessage,
     FailedMessage, CancelledMessage, SnapshotMessage
<1>2. current \in Exchange \cup {None} /\ ArrivalFor(current) \in Nat
  BY <1>1 DEF HubInv, HubTypeOK, ArrivalFor, Exchange, IsExchange
<1>3. IsExchange(current) => current.arrival = ArrivalFor(current)
  BY DEF ArrivalFor
<1> QED
  BY <1>1, <1>2, <1>3, MergeType

LEMMA CommandMergeIsStored ==
  ASSUME HubInv, NEW m \in DatabaseMessage
  PROVE  LET current == commands[m.key]
             merged  == MergeDatabaseMessage(current, m, ArrivalFor(current))
         IN  /\ m.key \in CommandKeys
             /\ merged \in Command /\ merged.revision = m.revision
             /\ merged.arrival = ArrivalFor(current)
<1> DEFINE current == commands[m.key]
<1>1. m.key \in CommandKeys
  BY DEF DatabaseMessage, DatabaseLifecycleMessage, DatabaseStartedMessage,
     DatabaseOutcomeMessage, DatabaseSnapshotMessage
<1>2. current \in Command \cup {None} /\ ArrivalFor(current) \in Nat
  BY <1>1 DEF HubInv, HubTypeOK, ArrivalFor, Command, IsExchange
<1>3. IsExchange(current) => current.arrival = ArrivalFor(current)
  BY DEF ArrivalFor
<1> QED
  BY <1>1, <1>2, <1>3, DatabaseMergeType

(* A stored exchange message is an upsert of its merge. *)
LEMMA StoreExchangeIsUpsert ==
  ASSUME HubInv, NEW m \in ExchangeMessage, NEW at \in Times, StoreExchange(m, at)
  PROVE  LET current == exchanges[m.key]
             merged  == MergeMessage(current, m, at, ArrivalFor(current))
         IN  /\ m.key \in ExchangeKeys
             /\ merged \in Exchange /\ merged.revision = m.revision
             /\ IsUpsert(exchanges, arrivalOrder, nextArrival, m.key, merged,
                         exchanges', arrivalOrder', nextArrival')
<1> DEFINE current == exchanges[m.key]
           merged  == MergeMessage(current, m, at, ArrivalFor(current))
           stored  == [exchanges EXCEPT ![m.key] = merged]
           order   == Longer(exchanges, arrivalOrder, m.key)
           evicted == EvictedExchanges(stored, order)
<1>1. m.key \in ExchangeKeys
  BY ExchangeMergeIsStored
<1>3. merged \in Exchange /\ merged.revision = m.revision /\ merged.arrival = ArrivalFor(current)
  BY ExchangeMergeIsStored
<1>4. evicted \in SUBSET (DOMAIN order)
  BY DEF EvictedExchanges, TerminalPositions
<1>5. order = IF ~IsExchange(current) THEN Append(arrivalOrder, m.key) ELSE arrivalOrder
  BY DEF Longer
<1>6. /\ exchanges' = WithoutPositions(stored, order, evicted)
      /\ IsRest(arrivalOrder', order, evicted)
      /\ nextArrival' = IF IsExchange(current) THEN nextArrival ELSE nextArrival + 1
  BY <1>5 DEF StoreExchange, StoredExchanges
<1> HIDE DEF evicted
<1> QED
  BY <1>1, <1>3, <1>4, <1>6 DEF IsUpsert, ArrivalFor

LEMMA StoreExchangeKeepsInv ==
  ASSUME HubInv, NEW m \in ExchangeMessage, NEW at \in Times, StoreExchange(m, at)
  PROVE  HubInv'
<1> DEFINE merged == MergeMessage(exchanges[m.key], m, at, ArrivalFor(exchanges[m.key]))
<1>1. /\ m.key \in ExchangeKeys /\ merged \in Exchange
      /\ IsUpsert(exchanges, arrivalOrder, nextArrival, m.key, merged,
                  exchanges', arrivalOrder', nextArrival')
  BY StoreExchangeIsUpsert
<1> HIDE DEF merged
<1>2. /\ IsRepository(ExchangeKeys, Exchange, exchanges, arrivalOrder, nextArrival)
      /\ IsRepository(CommandKeys, Command, commands, commandOrder, nextArrival)
      /\ \A e \in Retained(exchanges), c \in Retained(commands) :
           exchanges[e].arrival # commands[c].arrival
  BY HubInvRepositories
<1>3. IsRepository(ExchangeKeys, Exchange, exchanges', arrivalOrder', nextArrival')
  BY <1>1, <1>2, UpsertKeepsOrder
<1>4. /\ IsRepository(CommandKeys, Command, commands, commandOrder, nextArrival')
      /\ \A e \in Retained(exchanges'), c \in Retained(commands) :
           exchanges'[e].arrival # commands[c].arrival
  BY <1>1, <1>2, UpsertKeepsDistinct
<1>5. retentionBlocked' \in BOOLEAN /\ UNCHANGED <<recording, databaseVars>>
  BY DEF StoreExchange
<1> QED
  BY <1>3, <1>4, <1>5 DEF HubInv, HubTypeOK, ArrivalOrderAgrees, IsRepository, databaseVars

(* A stored database message is an upsert of its merge. *)
LEMMA StoreCommandIsUpsert ==
  ASSUME HubInv, NEW m \in DatabaseMessage, StoreCommand(m)
  PROVE  LET current == commands[m.key]
             merged  == MergeDatabaseMessage(current, m, ArrivalFor(current))
         IN  /\ m.key \in CommandKeys
             /\ merged \in Command /\ merged.revision = m.revision
             /\ IsUpsert(commands, commandOrder, nextArrival, m.key, merged,
                         commands', commandOrder', nextArrival')
             /\ retainedBytes' \in Nat
<1> DEFINE current == commands[m.key]
           merged  == MergeDatabaseMessage(current, m, ArrivalFor(current))
           stored  == [commands EXCEPT ![m.key] = merged]
           order   == Longer(commands, commandOrder, m.key)
           bytes   == Minus(retainedBytes, RetainedByteLength(current))
                        + RetainedByteLength(merged)
           evicted == EvictedCommands(stored, order, bytes)
           freed   == MapThenSumSet(LAMBDA i : RetainedByteLength(stored[order[i]]), evicted)
<1>1. m.key \in CommandKeys
  BY CommandMergeIsStored
<1>2. current \in Command \cup {None}
  BY <1>1 DEF HubInv, HubTypeOK
<1>3. merged \in Command /\ merged.revision = m.revision /\ merged.arrival = ArrivalFor(current)
  BY CommandMergeIsStored
<1>4. evicted \in SUBSET (DOMAIN order)
  BY DEF EvictedCommands, TerminalPositions
<1>5. order = IF ~IsExchange(current) THEN Append(commandOrder, m.key) ELSE commandOrder
  BY DEF Longer
<1>6. /\ commands' = WithoutPositions(stored, order, evicted)
      /\ IsRest(commandOrder', order, evicted)
      /\ nextArrival' = IF IsExchange(current) THEN nextArrival ELSE nextArrival + 1
      /\ retainedBytes' = Minus(bytes, freed)
  <2>1. StoredCommands(m) = stored /\ BytesWith(m) = bytes
    BY <1>1 DEF StoredCommands, BytesWith, HubInv, HubTypeOK
  <2> QED
    BY <1>5, <2>1 DEF StoreCommand, BytesWithout
<1>7. retainedBytes' \in Nat
  <2>1. bytes \in Nat
    BY <1>2, <1>3, MinusType, RetainedByteLengthType DEF HubInv, HubTypeOK
  <2> QED
    BY <1>6, <2>1, MinusType
<1> HIDE DEF evicted
<1> QED
  BY <1>1, <1>3, <1>4, <1>6, <1>7 DEF IsUpsert, ArrivalFor

LEMMA StoreCommandKeepsInv ==
  ASSUME HubInv, NEW m \in DatabaseMessage, StoreCommand(m)
  PROVE  HubInv'
<1> DEFINE merged == MergeDatabaseMessage(commands[m.key], m, ArrivalFor(commands[m.key]))
<1>1. /\ m.key \in CommandKeys /\ merged \in Command
      /\ IsUpsert(commands, commandOrder, nextArrival, m.key, merged,
                  commands', commandOrder', nextArrival')
      /\ retainedBytes' \in Nat
  BY StoreCommandIsUpsert
<1> HIDE DEF merged
<1>2. /\ IsRepository(ExchangeKeys, Exchange, exchanges, arrivalOrder, nextArrival)
      /\ IsRepository(CommandKeys, Command, commands, commandOrder, nextArrival)
      /\ \A c \in Retained(commands), e \in Retained(exchanges) :
           commands[c].arrival # exchanges[e].arrival
  BY HubInvRepositories
<1>3. IsRepository(CommandKeys, Command, commands', commandOrder', nextArrival')
  BY <1>1, <1>2, UpsertKeepsOrder
<1>4. /\ IsRepository(ExchangeKeys, Exchange, exchanges, arrivalOrder, nextArrival')
      /\ \A c \in Retained(commands'), e \in Retained(exchanges) :
           commands'[c].arrival # exchanges[e].arrival
  BY <1>1, <1>2, UpsertKeepsDistinct
<1>5. databaseBlocked' \in BOOLEAN /\ UNCHANGED <<recording, exchangeVars>>
  BY DEF StoreCommand
<1>6. recording \in BOOLEAN /\ retentionBlocked \in BOOLEAN
  BY HubInvRepositories
<1> QED
  BY <1>1, <1>3, <1>4, <1>5, <1>6 DEF HubInv, HubTypeOK, ArrivalOrderAgrees, IsRepository, exchangeVars

(* Marking changes in-flight entries only, and keeps their arrivals. *)
LEMMA MarkKeepsOrder ==
  ASSUME NEW K, NEW Item, NEW map, NEW order, NEW next,
         IsRepository(K, Item, map, order, next),
         NEW new \in [K -> Item \cup {None}],
         \A k \in K : IsExchange(new[k]) <=> IsExchange(map[k]),
         \A k \in Retained(map) : new[k].arrival = map[k].arrival
  PROVE  /\ IsRepository(K, Item, new, order, next)
         /\ Retained(new) = Retained(map)
<1>1. Retained(new) = Retained(map)
  BY DEF Retained, IsRepository
<1>2. OrderListsMap(new, order, next)
  BY <1>1, SameArrivalsSameOrder DEF IsRepository
<1> QED
  BY <1>1, <1>2 DEF IsRepository

LEMMA MarkedAreInFlight ==
  ASSUME HubInv, NEW source, NEW at
  PROVE  /\ \A k \in MarkedExchanges(source, at) : k \in ExchangeKeys /\ IsInFlight(exchanges[k])
         /\ \A k \in MarkedCommands(source, at) : k \in CommandKeys /\ IsInFlight(commands[k])
<1>1. \A i \in DOMAIN arrivalOrder : arrivalOrder[i] \in ExchangeKeys
  BY LenProperties, ElementOfSeq DEF HubInv, HubTypeOK
<1>2. \A i \in DOMAIN commandOrder : commandOrder[i] \in CommandKeys
  BY LenProperties, ElementOfSeq DEF HubInv, HubTypeOK
<1> QED
  BY <1>1, <1>2 DEF MarkedExchanges, MarkedCommands, InFlightPositions

LEMMA MarkType ==
  /\ \A e \in Exchange : /\ MarkIncomplete(e) \in Exchange
                         /\ MarkIncomplete(e).arrival = e.arrival
                         /\ MarkIncomplete(e).revision = e.revision + 1
  /\ \A c \in Command : /\ MarkCommandIncomplete(c) \in Command
                        /\ MarkCommandIncomplete(c).arrival = c.arrival
                        /\ MarkCommandIncomplete(c).revision = c.revision + 1
<1>1. ASSUME NEW e \in Exchange, NEW r \in Nat
      PROVE  LET marked == [e EXCEPT !.revision = r, !.state = "incomplete",
                                     !.metadata = IF @ = "roomy" THEN "roomy" ELSE "over"]
             IN  marked \in Exchange /\ marked.arrival = e.arrival /\ marked.revision = r
  BY DEF Exchange, ExchangeState, MetadataSize
<1>2. ASSUME NEW c \in Command, NEW r \in Nat
      PROVE  LET marked == [c EXCEPT !.revision = r, !.state = "incomplete",
                                     !.reason = DisconnectReasonBytes]
             IN  marked \in Command /\ marked.arrival = c.arrival /\ marked.revision = r
  BY DEF Command, ExchangeState, DisconnectReasonBytes
<1>3. \A e \in Exchange : e.revision + 1 \in Nat
  BY DEF Exchange
<1>4. \A c \in Command : c.revision + 1 \in Nat
  BY DEF Command
<1> QED
  BY <1>1, <1>2, <1>3, <1>4 DEF MarkIncomplete, MarkCommandIncomplete

LEMMA MarkSourceDisconnectedKeepsInv ==
  ASSUME HubInv, NEW source \in Sources, NEW at \in Times, MarkSourceDisconnected(source, at)
  PROVE  HubInv'
<1>1. /\ IsRepository(ExchangeKeys, Exchange, exchanges, arrivalOrder, nextArrival)
      /\ IsRepository(CommandKeys, Command, commands, commandOrder, nextArrival)
      /\ \A e \in Retained(exchanges), c \in Retained(commands) :
           exchanges[e].arrival # commands[c].arrival
  BY HubInvRepositories
<1>2. /\ exchanges' \in [ExchangeKeys -> Exchange \cup {None}]
      /\ \A k \in ExchangeKeys : IsExchange(exchanges'[k]) <=> IsExchange(exchanges[k])
      /\ \A k \in Retained(exchanges) : exchanges'[k].arrival = exchanges[k].arrival
  BY MarkedAreInFlight, MarkType, NoneAssumption
  DEF MarkSourceDisconnected, IsInFlight, IsExchange, Retained, HubInv, HubTypeOK
<1>3. /\ commands' \in [CommandKeys -> Command \cup {None}]
      /\ \A k \in CommandKeys : IsExchange(commands'[k]) <=> IsExchange(commands[k])
      /\ \A k \in Retained(commands) : commands'[k].arrival = commands[k].arrival
  BY MarkedAreInFlight, MarkType, NoneAssumption
  DEF MarkSourceDisconnected, IsInFlight, IsExchange, Retained, HubInv, HubTypeOK
<1>4. /\ IsRepository(ExchangeKeys, Exchange, exchanges', arrivalOrder, nextArrival)
      /\ Retained(exchanges') = Retained(exchanges)
  BY <1>1, <1>2, MarkKeepsOrder
<1>5. /\ IsRepository(CommandKeys, Command, commands', commandOrder, nextArrival)
      /\ Retained(commands') = Retained(commands)
  BY <1>1, <1>3, MarkKeepsOrder
<1>6. UNCHANGED <<recording, nextArrival, arrivalOrder, retentionBlocked,
                  commandOrder, retainedBytes, databaseBlocked>>
  BY DEF MarkSourceDisconnected
<1>7. \A e \in Retained(exchanges'), c \in Retained(commands') :
        exchanges'[e].arrival # commands'[c].arrival
  BY <1>1, <1>2, <1>3, <1>4, <1>5
<1>8. HubInv
  OBVIOUS
<1> QED
  BY <1>4, <1>5, <1>6, <1>7, <1>8 DEF HubInv, HubTypeOK, ArrivalOrderAgrees, IsRepository

LEMMA ClearSessionKeepsInv ==
  ASSUME HubInv, ClearSession
  PROVE  HubInv'
<1>1. /\ IsRepository(ExchangeKeys, Exchange, exchanges', arrivalOrder', nextArrival')
      /\ IsRepository(CommandKeys, Command, commands', commandOrder', nextArrival')
  BY NoneAssumption, EmptyOrder DEF ClearSession
<1>2. Retained(exchanges') = {}
  BY DEF ClearSession, Retained, IsExchange
<1>3. /\ recording' \in BOOLEAN /\ retentionBlocked' \in BOOLEAN
      /\ databaseBlocked' \in BOOLEAN /\ retainedBytes' \in Nat
  BY DEF ClearSession, HubInv, HubTypeOK
<1> QED
  BY <1>1, <1>2, <1>3 DEF HubInv, HubTypeOK, ArrivalOrderAgrees, IsRepository

LEMMA HubInvNext == HubInv /\ [HubNext]_hubVars => HubInv'
<1> SUFFICES ASSUME HubInv, [HubNext]_hubVars PROVE HubInv'
  OBVIOUS
<1>1. CASE \E source \in Sources, m \in ExchangeMessage, at \in Times,
              requireRecording \in BOOLEAN : IngestExchange(source, m, at, requireRecording)
  BY <1>1, StoreExchangeKeepsInv DEF IngestExchange
<1>2. CASE \E source \in Sources, m \in DatabaseMessage, requireRecording \in BOOLEAN :
              IngestCommand(source, m, requireRecording)
  BY <1>2, StoreCommandKeepsInv DEF IngestCommand
<1>3. CASE \E on \in BOOLEAN : SetRecording(on)
  BY <1>3 DEF SetRecording, exchangeVars, databaseVars, HubInv, HubTypeOK, ArrivalOrderAgrees
<1>4. CASE \E source \in Sources, at \in Times : MarkSourceDisconnected(source, at)
  BY <1>4, MarkSourceDisconnectedKeepsInv
<1>5. CASE ClearSession
  BY <1>5, ClearSessionKeepsInv
<1>6. CASE UNCHANGED hubVars
  BY <1>6 DEF hubVars, HubInv, HubTypeOK, ArrivalOrderAgrees
<1> QED
  BY <1>1, <1>2, <1>3, <1>4, <1>5, <1>6 DEF HubNext

(* The variables of the hub always hold values of their types: no message  *)
(* merges into something that is not an exchange or a command, and the     *)
(* saturating byte account never goes below zero.                          *)
THEOREM HubTypeCorrect == HubSpec => []HubTypeOK
<1>1. HubInv => HubTypeOK
  BY DEF HubInv
<1> QED
  BY <1>1, HubInvInit, HubInvNext, PTL DEF HubSpec

(* The deque of each repository lists exactly the keys of its map, each    *)
(* once and in the order of their arrival sequences, and the repositories  *)
(* never share an arrival sequence: upsert and eviction keep the two       *)
(* structures of HubState in step, through disconnects and cleared         *)
(* sessions.                                                               *)
THEOREM ArrivalOrderCorrect == HubSpec => []ArrivalOrderAgrees
<1>1. HubInv => ArrivalOrderAgrees
  BY DEF HubInv
<1> QED
  BY <1>1, HubInvInit, HubInvNext, PTL DEF HubSpec

-----------------------------------------------------------------------------------
(* Revisions. *)

LEMMA UpsertRaisesRevision ==
  ASSUME NEW K, NEW Item, NEW map, NEW order, NEW next,
         IsRepository(K, Item, map, order, next),
         NEW k \in K, NEW item \in Item, NEW newMap, NEW newOrder, NEW newNext,
         IsUpsert(map, order, next, k, item, newMap, newOrder, newNext),
         IsExchange(map[k]) => item.revision > map[k].revision,
         NEW e \in K
  PROVE  ChangesRaiseRevision(map[e], newMap[e])
<1> SUFFICES ASSUME IsExchange(map[e]), IsExchange(newMap[e]), newMap[e] # map[e]
             PROVE  newMap[e].revision > map[e].revision /\ newMap[e].arrival = map[e].arrival
  BY DEF ChangesRaiseRevision
<1>1. e \in Retained(newMap)
  <2>1. DOMAIN newMap = K
    BY DEF IsUpsert, WithoutPositions, IsRepository
  <2> QED
    BY <2>1 DEF Retained
<1>2. e = k /\ newMap[e] = item
  BY <1>1, UpsertOrigins
<1> QED
  BY <1>2 DEF IsUpsert

LEMMA StepRaisesRevision ==
  HubInv /\ [HubNext]_hubVars =>
    [/\ \A k \in ExchangeKeys : ChangesRaiseRevision(exchanges[k], exchanges'[k])
     /\ \A k \in CommandKeys : ChangesRaiseRevision(commands[k], commands'[k])]_hubVars
<1> SUFFICES ASSUME HubInv, HubNext
             PROVE  /\ \A k \in ExchangeKeys : ChangesRaiseRevision(exchanges[k], exchanges'[k])
                    /\ \A k \in CommandKeys : ChangesRaiseRevision(commands[k], commands'[k])
  OBVIOUS
<1>1. /\ IsRepository(ExchangeKeys, Exchange, exchanges, arrivalOrder, nextArrival)
      /\ IsRepository(CommandKeys, Command, commands, commandOrder, nextArrival)
  BY HubInvRepositories
<1>2. ASSUME NEW source \in Sources, NEW m \in ExchangeMessage, NEW at \in Times,
             NEW requireRecording \in BOOLEAN, IngestExchange(source, m, at, requireRecording),
             NEW k \in ExchangeKeys
      PROVE  ChangesRaiseRevision(exchanges[k], exchanges'[k])
  <2> DEFINE merged == MergeMessage(exchanges[m.key], m, at, ArrivalFor(exchanges[m.key]))
  <2>1. /\ m.key \in ExchangeKeys /\ merged \in Exchange /\ merged.revision = m.revision
        /\ IsUpsert(exchanges, arrivalOrder, nextArrival, m.key, merged,
                    exchanges', arrivalOrder', nextArrival')
    BY <1>2, StoreExchangeIsUpsert DEF IngestExchange
  <2>2. IsExchange(exchanges[m.key]) => m.revision > exchanges[m.key].revision
    <3>1. ~IsStale(exchanges[m.key], m)
      BY <1>2 DEF IngestExchange, StoresExchange, Merges
    <3>2. m.revision \in Nat
      BY <2>1 DEF Exchange
    <3>3. IsExchange(exchanges[m.key]) => exchanges[m.key].revision \in Nat
      BY <2>1 DEF HubInv, HubTypeOK, IsExchange, Exchange
    <3> QED
      BY <3>1, <3>2, <3>3 DEF IsStale
  <2> HIDE DEF merged
  <2>3. IsExchange(exchanges[m.key]) => merged.revision > exchanges[m.key].revision
    BY <2>1, <2>2
  <2> QED
    BY <1>1, <2>1, <2>3, UpsertRaisesRevision
<1>3. ASSUME NEW source \in Sources, NEW m \in DatabaseMessage,
             NEW requireRecording \in BOOLEAN, IngestCommand(source, m, requireRecording),
             NEW k \in CommandKeys
      PROVE  ChangesRaiseRevision(commands[k], commands'[k])
  <2> DEFINE merged == MergeDatabaseMessage(commands[m.key], m, ArrivalFor(commands[m.key]))
  <2>1. /\ m.key \in CommandKeys /\ merged \in Command /\ merged.revision = m.revision
        /\ IsUpsert(commands, commandOrder, nextArrival, m.key, merged,
                    commands', commandOrder', nextArrival')
    BY <1>3, StoreCommandIsUpsert DEF IngestCommand
  <2>2. IsExchange(commands[m.key]) => m.revision > commands[m.key].revision
    <3>1. ~IsStale(commands[m.key], m)
      BY <1>3 DEF IngestCommand, StoresCommand, MergesDatabase
    <3>2. m.revision \in Nat
      BY <2>1 DEF Command
    <3>3. IsExchange(commands[m.key]) => commands[m.key].revision \in Nat
      BY <2>1 DEF HubInv, HubTypeOK, IsExchange, Command
    <3> QED
      BY <3>1, <3>2, <3>3 DEF IsStale
  <2> HIDE DEF merged
  <2>3. IsExchange(commands[m.key]) => merged.revision > commands[m.key].revision
    BY <2>1, <2>2
  <2> QED
    BY <1>1, <2>1, <2>3, UpsertRaisesRevision
<1>4. ASSUME NEW source \in Sources, NEW at \in Times, MarkSourceDisconnected(source, at)
      PROVE  /\ \A k \in ExchangeKeys : ChangesRaiseRevision(exchanges[k], exchanges'[k])
             /\ \A k \in CommandKeys : ChangesRaiseRevision(commands[k], commands'[k])
  <2>1. ASSUME NEW k \in ExchangeKeys
        PROVE  ChangesRaiseRevision(exchanges[k], exchanges'[k])
    <3>1. IsExchange(exchanges[k]) => exchanges[k] \in Exchange /\ exchanges[k].revision \in Nat
      BY DEF HubInv, HubTypeOK, IsExchange, Exchange
    <3> QED
      BY <1>4, <3>1, MarkType DEF MarkSourceDisconnected, ChangesRaiseRevision
  <2>2. ASSUME NEW k \in CommandKeys
        PROVE  ChangesRaiseRevision(commands[k], commands'[k])
    <3>1. IsExchange(commands[k]) => commands[k] \in Command /\ commands[k].revision \in Nat
      BY DEF HubInv, HubTypeOK, IsExchange, Command
    <3> QED
      BY <1>4, <3>1, MarkType DEF MarkSourceDisconnected, ChangesRaiseRevision
  <2> QED
    BY <2>1, <2>2
<1>5. CASE ClearSession
  BY <1>5 DEF ClearSession, ChangesRaiseRevision, IsExchange
<1>6. CASE UNCHANGED <<exchanges, commands>>
  BY <1>6 DEF ChangesRaiseRevision
<1>7. CASE \E source \in Sources, m \in ExchangeMessage, at \in Times,
              requireRecording \in BOOLEAN : IngestExchange(source, m, at, requireRecording)
  <2>1. UNCHANGED commands
    BY <1>7 DEF IngestExchange, StoreExchange, databaseVars
  <2> QED
    BY <1>2, <1>7, <2>1 DEF ChangesRaiseRevision
<1>8. CASE \E source \in Sources, m \in DatabaseMessage, requireRecording \in BOOLEAN :
              IngestCommand(source, m, requireRecording)
  <2>1. UNCHANGED exchanges
    BY <1>8 DEF IngestCommand, StoreCommand, exchangeVars
  <2> QED
    BY <1>3, <1>8, <2>1 DEF ChangesRaiseRevision
<1>9. CASE \E on \in BOOLEAN : SetRecording(on)
  <2>1. UNCHANGED <<exchanges, commands>>
    BY <1>9 DEF SetRecording, exchangeVars, databaseVars
  <2> QED
    BY <1>6, <2>1
<1> QED
  BY <1>4, <1>5, <1>7, <1>8, <1>9 DEF HubNext

(* A retained exchange or command changes only with a higher revision and  *)
(* keeps its arrival sequence, whatever merge or disconnect changes it:    *)
(* consumers may drop an update whose revision they already have.          *)
THEOREM RevisionsCorrect == HubSpec => RevisionsOnlyGrow
BY HubInvInit, HubInvNext, StepRaisesRevision, PTL DEF HubSpec, RevisionsOnlyGrow

-----------------------------------------------------------------------------------
(* States and their parts. *)

LEMMA PartsInit == HubInit => PartsMatchStates
BY DEF HubInit, PartsMatchStates, Retained, IsExchange

LEMMA PartsNext == HubInv /\ PartsMatchStates /\ [HubNext]_hubVars => PartsMatchStates'
<1> SUFFICES ASSUME HubInv, PartsMatchStates, [HubNext]_hubVars
             PROVE  PartsMatchStates'
  OBVIOUS
<1>1. /\ IsRepository(ExchangeKeys, Exchange, exchanges, arrivalOrder, nextArrival)
      /\ IsRepository(CommandKeys, Command, commands, commandOrder, nextArrival)
  BY HubInvRepositories
<1>2. ASSUME NEW source \in Sources, NEW m \in ExchangeMessage, NEW at \in Times,
             NEW requireRecording \in BOOLEAN, IngestExchange(source, m, at, requireRecording)
      PROVE  PartsMatchStates'
  <2> DEFINE merged == MergeMessage(exchanges[m.key], m, at, ArrivalFor(exchanges[m.key]))
  <2>1. /\ m.key \in ExchangeKeys /\ merged \in Exchange
        /\ IsUpsert(exchanges, arrivalOrder, nextArrival, m.key, merged,
                    exchanges', arrivalOrder', nextArrival')
        /\ UNCHANGED commands
    BY <1>2, StoreExchangeIsUpsert DEF IngestExchange, StoreExchange, databaseVars
  <2>2. StateMatchesParts(merged)
    BY <1>2 DEF IngestExchange, StoresExchange, Merges, IsValidAt
  <2> HIDE DEF merged
  <2>3. \A k \in Retained(exchanges') :
          exchanges'[k] = merged \/ (k \in Retained(exchanges) /\ exchanges'[k] = exchanges[k])
    BY <1>1, <2>1, UpsertOrigins
  <2> QED
    BY <2>1, <2>2, <2>3 DEF PartsMatchStates
<1>3. ASSUME NEW source \in Sources, NEW m \in DatabaseMessage,
             NEW requireRecording \in BOOLEAN, IngestCommand(source, m, requireRecording)
      PROVE  PartsMatchStates'
  <2> DEFINE merged == MergeDatabaseMessage(commands[m.key], m, ArrivalFor(commands[m.key]))
  <2>1. /\ m.key \in CommandKeys /\ merged \in Command
        /\ IsUpsert(commands, commandOrder, nextArrival, m.key, merged,
                    commands', commandOrder', nextArrival')
        /\ UNCHANGED exchanges
    BY <1>3, StoreCommandIsUpsert DEF IngestCommand, StoreCommand, exchangeVars
  <2>2. merged.state = "failed" <=> merged.failure
    BY <1>3 DEF IngestCommand, StoresCommand, MergesDatabase, IsValidCommand
  <2> HIDE DEF merged
  <2>3. \A k \in Retained(commands') :
          commands'[k] = merged \/ (k \in Retained(commands) /\ commands'[k] = commands[k])
    BY <1>1, <2>1, UpsertOrigins
  <2> QED
    BY <2>1, <2>2, <2>3 DEF PartsMatchStates
<1>4. ASSUME NEW source \in Sources, NEW at \in Times, MarkSourceDisconnected(source, at)
      PROVE  PartsMatchStates'
  <2>1. ASSUME NEW e \in Exchange, StateMatchesParts(e), e.state = "inFlight"
        PROVE  StateMatchesParts(MarkIncomplete(e))
    BY <2>1 DEF StateMatchesParts, MarkIncomplete, Exchange
  <2>2. ASSUME NEW c \in Command, c.state = "failed" <=> c.failure, c.state = "inFlight"
        PROVE  LET marked == MarkCommandIncomplete(c)
               IN  marked.state = "failed" <=> marked.failure
    BY <2>2 DEF MarkCommandIncomplete, Command
  <2>3. ASSUME NEW k \in Retained(exchanges') PROVE StateMatchesParts(exchanges'[k])
    <3>1. k \in ExchangeKeys
      BY <1>4 DEF MarkSourceDisconnected, Retained
    <3>2. CASE k \in MarkedExchanges(source, at)
      <4>1. exchanges[k] \in Exchange /\ IsInFlight(exchanges[k]) /\ k \in Retained(exchanges)
        BY <3>1, <3>2, MarkedAreInFlight DEF HubInv, HubTypeOK, IsInFlight, IsExchange, Retained
      <4>2. exchanges'[k] = MarkIncomplete(exchanges[k])
        BY <1>4, <3>1, <3>2 DEF MarkSourceDisconnected
      <4> QED
        BY <2>1, <4>1, <4>2 DEF PartsMatchStates, IsInFlight
    <3>3. CASE k \notin MarkedExchanges(source, at)
      <4>1. exchanges'[k] = exchanges[k]
        BY <1>4, <3>1, <3>3 DEF MarkSourceDisconnected
      <4> QED
        BY <3>1, <4>1 DEF PartsMatchStates, Retained, HubInv, HubTypeOK
    <3> QED
      BY <3>2, <3>3
  <2>4. ASSUME NEW k \in Retained(commands')
        PROVE  commands'[k].state = "failed" <=> commands'[k].failure
    <3>1. k \in CommandKeys
      BY <1>4 DEF MarkSourceDisconnected, Retained
    <3>2. CASE k \in MarkedCommands(source, at)
      <4>1. commands[k] \in Command /\ IsInFlight(commands[k]) /\ k \in Retained(commands)
        BY <3>1, <3>2, MarkedAreInFlight DEF HubInv, HubTypeOK, IsInFlight, IsExchange, Retained
      <4>2. commands'[k] = MarkCommandIncomplete(commands[k])
        BY <1>4, <3>1, <3>2 DEF MarkSourceDisconnected
      <4> QED
        BY <2>2, <4>1, <4>2 DEF PartsMatchStates, IsInFlight
    <3>3. CASE k \notin MarkedCommands(source, at)
      <4>1. commands'[k] = commands[k]
        BY <1>4, <3>1, <3>3 DEF MarkSourceDisconnected
      <4> QED
        BY <3>1, <4>1 DEF PartsMatchStates, Retained, HubInv, HubTypeOK
    <3> QED
      BY <3>2, <3>3
  <2> QED
    BY <2>3, <2>4 DEF PartsMatchStates
<1>5. CASE ClearSession
  BY <1>5 DEF ClearSession, PartsMatchStates, Retained, IsExchange
<1>6. CASE \E on \in BOOLEAN : SetRecording(on)
  BY <1>6 DEF SetRecording, exchangeVars, databaseVars, PartsMatchStates
<1>7. CASE UNCHANGED hubVars
  BY <1>7 DEF hubVars, PartsMatchStates
<1> QED
  BY <1>2, <1>3, <1>4, <1>5, <1>6, <1>7 DEF HubNext

(* Every stored exchange that is completed has a response, and exactly the *)
(* failed exchanges and commands have failure details: validation before   *)
(* a store is enough, the unvalidated marking of a disconnected source     *)
(* included.                                                               *)
THEOREM PartsCorrect == HubSpec => []PartsMatchStates
BY HubInvInit, HubInvNext, PartsInit, PartsNext, PTL DEF HubSpec

-----------------------------------------------------------------------------------
(* The retention flags. *)

(* Each removed position removes one entry. *)
LEMMA RemovalCount ==
  ASSUME NEW K, IsFiniteSet(K), NEW Item, NEW map, NEW order, NEW next,
         IsRepository(K, Item, map, order, next), NEW positions \in SUBSET (DOMAIN order)
  PROVE  Cardinality(Retained(WithoutPositions(map, order, positions)))
           = Cardinality(Retained(map)) - Cardinality(positions)
<1> DEFINE removed == {order[i] : i \in positions}
           keyAt   == [i \in positions |-> order[i]]
<1>1. DOMAIN order = 1 .. Len(order) /\ Len(order) \in Nat
  BY LenProperties DEF IsRepository
<1>2. \A i, j \in positions : order[i] = order[j] => i = j
  <2> TAKE i, j \in positions
  <2> HAVE order[i] = order[j]
  <2>1. map[order[i]].arrival \in Nat /\ next \in Nat
    BY DEF OrderListsMap, IsRepository
  <2>2. ~(i < j) /\ ~(j < i)
    BY <2>1 DEF OrderListsMap, IsRepository
  <2> QED
    BY <1>1, <2>2
<1>3. keyAt \in Bijection(positions, removed)
  BY <1>2 DEF Bijection, Injection, IsInjective, Surjection
<1>4. IsFiniteSet(positions)
  <2>1. IsFiniteSet(1 .. Len(order))
    BY <1>1, FS_Interval
  <2> QED
    BY <1>1, <2>1, FS_Subset
<1>5. Cardinality(removed) = Cardinality(positions)
  BY <1>3, <1>4, FS_Bijection DEF ExistsBijection
<1>6. Retained(map) \cap removed = removed
  BY DEF IsRepository, OrderListsMap
<1>7. Retained(WithoutPositions(map, order, positions)) = Retained(map) \ removed
  BY DEF Retained, WithoutPositions, IsExchange
<1>8. IsFiniteSet(Retained(map))
  <2>1. Retained(map) \in SUBSET K
    BY DEF Retained, IsRepository
  <2> QED
    BY <2>1, FS_Subset
<1> HIDE DEF removed
<1>9. Cardinality(Retained(map) \ removed)
        = Cardinality(Retained(map)) - Cardinality(Retained(map) \cap removed)
  BY <1>8, FS_Difference
<1> QED
  BY <1>5, <1>6, <1>7, <1>9

LEMMA StoreExchangeFlag ==
  ASSUME HubInv, NEW m \in ExchangeMessage, NEW at \in Times, StoreExchange(m, at)
  PROVE  retentionBlocked' <=> Cardinality(Retained(exchanges')) > MaxSummaries
<1> DEFINE current == exchanges[m.key]
           merged  == MergeMessage(current, m, at, ArrivalFor(current))
           stored  == [exchanges EXCEPT ![m.key] = merged]
           order   == Longer(exchanges, arrivalOrder, m.key)
           evicted == EvictedExchanges(stored, order)
<1>1. IsRepository(ExchangeKeys, Exchange, stored, order, nextArrival')
  BY HubInvRepositories, StoreExchangeIsUpsert, PutKeepsOrder
<1>2. order = IF ~IsExchange(current) THEN Append(arrivalOrder, m.key) ELSE arrivalOrder
  BY DEF Longer
<1>3. /\ exchanges' = WithoutPositions(stored, order, evicted)
      /\ retentionBlocked' = (Cardinality(Retained(stored)) - Cardinality(evicted) > MaxSummaries)
  BY <1>2 DEF StoreExchange, StoredExchanges
<1>4. evicted \in SUBSET (DOMAIN order)
  BY DEF EvictedExchanges, TerminalPositions
<1> HIDE DEF evicted, order, stored
<1>5. Cardinality(Retained(exchanges')) = Cardinality(Retained(stored)) - Cardinality(evicted)
  BY <1>1, <1>3, <1>4, KeysAssumption, RemovalCount
<1> QED
  BY <1>3, <1>5

LEMMA StoreCommandFlag ==
  ASSUME HubInv, NEW m \in DatabaseMessage, StoreCommand(m)
  PROVE  databaseBlocked' <=> \/ Cardinality(Retained(commands')) > MaxCommands
                              \/ retainedBytes' > MaxRetainedBytes
<1> DEFINE current == commands[m.key]
           merged  == MergeDatabaseMessage(current, m, ArrivalFor(current))
           stored  == [commands EXCEPT ![m.key] = merged]
           order   == Longer(commands, commandOrder, m.key)
           bytes   == Minus(retainedBytes, RetainedByteLength(current))
                        + RetainedByteLength(merged)
           evicted == EvictedCommands(stored, order, bytes)
<1>1. IsRepository(CommandKeys, Command, stored, order, nextArrival')
  BY HubInvRepositories, StoreCommandIsUpsert, PutKeepsOrder
<1>2. order = IF ~IsExchange(current) THEN Append(commandOrder, m.key) ELSE commandOrder
  BY DEF Longer
<1>3. /\ commands' = WithoutPositions(stored, order, evicted)
      /\ databaseBlocked' = \/ Cardinality(Retained(stored)) - Cardinality(evicted) > MaxCommands
                            \/ retainedBytes' > MaxRetainedBytes
  <2>1. StoredCommands(m) = stored /\ BytesWith(m) = bytes
    BY StoreCommandIsUpsert DEF StoredCommands, BytesWith, HubInv, HubTypeOK
  <2> QED
    BY <1>2, <2>1 DEF StoreCommand
<1>4. evicted \in SUBSET (DOMAIN order)
  BY DEF EvictedCommands, TerminalPositions
<1> HIDE DEF evicted, order, stored, bytes
<1>5. Cardinality(Retained(commands')) = Cardinality(Retained(stored)) - Cardinality(evicted)
  BY <1>1, <1>3, <1>4, KeysAssumption, RemovalCount
<1> QED
  BY <1>3, <1>5

LEMMA FlagsInit == HubInit => BlockedExactlyWhenOverLimit
<1> SUFFICES ASSUME HubInit PROVE BlockedExactlyWhenOverLimit
  OBVIOUS
<1>1. Retained(exchanges) = {} /\ Retained(commands) = {}
  BY DEF HubInit, Retained, IsExchange
<1>2. /\ ~(Cardinality(Retained(exchanges)) > MaxSummaries)
      /\ ~(Cardinality(Retained(commands)) > MaxCommands)
      /\ ~(0 > MaxRetainedBytes)
  BY <1>1, FS_EmptySet, LimitsAssumption
<1> QED
  BY <1>2 DEF HubInit, BlockedExactlyWhenOverLimit

LEMMA FlagsNext ==
  HubInv /\ BlockedExactlyWhenOverLimit /\ [HubNext]_hubVars => BlockedExactlyWhenOverLimit'
<1> SUFFICES ASSUME HubInv, BlockedExactlyWhenOverLimit, [HubNext]_hubVars
             PROVE  BlockedExactlyWhenOverLimit'
  OBVIOUS
<1>1. CASE \E source \in Sources, m \in ExchangeMessage, at \in Times,
              requireRecording \in BOOLEAN : IngestExchange(source, m, at, requireRecording)
  <2>1. PICK m \in ExchangeMessage, at \in Times : StoreExchange(m, at)
    BY <1>1 DEF IngestExchange
  <2>2. UNCHANGED databaseVars
    BY <2>1 DEF StoreExchange
  <2> QED
    BY <2>1, <2>2, StoreExchangeFlag DEF BlockedExactlyWhenOverLimit, databaseVars
<1>2. CASE \E source \in Sources, m \in DatabaseMessage, requireRecording \in BOOLEAN :
              IngestCommand(source, m, requireRecording)
  <2>1. PICK m \in DatabaseMessage : StoreCommand(m)
    BY <1>2 DEF IngestCommand
  <2>2. UNCHANGED exchangeVars
    BY <2>1 DEF StoreCommand
  <2> QED
    BY <2>1, <2>2, StoreCommandFlag DEF BlockedExactlyWhenOverLimit, exchangeVars
<1>3. CASE \E on \in BOOLEAN : SetRecording(on)
  BY <1>3 DEF SetRecording, exchangeVars, databaseVars, BlockedExactlyWhenOverLimit
<1>4. CASE \E source \in Sources, at \in Times : MarkSourceDisconnected(source, at)
  <2>1. Retained(exchanges') = Retained(exchanges) /\ Retained(commands') = Retained(commands)
    BY <1>4, MarkedAreInFlight, MarkType, NoneAssumption
    DEF MarkSourceDisconnected, IsInFlight, IsExchange, Retained, HubInv, HubTypeOK
  <2> QED
    BY <1>4, <2>1 DEF MarkSourceDisconnected, BlockedExactlyWhenOverLimit
<1>5. CASE ClearSession
  <2>1. Retained(exchanges') = {} /\ Retained(commands') = {}
    BY <1>5 DEF ClearSession, Retained, IsExchange
  <2>2. /\ ~(Cardinality(Retained(exchanges')) > MaxSummaries)
        /\ ~(Cardinality(Retained(commands')) > MaxCommands)
        /\ ~(0 > MaxRetainedBytes)
    BY <2>1, FS_EmptySet, LimitsAssumption
  <2> QED
    BY <1>5, <2>2 DEF ClearSession, BlockedExactlyWhenOverLimit
<1>6. CASE UNCHANGED hubVars
  BY <1>6 DEF hubVars, BlockedExactlyWhenOverLimit
<1> QED
  BY <1>1, <1>2, <1>3, <1>4, <1>5, <1>6 DEF HubNext

(* Each retention flag of the status says exactly that its repository is   *)
(* over a limit (for bytes, over the limit by the repository's own         *)
(* account), although disconnects and ignored messages never recompute it. *)
THEOREM FlagsCorrect == HubSpec => []BlockedExactlyWhenOverLimit
BY HubInvInit, HubInvNext, FlagsInit, FlagsNext, PTL DEF HubSpec
-----------------------------------------------------------------------------------
(* Merges of newer messages. *)

(* A start or an outcome, merged into an exchange that is valid. *)
LEMMA LifecycleMerge ==
  ASSUME NEW current \in Exchange, IsExchange(current), StateMatchesParts(current),
         NEW m \in LifecycleMessage, NEW at \in Times
  PROVE  LET merged == MergeMessage(current, m, at, current.arrival)
         IN  /\ StateMatchesParts(merged)
             /\ merged.receivedAt = current.receivedAt
             /\ merged.metadata = IF m.metadata = "kept" THEN current.metadata ELSE m.metadata
             /\ current.state \in TerminalState => merged.state \in TerminalState
             /\ current.request = "captured" => merged.request = "captured"
<1> DEFINE e == [current EXCEPT !.revision = m.revision,
                                !.metadata = IF m.metadata = "kept" THEN @ ELSE m.metadata]
<1>1. /\ DOMAIN e = {"revision", "arrival", "state", "request", "response", "failure",
                     "metadata", "receivedAt"}
      /\ e.state = current.state /\ e.request = current.request /\ e.response = current.response
      /\ e.failure = current.failure /\ e.receivedAt = current.receivedAt
      /\ e.metadata = IF m.metadata = "kept" THEN current.metadata ELSE m.metadata
  BY DEF Exchange
<1> HIDE DEF e
<1>2. CASE m \in StartedMessage
  <2>1. MergeMessage(current, m, at, current.arrival) = [e EXCEPT !.request = "captured"]
    BY <1>2 DEF MergeMessage, BeginOrCurrent, e, StartedMessage
  <2> QED
    BY <1>1, <2>1 DEF StateMatchesParts
<1>3. CASE m \in CompletedMessage
  <2>1. MergeMessage(current, m, at, current.arrival)
          = [e EXCEPT !.state = "completed", !.response = TRUE, !.failure = FALSE]
    BY <1>3 DEF MergeMessage, BeginOrCurrent, e, CompletedMessage
  <2> QED
    BY <1>1, <2>1 DEF StateMatchesParts, TerminalState, ExchangeState
<1>4. CASE m \in FailedMessage
  <2>1. MergeMessage(current, m, at, current.arrival)
          = [e EXCEPT !.state = "failed", !.response = m.response, !.failure = TRUE]
    BY <1>4 DEF MergeMessage, BeginOrCurrent, e, FailedMessage
  <2> QED
    BY <1>1, <2>1 DEF StateMatchesParts, TerminalState, ExchangeState
<1>5. CASE m \in CancelledMessage
  <2>1. MergeMessage(current, m, at, current.arrival)
          = [e EXCEPT !.state = "cancelled", !.failure = FALSE]
    BY <1>5 DEF MergeMessage, BeginOrCurrent, e, CancelledMessage
  <2> QED
    BY <1>1, <2>1 DEF StateMatchesParts, TerminalState, ExchangeState
<1> QED
  BY <1>2, <1>3, <1>4, <1>5 DEF LifecycleMessage

(* A start or an outcome newer than the stored exchange is refused only    *)
(* when the clock went back behind the exchange or the metadata would be   *)
(* over their limit, and merging it neither reopens a finished exchange    *)
(* nor loses its captured request: no state the hub can reach, half-failed *)
(* disconnects included, makes the merge fail for another reason.          *)
THEOREM NewerMessagesCorrect == HubSpec => []NewerMessagesMergeSafely
<1>1. HubInv /\ PartsMatchStates => NewerMessagesMergeSafely
  <2> SUFFICES ASSUME HubInv, PartsMatchStates, NEW m \in LifecycleMessage, NEW at \in Times,
                      IsExchange(exchanges[m.key]), m.revision > exchanges[m.key].revision
               PROVE  LET current == exchanges[m.key]
                          merged  == MergeMessage(current, m, at, current.arrival)
                          metadata == IF m.metadata = "kept" THEN current.metadata
                                      ELSE m.metadata
                      IN  /\ Merges(current, m, at, current.arrival) <=>
                               current.receivedAt <= at /\ "over" # metadata
                          /\ IsTerminal(current) => IsTerminal(merged)
                          /\ current.request = "captured" => merged.request = "captured"
    BY DEF NewerMessagesMergeSafely
  <2> DEFINE current == exchanges[m.key]
             merged  == MergeMessage(current, m, at, current.arrival)
             metadata == IF m.metadata = "kept" THEN current.metadata ELSE m.metadata
  <2>1. /\ m \in ExchangeMessage /\ m.key \in ExchangeKeys /\ m.kind # "snapshot"
        /\ m.revision \in Nat
    BY MaxRevisionAssumption DEF ExchangeMessage, LifecycleMessage, StartedMessage,
       CompletedMessage, FailedMessage, CancelledMessage, MessageRevision
  <2>2. m.key \in Retained(exchanges) /\ current \in Exchange
    BY <2>1 DEF HubInv, HubTypeOK, Retained, IsExchange
  <2>3. StateMatchesParts(current)
    BY <2>2 DEF PartsMatchStates
  <2>4. current.arrival \in Nat /\ current.arrival > 0 /\ current.revision \in Nat
    <3>1. PICK i \in DOMAIN arrivalOrder : arrivalOrder[i] = m.key
      BY <2>2 DEF HubInv, ArrivalOrderAgrees, OrderListsMap
    <3>2. current.arrival \in 1 .. nextArrival - 1 /\ nextArrival \in Nat
      BY <3>1 DEF HubInv, HubTypeOK, ArrivalOrderAgrees, OrderListsMap
    <3> QED
      BY <2>2, <3>2 DEF Exchange
  <2>5. merged \in Exchange /\ merged.revision = m.revision /\ merged.arrival = current.arrival
    BY <2>1, <2>2, <2>4, MergeType
  <2>6. /\ StateMatchesParts(merged)
        /\ merged.receivedAt = current.receivedAt
        /\ merged.metadata = metadata
        /\ current.state \in TerminalState => merged.state \in TerminalState
        /\ current.request = "captured" => merged.request = "captured"
    BY <2>2, <2>3, LifecycleMerge
  <2>7. IsExchange(merged)
    BY <2>5, NoneAssumption DEF IsExchange
  <2> HIDE DEF merged
  <2>8. Merges(current, m, at, current.arrival) <=> IsValidAt(merged, at)
    BY <2>1, <2>4 DEF Merges, IsStale, merged
  <2>9. IsValidAt(merged, at) <=> current.receivedAt <= at /\ "over" # metadata
    <3> HIDE DEF metadata
    <3> QED
      BY <2>1, <2>4, <2>5, <2>6 DEF IsValidAt
  <2> QED
    BY <2>6, <2>7, <2>8, <2>9 DEF IsTerminal, merged
<1>2. HubSpec => []HubInv
  BY HubInvInit, HubInvNext, PTL DEF HubSpec
<1> QED
  BY <1>1, <1>2, PartsCorrect, PTL

-----------------------------------------------------------------------------------
(* Totals over finite sets. *)

Totals == INSTANCE LeftFold WITH Step <- \o

LEMMA FiniteIsFinite == \A S : IsFiniteSet(S) => Totals!IsFiniteSet(S)
BY DEF IsFiniteSet, Totals!IsFiniteSet

(* The bytes that are counted for keys of a map, and for positions of its   *)
(* order.                                                                   *)
KeySum(map, K) == MapThenSumSet(LAMBDA k : RetainedByteLength(map[k]), K)

PositionSum(map, order, P) == MapThenSumSet(LAMBDA i : RetainedByteLength(map[order[i]]), P)

LEMMA KeySumIs ==
  ASSUME NEW map, NEW K, IsFiniteSet(K), \A k \in K : RetainedByteLength(map[k]) \in Nat,
         NEW w, w = [k \in K |-> RetainedByteLength(map[k])]
  PROVE  \E t : Totals!IsTotal(t, w, K) /\ KeySum(map, K) = t[K]
<1> DEFINE Loop(t) == t = [T \in SUBSET K |->
              IF T = {} THEN 0
              ELSE LET x == CHOOSE x \in T : TRUE
                   IN RetainedByteLength(map[x]) + t[T \ {x}]]
           Bytes(T, t) == IF T = {} THEN 0
              ELSE RetainedByteLength(map[Totals!AMember(T)]) + t[T \ {Totals!AMember(T)}]
           Weight(T, t) == IF T = {} THEN 0 ELSE w[Totals!AMember(T)] + t[T \ {Totals!AMember(T)}]
<1>1. PICK t : Totals!Adds(t, w, SUBSET K)
  BY Totals!AddsExists, FiniteIsFinite
<1>2. ASSUME NEW T \in SUBSET K, NEW h PROVE Weight(T, h) = Bytes(T, h)
  <2>1. T # {} => Totals!AMember(T) \in K
    BY DEF Totals!AMember
  <2>2. T # {} => w[Totals!AMember(T)] = RetainedByteLength(map[Totals!AMember(T)])
    BY <2>1
  <2> QED
    BY <2>2
<1>3. \A h : Loop(h) <=> h = [T \in SUBSET K |-> Bytes(T, h)]
  BY DEF Totals!AMember
<1>4. \A h : Totals!Adds(h, w, SUBSET K) <=> h = [T \in SUBSET K |-> Weight(T, h)]
  BY DEF Totals!Adds
<1> HIDE DEF Bytes, Weight
<1>5. \A h : Loop(h) <=> Totals!Adds(h, w, SUBSET K)
  <2> TAKE h
  <2> HIDE DEF Loop
  <2>1. [T \in SUBSET K |-> Weight(T, h)] = [T \in SUBSET K |-> Bytes(T, h)]
    BY <1>2
  <2> QED
    BY <1>3, <1>4, <2>1
<1>6. PICK u : u = (CHOOSE h : Loop(h)) /\ Loop(u)
  <2>1. \E h : Loop(h)
    <3> HIDE DEF Loop
    <3> QED
      BY <1>1, <1>5
  <2> QED
    BY <2>1
<1>7. KeySum(map, K) = u[K]
  BY <1>6 DEF KeySum, MapThenSumSet, MapThenFoldSet
<1> HIDE DEF Loop
<1>8. \A x \in K : w[x] \in Nat
  OBVIOUS
<1>9. Totals!Adds(u, w, SUBSET K)
  BY <1>5, <1>6
<1> QED
  BY <1>7, <1>8, <1>9, Totals!AddsIsTotal, FiniteIsFinite

LEMMA PositionSumIs ==
  ASSUME NEW map, NEW order, NEW K, IsFiniteSet(K),
         \A k \in K : RetainedByteLength(map[order[k]]) \in Nat,
         NEW w, w = [k \in K |-> RetainedByteLength(map[order[k]])]
  PROVE  \E t : Totals!IsTotal(t, w, K) /\ PositionSum(map, order, K) = t[K]
<1> DEFINE Loop(t) == t = [T \in SUBSET K |->
              IF T = {} THEN 0
              ELSE LET x == CHOOSE x \in T : TRUE
                   IN RetainedByteLength(map[order[x]]) + t[T \ {x}]]
           Bytes(T, t) == IF T = {} THEN 0
              ELSE RetainedByteLength(map[order[Totals!AMember(T)]]) + t[T \ {Totals!AMember(T)}]
           Weight(T, t) == IF T = {} THEN 0 ELSE w[Totals!AMember(T)] + t[T \ {Totals!AMember(T)}]
<1>1. PICK t : Totals!Adds(t, w, SUBSET K)
  BY Totals!AddsExists, FiniteIsFinite
<1>2. ASSUME NEW T \in SUBSET K, NEW h PROVE Weight(T, h) = Bytes(T, h)
  <2>1. T # {} => Totals!AMember(T) \in K
    BY DEF Totals!AMember
  <2>2. T # {} => w[Totals!AMember(T)] = RetainedByteLength(map[order[Totals!AMember(T)]])
    BY <2>1
  <2> QED
    BY <2>2
<1>3. \A h : Loop(h) <=> h = [T \in SUBSET K |-> Bytes(T, h)]
  BY DEF Totals!AMember
<1>4. \A h : Totals!Adds(h, w, SUBSET K) <=> h = [T \in SUBSET K |-> Weight(T, h)]
  BY DEF Totals!Adds
<1> HIDE DEF Bytes, Weight
<1>5. \A h : Loop(h) <=> Totals!Adds(h, w, SUBSET K)
  <2> TAKE h
  <2> HIDE DEF Loop
  <2>1. [T \in SUBSET K |-> Weight(T, h)] = [T \in SUBSET K |-> Bytes(T, h)]
    BY <1>2
  <2> QED
    BY <1>3, <1>4, <2>1
<1>6. PICK u : u = (CHOOSE h : Loop(h)) /\ Loop(u)
  <2>1. \E h : Loop(h)
    <3> HIDE DEF Loop
    <3> QED
      BY <1>1, <1>5
  <2> QED
    BY <2>1
<1>7. PositionSum(map, order, K) = u[K]
  BY <1>6 DEF PositionSum, MapThenSumSet, MapThenFoldSet
<1> HIDE DEF Loop
<1>8. \A x \in K : w[x] \in Nat
  OBVIOUS
<1>9. Totals!Adds(u, w, SUBSET K)
  BY <1>5, <1>6
<1> QED
  BY <1>7, <1>8, <1>9, Totals!AddsIsTotal, FiniteIsFinite

(* Every size that is counted is a number. *)
IsSized(map, K) == IsFiniteSet(K) /\ \A k \in K : RetainedByteLength(map[k]) \in Nat

(* More keys with no fewer bytes each count for no less. *)
LEMMA KeySumsCompare ==
  ASSUME NEW map, NEW K, IsSized(map, K), NEW other, NEW L, IsSized(other, L),
         K \subseteq L, \A k \in K : RetainedByteLength(map[k]) <= RetainedByteLength(other[k])
  PROVE  KeySum(map, K) \in Nat /\ KeySum(other, L) \in Nat /\ KeySum(map, K) <= KeySum(other, L)
<1>1. PICK w : w = [k \in K |-> RetainedByteLength(map[k])]
  OBVIOUS
<1>2. PICK v : v = [k \in L |-> RetainedByteLength(other[k])]
  OBVIOUS
<1>3. PICK t : Totals!IsTotal(t, w, K) /\ KeySum(map, K) = t[K]
  BY <1>1, KeySumIs DEF IsSized
<1>4. PICK u : Totals!IsTotal(u, v, L) /\ KeySum(other, L) = u[L]
  BY <1>2, KeySumIs DEF IsSized
<1>5. PICK f : f = [k \in K |-> k]
  OBVIOUS
<1>6. Totals!IsMatched(f, K, L, w, v)
  BY <1>1, <1>2, <1>5 DEF Totals!IsMatched, IsSized
<1>7. t[K] \in Nat /\ u[L] \in Nat /\ t[K] <= u[L]
  BY <1>3, <1>4, <1>6, Totals!TotalsCompare, FiniteIsFinite DEF IsSized
<1> QED
  BY <1>3, <1>4, <1>7

LEMMA PositionSumsCompare ==
  ASSUME NEW map, NEW order, NEW P, IsFiniteSet(P), NEW Q \in SUBSET P,
         \A i \in P : RetainedByteLength(map[order[i]]) \in Nat
  PROVE  /\ PositionSum(map, order, Q) \in Nat /\ PositionSum(map, order, P) \in Nat
         /\ PositionSum(map, order, Q) <= PositionSum(map, order, P)
<1>1. PICK w : w = [i \in Q |-> RetainedByteLength(map[order[i]])]
  OBVIOUS
<1>2. PICK v : v = [i \in P |-> RetainedByteLength(map[order[i]])]
  OBVIOUS
<1>3. IsFiniteSet(Q)
  BY FS_Subset
<1>4. PICK t : Totals!IsTotal(t, w, Q) /\ PositionSum(map, order, Q) = t[Q]
  BY <1>1, <1>3, PositionSumIs
<1>5. PICK u : Totals!IsTotal(u, v, P) /\ PositionSum(map, order, P) = u[P]
  BY <1>2, PositionSumIs
<1>6. PICK f : f = [i \in Q |-> i]
  OBVIOUS
<1>7. Totals!IsMatched(f, Q, P, w, v)
  BY <1>1, <1>2, <1>6 DEF Totals!IsMatched
<1>8. t[Q] \in Nat /\ u[P] \in Nat /\ t[Q] <= u[P]
  BY <1>3, <1>4, <1>5, <1>7, Totals!TotalsCompare, FiniteIsFinite
<1> QED
  BY <1>4, <1>5, <1>8

(* Keys that stand at these positions count for no more than the positions. *)
LEMMA KeysOfPositions ==
  ASSUME NEW map, NEW order, NEW P, IsFiniteSet(P),
         \A i \in P : RetainedByteLength(map[order[i]]) \in Nat,
         NEW G, IsSized(map, G), \A k \in G : \E i \in P : order[i] = k
  PROVE  /\ KeySum(map, G) \in Nat /\ PositionSum(map, order, P) \in Nat
         /\ KeySum(map, G) <= PositionSum(map, order, P)
<1>1. PICK w : w = [k \in G |-> RetainedByteLength(map[k])]
  OBVIOUS
<1>2. PICK v : v = [i \in P |-> RetainedByteLength(map[order[i]])]
  OBVIOUS
<1>3. PICK t : Totals!IsTotal(t, w, G) /\ KeySum(map, G) = t[G]
  BY <1>1, KeySumIs DEF IsSized
<1>4. PICK u : Totals!IsTotal(u, v, P) /\ PositionSum(map, order, P) = u[P]
  BY <1>2, PositionSumIs
<1>5. PICK f : f = [k \in G |-> CHOOSE i \in P : order[i] = k]
  OBVIOUS
<1>6. \A k \in G : f[k] \in P /\ order[f[k]] = k
  BY <1>5
<1>7. Totals!IsMatched(f, G, P, w, v)
  <2>1. f \in [G -> P]
    BY <1>5, <1>6
  <2>2. \A k, other \in G : f[k] = f[other] => k = other
    BY <1>6
  <2>3. \A k \in G : w[k] \in Nat /\ v[f[k]] \in Nat /\ w[k] <= v[f[k]]
    BY <1>1, <1>2, <1>6 DEF IsSized
  <2> QED
    BY <2>1, <2>2, <2>3 DEF Totals!IsMatched
<1>8. t[G] \in Nat /\ u[P] \in Nat /\ t[G] <= u[P]
  BY <1>3, <1>4, <1>7, Totals!TotalsCompare, FiniteIsFinite DEF IsSized
<1> QED
  BY <1>3, <1>4, <1>8

(* Positions that hold different of these keys count for no more than them. *)
LEMMA PositionsOfKeys ==
  ASSUME NEW map, NEW order, NEW P, IsFiniteSet(P),
         \A i \in P : RetainedByteLength(map[order[i]]) \in Nat,
         \A i, j \in P : order[i] = order[j] => i = j,
         NEW G, IsSized(map, G), \A i \in P : order[i] \in G
  PROVE  PositionSum(map, order, P) <= KeySum(map, G)
<1>1. PICK w : w = [k \in G |-> RetainedByteLength(map[k])]
  OBVIOUS
<1>2. PICK v : v = [i \in P |-> RetainedByteLength(map[order[i]])]
  OBVIOUS
<1>3. PICK t : Totals!IsTotal(t, w, G) /\ KeySum(map, G) = t[G]
  BY <1>1, KeySumIs DEF IsSized
<1>4. PICK u : Totals!IsTotal(u, v, P) /\ PositionSum(map, order, P) = u[P]
  BY <1>2, PositionSumIs
<1>5. PICK f : f = [i \in P |-> order[i]]
  OBVIOUS
<1>6. Totals!IsMatched(f, P, G, v, w)
  <2>1. f \in [P -> G] /\ \A i, j \in P : f[i] = f[j] => i = j
    BY <1>5
  <2>2. \A i \in P : v[i] \in Nat /\ w[f[i]] \in Nat /\ v[i] <= w[f[i]]
    BY <1>1, <1>2, <1>5 DEF IsSized
  <2> QED
    BY <2>1, <2>2 DEF Totals!IsMatched
<1>7. u[P] <= t[G]
  BY <1>3, <1>4, <1>6, Totals!TotalsCompare, FiniteIsFinite DEF IsSized
<1> QED
  BY <1>3, <1>4, <1>7

(* Some keys and the rest count for all. *)
IsSplit(map, K) ==
  \A G \in SUBSET K :
    /\ KeySum(map, K) \in Nat /\ KeySum(map, G) \in Nat /\ KeySum(map, K \ G) \in Nat
    /\ KeySum(map, K) = KeySum(map, G) + KeySum(map, K \ G)

LEMMA KeySumSplits ==
  ASSUME NEW map, NEW K, IsSized(map, K)
  PROVE  IsSplit(map, K)
<1> SUFFICES ASSUME NEW G \in SUBSET K
             PROVE  /\ KeySum(map, K) \in Nat /\ KeySum(map, G) \in Nat
                    /\ KeySum(map, K \ G) \in Nat
                    /\ KeySum(map, K) = KeySum(map, G) + KeySum(map, K \ G)
  BY DEF IsSplit
<1>1. PICK v : v = [k \in K |-> RetainedByteLength(map[k])]
  OBVIOUS
<1>2. PICK u : Totals!IsTotal(u, v, K) /\ KeySum(map, K) = u[K]
  BY <1>1, KeySumIs DEF IsSized
<1>3. ASSUME NEW H \in SUBSET K PROVE KeySum(map, H) = u[H] /\ u[H] \in Nat
  <2>1. IsSized(map, H)
    BY FS_Subset DEF IsSized
  <2>2. PICK w : w = [k \in H |-> RetainedByteLength(map[k])]
    OBVIOUS
  <2>3. PICK t : Totals!IsTotal(t, w, H) /\ KeySum(map, H) = t[H]
    BY <2>1, <2>2, KeySumIs DEF IsSized
  <2>4. PICK f : f = [k \in H |-> k]
    OBVIOUS
  <2>5. Totals!IsMatched(f, H, H, w, v) /\ Totals!IsMatched(f, H, H, v, w)
    BY <1>1, <2>1, <2>2, <2>4 DEF Totals!IsMatched, IsSized
  <2>6. t[H] \in Nat /\ u[H] \in Nat /\ t[H] <= u[H]
    BY <1>2, <2>1, <2>3, <2>5, Totals!TotalsCompare, FiniteIsFinite DEF IsSized
  <2>7. u[H] <= t[H]
    BY <1>2, <2>1, <2>3, <2>5, Totals!TotalsCompare, FiniteIsFinite DEF IsSized
  <2> QED
    BY <2>3, <2>6, <2>7
<1>4. u[K] = u[G] + u[K \ G]
  <2>1. Totals!Splits(u, K)
    BY <1>2, Totals!TotalSplits, FiniteIsFinite DEF IsSized
  <2> QED
    BY <2>1 DEF Totals!Splits
<1>5. K \in SUBSET K /\ G \in SUBSET K /\ K \ G \in SUBSET K
  OBVIOUS
<1> QED
  BY <1>3, <1>4, <1>5

(* One key by itself. *)
LEMMA KeySumTakes ==
  ASSUME NEW map, NEW K, IsSized(map, K), NEW x \in K
  PROVE  /\ KeySum(map, K) \in Nat /\ KeySum(map, K \ {x}) \in Nat
         /\ KeySum(map, K) = RetainedByteLength(map[x]) + KeySum(map, K \ {x})
<1>1. PICK G : G = {x}
  OBVIOUS
<1>2. /\ KeySum(map, K) \in Nat /\ KeySum(map, K \ G) \in Nat
      /\ KeySum(map, K) = KeySum(map, G) + KeySum(map, K \ G)
  <2>1. G \in SUBSET K /\ IsSplit(map, K)
    BY <1>1, KeySumSplits
  <2> QED
    BY <2>1 DEF IsSplit
<1>3. KeySum(map, G) = RetainedByteLength(map[x])
  <2>1. IsFiniteSet(G) /\ \A k \in G : RetainedByteLength(map[k]) \in Nat
    BY <1>1, FS_Subset DEF IsSized
  <2>2. PICK w : w = [k \in G |-> RetainedByteLength(map[k])]
    OBVIOUS
  <2>3. PICK t : Totals!IsTotal(t, w, G) /\ KeySum(map, G) = t[G]
    BY <2>1, <2>2, KeySumIs
  <2>4. t[G] = w[x] + t[{}] /\ t[{}] = 0
    <3>1. G \ {x} = {} /\ x \in G /\ G \in SUBSET G
      BY <1>1
    <3>2. t[G] = w[x] + t[G \ {x}]
      BY <2>3, <3>1 DEF Totals!IsTotal
    <3> QED
      BY <2>3, <3>1, <3>2 DEF Totals!IsTotal
  <2>5. w[x] = RetainedByteLength(map[x]) /\ w[x] \in Nat
    BY <1>1, <2>1, <2>2
  <2> QED
    BY <2>3, <2>4, <2>5
<1> QED
  BY <1>1, <1>2, <1>3

-----------------------------------------------------------------------------------
(* The byte account.                                                        *)

(* v is u, or nearer to zero on the same side. *)
Nearer(u, v) ==
  \/ u >= 0 /\ v \in 0 .. u
  \/ u <= 0 /\ v \in u .. 0

(* The account of this many bytes for the commands of a map. *)
Missing(map, bytes) == KeySum(map, Retained(map)) - bytes

(* What the map of a repository of commands needs to be counted. *)
LEMMA CommandsAreSized ==
  ASSUME NEW map, \A k \in CommandKeys : map[k] \in Command \cup {None},
         NEW K \in SUBSET CommandKeys
  PROVE  IsSized(map, K)
<1>1. IsFiniteSet(K)
  BY KeysAssumption, FS_Subset
<1> QED
  BY <1>1, RetainedByteLengthType DEF IsSized

(* Two maps that agree on these keys count the same for them. *)
AgreeOn(K, map, other) == \A k \in K : map[k] = other[k]

LEMMA SameKeysSameSum ==
  ASSUME NEW map, NEW other, NEW K, IsSized(map, K), AgreeOn(K, map, other)
  PROVE  KeySum(map, K) = KeySum(other, K)
<1>1. IsSized(other, K) /\ \A k \in K : RetainedByteLength(map[k]) \in Nat
  BY DEF IsSized, AgreeOn
<1>2. \A k \in K : /\ RetainedByteLength(map[k]) <= RetainedByteLength(other[k])
                   /\ RetainedByteLength(other[k]) <= RetainedByteLength(map[k])
  BY <1>1 DEF AgreeOn
<1>3. KeySum(map, K) <= KeySum(other, K) /\ KeySum(map, K) \in Nat /\ KeySum(other, K) \in Nat
  BY <1>1, <1>2, KeySumsCompare
<1>4. KeySum(other, K) <= KeySum(map, K)
  BY <1>1, <1>2, KeySumsCompare
<1> QED
  BY <1>3, <1>4

(* A command's own bytes are among those counted, and putting another in    *)
(* its place changes the sum by the difference.                             *)
SumsDiffer(map, stored, k, item) ==
  \E others \in Nat :
    /\ KeySum(map, Retained(map)) = RetainedByteLength(map[k]) + others
    /\ KeySum(stored, Retained(stored)) = RetainedByteLength(item) + others

LEMMA PutCounts ==
  ASSUME NEW map \in [CommandKeys -> Command \cup {None}], NEW k \in CommandKeys,
         NEW item \in Command, NEW stored, stored = [map EXCEPT ![k] = item]
  PROVE  SumsDiffer(map, stored, k, item)
<1> DEFINE old == Retained(map)
           new == Retained(stored)
           others == old \ {k}
<1>1. /\ stored \in [CommandKeys -> Command \cup {None}] /\ stored[k] = item
      /\ \A j \in CommandKeys \ {k} : stored[j] = map[j]
  OBVIOUS
<1>2. /\ old \in SUBSET CommandKeys /\ new \in SUBSET CommandKeys /\ others \in SUBSET CommandKeys
      /\ new \ {k} = others /\ k \in new
  BY <1>1, NoneAssumption DEF Retained, IsExchange
<1>3. IsSized(map, old) /\ IsSized(map, others) /\ IsSized(stored, new)
  BY <1>1, <1>2, CommandsAreSized
<1>4. AgreeOn(others, map, stored)
  BY <1>1, <1>2 DEF AgreeOn
<1> HIDE DEF old, new, others
<1>5. KeySum(stored, new) = RetainedByteLength(item) + KeySum(stored, others)
      /\ KeySum(stored, others) \in Nat
  BY <1>1, <1>2, <1>3, KeySumTakes
<1>6. KeySum(map, others) = KeySum(stored, others)
  BY <1>3, <1>4, SameKeysSameSum
<1>7. KeySum(map, old) = RetainedByteLength(map[k]) + KeySum(map, others)
  <2>1. CASE k \in old
    BY <1>3, <2>1, KeySumTakes DEF others
  <2>2. CASE k \notin old
    <3>1. others = old /\ RetainedByteLength(map[k]) = 0
      BY <2>2 DEF others, old, Retained, RetainedByteLength
    <3> QED
      BY <1>5, <1>6, <3>1
  <2> QED
    BY <2>1, <2>2
<1> QED
  BY <1>5, <1>6, <1>7 DEF old, new, SumsDiffer

(* What stands at some positions of an order that lists each key once.      *)
LEMMA PositionsCount ==
  ASSUME NEW map \in [CommandKeys -> Command \cup {None}], NEW order \in Seq(CommandKeys),
         \A i, j \in DOMAIN order : order[i] = order[j] => i = j,
         NEW positions \in SUBSET (DOMAIN order),
         NEW gone, gone = {order[i] : i \in positions}
  PROVE  /\ PositionSum(map, order, positions) = KeySum(map, gone)
         /\ PositionSum(map, order, positions) \in Nat
         /\ IsSized(map, gone)
<1>1. \A i \in DOMAIN order : order[i] \in CommandKeys
  BY LenProperties, ElementOfSeq
<1>2. IsFiniteSet(positions)
  <2>1. DOMAIN order = 1 .. Len(order) /\ Len(order) \in Nat
    BY LenProperties
  <2>2. IsFiniteSet(1 .. Len(order))
    BY <2>1, FS_Interval
  <2> QED
    BY <2>1, <2>2, FS_Subset
<1>3. \A i \in positions : RetainedByteLength(map[order[i]]) \in Nat
  BY <1>1, RetainedByteLengthType
<1>4. gone \in SUBSET CommandKeys /\ IsSized(map, gone)
  BY <1>1, CommandsAreSized
<1>5. /\ KeySum(map, gone) \in Nat /\ PositionSum(map, order, positions) \in Nat
      /\ KeySum(map, gone) <= PositionSum(map, order, positions)
  BY <1>2, <1>3, <1>4, KeysOfPositions
<1>6. PositionSum(map, order, positions) <= KeySum(map, gone)
  BY <1>2, <1>3, <1>4, PositionsOfKeys
<1> QED
  BY <1>4, <1>5, <1>6

(* What is evicted takes exactly its bytes from the sum.                    *)
LEMMA EvictionCounts ==
  ASSUME NEW next, NEW map, NEW order, IsRepository(CommandKeys, Command, map, order, next),
         NEW positions \in SUBSET (DOMAIN order),
         NEW rest, rest = WithoutPositions(map, order, positions)
  PROVE  /\ PositionSum(map, order, positions) \in Nat /\ KeySum(rest, Retained(rest)) \in Nat
         /\ KeySum(map, Retained(map))
              = PositionSum(map, order, positions) + KeySum(rest, Retained(rest))
<1> DEFINE all == Retained(map)
           left == Retained(rest)
<1>1. PICK gone : gone = {order[i] : i \in positions}
  OBVIOUS
<1>2. /\ map \in [CommandKeys -> Command \cup {None}] /\ order \in Seq(CommandKeys)
      /\ \A i \in DOMAIN order : order[i] \in all
  BY DEF IsRepository, OrderListsMap
<1>3. /\ all \in SUBSET CommandKeys /\ gone \in SUBSET all /\ left = all \ gone
      /\ AgreeOn(left, map, rest)
  BY <1>1, <1>2 DEF Retained, WithoutPositions, IsExchange, AgreeOn
<1>4. PositionSum(map, order, positions) = KeySum(map, gone)
      /\ PositionSum(map, order, positions) \in Nat
  <2>1. \A i, j \in DOMAIN order : order[i] = order[j] => i = j
    BY EachKeyOnce
  <2> QED
    BY <1>1, <1>2, <2>1, PositionsCount
<1> HIDE DEF all, left
<1>5. IsSized(map, all) /\ IsSized(map, left)
  BY <1>2, <1>3, CommandsAreSized
<1>6. /\ KeySum(map, all) = KeySum(map, gone) + KeySum(map, left)
      /\ KeySum(map, left) \in Nat
  <2>1. IsSplit(map, all)
    BY <1>5, KeySumSplits
  <2> QED
    BY <1>3, <2>1 DEF IsSplit
<1>7. KeySum(map, left) = KeySum(rest, left)
  BY <1>3, <1>5, SameKeysSameSum
<1> QED
  BY <1>4, <1>6, <1>7 DEF all, left

(* The account, in the terms of the sums above.                             *)
LEMMA BytesAreCounted ==
  /\ Uncounted = Missing(commands, retainedBytes)
  /\ Uncounted' = Missing(commands', retainedBytes')
<1> DEFINE Counted == Missing(commands, retainedBytes)
<1>1. Uncounted = Counted
  BY DEF Uncounted, ActualBytes, KeySum, Missing
<1>2. (Uncounted = Counted)'
  BY <1>1, PTL
<1> QED
  BY <1>1, <1>2 DEF Missing

LEMMA UncountedType == HubInv => Uncounted \in Int /\ retainedBytes \in Nat
<1> SUFFICES ASSUME HubInv PROVE Uncounted \in Int /\ retainedBytes \in Nat
  OBVIOUS
<1>1. commands \in [CommandKeys -> Command \cup {None}] /\ retainedBytes \in Nat
  BY DEF HubInv, HubTypeOK
<1>2. IsSized(commands, Retained(commands))
  BY <1>1, CommandsAreSized DEF Retained
<1>3. KeySum(commands, Retained(commands)) \in Nat
  <2>1. IsSplit(commands, Retained(commands))
    BY <1>2, KeySumSplits
  <2> QED
    BY <2>1 DEF IsSplit
<1> QED
  BY <1>1, <1>3, BytesAreCounted DEF Missing

(* Two saturating subtractions move the account towards the truth.          *)
LEMMA SaturationIsNearer ==
  ASSUME NEW bytes \in Nat, NEW old \in Nat, NEW item \in Nat, NEW others \in Nat,
         NEW evicted \in Nat, NEW left \in Nat, item + others = evicted + left
  PROVE  Nearer(old + others - bytes, left - Minus(Minus(bytes, old) + item, evicted))
<1>1. PICK spent \in Nat : spent = Minus(bytes, old) + item
  BY MinusType
<1>2. Nearer(old + others - bytes, item + others - spent)
  <2>1. CASE old <= bytes
    <3>1. spent = bytes - old + item
      BY <1>1, <2>1 DEF Minus
    <3> QED
      BY <3>1 DEF Nearer
  <2>2. CASE bytes < old
    <3>1. spent = item
      BY <1>1, <2>2 DEF Minus
    <3> QED
      BY <2>2, <3>1 DEF Nearer
  <2> QED
    BY <2>1, <2>2
<1>3. Nearer(item + others - spent, left - Minus(spent, evicted))
  <2>1. CASE evicted <= spent
    <3>1. Minus(spent, evicted) = spent - evicted
      BY <2>1 DEF Minus
    <3> QED
      BY <3>1 DEF Nearer
  <2>2. CASE spent < evicted
    <3>1. Minus(spent, evicted) = 0
      BY <2>2 DEF Minus
    <3> QED
      BY <2>2, <3>1 DEF Nearer
  <2> QED
    BY <2>1, <2>2
<1>4. PICK u \in Int : u = old + others - bytes
  OBVIOUS
<1>5. PICK v \in Int : v = item + others - spent
  OBVIOUS
<1>6. PICK w \in Int : w = left - Minus(spent, evicted)
  BY MinusType
<1>7. Nearer(u, w)
  BY <1>2, <1>3, <1>4, <1>5, <1>6 DEF Nearer
<1> QED
  BY <1>1, <1>4, <1>6, <1>7

LEMMA StoreCommandCounts ==
  ASSUME HubInv, NEW m \in DatabaseMessage, StoreCommand(m)
  PROVE  Nearer(Uncounted, Uncounted')
<1>1. m.key \in CommandKeys
  BY StoreCommandIsUpsert
<1>2. PICK stored, order, evicted, next, item :
        /\ item \in Command /\ stored = [commands EXCEPT ![m.key] = item]
        /\ evicted \in SUBSET (DOMAIN order)
        /\ IsRepository(CommandKeys, Command, stored, order, next)
        /\ commands' = WithoutPositions(stored, order, evicted)
        /\ retainedBytes' = Minus(Minus(retainedBytes, RetainedByteLength(commands[m.key]))
                                    + RetainedByteLength(item),
                                  PositionSum(stored, order, evicted))
  <2>1. PICK item : item = MergeDatabaseMessage(commands[m.key], m, ArrivalFor(commands[m.key]))
    OBVIOUS
  <2>2. PICK stored : stored = StoredCommands(m)
    OBVIOUS
  <2>3. PICK order : order = Longer(commands, commandOrder, m.key)
    OBVIOUS
  <2>4. PICK evicted : evicted = EvictedCommands(stored, order, BytesWith(m))
    OBVIOUS
  <2>5. item \in Command /\ IsUpsert(commands, commandOrder, nextArrival, m.key, item,
                                     commands', commandOrder', nextArrival')
    BY <2>1, StoreCommandIsUpsert
  <2>6. stored = [commands EXCEPT ![m.key] = item] /\ stored[m.key] = item
    BY <1>1, <2>1, <2>2 DEF StoredCommands, HubInv, HubTypeOK
  <2>7. IsRepository(CommandKeys, Command, stored, order, nextArrival')
    <3>1. IsRepository(CommandKeys, Command, commands, commandOrder, nextArrival)
      BY HubInvRepositories
    <3> QED
      BY <1>1, <2>3, <2>5, <2>6, <3>1, PutKeepsOrder
  <2>8. evicted \in SUBSET (DOMAIN order)
    BY <2>4 DEF EvictedCommands, TerminalPositions
  <2>9. commands' = WithoutPositions(stored, order, evicted)
        /\ retainedBytes' = BytesWithout(BytesWith(m), stored, order, evicted)
    BY <2>2, <2>3, <2>4 DEF StoreCommand
  <2>10. BytesWithout(BytesWith(m), stored, order, evicted)
           = Minus(Minus(retainedBytes, RetainedByteLength(commands[m.key]))
                     + RetainedByteLength(item),
                   PositionSum(stored, order, evicted))
    BY <2>2, <2>6 DEF BytesWithout, BytesWith, PositionSum
  <2> QED
    BY <2>5, <2>6, <2>7, <2>8, <2>9, <2>10
<1>3. commands \in [CommandKeys -> Command \cup {None}] /\ retainedBytes \in Nat
  BY DEF HubInv, HubTypeOK
<1>4. PICK others \in Nat :
        /\ KeySum(commands, Retained(commands)) = RetainedByteLength(commands[m.key]) + others
        /\ KeySum(stored, Retained(stored)) = RetainedByteLength(item) + others
  <2>1. SumsDiffer(commands, stored, m.key, item)
    BY <1>1, <1>2, <1>3, PutCounts
  <2> QED
    BY <2>1 DEF SumsDiffer
<1>5. PICK rest : rest = WithoutPositions(stored, order, evicted)
  OBVIOUS
<1>6. /\ PositionSum(stored, order, evicted) \in Nat /\ KeySum(rest, Retained(rest)) \in Nat
      /\ KeySum(stored, Retained(stored))
           = PositionSum(stored, order, evicted) + KeySum(rest, Retained(rest))
  BY <1>2, <1>5, EvictionCounts
<1>7. RetainedByteLength(commands[m.key]) \in Nat /\ RetainedByteLength(item) \in Nat
  BY <1>1, <1>2, <1>3, RetainedByteLengthType
<1>8. Nearer(KeySum(commands, Retained(commands)) - retainedBytes,
             KeySum(rest, Retained(rest)) - retainedBytes')
  <2>1. PICK old \in Nat : old = RetainedByteLength(commands[m.key])
    BY <1>7
  <2>2. PICK new \in Nat : new = RetainedByteLength(item)
    BY <1>7
  <2>3. PICK freed \in Nat : freed = PositionSum(stored, order, evicted)
    BY <1>6
  <2>4. PICK left \in Nat : left = KeySum(rest, Retained(rest))
    BY <1>6
  <2>5. new + others = freed + left
    BY <1>4, <1>6, <2>2, <2>3, <2>4
  <2>6. Nearer(old + others - retainedBytes, left - Minus(Minus(retainedBytes, old) + new, freed))
    BY <1>3, <2>5, SaturationIsNearer
  <2>7. KeySum(commands, Retained(commands)) = old + others
    BY <1>4, <2>1
  <2>8. retainedBytes' = Minus(Minus(retainedBytes, old) + new, freed)
    BY <1>2, <2>1, <2>2, <2>3
  <2>9. KeySum(commands, Retained(commands)) - retainedBytes = old + others - retainedBytes
    <3>1. PICK sum \in Nat : sum = KeySum(commands, Retained(commands))
      BY <2>7
    <3>2. PICK bytes \in Nat : bytes = retainedBytes
      BY <1>3
    <3>3. sum - bytes = old + others - bytes
      BY <2>7, <3>1
    <3> QED
      BY <3>1, <3>2, <3>3
  <2>10. left - retainedBytes' = left - Minus(Minus(retainedBytes, old) + new, freed)
    BY <2>8, Zenon
  <2>11. Nearer(KeySum(commands, Retained(commands)) - retainedBytes, left - retainedBytes')
    BY <2>6, <2>9, <2>10, Zenon
  <2> QED
    BY <2>4, <2>11, Zenon
<1> QED
  BY <1>2, <1>5, <1>8, BytesAreCounted DEF Missing

(* An empty repository counts nothing.                                      *)
LEMMA EmptyCounts ==
  ASSUME NEW map, map = [k \in CommandKeys |-> None]
  PROVE  KeySum(map, Retained(map)) = 0
<1>1. Retained(map) = {}
  BY DEF Retained, IsExchange
<1>2. IsFiniteSet({}) /\ \A k \in {} : RetainedByteLength(map[k]) \in Nat
  BY FS_EmptySet
<1>3. PICK K : K = {}
  OBVIOUS
<1>4. PICK w : w = [k \in K |-> RetainedByteLength(map[k])]
  OBVIOUS
<1>5. PICK t : Totals!IsTotal(t, w, K) /\ KeySum(map, K) = t[K]
  BY <1>2, <1>3, <1>4, KeySumIs
<1> QED
  BY <1>1, <1>3, <1>5 DEF Totals!IsTotal

LEMMA StepCounts ==
  ASSUME HubInv, HubNext
  PROVE  DisconnectMarks \/ Nearer(Uncounted, Uncounted')
<1>1. Uncounted \in Int /\ retainedBytes \in Nat
  BY UncountedType
<1>2. CASE commands' = commands /\ retainedBytes' = retainedBytes
  <2>1. Uncounted' = Uncounted
    BY <1>2, BytesAreCounted
  <2> QED
    BY <1>1, <2>1 DEF Nearer
<1>3. CASE \E source \in Sources, m \in ExchangeMessage, at \in Times,
              requireRecording \in BOOLEAN : IngestExchange(source, m, at, requireRecording)
  BY <1>2, <1>3 DEF IngestExchange, StoreExchange, databaseVars
<1>4. CASE \E source \in Sources, m \in DatabaseMessage, requireRecording \in BOOLEAN :
              IngestCommand(source, m, requireRecording)
  BY <1>4, StoreCommandCounts DEF IngestCommand
<1>5. CASE \E on \in BOOLEAN : SetRecording(on)
  BY <1>2, <1>5 DEF SetRecording, databaseVars
<1>6. ASSUME NEW source \in Sources, NEW at \in Times, MarkSourceDisconnected(source, at)
      PROVE  DisconnectMarks \/ Nearer(Uncounted, Uncounted')
  <2>1. retainedBytes' = retainedBytes
    BY <1>6 DEF MarkSourceDisconnected
  <2>2. CASE MarkedCommands(source, at) = {}
    <3>1. commands' = commands
      BY <1>6, <2>2 DEF MarkSourceDisconnected, HubInv, HubTypeOK
    <3> QED
      BY <1>2, <2>1, <3>1
  <2>3. ASSUME NEW k \in MarkedCommands(source, at) PROVE DisconnectMarks
    <3>1. k \in CommandKeys /\ IsInFlight(commands[k])
      BY <2>3, MarkedAreInFlight
    <3>2. commands'[k] = MarkCommandIncomplete(commands[k])
      BY <1>6, <2>3, <3>1 DEF MarkSourceDisconnected
    <3> QED
      BY <2>1, <3>1, <3>2 DEF DisconnectMarks
  <2> QED
    BY <2>2, <2>3
<1>7. CASE ClearSession
  <2>1. PICK new : new = commands'
    OBVIOUS
  <2>2. KeySum(new, Retained(new)) = 0 /\ retainedBytes' = 0
    BY <1>7, <2>1, EmptyCounts DEF ClearSession
  <2>3. Uncounted' = 0
    BY <2>1, <2>2, BytesAreCounted DEF Missing
  <2> QED
    BY <1>1, <2>3 DEF Nearer
<1> QED
  BY <1>3, <1>4, <1>5, <1>6, <1>7 DEF HubNext

(* The byte account of the commands goes wrong through disconnects only:   *)
(* the saturating subtractions of a store and of its evictions, in any     *)
(* order of merges, keep the distance between the account and the bytes    *)
(* held or shorten it, and never turn an account that is too low into one  *)
(* that is too high.                                                       *)
THEOREM BytesCorrect == HubSpec => AccountFollowsCommands
<1>1. HubInv /\ [HubNext]_hubVars => [DisconnectMarks \/ Nearer(Uncounted, Uncounted')]_hubVars
  BY StepCounts
<1>2. HubSpec => [][DisconnectMarks \/ Nearer(Uncounted, Uncounted')]_hubVars
  BY <1>1, HubInvInit, HubInvNext, PTL DEF HubSpec
<1> QED
  BY <1>2, PTL DEF AccountFollowsCommands, Nearer

-----------------------------------------------------------------------------------
(* What retention removes.                                                  *)

(* positions of an order from which terminal entries go oldest first. *)
IsPrefixOf(terminal, positions) ==
  /\ positions \subseteq terminal
  /\ \A i \in positions, j \in terminal : j < i => j \in positions

LEMMA BeforeGrows ==
  ASSUME NEW order, NEW terminal \in SUBSET (DOMAIN order), NEW K, order \in Seq(K),
         NEW i \in terminal, NEW j \in terminal, j < i
  PROVE  /\ IsFiniteSet(Before(terminal, i)) /\ Before(terminal, i) \in SUBSET (DOMAIN order)
         /\ Before(terminal, j) \in SUBSET Before(terminal, i)
         /\ Cardinality(Before(terminal, j)) <= Cardinality(Before(terminal, i))
         /\ Cardinality(Before(terminal, j)) \in Nat /\ Cardinality(Before(terminal, i)) \in Nat
<1>1. DOMAIN order = 1 .. Len(order) /\ Len(order) \in Nat
  BY LenProperties
<1>2. Before(terminal, i) \in SUBSET (DOMAIN order)
  BY DEF Before
<1>3. IsFiniteSet(Before(terminal, i))
  <2>1. IsFiniteSet(1 .. Len(order))
    BY <1>1, FS_Interval
  <2> QED
    BY <1>1, <1>2, <2>1, FS_Subset
<1>4. Before(terminal, j) \in SUBSET Before(terminal, i)
  BY <1>1 DEF Before
<1> QED
  BY <1>2, <1>3, <1>4, FS_Subset, FS_CardinalityType

LEMMA EvictedExchangesArePrefix ==
  ASSUME NEW K, IsFiniteSet(K), NEW Item, NEW map, NEW order, NEW next,
         IsRepository(K, Item, map, order, next)
  PROVE  IsPrefixOf(TerminalPositions(map, order), EvictedExchanges(map, order))
<1> DEFINE terminal == TerminalPositions(map, order)
<1>1. terminal \in SUBSET (DOMAIN order) /\ order \in Seq(K)
  BY DEF TerminalPositions, IsRepository
<1>2. PICK count : count = Cardinality(Retained(map))
  OBVIOUS
<1>3. count \in Nat
  <2>1. Retained(map) \in SUBSET K
    BY DEF Retained, IsRepository
  <2> QED
    BY <1>2, <2>1, FS_Subset, FS_CardinalityType
<1>4. EvictedExchanges(map, order)
        = {i \in terminal : count - Cardinality(Before(terminal, i)) > MaxSummaries}
  BY <1>2 DEF EvictedExchanges
<1> HIDE DEF terminal
<1>5. ASSUME NEW i \in terminal, NEW j \in terminal, j < i,
             count - Cardinality(Before(terminal, i)) > MaxSummaries
      PROVE  count - Cardinality(Before(terminal, j)) > MaxSummaries
  <2>1. /\ Cardinality(Before(terminal, j)) <= Cardinality(Before(terminal, i))
        /\ Cardinality(Before(terminal, j)) \in Nat /\ Cardinality(Before(terminal, i)) \in Nat
    BY <1>1, <1>5, BeforeGrows
  <2> QED
    BY <1>3, <1>5, <2>1, LimitsAssumption
<1>6. IsPrefixOf(terminal, EvictedExchanges(map, order))
  BY <1>4, <1>5 DEF IsPrefixOf
<1> QED
  BY <1>6 DEF terminal

LEMMA EvictedCommandsArePrefix ==
  ASSUME NEW map, NEW order, NEW next, IsRepository(CommandKeys, Command, map, order, next),
         NEW bytes \in Nat
  PROVE  IsPrefixOf(TerminalPositions(map, order), EvictedCommands(map, order, bytes))
<1> DEFINE terminal == TerminalPositions(map, order)
           Goes(n, i) == \/ n - Cardinality(Before(terminal, i)) > MaxCommands
                         \/ bytes - PositionSum(map, order, Before(terminal, i)) > MaxRetainedBytes
<1>1. terminal \in SUBSET (DOMAIN order) /\ order \in Seq(CommandKeys)
  BY DEF TerminalPositions, IsRepository
<1>2. PICK count : count = Cardinality(Retained(map))
  OBVIOUS
<1>3. count \in Nat
  <2>1. Retained(map) \in SUBSET CommandKeys
    BY DEF Retained, IsRepository
  <2> QED
    BY <1>2, <2>1, KeysAssumption, FS_Subset, FS_CardinalityType
<1>4. EvictedCommands(map, order, bytes) = {i \in terminal : Goes(count, i)}
  BY <1>2 DEF EvictedCommands, PositionSum
<1> HIDE DEF terminal
<1>5. ASSUME NEW i \in terminal, NEW j \in terminal, j < i, Goes(count, i)
      PROVE  Goes(count, j)
  <2>1. /\ Cardinality(Before(terminal, j)) <= Cardinality(Before(terminal, i))
        /\ Cardinality(Before(terminal, j)) \in Nat /\ Cardinality(Before(terminal, i)) \in Nat
        /\ IsFiniteSet(Before(terminal, i)) /\ Before(terminal, i) \in SUBSET (DOMAIN order)
        /\ Before(terminal, j) \in SUBSET Before(terminal, i)
    BY <1>1, <1>5, BeforeGrows
  <2>2. PICK P : P = Before(terminal, i)
    OBVIOUS
  <2>3. PICK Q : Q = Before(terminal, j)
    OBVIOUS
  <2>4. \A p \in P : RetainedByteLength(map[order[p]]) \in Nat
    <3>1. \A p \in DOMAIN order : order[p] \in CommandKeys
      BY <1>1, LenProperties, ElementOfSeq
    <3>2. \A k \in CommandKeys : map[k] \in Command \cup {None}
      BY DEF IsRepository
    <3> QED
      BY <2>1, <2>2, <3>1, <3>2, RetainedByteLengthType
  <2>5. /\ PositionSum(map, order, Q) \in Nat /\ PositionSum(map, order, P) \in Nat
        /\ PositionSum(map, order, Q) <= PositionSum(map, order, P)
    BY <2>1, <2>2, <2>3, <2>4, PositionSumsCompare
  <2>6. CASE count - Cardinality(P) > MaxCommands
    BY <1>3, <2>1, <2>2, <2>3, <2>6, LimitsAssumption
  <2>7. CASE bytes - PositionSum(map, order, P) > MaxRetainedBytes
    <3>1. bytes - PositionSum(map, order, Q) > MaxRetainedBytes
      BY <2>5, <2>7, LimitsAssumption
    <3> QED
      BY <2>3, <3>1
  <2> QED
    BY <1>5, <2>2, <2>6, <2>7
<1> HIDE DEF Goes
<1>6. IsPrefixOf(terminal, EvictedCommands(map, order, bytes))
  BY <1>4, <1>5 DEF IsPrefixOf
<1> QED
  BY <1>6 DEF terminal

(* An eviction on the count alone leaves as many entries as the limit.      *)
LEMMA EvictionStopsAtLimit ==
  ASSUME NEW K, IsFiniteSet(K), NEW Item, NEW map, NEW order, NEW next,
         IsRepository(K, Item, map, order, next),
         NEW positions, positions = EvictedExchanges(map, order), positions # {}
  PROVE  /\ Cardinality(Retained(WithoutPositions(map, order, positions))) >= MaxSummaries
         /\ Cardinality(Retained(map)) > MaxSummaries
<1> DEFINE terminal == TerminalPositions(map, order)
           distances == {Len(order) - p : p \in positions}
<1>1. /\ DOMAIN order = 1 .. Len(order) /\ Len(order) \in Nat
      /\ positions \in SUBSET terminal /\ terminal \in SUBSET (DOMAIN order)
  BY LenProperties DEF IsRepository, TerminalPositions, EvictedExchanges
<1>2. PICK i \in positions : \A p \in positions : p <= i
  <2>1. distances \in SUBSET Nat /\ distances # {}
    BY <1>1
  <2>2. PICK d \in distances : \A n \in distances : d <= n
    <3> HIDE DEF distances
    <3> QED
      BY <2>1, Totals!LeastNatural
  <2>3. PICK i \in positions : d = Len(order) - i
    BY <2>2
  <2>4. \A p \in positions : Len(order) - i <= Len(order) - p
    BY <2>2, <2>3
  <2>5. \A p \in positions : p \in Nat
    BY <1>1
  <2> QED
    BY <1>1, <2>3, <2>4, <2>5
<1>3. PICK count : count = Cardinality(Retained(map))
  OBVIOUS
<1>4. PICK earlier : earlier = Before(terminal, i)
  OBVIOUS
<1>5. count - Cardinality(earlier) > MaxSummaries
  BY <1>2, <1>3, <1>4 DEF EvictedExchanges
<1>6. positions \subseteq earlier \cup {i}
  <2>1. \A p \in positions : p \in Nat
    BY <1>1
  <2> QED
    BY <1>1, <1>2, <1>4, <2>1 DEF Before
<1>7. IsFiniteSet(earlier) /\ i \notin earlier
  <2>1. IsFiniteSet(1 .. Len(order))
    BY <1>1, FS_Interval
  <2>2. earlier \in SUBSET (1 .. Len(order)) /\ i \notin earlier
    BY <1>1, <1>2, <1>4 DEF Before
  <2> QED
    BY <2>1, <2>2, FS_Subset
<1>8. /\ Cardinality(earlier) \in Nat /\ Cardinality(positions) \in Nat
      /\ Cardinality(positions) <= Cardinality(earlier) + 1
  <2>1. PICK more : more = earlier \cup {i}
    OBVIOUS
  <2>2. IsFiniteSet(more) /\ Cardinality(more) = Cardinality(earlier) + 1
    BY <1>7, <2>1, FS_AddElement
  <2>3. positions \in SUBSET more
    BY <1>6, <2>1
  <2> QED
    BY <1>7, <2>2, <2>3, FS_Subset, FS_CardinalityType
<1>9. Cardinality(Retained(WithoutPositions(map, order, positions)))
        = count - Cardinality(positions)
  <2>1. positions \in SUBSET (DOMAIN order)
    BY <1>1
  <2> QED
    BY <1>3, <2>1, RemovalCount
<1>10. count \in Nat
  <2>1. Retained(map) \in SUBSET K
    BY DEF Retained, IsRepository
  <2> QED
    BY <1>3, <2>1, FS_Subset, FS_CardinalityType
<1> QED
  BY <1>3, <1>5, <1>8, <1>9, <1>10, LimitsAssumption

(* Terminal entries that go from these positions are older than those left. *)
LEMMA PrefixEvictsInOrder ==
  ASSUME NEW K, NEW Item, NEW map, NEW order, NEW next, IsRepository(K, Item, map, order, next),
         NEW positions, IsPrefixOf(TerminalPositions(map, order), positions),
         NEW left, left = WithoutPositions(map, order, positions)
  PROVE  EvictsInOrder(map, left)
<1>1. /\ map \in [K -> Item \cup {None}]
      /\ left = [e \in K |-> IF \E i \in positions : order[i] = e THEN None ELSE map[e]]
  BY DEF IsRepository, WithoutPositions
<1>2. DOMAIN order = 1 .. Len(order) /\ Len(order) \in Nat
  BY LenProperties DEF IsRepository
<1>3. ASSUME NEW gone \in Retained(map) \ Retained(left)
      PROVE  \E i \in positions : order[i] = gone /\ i \in TerminalPositions(map, order)
  <2>1. gone \in K /\ left[gone] # map[gone]
    BY <1>1, <1>3 DEF Retained
  <2> QED
    BY <1>1, <2>1 DEF IsPrefixOf
<1>4. ASSUME NEW gone \in Retained(map) \ Retained(left), NEW k \in Retained(left),
             IsTerminal(left[k])
      PROVE  map[gone].arrival < left[k].arrival
  <2>1. PICK i \in positions : order[i] = gone /\ i \in TerminalPositions(map, order)
    BY <1>3
  <2>2. /\ k \in K /\ left[k] = map[k] /\ ~(\E p \in positions : order[p] = k)
        /\ k \in Retained(map)
    BY <1>1, <1>4 DEF Retained, IsExchange
  <2>3. PICK j \in DOMAIN order : order[j] = k
    BY <2>2 DEF IsRepository, OrderListsMap
  <2>4. j \in TerminalPositions(map, order) /\ j \notin positions
    BY <1>4, <2>2, <2>3 DEF TerminalPositions
  <2>5. i \in DOMAIN order /\ i < j
    <3>1. i \in DOMAIN order /\ ~(j < i) /\ i # j
      BY <2>1, <2>4 DEF IsPrefixOf, TerminalPositions
    <3> QED
      BY <1>2, <2>3, <3>1
  <2>6. map[order[i]].arrival < map[order[j]].arrival
    BY <2>3, <2>5 DEF IsRepository, OrderListsMap
  <2> QED
    BY <2>1, <2>2, <2>3, <2>6
<1>5. \A gone \in Retained(map) \ Retained(left) : IsTerminal(map[gone])
  BY <1>3 DEF TerminalPositions
<1> QED
  BY <1>4, <1>5 DEF EvictsInOrder

(* A terminal entry that is left tells what the loop stopped at.            *)
LEMMA LoopStops ==
  ASSUME NEW K, NEW Item, NEW map, NEW order, NEW next, IsRepository(K, Item, map, order, next),
         NEW positions, IsPrefixOf(TerminalPositions(map, order), positions),
         NEW left, left = WithoutPositions(map, order, positions), ~NoneTerminal(left)
  PROVE  \E i \in TerminalPositions(map, order) \ positions :
           positions = Before(TerminalPositions(map, order), i)
<1>1. PICK terminal : terminal = TerminalPositions(map, order)
  OBVIOUS
<1>2. PICK kept : kept = terminal \ positions
  OBVIOUS
<1>3. /\ DOMAIN order = 1 .. Len(order) /\ Len(order) \in Nat
      /\ terminal \in SUBSET (DOMAIN order)
  BY <1>1, LenProperties DEF IsRepository, TerminalPositions
<1>4. kept # {}
  <2>1. PICK k \in DOMAIN left : IsTerminal(left[k])
    BY DEF NoneTerminal
  <2>2. /\ k \in K /\ left[k] = map[k] /\ ~(\E p \in positions : order[p] = k)
        /\ k \in Retained(map)
    BY <2>1 DEF WithoutPositions, IsRepository, IsTerminal, IsExchange, Retained
  <2>3. PICK j \in DOMAIN order : order[j] = k
    BY <2>2 DEF IsRepository, OrderListsMap
  <2> QED
    BY <1>1, <1>2, <2>1, <2>2, <2>3 DEF TerminalPositions
<1>5. PICK i \in kept : \A j \in kept : i <= j
  <2>1. kept \in SUBSET Nat
    BY <1>2, <1>3
  <2> QED
    BY <1>4, <2>1, Totals!LeastNatural
<1>6. \A p \in terminal : p \in Nat
  BY <1>3
<1>7. positions = Before(terminal, i)
  <2>1. ASSUME NEW p \in positions PROVE p \in terminal /\ p < i
    BY <1>1, <1>2, <1>5, <1>6, <2>1 DEF IsPrefixOf
  <2>2. ASSUME NEW p \in terminal, p < i PROVE p \in positions
    BY <1>2, <1>5, <1>6, <2>2
  <2> QED
    BY <2>1, <2>2 DEF Before
<1> QED
  BY <1>1, <1>2, <1>5, <1>7

(* What evict_terminal_exchanges leaves.                                    *)
LEMMA ExchangesAreEvicted ==
  ASSUME NEW map, NEW order, NEW next,
         IsRepository(ExchangeKeys, Exchange, map, order, next),
         NEW left, left = WithoutPositions(map, order, EvictedExchanges(map, order))
  PROVE  EvictsExchanges(map, left)
<1>1. PICK positions : positions = EvictedExchanges(map, order)
  OBVIOUS
<1>2. PICK terminal : terminal = TerminalPositions(map, order)
  OBVIOUS
<1>3. IsPrefixOf(terminal, positions)
  BY <1>1, <1>2, KeysAssumption, EvictedExchangesArePrefix
<1>4. EvictsInOrder(map, left)
  BY <1>1, <1>2, <1>3, PrefixEvictsInOrder
<1>5. ASSUME left # map PROVE Cardinality(Retained(left)) >= MaxSummaries
  <2>1. positions # {}
    BY <1>1, <1>5 DEF WithoutPositions, IsRepository
  <2> QED
    BY <1>1, <2>1, KeysAssumption, EvictionStopsAtLimit
<1>6. ASSUME ~NoneTerminal(left) PROVE ~(Cardinality(Retained(left)) > MaxSummaries)
  <2>1. PICK i \in terminal \ positions : positions = Before(terminal, i)
    BY <1>1, <1>2, <1>3, <1>6, LoopStops
  <2>2. ~(Cardinality(Retained(map)) - Cardinality(positions) > MaxSummaries)
    BY <1>1, <1>2, <2>1 DEF EvictedExchanges
  <2>3. positions \in SUBSET (DOMAIN order)
    BY <1>1 DEF EvictedExchanges, TerminalPositions
  <2>4. Cardinality(Retained(left)) = Cardinality(Retained(map)) - Cardinality(positions)
    BY <1>1, <2>3, KeysAssumption, RemovalCount
  <2> QED
    BY <2>2, <2>4
<1> QED
  BY <1>4, <1>5, <1>6 DEF EvictsExchanges

(* The last entry that an eviction of commands removes was needed.          *)
LEMMA LastIsNeeded ==
  ASSUME NEW map, NEW order, NEW next,
         IsRepository(CommandKeys, Command, map, order, next), NEW bytes \in Nat,
         NEW positions, positions = EvictedCommands(map, order, bytes),
         NEW left, left = WithoutPositions(map, order, positions),
         NEW last \in Retained(map) \ Retained(left),
         \A k \in Retained(map) \ Retained(left) : map[k].arrival <= map[last].arrival
  PROVE  \/ Cardinality(Retained(left)) >= MaxCommands
         \/ Minus(bytes, PositionSum(map, order, positions)) + RetainedByteLength(map[last])
              > MaxRetainedBytes
<1>1. PICK terminal : terminal = TerminalPositions(map, order)
  OBVIOUS
<1>2. /\ DOMAIN order = 1 .. Len(order) /\ Len(order) \in Nat
      /\ terminal \in SUBSET (DOMAIN order) /\ positions \in SUBSET terminal
      /\ map \in [CommandKeys -> Command \cup {None}] /\ order \in Seq(CommandKeys)
      /\ \A p \in DOMAIN order : order[p] \in Retained(map) /\ map[order[p]].arrival \in Nat
      /\ \A p, q \in DOMAIN order : p < q => map[order[p]].arrival < map[order[q]].arrival
      /\ \A p, q \in DOMAIN order : order[p] = order[q] => p = q
  <2>1. \A p, q \in DOMAIN order : order[p] = order[q] => p = q
    BY EachKeyOnce
  <2>2. /\ DOMAIN order = 1 .. Len(order) /\ Len(order) \in Nat /\ order \in Seq(CommandKeys)
        /\ map \in [CommandKeys -> Command \cup {None}]
        /\ \A p \in DOMAIN order : order[p] \in Retained(map) /\ map[order[p]].arrival \in Nat
        /\ \A p, q \in DOMAIN order : p < q => map[order[p]].arrival < map[order[q]].arrival
    BY LenProperties DEF IsRepository, OrderListsMap
  <2>3. terminal \in SUBSET (DOMAIN order) /\ positions \in SUBSET terminal
    BY <1>1 DEF TerminalPositions, EvictedCommands
  <2> QED
    BY <2>1, <2>2, <2>3
<1>3. IsPrefixOf(terminal, positions)
  BY <1>1, EvictedCommandsArePrefix
<1>4. left = [k \in CommandKeys |-> IF \E p \in positions : order[p] = k THEN None ELSE map[k]]
  BY <1>2 DEF WithoutPositions
<1>5. PICK i \in positions : order[i] = last
  <2>1. last \in CommandKeys /\ left[last] # map[last]
    BY <1>2, <1>4 DEF Retained
  <2> QED
    BY <1>4, <2>1
<1>6. \A p \in positions : order[p] \in Retained(map) \ Retained(left)
  BY <1>2, <1>4 DEF Retained, IsExchange
<1>7. \A p \in positions : p <= i
  <2> SUFFICES ASSUME NEW p \in positions, i < p PROVE FALSE
    BY <1>2, <1>5
  <2>1. map[order[i]].arrival < map[order[p]].arrival
    BY <1>2, <1>5
  <2>2. map[order[p]].arrival <= map[order[i]].arrival
    BY <1>5, <1>6
  <2>3. map[order[p]].arrival \in Nat /\ map[order[i]].arrival \in Nat
    BY <1>2, <1>5
  <2> QED
    BY <2>1, <2>2, <2>3
<1>8. PICK earlier : earlier = Before(terminal, i)
  OBVIOUS
<1>9. earlier = positions \ {i}
  <2>1. \A p \in terminal : p \in Nat
    BY <1>2
  <2>2. i \in terminal
    BY <1>2, <1>5
  <2> QED
    BY <1>3, <1>5, <1>7, <1>8, <2>1, <2>2 DEF IsPrefixOf, Before
<1>10. \/ Cardinality(Retained(map)) - Cardinality(earlier) > MaxCommands
       \/ bytes - PositionSum(map, order, earlier) > MaxRetainedBytes
  <2>1. \/ Cardinality(Retained(map)) - Cardinality(Before(terminal, i)) > MaxCommands
        \/ bytes - PositionSum(map, order, Before(terminal, i)) > MaxRetainedBytes
    BY <1>1, <1>5 DEF EvictedCommands, PositionSum
  <2> QED
    BY <1>8, <2>1
<1>11. CASE Cardinality(Retained(map)) - Cardinality(earlier) > MaxCommands
  <2>1. Cardinality(Retained(left)) = Cardinality(Retained(map)) - Cardinality(positions)
    <3>1. positions \in SUBSET (DOMAIN order)
      BY <1>2
    <3> QED
      BY <3>1, KeysAssumption, RemovalCount
  <2>2. IsFiniteSet(positions)
    <3>1. IsFiniteSet(1 .. Len(order))
      BY <1>2, FS_Interval
    <3>2. positions \in SUBSET (1 .. Len(order))
      BY <1>2
    <3> QED
      BY <3>1, <3>2, FS_Subset
  <2>3. Cardinality(earlier) = Cardinality(positions) - 1
    BY <1>5, <1>9, <2>2, FS_RemoveElement
  <2>4. Cardinality(Retained(map)) \in Nat /\ Cardinality(positions) \in Nat
    <3>1. Retained(map) \in SUBSET CommandKeys
      BY <1>2 DEF Retained
    <3> QED
      BY <2>2, <3>1, KeysAssumption, FS_Subset, FS_CardinalityType
  <2> QED
    BY <1>11, <2>1, <2>3, <2>4, LimitsAssumption
<1>12. CASE bytes - PositionSum(map, order, earlier) > MaxRetainedBytes
  <2>1. PICK gone : gone = {order[p] : p \in positions}
    OBVIOUS
  <2>2. PICK others : others = {order[p] : p \in earlier}
    OBVIOUS
  <2>3. positions \in SUBSET (DOMAIN order) /\ earlier \in SUBSET (DOMAIN order)
    BY <1>2, <1>9
  <2>4. /\ PositionSum(map, order, positions) = KeySum(map, gone)
        /\ PositionSum(map, order, positions) \in Nat
        /\ IsSized(map, gone)
    BY <1>2, <2>1, <2>3, PositionsCount
  <2>5. /\ PositionSum(map, order, earlier) = KeySum(map, others)
        /\ PositionSum(map, order, earlier) \in Nat
    BY <1>2, <2>2, <2>3, PositionsCount
  <2>6. last \in gone /\ others = gone \ {last}
    BY <1>2, <1>5, <1>9, <2>1, <2>2, <2>3
  <2>7. KeySum(map, gone) = RetainedByteLength(map[last]) + KeySum(map, others)
    BY <2>4, <2>6, KeySumTakes
  <2>8. RetainedByteLength(map[last]) \in Nat
    BY <2>4, <2>6 DEF IsSized
  <2>9. PICK all \in Nat : all = PositionSum(map, order, positions)
    BY <2>4
  <2>10. PICK most \in Nat : most = PositionSum(map, order, earlier)
    BY <2>5
  <2>11. PICK one \in Nat : one = RetainedByteLength(map[last])
    BY <2>8
  <2>12. all = one + most
    BY <2>4, <2>5, <2>7, <2>9, <2>10, <2>11
  <2>13. bytes - most > MaxRetainedBytes
    BY <1>12, <2>10
  <2>14. Minus(bytes, all) + one > MaxRetainedBytes
    BY <2>12, <2>13, LimitsAssumption DEF Minus
  <2> QED
    BY <2>9, <2>11, <2>14
<1> QED
  BY <1>10, <1>11, <1>12

(* What evict_terminal_database_commands leaves.                            *)
LEMMA CommandsAreEvicted ==
  ASSUME NEW map, NEW order, NEW next,
         IsRepository(CommandKeys, Command, map, order, next), NEW bytes \in Nat,
         NEW positions, positions = EvictedCommands(map, order, bytes),
         NEW left, left = WithoutPositions(map, order, positions)
  PROVE  EvictsCommands(map, left, Minus(bytes, PositionSum(map, order, positions)))
<1>1. PICK terminal : terminal = TerminalPositions(map, order)
  OBVIOUS
<1>2. IsPrefixOf(terminal, positions)
  BY <1>1, EvictedCommandsArePrefix
<1>3. EvictsInOrder(map, left)
  BY <1>1, <1>2, PrefixEvictsInOrder
<1>4. PICK rest : rest = Minus(bytes, PositionSum(map, order, positions))
  OBVIOUS
<1>5. \A last \in Retained(map) \ Retained(left) :
        (\A k \in Retained(map) \ Retained(left) : map[k].arrival <= map[last].arrival) =>
           \/ Cardinality(Retained(left)) >= MaxCommands
           \/ rest + RetainedByteLength(map[last]) > MaxRetainedBytes
  BY <1>4, LastIsNeeded
<1>6. ASSUME ~NoneTerminal(left)
      PROVE  ~(Cardinality(Retained(left)) > MaxCommands) /\ ~(rest > MaxRetainedBytes)
  <2>1. PICK i \in terminal \ positions : positions = Before(terminal, i)
    BY <1>1, <1>2, <1>6, LoopStops
  <2>2. /\ ~(Cardinality(Retained(map)) - Cardinality(positions) > MaxCommands)
        /\ ~(bytes - PositionSum(map, order, positions) > MaxRetainedBytes)
    <3>1. /\ ~(Cardinality(Retained(map)) - Cardinality(Before(terminal, i)) > MaxCommands)
          /\ ~(bytes - PositionSum(map, order, Before(terminal, i)) > MaxRetainedBytes)
      BY <1>1, <2>1 DEF EvictedCommands, PositionSum
    <3> QED
      BY <2>1, <3>1
  <2>3. positions \in SUBSET (DOMAIN order)
    BY DEF EvictedCommands, TerminalPositions
  <2>4. Cardinality(Retained(left)) = Cardinality(Retained(map)) - Cardinality(positions)
    BY <2>3, KeysAssumption, RemovalCount
  <2>5. ~(rest > MaxRetainedBytes)
    <3>1. PICK gone : gone = {order[p] : p \in positions}
      OBVIOUS
    <3>2. PositionSum(map, order, positions) \in Nat
      BY <2>3, <3>1, EachKeyOnce, PositionsCount DEF IsRepository
    <3>3. PICK all \in Nat : all = PositionSum(map, order, positions)
      BY <3>2
    <3>4. ~(bytes - all > MaxRetainedBytes)
      BY <2>2, <3>3
    <3>5. ~(Minus(bytes, all) > MaxRetainedBytes)
      BY <3>4, LimitsAssumption DEF Minus
    <3> QED
      BY <1>4, <3>3, <3>5
  <2> QED
    BY <2>2, <2>4, <2>5
<1>7. EvictsCommands(map, left, rest)
  BY <1>3, <1>5, <1>6 DEF EvictsCommands
<1> QED
  BY <1>4, <1>7

(* Retention, asked by any message in any state: it removes terminal       *)
(* entries only, oldest first, no more of them than the limits ask for and *)
(* as many, unless only entries in flight are left.  It rests on the       *)
(* agreement of the deques with the maps.                                  *)
THEOREM RetentionCorrect == HubSpec => []RetentionIsOrderly
<1>1. ASSUME HubInv, NEW m \in ExchangeMessage, NEW at \in Times
      PROVE  LET stored == StoredExchanges(m, at)
                 order  == Longer(exchanges, arrivalOrder, m.key)
             IN  EvictsExchanges(stored, WithoutPositions(stored, order, EvictedExchanges(stored, order)))
  <2>1. PICK stored : stored = StoredExchanges(m, at)
    OBVIOUS
  <2>2. PICK order : order = Longer(exchanges, arrivalOrder, m.key)
    OBVIOUS
  <2>3. PICK merged : merged = MergeMessage(exchanges[m.key], m, at, ArrivalFor(exchanges[m.key]))
    OBVIOUS
  <2>4. m.key \in ExchangeKeys /\ merged \in Exchange
        /\ merged.arrival = ArrivalFor(exchanges[m.key])
    BY <1>1, <2>3, ExchangeMergeIsStored
  <2>5. IsRepository(ExchangeKeys, Exchange, exchanges, arrivalOrder, nextArrival)
    BY <1>1, HubInvRepositories
  <2>6. \E next : IsRepository(ExchangeKeys, Exchange, [exchanges EXCEPT ![m.key] = merged], order, next)
    BY <2>2, <2>4, <2>5, PutKeepsOrderAt DEF ArrivalFor
  <2>7. stored = [exchanges EXCEPT ![m.key] = merged]
    BY <2>1, <2>3 DEF StoredExchanges
  <2>8. PICK left : left = WithoutPositions(stored, order, EvictedExchanges(stored, order))
    OBVIOUS
  <2>9. EvictsExchanges(stored, left)
    BY <2>6, <2>7, <2>8, ExchangesAreEvicted
  <2> QED
    BY <2>1, <2>2, <2>8, <2>9
<1>2. ASSUME HubInv, NEW m \in DatabaseMessage
      PROVE  LET stored  == StoredCommands(m)
                 order   == Longer(commands, commandOrder, m.key)
                 evicted == EvictedCommands(stored, order, BytesWith(m))
             IN  EvictsCommands(stored, WithoutPositions(stored, order, evicted),
                                BytesWithout(BytesWith(m), stored, order, evicted))
  <2>1. PICK stored : stored = StoredCommands(m)
    OBVIOUS
  <2>2. PICK order : order = Longer(commands, commandOrder, m.key)
    OBVIOUS
  <2>3. PICK merged : merged = MergeDatabaseMessage(commands[m.key], m, ArrivalFor(commands[m.key]))
    OBVIOUS
  <2>4. m.key \in CommandKeys /\ merged \in Command
        /\ merged.arrival = ArrivalFor(commands[m.key])
    BY <1>2, <2>3, CommandMergeIsStored
  <2>5. IsRepository(CommandKeys, Command, commands, commandOrder, nextArrival)
        /\ retainedBytes \in Nat
    BY <1>2, HubInvRepositories
  <2>6. \E next : IsRepository(CommandKeys, Command, [commands EXCEPT ![m.key] = merged], order, next)
    BY <2>2, <2>4, <2>5, PutKeepsOrderAt DEF ArrivalFor
  <2>7. stored = [commands EXCEPT ![m.key] = merged]
    BY <2>1, <2>3 DEF StoredCommands
  <2>8. PICK bytes : bytes = BytesWith(m)
    OBVIOUS
  <2>9. bytes \in Nat
    <3>1. stored[m.key] = merged
      BY <2>4, <2>5, <2>7 DEF IsRepository
    <3> QED
      BY <2>1, <2>4, <2>5, <2>8, <3>1, MinusType, RetainedByteLengthType DEF BytesWith
  <2>10. PICK evicted : evicted = EvictedCommands(stored, order, bytes)
    OBVIOUS
  <2>11. PICK left : left = WithoutPositions(stored, order, evicted)
    OBVIOUS
  <2>12. EvictsCommands(stored, left, Minus(bytes, PositionSum(stored, order, evicted)))
    BY <2>6, <2>7, <2>9, <2>10, <2>11, CommandsAreEvicted
  <2>13. BytesWithout(bytes, stored, order, evicted)
           = Minus(bytes, PositionSum(stored, order, evicted))
    BY DEF BytesWithout, PositionSum
  <2> QED
    BY <2>1, <2>2, <2>8, <2>10, <2>11, <2>12, <2>13
<1>3. HubInv => RetentionIsOrderly
  BY <1>1, <1>2 DEF RetentionIsOrderly
<1> QED
  BY <1>3, HubInvInit, HubInvNext, PTL DEF HubSpec
===================================================================================
