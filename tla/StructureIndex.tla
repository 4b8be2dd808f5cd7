-------------------------------- MODULE StructureIndex --------------------------------
(***************************************************************************)
(* The host and path tree that the store keeps beside its rows             *)
(* (src/state/structure/): the groups of an exchange, their aggregates,    *)
(* the change of one exchange and the rows that the Structure view lists.  *)
(* A group's id is the sequence of the names that lead to it, so that a    *)
(* group's parent is the front of its id and an exchange's path of groups  *)
(* is given by its last one.                                               *)
(***************************************************************************)
EXTENDS Integers, FiniteSets, SequencesExt

CONSTANTS
  InvalidUrl,  (* the group of the requests whose URL has no host or path  *)
  Absent       (* null or undefined: no row, selection, host, status, ...  *)

GroupsOf(path) == Prefixes(path) \ {<<>>}

(* The last segment names the exchange and is not a group. *)
StructurePath(e) ==
  IF e.host = Absent \/ e.path = Absent THEN <<InvalidUrl>>
  ELSE <<e.host>> \o (IF e.path = <<>> THEN <<>> ELSE Front(e.path))

IsError(e) == e.state = "failed" \/ (e.status # Absent /\ e.status >= 400)

One(condition) == IF condition THEN 1 ELSE 0

Contribution(e) ==
  [exchangeCount        |-> 1,
   inFlightCount        |-> One(e.state = "inFlight"),
   errorCount           |-> One(IsError(e)),
   knownDurationTotalMs |-> IF e.duration = Absent THEN 0 ELSE e.duration,
   knownDurationCount   |-> One(e.duration # Absent),
   knownTotalBytes      |-> IF e.bytes = Absent THEN 0 ELSE e.bytes]

(* sourceCounts holds the positive counts only.                             *)
ChangeCount(counts, source, direction) ==
  LET count == (IF source \in DOMAIN counts THEN counts[source] ELSE 0) + direction
      names == IF count > 0 THEN DOMAIN counts \cup {source} ELSE DOMAIN counts \ {source}
  IN  [s \in names |-> IF s = source THEN count ELSE counts[s]]

EmptyAggregate ==
  [known |-> [f \in {"exchangeCount", "inFlightCount", "errorCount", "knownDurationTotalMs",
                     "knownDurationCount", "knownTotalBytes"} |-> 0],
   sourceCounts |-> <<>>]

ChangeAggregate(aggregate, e, direction) ==
  [known |-> [f \in DOMAIN aggregate.known |->
                aggregate.known[f] + direction * Contribution(e)[f]],
   sourceCounts |-> ChangeCount(aggregate.sourceCounts, e.source, direction)]

EmptyNode == [childIds |-> <<>>, exchangeIds |-> <<>>, aggregate |-> EmptyAggregate]

EmptyIndex == [nodes |-> <<>>, rootIds |-> <<>>, paths |-> <<>>]

-----------------------------------------------------------------------------------
Listing == INSTANCE LeftFold WITH Step <- \o

Without(s, x) == Listing!Kept(s, ToSet(s) \ {x})

(* Faulty variant of the next: an empty group is left in its parent's list. *)
TakeFromKeepingChild(nodes, id, e) ==
  LET aggregate == ChangeAggregate(nodes[id].aggregate, e, -1)
  IN  IF aggregate.known.exchangeCount = 0 /\ nodes[id].childIds = <<>>
      THEN [n \in DOMAIN nodes \ {id} |-> nodes[n]]
      ELSE [nodes EXCEPT ![id].aggregate = aggregate]

(* One group loses the exchange, and goes when nothing is left under it.    *)
TakeFrom(nodes, id, e) ==
  LET aggregate == ChangeAggregate(nodes[id].aggregate, e, -1)
  IN  IF aggregate.known.exchangeCount = 0 /\ nodes[id].childIds = <<>>
      THEN [n \in DOMAIN nodes \ {id} |->
              IF n = Front(id) THEN [nodes[n] EXCEPT !.childIds = Without(@, id)] ELSE nodes[n]]
      ELSE [nodes EXCEPT ![id].aggregate = aggregate]

Forget(index, k, nodes) ==
  [nodes   |-> nodes,
   rootIds |-> Listing!Kept(index.rootIds, DOMAIN nodes),
   paths   |-> [other \in DOMAIN index.paths \ {k} |-> index.paths[other]]]

Leaving == INSTANCE LeftFold WITH Step <- LAMBDA nodes, from : TakeFrom(nodes, from.id, from.exchange)

(***************************************************************************)
(* The exchange leaves its last group, then every group of the path is     *)
(* updated from the last one to the root.                                  *)
(***************************************************************************)
RemoveStructureSummary(index, k, e) ==
  IF k \notin DOMAIN index.paths THEN index
  ELSE LET leaf == index.paths[k]
           path == [n \in 1 .. Len(leaf) |->
                      [id |-> SubSeq(leaf, 1, Len(leaf) + 1 - n), exchange |-> e]]
       IN  Forget(index, k,
                  Leaving!Fold([index.nodes EXCEPT ![leaf].exchangeIds = Without(@, k)], path))

AppendOnce(s, x) == IF x \in ToSet(s) THEN s ELSE Append(s, x)

(***************************************************************************)
(* Every group of the exchange's path is found or created, counted and     *)
(* listed by its parent; the last one lists the exchange.                  *)
(***************************************************************************)
AddTo(node, id, leaf, k, e) ==
  [aggregate   |-> ChangeAggregate(node.aggregate, e, 1),
   childIds    |-> IF id = leaf THEN node.childIds
                   ELSE AppendOnce(node.childIds, SubSeq(leaf, 1, Len(id) + 1)),
   exchangeIds |-> IF id = leaf THEN Append(node.exchangeIds, k) ELSE node.exchangeIds]

InsertStructureSummary(index, k, leaf, e) ==
  [nodes   |-> [id \in DOMAIN index.nodes \cup GroupsOf(leaf) |->
                  IF id \notin GroupsOf(leaf) THEN index.nodes[id]
                  ELSE AddTo(IF id \in DOMAIN index.nodes THEN index.nodes[id] ELSE EmptyNode,
                             id, leaf, k, e)],
   rootIds |-> AppendOnce(index.rootIds, <<leaf[1]>>),
   paths   |-> [other \in DOMAIN index.paths \cup {k} |->
                  IF other = k THEN leaf ELSE index.paths[other]]]

(* An upsert removes the previous summary and inserts the next. *)
UpsertStructureSummary(index, k, previous, next) ==
  InsertStructureSummary(
    IF previous = Absent THEN index ELSE RemoveStructureSummary(index, k, previous),
    k, StructurePath(next), next)

-----------------------------------------------------------------------------------
(* The exchanges under every group, along the children. *)
ExchangeIdsUnder(index) ==
  LET under[id \in DOMAIN index.nodes] ==
        ToSet(index.nodes[id].exchangeIds)
          \cup UNION {under[child] : child \in ToSet(index.nodes[id].childIds)}
  IN  under

(* The groups that hold one of the visible exchanges; the others are not    *)
(* shown.                                                                   *)
GroupIds(index, visible) ==
  LET under == ExchangeIdsUnder(index)
  IN  {id \in DOMAIN index.nodes : under[id] \cap visible # {}}

(***************************************************************************)
(* The rows of the tree, in no order: every group that is shown and whose  *)
(* parents are all open, and below one that is open itself its exchanges,  *)
(* each with the draft made of it.                                         *)
(***************************************************************************)
FlattenStructureGroups(index, visible, open, draftOf) ==
  LET groups == {id \in GroupIds(index, visible) : GroupsOf(Front(id)) \subseteq open}
      leaves == {k \in visible : \E id \in groups \cap open : k \in ToSet(index.nodes[id].exchangeIds)}
  IN  {[kind |-> "group", id |-> id] : id \in groups}
        \cup {[kind |-> "exchange", id |-> k] : k \in leaves}
        \cup {[kind |-> "draft", id |-> k] : k \in leaves \cap {draftOf}}

-----------------------------------------------------------------------------------
(* What the index must be, computed from the rows. *)

ListsOnce(s, set) == IsInjective(s) /\ ToSet(s) = set

(* The aggregate is the sum over the exchanges under the group. *)
AggregateAgrees(aggregate, rows, under) ==
  /\ \A f \in DOMAIN aggregate.known :
       aggregate.known[f] = SumFunction([k \in under |-> Contribution(rows[k])[f]])
  /\ DOMAIN aggregate.sourceCounts = {rows[k].source : k \in under}
  /\ \A s \in DOMAIN aggregate.sourceCounts :
       aggregate.sourceCounts[s] = Cardinality({k \in under : rows[k].source = s})

(***************************************************************************)
(* The index holds exactly the groups of the retained rows; every group    *)
(* lists its children and its own exchanges once, and looking along the    *)
(* children finds the exchanges under it.                                  *)
(***************************************************************************)
AgreesWith(index, rows) ==
  LET retained == {k \in DOMAIN rows : rows[k] # Absent}
      Under(id) == {k \in retained : id \in GroupsOf(StructurePath(rows[k]))}
      groups == DOMAIN index.nodes
      listed == ExchangeIdsUnder(index)
  IN  /\ index.paths = [k \in retained |-> StructurePath(rows[k])]
      /\ groups = UNION {GroupsOf(StructurePath(rows[k])) : k \in retained}
      /\ ListsOnce(index.rootIds, {id \in groups : Len(id) = 1})
      /\ \A id \in groups :
           LET node == index.nodes[id]
           IN  /\ ListsOnce(node.childIds, {child \in groups : Front(child) = id})
               /\ ListsOnce(node.exchangeIds, {k \in retained : StructurePath(rows[k]) = id})
               /\ listed[id] = Under(id)
               /\ AggregateAgrees(node.aggregate, rows, Under(id))
===================================================================================
