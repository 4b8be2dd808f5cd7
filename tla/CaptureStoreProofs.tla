------------------------------ MODULE CaptureStoreProofs ------------------------------
(***************************************************************************)
(* Proofs about CaptureStore for all exchanges, batches, snapshots and     *)
(* filters: its type invariant, that one thing at most is selected and the *)
(* Inspector's notes about it are true, and that the draft tells its own   *)
(* executions, and that the tree maintained change by change is the one of *)
(* the rows.                                                               *)
(***************************************************************************)
EXTENDS CaptureStore, SequenceTheorems, FiniteSetTheorems, TLAPS

---------------------------------------------------------------------------------------
(* The tree has groups only that the exchanges name. *)

Groups == Seq({e.host : e \in Exchanges} \cup {InvalidUrl} \cup Nat)

NamesGroups(index) ==
  /\ DOMAIN index.nodes \subseteq Groups
  /\ \A k \in DOMAIN index.paths : index.paths[k] \in Groups

LEMMA PathsAreGroups ==
  ASSUME NEW e \in Exchanges
  PROVE  StructurePath(e) \in Groups /\ GroupsOf(StructurePath(e)) \subseteq Groups
<1> DEFINE path == StructurePath(e)
           Names == {other.host : other \in Exchanges} \cup {InvalidUrl} \cup Nat
<1>1. path \in Seq(Names)
  <2>1. <<InvalidUrl>> \in Seq(Names) /\ <<e.host>> \in Seq(Names) /\ <<>> \in Seq(Names)
    OBVIOUS
  <2>2. e.path # Absent => e.path \in Seq(Nat)
    BY StoreAssumption
  <2>3. e.path # Absent => e.path \in Seq(Names)
    BY <2>2
  <2> HIDE DEF Names
  <2>4. e.path # Absent /\ e.path # <<>> => Front(e.path) \in Seq(Names)
    BY <2>3 DEF Front
  <2> QED
    BY <2>1, <2>3, <2>4 DEF StructurePath
<1>2. \A n \in 0 .. Len(path) : SubSeq(path, 1, n) \in Groups
  <2> HIDE DEF path
  <2> QED
    BY <1>1 DEF Groups
<1> QED
  BY <1>1, <1>2 DEF GroupsOf, Prefixes, Groups

---------------------------------------------------------------------------------------
(* The groups along a path. *)

Upper(p, n) == SubSeq(p, 1, n)

(* A branch: a path with its beginnings for groups. *)
IsBranch(p) ==
  /\ p \in Groups /\ Len(p) \in Nat /\ Len(p) > 0
  /\ Upper(p, 0) = <<>> /\ Upper(p, Len(p)) = p
  /\ \A n \in 1 .. Len(p) : /\ Upper(p, n) \in Groups /\ Len(Upper(p, n)) = n
                            /\ Upper(p, n) \in GroupsOf(p)
                            /\ Front(Upper(p, n)) = Upper(p, n - 1)
  /\ \A id \in GroupsOf(p) : Len(id) \in 1 .. Len(p) /\ id = Upper(p, Len(id))

LEMMA PathsAreBranches ==
  ASSUME NEW p \in Groups, p # <<>>
  PROVE  IsBranch(p)
<1> PICK X : X = {e.host : e \in Exchanges} \cup {InvalidUrl} \cup Nat
  OBVIOUS
<1>1. p \in Seq(X) /\ Groups = Seq(X)
  BY DEF Groups
<1>2. Len(p) \in Nat /\ Len(p) > 0 /\ Upper(p, 0) = <<>> /\ Upper(p, Len(p)) = p
  BY <1>1 DEF Upper
<1>3. ASSUME NEW n \in 1 .. Len(p)
      PROVE  /\ Upper(p, n) \in Groups /\ Len(Upper(p, n)) = n
             /\ Upper(p, n) \in GroupsOf(p)
             /\ Front(Upper(p, n)) = Upper(p, n - 1)
  <2>1. Upper(p, n) \in Seq(X) /\ Len(Upper(p, n)) = n
    BY <1>1 DEF Upper
  <2>2. Upper(p, n) # <<>>
    BY <2>1
  <2>3. Upper(p, n) \in GroupsOf(p)
    BY <1>2, <2>2 DEF GroupsOf, Prefixes, Upper
  <2>4. Front(Upper(p, n)) = Upper(p, n - 1)
    <3>1. Front(Upper(p, n)) = SubSeq(SubSeq(p, 1, n), 1, n - 1)
      BY <2>1 DEF Front, Upper
    <3>2. SubSeq(p, 1, n) \in Seq(X) /\ Len(SubSeq(p, 1, n)) = n
          /\ \A i \in 1 .. n : SubSeq(p, 1, n)[i] = p[i]
      BY <1>1
    <3>3. SubSeq(SubSeq(p, 1, n), 1, n - 1) = SubSeq(p, 1, n - 1)
      BY <1>1, <3>2
    <3> QED
      BY <3>1, <3>3 DEF Upper
  <2> QED
    BY <1>1, <2>1, <2>3, <2>4
<1>4. ASSUME NEW id \in GroupsOf(p)
      PROVE  Len(id) \in 1 .. Len(p) /\ id = Upper(p, Len(id))
  <2>1. PICK n \in 0 .. Len(p) : id = SubSeq(p, 1, n) /\ id # <<>>
    BY DEF GroupsOf, Prefixes
  <2>2. n # 0
    BY <1>2, <2>1 DEF Upper
  <2>3. n \in 1 .. Len(p)
    BY <1>2, <2>2
  <2> QED
    BY <1>3, <2>1, <2>3 DEF Upper
<1> QED
  BY <1>2, <1>3, <1>4 DEF IsBranch

(* The groups of an exchange's path are its beginnings, the host first. *)
LEMMA StructurePathsAreBranches ==
  ASSUME NEW e \in Exchanges
  PROVE  IsBranch(StructurePath(e))
<1>1. StructurePath(e) \in Groups
  BY PathsAreGroups
<1>2. StructurePath(e) # <<>>
  <2>1. e.path # Absent => e.path \in Seq(Nat)
    BY StoreAssumption
  <2>2. \A p \in Seq(Nat) : p # <<>> => Front(p) \in Seq(Nat)
    BY DEF Front
  <2>3. \A p \in Seq(Nat) : <<e.host>> \o p # <<>>
    <3> TAKE p \in Seq(Nat)
    <3> PICK X : X = Nat \cup {e.host}
      OBVIOUS
    <3>1. <<e.host>> \in Seq(X) /\ p \in Seq(X)
      OBVIOUS
    <3>2. Len(<<e.host>> \o p) = 1 + Len(p) /\ Len(p) \in Nat
      BY <3>1
    <3> QED
      BY <3>2
  <2>4. <<>> \in Seq(Nat)
    OBVIOUS
  <2> QED
    BY <2>1, <2>2, <2>3, <2>4 DEF StructurePath
<1> QED
  BY <1>1, <1>2, PathsAreBranches

---------------------------------------------------------------------------------------
(* Sums over the exchanges under a group. *)

(* One notion of finite, here and in the instance. *)
LEMMA FiniteIsFinite == \A S : IsFiniteSet(S) => Listing!IsFiniteSet(S)
BY DEF IsFiniteSet, Listing!IsFiniteSet

IsWeights(w) ==
  IsFiniteSet(DOMAIN w) /\ w = [x \in DOMAIN w |-> w[x]] /\ \A x \in DOMAIN w : w[x] \in Nat

(* SumFunction is a total of LeftFold: each part of the domain has one. *)
LEMMA SumIsTotal ==
  ASSUME NEW w, IsWeights(w)
  PROVE  \E t : Listing!IsTotal(t, w, DOMAIN w) /\ SumFunction(w) = t[DOMAIN w]
<1> PICK K : K = DOMAIN w
  OBVIOUS
<1> DEFINE Loop(t) == t = [T \in SUBSET K |->
              IF T = {} THEN 0
              ELSE LET x == CHOOSE x \in T : TRUE
                   IN w[x] + t[T \ {x}]]
<1>1. PICK t : Listing!Adds(t, w, SUBSET K)
  BY Listing!AddsExists, FiniteIsFinite DEF IsWeights
<1>2. \A h : Loop(h) <=> Listing!Adds(h, w, SUBSET K)
  BY DEF Listing!Adds, Listing!AMember
<1>3. PICK u : u = (CHOOSE h : Loop(h)) /\ Loop(u)
  <2>1. \E h : Loop(h)
    <3> HIDE DEF Loop
    <3> QED
      BY <1>1, <1>2
  <2> QED
    BY <2>1
<1>4. SumFunction(w) = u[K]
  BY <1>3 DEF SumFunction, SumFunctionOnSet, FoldFunctionOnSet, MapThenFoldSet
<1> HIDE DEF Loop
<1>5. Listing!Adds(u, w, SUBSET K)
  BY <1>2, <1>3
<1>6. \A x \in K : w[x] \in Nat
  BY DEF IsWeights
<1> QED
  BY <1>4, <1>5, <1>6, Listing!AddsIsTotal, FiniteIsFinite DEF IsWeights

(* One more weight, one more summand. *)
LEMMA SumOfOneMore ==
  ASSUME NEW w, IsWeights(w), NEW k, k \notin DOMAIN w, NEW c \in Nat,
         NEW v, v = [x \in DOMAIN w \cup {k} |-> IF x = k THEN c ELSE w[x]]
  PROVE  /\ IsWeights(v)
         /\ SumFunction(w) \in Nat /\ SumFunction(v) = SumFunction(w) + c
<1> PICK K : K = DOMAIN w
  OBVIOUS
<1> PICK L : L = K \cup {k}
  OBVIOUS
<1>1. DOMAIN v = L /\ v[k] = c /\ \A x \in K : v[x] = w[x]
  OBVIOUS
<1>2. IsFiniteSet(K) /\ IsFiniteSet(L)
  BY FS_AddElement DEF IsWeights
<1>3. IsWeights(v)
  BY <1>1, <1>2 DEF IsWeights
<1>4. PICK t : Listing!IsTotal(t, w, K) /\ SumFunction(w) = t[K]
  BY SumIsTotal
<1>5. PICK u : Listing!IsTotal(u, v, L) /\ SumFunction(v) = u[L]
  BY <1>1, <1>3, SumIsTotal
<1>6. K \in SUBSET L /\ K \in SUBSET K /\ k \in L /\ L \in SUBSET L /\ L \ {k} = K
  OBVIOUS
<1>7. PICK f : f = [x \in K |-> x]
  OBVIOUS
<1>8. Listing!IsMatched(f, K, K, w, v) /\ Listing!IsMatched(f, K, K, v, w)
  <2>1. \A x \in K : w[x] \in Nat /\ v[f[x]] \in Nat /\ w[x] = v[f[x]] /\ v[x] = w[f[x]]
    BY <1>1, <1>7 DEF IsWeights
  <2> QED
    BY <1>1, <1>7, <2>1 DEF Listing!IsMatched
<1>9. t[K] \in Nat /\ u[K] \in Nat /\ t[K] <= u[K]
  BY <1>2, <1>4, <1>5, <1>6, <1>8, Listing!TotalsCompare, FiniteIsFinite
<1>10. u[K] <= t[K]
  BY <1>2, <1>4, <1>5, <1>6, <1>8, Listing!TotalsCompare, FiniteIsFinite
<1>11. u[L] = c + u[K]
  <2>1. u[L] = v[k] + u[L \ {k}]
    BY <1>5, <1>6 DEF Listing!IsTotal
  <2> QED
    BY <1>1, <1>6, <2>1
<1> QED
  BY <1>3, <1>4, <1>5, <1>9, <1>10, <1>11

(* Nothing sums to nothing. *)
LEMMA SumOfNone ==
  ASSUME NEW w, w = <<>>
  PROVE  IsWeights(w) /\ SumFunction(w) = 0
<1>1. DOMAIN w = {}
  OBVIOUS
<1>2. IsWeights(w)
  BY <1>1, FS_EmptySet DEF IsWeights
<1>3. PICK t : Listing!IsTotal(t, w, {}) /\ SumFunction(w) = t[{}]
  BY <1>1, <1>2, SumIsTotal
<1> QED
  BY <1>2, <1>3 DEF Listing!IsTotal

---------------------------------------------------------------------------------------
(* The aggregate of the exchanges x under a group. *)

Fields == {"exchangeCount", "inFlightCount", "errorCount", "knownDurationTotalMs",
           "knownDurationCount", "knownTotalBytes"}

Values(x, f) == [k \in DOMAIN x |-> Contribution(x[k])[f]]

OfSource(x, s) == {k \in DOMAIN x : x[k].source = s}

(* Finitely many exchanges under their keys. *)
IsPart(x) == IsFiniteSet(DOMAIN x) /\ x \in [DOMAIN x -> Exchanges]

(* The sums and the sources of the exchanges x. *)
IsAggregate(a, x) ==
  /\ DOMAIN a.known = Fields
  /\ \A f \in Fields : a.known[f] = SumFunction(Values(x, f))
  /\ \A s : s \in DOMAIN a.sourceCounts <=> OfSource(x, s) # {}
  /\ \A s \in DOMAIN a.sourceCounts : a.sourceCounts[s] = Cardinality(OfSource(x, s))

(* The exchanges x, and e under k. *)
With(x, k, e) == [i \in DOMAIN x \cup {k} |-> IF i = k THEN e ELSE x[i]]

(* What an exchange contributes is natural, and it counts once. *)
LEMMA ContributionIs ==
  ASSUME NEW e \in Exchanges
  PROVE  /\ \A f \in Fields : Contribution(e)[f] \in Nat
         /\ Contribution(e)["exchangeCount"] = 1
<1>1. {e.duration, e.bytes} \subseteq Nat \cup {Absent}
  BY StoreAssumption
<1>2. \A c : One(c) \in Nat
  BY DEF One
<1> QED
  BY <1>1, <1>2 DEF Contribution, Fields

(* The contributions of rows to a field are weights. *)
LEMMA ValuesOfPart ==
  ASSUME NEW x, IsPart(x), NEW f \in Fields
  PROVE  IsWeights(Values(x, f))
<1>1. \A k \in DOMAIN x : Contribution(x[k])[f] \in Nat
  BY ContributionIs DEF IsPart
<1> QED
  BY <1>1 DEF IsWeights, IsPart, Values

IsWith(y, x, k, e) ==
  /\ DOMAIN y = DOMAIN x \cup {k} /\ y = [i \in DOMAIN y |-> y[i]]
  /\ y[k] = e /\ \A i \in DOMAIN x : i # k => y[i] = x[i]

(* One more exchange with finitely many is still finitely many. *)
LEMMA WithIsPart ==
  ASSUME NEW x, IsPart(x), NEW k, NEW e \in Exchanges
  PROVE  IsPart(With(x, k, e)) /\ IsWith(With(x, k, e), x, k, e)
<1> PICK y : y = With(x, k, e)
  OBVIOUS
<1>1. IsFiniteSet(DOMAIN x \cup {k})
  BY FS_AddElement DEF IsPart
<1>2. DOMAIN y = DOMAIN x \cup {k} /\ y = [i \in DOMAIN y |-> y[i]]
  BY DEF With
<1>3. y[k] = e /\ \A i \in DOMAIN x : i # k => y[i] = x[i]
  BY DEF With
<1>4. \A i \in DOMAIN x : x[i] \in Exchanges
  BY DEF IsPart
<1>5. \A i \in DOMAIN y : y[i] \in Exchanges
  BY <1>2, <1>3, <1>4
<1>6. IsPart(y)
  BY <1>1, <1>2, <1>5 DEF IsPart
<1> QED
  BY <1>2, <1>3, <1>6 DEF IsWith

(* One exchange more or less under the group. *)
LEMMA ValuesOfOneMore ==
  ASSUME NEW x, IsPart(x), NEW k, k \notin DOMAIN x, NEW e \in Exchanges, NEW f \in Fields
  PROVE  /\ SumFunction(Values(x, f)) \in Nat
         /\ SumFunction(Values(With(x, k, e), f)) = SumFunction(Values(x, f)) + Contribution(e)[f]
<1>1. PICK w : w = Values(x, f)
  OBVIOUS
<1>2. PICK v : v = Values(With(x, k, e), f)
  OBVIOUS
<1>3. PICK c : c = Contribution(e)[f]
  OBVIOUS
<1>4. IsWeights(w) /\ c \in Nat
  BY <1>1, <1>3, ValuesOfPart, ContributionIs
<1>5. DOMAIN w = DOMAIN x
  BY <1>1 DEF Values
<1>6. v = [i \in DOMAIN w \cup {k} |-> IF i = k THEN c ELSE w[i]]
  <2>1. PICK y : y = With(x, k, e) /\ IsWith(y, x, k, e)
    BY WithIsPart
  <2>2. v = [i \in DOMAIN y |-> Contribution(y[i])[f]]
    BY <1>2, <2>1 DEF Values
  <2>3. \A i \in DOMAIN x : w[i] = Contribution(x[i])[f]
    BY <1>1 DEF Values
  <2>4. \A i \in DOMAIN y : Contribution(y[i])[f] = IF i = k THEN c ELSE w[i]
    BY <1>3, <2>1, <2>3 DEF IsWith
  <2> QED
    BY <1>5, <2>1, <2>2, <2>4 DEF IsWith
<1>7. SumFunction(w) \in Nat /\ SumFunction(v) = SumFunction(w) + c
  BY <1>4, <1>5, <1>6, SumOfOneMore
<1> QED
  BY <1>1, <1>2, <1>3, <1>7

(* One more exchange is one more of its own source and of no other. *)
LEMMA SourcesOfOneMore ==
  ASSUME NEW x, IsPart(x), NEW k, k \notin DOMAIN x, NEW e \in Exchanges
  PROVE  /\ \A s : s # e.source => OfSource(With(x, k, e), s) = OfSource(x, s)
         /\ OfSource(With(x, k, e), e.source) # {}
         /\ Cardinality(OfSource(x, e.source)) \in Nat
         /\ Cardinality(OfSource(x, e.source)) = 0 <=> OfSource(x, e.source) = {}
         /\ Cardinality(OfSource(With(x, k, e), e.source)) = Cardinality(OfSource(x, e.source)) + 1
<1> PICK S : S = OfSource(x, e.source)
  OBVIOUS
<1>1. IsFiniteSet(S) /\ k \notin S
  <2>1. S \subseteq DOMAIN x
    BY DEF OfSource
  <2> QED
    BY <2>1, FS_Subset DEF IsPart
<1> PICK y : y = With(x, k, e)
  OBVIOUS
<1>0. IsWith(y, x, k, e)
  BY WithIsPart
<1>2. OfSource(y, e.source) = S \cup {k}
  <2>1. \A i : i \in OfSource(y, e.source) <=> i \in S \cup {k}
    BY <1>0 DEF OfSource, IsWith
  <2> QED
    BY <2>1
<1>3. \A s : s # e.source => OfSource(y, s) = OfSource(x, s)
  <2> SUFFICES ASSUME NEW s, s # e.source PROVE OfSource(y, s) = OfSource(x, s)
    OBVIOUS
  <2>1. \A i : i \in OfSource(y, s) <=> i \in OfSource(x, s)
    BY <1>0 DEF OfSource, IsWith
  <2> QED
    BY <2>1
<1>4. Cardinality(S) \in Nat /\ (Cardinality(S) = 0 <=> S = {})
  BY <1>1, FS_CardinalityType, FS_EmptySet
<1>5. Cardinality(S \cup {k}) = Cardinality(S) + 1
  BY <1>1, FS_AddElement
<1> QED
  BY <1>2, <1>3, <1>4, <1>5

(* An exchange is counted in: the sums and the sources stay right. *)
LEMMA AggregateAdds ==
  ASSUME NEW x, IsPart(x), NEW k, k \notin DOMAIN x, NEW e \in Exchanges,
         NEW a, IsAggregate(a, x)
  PROVE  IsAggregate(ChangeAggregate(a, e, 1), With(x, k, e))
<1> PICK y : y = With(x, k, e)
  OBVIOUS
<1> PICK b : b = ChangeAggregate(a, e, 1)
  OBVIOUS
<1> PICK counts : counts = a.sourceCounts
  OBVIOUS
<1> PICK source : source = e.source
  OBVIOUS
<1>1. /\ b.known = [f \in DOMAIN a.known |-> a.known[f] + 1 * Contribution(e)[f]]
      /\ b.sourceCounts = ChangeCount(counts, source, 1)
  BY DEF ChangeAggregate
<1>2. ASSUME NEW f \in Fields PROVE b.known[f] = SumFunction(Values(y, f))
  <2>1. b.known[f] = a.known[f] + 1 * Contribution(e)[f]
    BY <1>1 DEF IsAggregate
  <2>2. a.known[f] = SumFunction(Values(x, f)) /\ Contribution(e)[f] \in Nat
    BY ContributionIs DEF IsAggregate
  <2>3. SumFunction(Values(x, f)) \in Nat
        /\ SumFunction(Values(y, f)) = SumFunction(Values(x, f)) + Contribution(e)[f]
    BY ValuesOfOneMore
  <2> QED
    BY <2>1, <2>2, <2>3
<1>3. /\ \A s : s # source => OfSource(y, s) = OfSource(x, s)
      /\ OfSource(y, source) # {}
      /\ Cardinality(OfSource(x, source)) \in Nat
      /\ Cardinality(OfSource(x, source)) = 0 <=> OfSource(x, source) = {}
      /\ Cardinality(OfSource(y, source)) = Cardinality(OfSource(x, source)) + 1
  BY SourcesOfOneMore
<1>4. PICK c : c = (IF source \in DOMAIN counts THEN counts[source] ELSE 0)
  OBVIOUS
<1>5. c = Cardinality(OfSource(x, source))
  BY <1>3, <1>4 DEF IsAggregate
<1>6. c + 1 > 0
  BY <1>3, <1>5
<1>7. b.sourceCounts = [s \in DOMAIN counts \cup {source} |-> IF s = source THEN c + 1 ELSE counts[s]]
  BY <1>1, <1>4, <1>6 DEF ChangeCount
<1>8. \A s : s \in DOMAIN b.sourceCounts <=> OfSource(y, s) # {}
  BY <1>3, <1>7 DEF IsAggregate
<1>9. \A s \in DOMAIN b.sourceCounts : b.sourceCounts[s] = Cardinality(OfSource(y, s))
  BY <1>3, <1>5, <1>7 DEF IsAggregate
<1>10. DOMAIN b.known = Fields
  BY <1>1 DEF IsAggregate
<1> QED
  BY <1>2, <1>8, <1>9, <1>10 DEF IsAggregate

(* An exchange is counted out, and a source of none is forgotten. *)
LEMMA AggregateTakes ==
  ASSUME NEW x, IsPart(x), NEW k, k \notin DOMAIN x, NEW e \in Exchanges,
         NEW a, IsAggregate(a, With(x, k, e))
  PROVE  IsAggregate(ChangeAggregate(a, e, -1), x)
<1> PICK y : y = With(x, k, e)
  OBVIOUS
<1> PICK b : b = ChangeAggregate(a, e, -1)
  OBVIOUS
<1> PICK counts : counts = a.sourceCounts
  OBVIOUS
<1> PICK source : source = e.source
  OBVIOUS
<1>1. /\ b.known = [f \in DOMAIN a.known |-> a.known[f] + (-1) * Contribution(e)[f]]
      /\ b.sourceCounts = ChangeCount(counts, source, -1)
  BY DEF ChangeAggregate
<1>2. ASSUME NEW f \in Fields PROVE b.known[f] = SumFunction(Values(x, f))
  <2>1. b.known[f] = a.known[f] + (-1) * Contribution(e)[f]
    BY <1>1 DEF IsAggregate
  <2>2. a.known[f] = SumFunction(Values(y, f)) /\ Contribution(e)[f] \in Nat
    BY ContributionIs DEF IsAggregate
  <2>3. SumFunction(Values(x, f)) \in Nat
        /\ SumFunction(Values(y, f)) = SumFunction(Values(x, f)) + Contribution(e)[f]
    BY ValuesOfOneMore
  <2> QED
    BY <2>1, <2>2, <2>3
<1>3. /\ \A s : s # source => OfSource(y, s) = OfSource(x, s)
      /\ OfSource(y, source) # {}
      /\ Cardinality(OfSource(x, source)) \in Nat
      /\ Cardinality(OfSource(x, source)) = 0 <=> OfSource(x, source) = {}
      /\ Cardinality(OfSource(y, source)) = Cardinality(OfSource(x, source)) + 1
  BY SourcesOfOneMore
<1>4. PICK n : n = Cardinality(OfSource(x, source))
  OBVIOUS
<1>5. source \in DOMAIN counts /\ counts[source] = n + 1 /\ n \in Nat
  BY <1>3, <1>4 DEF IsAggregate
<1>6. counts[source] + (-1) = n
  BY <1>5
<1>7. b.sourceCounts = [s \in (IF n > 0 THEN DOMAIN counts \cup {source} ELSE DOMAIN counts \ {source}) |->
                          IF s = source THEN n ELSE counts[s]]
  BY <1>1, <1>5, <1>6 DEF ChangeCount
<1>8. \A s : s \in DOMAIN b.sourceCounts <=> OfSource(x, s) # {}
  <2>1. n > 0 <=> OfSource(x, source) # {}
    BY <1>3, <1>4
  <2> QED
    BY <1>3, <1>7, <2>1 DEF IsAggregate
<1>9. \A s \in DOMAIN b.sourceCounts : b.sourceCounts[s] = Cardinality(OfSource(x, s))
  BY <1>3, <1>4, <1>7 DEF IsAggregate
<1>10. DOMAIN b.known = Fields
  BY <1>1 DEF IsAggregate
<1> QED
  BY <1>2, <1>8, <1>9, <1>10 DEF IsAggregate

(* Nothing is under a group, and its count says so. *)
LEMMA EmptyAggregateIs == IsAggregate(EmptyAggregate, <<>>) /\ IsPart(<<>>)
<1> PICK x : x = <<>>
  OBVIOUS
<1>1. DOMAIN x = {} /\ \A f : Values(x, f) = <<>>
  BY DEF Values
<1>2. \A f \in Fields : SumFunction(Values(x, f)) = 0
  BY <1>1, SumOfNone
<1>3. \A s : OfSource(x, s) = {}
  BY <1>1 DEF OfSource
<1>4. IsPart(x)
  BY <1>1, FS_EmptySet DEF IsPart
<1>5. IsAggregate(EmptyAggregate, x)
  <2>1. /\ EmptyAggregate.known = [f \in Fields |-> 0]
        /\ DOMAIN EmptyAggregate.sourceCounts = {}
    BY DEF EmptyAggregate, Fields
  <2> QED
    BY <1>2, <1>3, <2>1 DEF IsAggregate
<1> QED
  BY <1>4, <1>5

(* The count alone says that no exchange is left. *)
LEMMA CountTellsEmpty ==
  ASSUME NEW x, IsPart(x), NEW a, IsAggregate(a, x)
  PROVE  a.known.exchangeCount = 0 <=> DOMAIN x = {}
<1>1. a.known.exchangeCount = SumFunction(Values(x, "exchangeCount")) /\ "exchangeCount" \in Fields
  BY DEF IsAggregate, Fields
<1>2. CASE DOMAIN x = {}
  <2>1. Values(x, "exchangeCount") = <<>>
    BY <1>2 DEF Values
  <2> QED
    BY <1>1, <1>2, <2>1, SumOfNone
<1>3. CASE DOMAIN x # {}
  <2>1. PICK k \in DOMAIN x : TRUE
    BY <1>3
  <2>2. PICK e : e = x[k]
    OBVIOUS
  <2>3. PICK y : y = [i \in DOMAIN x \ {k} |-> x[i]]
    OBVIOUS
  <2>4. IsPart(y) /\ k \notin DOMAIN y /\ e \in Exchanges
    <3>1. IsFiniteSet(DOMAIN x \ {k})
      BY FS_RemoveElement DEF IsPart
    <3> QED
      BY <2>2, <2>3, <3>1 DEF IsPart
  <2>5. x = With(y, k, e)
    BY <2>2, <2>3 DEF With, IsPart
  <2>6. PICK m : m = SumFunction(Values(y, "exchangeCount"))
    OBVIOUS
  <2>7. m \in Nat /\ SumFunction(Values(x, "exchangeCount")) = m + Contribution(e)["exchangeCount"]
    BY <1>1, <2>4, <2>5, <2>6, ValuesOfOneMore
  <2>8. Contribution(e)["exchangeCount"] = 1
    BY <2>4, ContributionIs
  <2> QED
    BY <1>1, <1>3, <2>7, <2>8
<1> QED
  BY <1>2, <1>3
---------------------------------------------------------------------------------------
(* The tree of the exchanges x. *)

PathOf(x, k) == StructurePath(x[k])

Under(x, id) == {k \in DOMAIN x : id \in GroupsOf(PathOf(x, k))}

Below(x, id) == [k \in Under(x, id) |-> x[k]]

Own(x, id) == {k \in DOMAIN x : PathOf(x, k) = id}

GroupsIn(x) == UNION {GroupsOf(PathOf(x, k)) : k \in DOMAIN x}

(* A group is one with exchanges under it, and its parent is a group. *)
LEMMA GroupsInAre ==
  ASSUME NEW x, IsPart(x)
  PROVE  /\ \A id : id \in GroupsIn(x) <=> Under(x, id) # {}
         /\ \A id \in GroupsIn(x) :
              /\ id \in Groups /\ Len(id) \in Nat /\ Len(id) > 0
              /\ Len(id) = 1 => Front(id) = <<>>
              /\ Len(id) > 1 => Front(id) \in GroupsIn(x) /\ Len(Front(id)) = Len(id) - 1
<1>1. \A id : id \in GroupsIn(x) <=> Under(x, id) # {}
  BY DEF GroupsIn, Under
<1>2. ASSUME NEW id \in GroupsIn(x)
      PROVE  /\ id \in Groups /\ Len(id) \in Nat /\ Len(id) > 0
             /\ Len(id) = 1 => Front(id) = <<>>
             /\ Len(id) > 1 => Front(id) \in GroupsIn(x) /\ Len(Front(id)) = Len(id) - 1
  <2>1. PICK k \in DOMAIN x : id \in GroupsOf(PathOf(x, k))
    BY DEF GroupsIn
  <2>2. PICK p : p = PathOf(x, k)
    OBVIOUS
  <2>3. IsBranch(p)
    BY <2>2, StructurePathsAreBranches DEF IsPart, PathOf
  <2>4. PICK n : n = Len(id)
    OBVIOUS
  <2>5. n \in 1 .. Len(p) /\ id = Upper(p, n) /\ Len(p) \in Nat
    BY <2>1, <2>2, <2>3, <2>4 DEF IsBranch
  <2>6. id \in Groups /\ Front(id) = Upper(p, n - 1)
    BY <2>3, <2>5 DEF IsBranch
  <2>7. n = 1 => Front(id) = <<>>
    <3>1. n = 1 => n - 1 = 0
      OBVIOUS
    <3> QED
      BY <2>3, <2>6, <3>1 DEF IsBranch
  <2>8. n > 1 => Front(id) \in GroupsIn(x) /\ Len(Front(id)) = n - 1
    <3>1. n > 1 => n - 1 \in 1 .. Len(p)
      BY <2>5
    <3>2. n > 1 => Front(id) \in GroupsOf(p) /\ Len(Front(id)) = n - 1
      BY <2>3, <2>6, <3>1 DEF IsBranch
    <3> QED
      BY <2>1, <2>2, <3>2 DEF GroupsIn
  <2> QED
    BY <2>4, <2>5, <2>6, <2>7, <2>8
<1> QED
  BY <1>1, <1>2

(* Nothing is below a group that is not there, and no group. *)
LEMMA NoChildren ==
  ASSUME NEW x, IsPart(x), NEW id \in Groups, Len(id) \in Nat, Len(id) > 0, id \notin GroupsIn(x),
         NEW child \in GroupsIn(x)
  PROVE  Front(child) # id
<1>1. Len(child) = 1 => Front(child) = <<>>
  BY GroupsInAre
<1>2. id # <<>>
  OBVIOUS
<1>3. Len(child) \in Nat /\ Len(child) > 0 /\ (Len(child) > 1 => Front(child) \in GroupsIn(x))
  BY GroupsInAre
<1>4. Len(child) = 1 \/ Len(child) > 1
  <2>1. PICK n : n = Len(child)
    OBVIOUS
  <2>2. n \in Nat /\ n > 0
    BY <1>3, <2>1
  <2>3. n = 1 \/ n > 1
    BY <2>2
  <2> QED
    BY <2>1, <2>3
<1> QED
  BY <1>1, <1>2, <1>3, <1>4

(* The exchanges under a group are some of the exchanges. *)
LEMMA BelowIs ==
  ASSUME NEW x, IsPart(x), NEW id
  PROVE  /\ IsPart(Below(x, id)) /\ DOMAIN Below(x, id) = Under(x, id)
         /\ Below(x, id) = [k \in Under(x, id) |-> Below(x, id)[k]]
         /\ \A k \in Under(x, id) : Below(x, id)[k] = x[k]
<1>1. Under(x, id) \subseteq DOMAIN x
  BY DEF Under
<1>2. IsFiniteSet(Under(x, id))
  BY <1>1, FS_Subset DEF IsPart
<1> QED
  BY <1>1, <1>2 DEF IsPart, Below

(* What is below the groups when one exchange is added. *)
OneMore(x, y, k, leaf, e) ==
  /\ \A id : id \in GroupsIn(y) <=> id \in GroupsIn(x) \/ id \in GroupsOf(leaf)
  /\ \A id \in GroupsOf(leaf) :
       /\ Below(y, id) = With(Below(x, id), k, e)
       /\ k \notin DOMAIN Below(x, id)
  /\ \A id : id \notin GroupsOf(leaf) => Below(y, id) = Below(x, id)
  /\ \A id : id # leaf => Own(y, id) = Own(x, id)
  /\ Own(y, leaf) = Own(x, leaf) \cup {k} /\ k \notin Own(x, leaf)

(* One more exchange is under the groups of its path and no other. *)
LEMMA WithIsOneMore ==
  ASSUME NEW x, IsPart(x), NEW k, k \notin DOMAIN x, NEW e \in Exchanges,
         NEW y, y = With(x, k, e), NEW leaf, leaf = StructurePath(e)
  PROVE  IsPart(y) /\ OneMore(x, y, k, leaf, e)
<1>1. IsPart(y) /\ IsWith(y, x, k, e)
  BY WithIsPart
<1>2. PathOf(y, k) = leaf /\ \A i \in DOMAIN x : PathOf(y, i) = PathOf(x, i)
  BY <1>1 DEF IsWith, PathOf
<1>3. DOMAIN y = DOMAIN x \cup {k}
  BY <1>1 DEF IsWith
<1>4. \A id : id \in GroupsIn(y) <=> id \in GroupsIn(x) \/ id \in GroupsOf(leaf)
  BY <1>2, <1>3 DEF GroupsIn
<1>5. \A id, i : i \in Under(y, id) <=> i \in Under(x, id) \/ (i = k /\ id \in GroupsOf(leaf))
  BY <1>2, <1>3 DEF Under
<1>6. \A id : k \notin Under(x, id) /\ Under(x, id) \subseteq DOMAIN x
  BY DEF Under
<1>7. ASSUME NEW id, id \notin GroupsOf(leaf) PROVE Below(y, id) = Below(x, id)
  <2>1. Under(y, id) = Under(x, id)
    BY <1>5, <1>7
  <2>2. \A i \in Under(x, id) : y[i] = x[i]
    BY <1>1, <1>6 DEF IsWith
  <2> QED
    BY <2>1, <2>2 DEF Below
<1>8. ASSUME NEW id \in GroupsOf(leaf)
      PROVE  Below(y, id) = With(Below(x, id), k, e) /\ k \notin DOMAIN Below(x, id)
  <2>1. PICK z : z = Below(x, id)
    OBVIOUS
  <2>2. DOMAIN z = Under(x, id) /\ \A i \in Under(x, id) : z[i] = x[i]
    BY <2>1 DEF Below
  <2>3. Under(y, id) = DOMAIN z \cup {k}
    BY <1>5, <1>8, <2>2
  <2>4. \A i \in DOMAIN z : i # k /\ y[i] = z[i]
    BY <1>1, <1>6, <2>2 DEF IsWith
  <2>5. y[k] = e
    BY <1>1 DEF IsWith
  <2>6. \A i \in DOMAIN z \cup {k} : y[i] = IF i = k THEN e ELSE z[i]
    BY <2>4, <2>5
  <2>7. Below(y, id) = With(z, k, e)
    BY <2>3, <2>6 DEF Below, With
  <2> QED
    BY <1>6, <2>1, <2>2, <2>7
<1>9. \A id, i : i \in Own(y, id) <=> i \in Own(x, id) \/ (i = k /\ id = leaf)
  BY <1>2, <1>3 DEF Own
<1>10. k \notin Own(x, leaf)
  BY DEF Own
<1>11. Own(y, leaf) = Own(x, leaf) \cup {k}
  BY <1>9
<1>12. ASSUME NEW id, id # leaf PROVE Own(y, id) = Own(x, id)
  <2>1. \A i : i \in Own(y, id) <=> i \in Own(x, id)
    BY <1>9, <1>12
  <2> QED
    BY <2>1
<1> QED
  BY <1>1, <1>4, <1>7, <1>8, <1>10, <1>11, <1>12 DEF OneMore

(* A group as it is, of the groups D, over the exchanges part. *)
Children(D, id) == {child \in D : Front(child) = id}

IsNode(node, children, own, part) ==
  /\ node = [childIds |-> node.childIds, exchangeIds |-> node.exchangeIds, aggregate |-> node.aggregate]
  /\ Listing!Lists(node.childIds, children)
  /\ Listing!Lists(node.exchangeIds, own)
  /\ IsAggregate(node.aggregate, part)

Roots(D) == {id \in D : Len(id) = 1}

(* The index of the exchanges x. *)
IsIndex(index, x) ==
  /\ index = [nodes |-> index.nodes, rootIds |-> index.rootIds, paths |-> index.paths]
  /\ index.paths = [k \in DOMAIN x |-> PathOf(x, k)]
  /\ index.nodes = [id \in GroupsIn(x) |-> index.nodes[id]]
  /\ Listing!Lists(index.rootIds, Roots(GroupsIn(x)))
  /\ \A id \in GroupsIn(x) :
       IsNode(index.nodes[id], Children(GroupsIn(x), id), Own(x, id), Below(x, id))

(* The index at the start is that of no exchanges. *)
LEMMA EmptyIsIndex ==
  ASSUME NEW x, DOMAIN x = {}
  PROVE  IsIndex(EmptyIndex, x)
<1>1. GroupsIn(x) = {}
  BY DEF GroupsIn
<1>2. Roots({}) = {} /\ Listing!Lists(<<>>, {})
  BY DEF Listing!Lists, Roots
<1>3. EmptyIndex = [nodes |-> <<>>, rootIds |-> <<>>, paths |-> <<>>]
  BY DEF EmptyIndex
<1>4. \A f : <<>> = [id \in {} |-> f[id]]
  OBVIOUS
<1>5. EmptyIndex.paths = [k \in DOMAIN x |-> PathOf(x, k)]
  BY <1>3
<1>6. EmptyIndex.nodes = [id \in GroupsIn(x) |-> EmptyIndex.nodes[id]]
  BY <1>1, <1>3
<1> QED
  BY <1>1, <1>2, <1>3, <1>5, <1>6 DEF IsIndex

(* A list stays without repetition when its next member is appended once. *)
LEMMA AppendOnceLists ==
  ASSUME NEW S, NEW s, Listing!Lists(s, S), NEW c
  PROVE  Listing!Lists(AppendOnce(s, c), S \cup {c})
<1>1. s \in Seq(S) /\ \A y \in S : \E n \in 1 .. Len(s) : s[n] = y
  BY DEF Listing!Lists
<1>2. ToSet(s) = S
  <2>1. \A y : y \in ToSet(s) <=> y \in S
    BY <1>1 DEF ToSet
  <2> QED
    BY <2>1
<1>3. CASE c \in S
  <2>1. S \cup {c} = S
    BY <1>3
  <2> QED
    BY <1>2, <1>3, <2>1 DEF AppendOnce
<1>4. CASE c \notin S
  BY <1>2, <1>4, Listing!AppendLists DEF AppendOnce
<1> QED
  BY <1>3, <1>4

(* A list loses the member that is taken out and nothing else. *)
LEMMA WithoutLists ==
  ASSUME NEW S, NEW s, Listing!Lists(s, S), NEW c
  PROVE  Listing!Lists(Without(s, c), S \ {c})
<1>1. s \in Seq(S) /\ \A y \in S : \E n \in 1 .. Len(s) : s[n] = y
  BY DEF Listing!Lists
<1>2. PICK T : T = ToSet(s) \ {c}
  OBVIOUS
<1>3. S \cap T = S \ {c}
  <2>1. \A y : y \in ToSet(s) <=> y \in S
    BY <1>1 DEF ToSet
  <2> QED
    BY <1>2, <2>1
<1>4. Listing!Lists(Listing!Kept(s, T), S \cap T)
  BY Listing!KeptLists
<1> QED
  BY <1>2, <1>3, <1>4 DEF Without

---------------------------------------------------------------------------------------
(* An exchange joins the tree. *)

(* A group that is not there yet is as empty as a new one. *)
FoundOrEmpty(index, id) == IF id \in DOMAIN index.nodes THEN index.nodes[id] ELSE EmptyNode

(* What an insertion finds or creates is right for what is there before. *)
LEMMA FoundIsNode ==
  ASSUME NEW x, IsPart(x), NEW index, IsIndex(index, x), NEW id \in Groups, Len(id) \in Nat, Len(id) > 0
  PROVE  IsNode(FoundOrEmpty(index, id), Children(GroupsIn(x), id), Own(x, id), Below(x, id))
<1>1. DOMAIN index.nodes = GroupsIn(x)
  BY DEF IsIndex
<1>2. CASE id \in GroupsIn(x)
  BY <1>1, <1>2 DEF FoundOrEmpty, IsIndex
<1>3. CASE id \notin GroupsIn(x)
  <2>1. FoundOrEmpty(index, id) = EmptyNode
    BY <1>1, <1>3 DEF FoundOrEmpty
  <2>2. Under(x, id) = {}
    BY <1>3, GroupsInAre
  <2>3. Below(x, id) = <<>>
    BY <2>2 DEF Below
  <2>4. Children(GroupsIn(x), id) = {}
    BY <1>3, NoChildren DEF Children
  <2>5. Own(x, id) = {}
    <3> SUFFICES ASSUME NEW k \in Own(x, id) PROVE FALSE
      OBVIOUS
    <3>1. k \in DOMAIN x /\ PathOf(x, k) = id /\ x[k] \in Exchanges
      BY DEF Own, IsPart
    <3>2. IsBranch(id)
      BY <3>1, StructurePathsAreBranches DEF PathOf
    <3>3. Len(id) \in 1 .. Len(id)
      OBVIOUS
    <3>4. id \in GroupsOf(id)
      BY <3>2, <3>3 DEF IsBranch
    <3> QED
      BY <1>3, <3>1, <3>4 DEF GroupsIn
  <2>6. Listing!Lists(<<>>, {})
    BY DEF Listing!Lists
  <2>7. EmptyNode = [childIds |-> <<>>, exchangeIds |-> <<>>, aggregate |-> EmptyAggregate]
    BY DEF EmptyNode
  <2> QED
    BY <2>1, <2>3, <2>4, <2>5, <2>6, <2>7, EmptyAggregateIs DEF IsNode
<1> QED
  BY <1>2, <1>3

(* The children and the exchanges of a group of the path. *)
LEMMA PathChildren ==
  ASSUME NEW x, IsPart(x), NEW leaf, IsBranch(leaf), NEW D,
         \A id : id \in D <=> id \in GroupsIn(x) \/ id \in GroupsOf(leaf)
  PROVE  /\ \A id \in GroupsOf(leaf) : id # leaf =>
              Children(D, id) = Children(GroupsIn(x), id) \cup {Upper(leaf, Len(id) + 1)}
         /\ Children(D, leaf) = Children(GroupsIn(x), leaf)
         /\ \A id \in GroupsIn(x) : id \notin GroupsOf(leaf) =>
              Children(D, id) = Children(GroupsIn(x), id)
         /\ Roots(D) = Roots(GroupsIn(x)) \cup {Upper(leaf, 1)}
<1>1. ASSUME NEW child \in GroupsOf(leaf)
      PROVE  /\ Len(child) \in 1 .. Len(leaf) /\ child = Upper(leaf, Len(child))
             /\ Front(child) = Upper(leaf, Len(child) - 1)
             /\ Len(child) = 1 => Front(child) = <<>>
             /\ Len(child) > 1 => Front(child) \in GroupsOf(leaf) /\ Len(Front(child)) = Len(child) - 1
  <2>1. Len(child) \in 1 .. Len(leaf) /\ child = Upper(leaf, Len(child)) /\ Len(leaf) \in Nat
    BY DEF IsBranch
  <2>2. Front(child) = Upper(leaf, Len(child) - 1)
    BY <2>1 DEF IsBranch
  <2>3. Len(child) = 1 => Len(child) - 1 = 0
    BY <2>1
  <2>4. Len(child) > 1 => Len(child) - 1 \in 1 .. Len(leaf)
    BY <2>1
  <2>5. Len(child) > 1 => Front(child) \in GroupsOf(leaf) /\ Len(Front(child)) = Len(child) - 1
    BY <2>2, <2>4 DEF IsBranch
  <2>6. Len(child) = 1 => Front(child) = <<>>
    BY <2>2, <2>3 DEF IsBranch
  <2> QED
    BY <2>1, <2>2, <2>5, <2>6
<1>2. ASSUME NEW id \in GroupsOf(leaf), id # leaf
      PROVE  Children(D, id) = Children(GroupsIn(x), id) \cup {Upper(leaf, Len(id) + 1)}
  <2>1. PICK c : c = Upper(leaf, Len(id) + 1)
    OBVIOUS
  <2>2. Len(id) \in 1 .. Len(leaf) /\ id = Upper(leaf, Len(id)) /\ Len(leaf) \in Nat
    BY DEF IsBranch
  <2>3. Len(id) # Len(leaf)
    BY <1>2, <2>2 DEF IsBranch
  <2>4. Len(id) + 1 \in 1 .. Len(leaf) /\ (Len(id) + 1) - 1 = Len(id)
    BY <2>2, <2>3
  <2>5. c \in GroupsOf(leaf) /\ Front(c) = id
    BY <2>1, <2>2, <2>4 DEF IsBranch
  <2>6. ASSUME NEW child \in GroupsOf(leaf), Front(child) = id PROVE child = c
    <3>1. id # <<>>
      BY <2>2
    <3>2. Len(child) \in 1 .. Len(leaf) /\ child = Upper(leaf, Len(child)) /\ Len(child) # 1
      BY <1>1, <2>6, <3>1
    <3>3. Len(child) > 1
      <4>1. PICK n : n = Len(child)
        OBVIOUS
      <4>2. n \in 1 .. Len(leaf) /\ n # 1
        BY <3>2, <4>1
      <4>3. n > 1
        BY <2>2, <4>2
      <4> QED
        BY <4>1, <4>3
    <3>4. Len(id) = Len(child) - 1
      BY <1>1, <2>6, <3>3
    <3>5. Len(child) = Len(id) + 1
      BY <2>2, <3>2, <3>4
    <3> QED
      BY <2>1, <3>2, <3>5
  <2>7. \A child : child \in Children(D, id) <=> child \in Children(GroupsIn(x), id) \/ child = c
    BY <2>5, <2>6 DEF Children
  <2> QED
    BY <2>1, <2>7
<1>3. Children(D, leaf) = Children(GroupsIn(x), leaf)
  <2>1. ASSUME NEW child \in GroupsOf(leaf) PROVE Front(child) # leaf
    <3>1. leaf # <<>> /\ Len(leaf) \in Nat
      BY DEF IsBranch
    <3>2. Len(child) \in 1 .. Len(leaf)
      BY <1>1
    <3>3. Len(child) > 1 => Len(Front(child)) # Len(leaf)
      BY <1>1, <3>1, <3>2
    <3>4. Len(child) = 1 \/ Len(child) > 1
      <4>1. PICK n : n = Len(child)
        OBVIOUS
      <4>2. n \in 1 .. Len(leaf)
        BY <3>2, <4>1
      <4>3. n = 1 \/ n > 1
        BY <3>1, <4>2
      <4> QED
        BY <4>1, <4>3
    <3> QED
      BY <1>1, <3>1, <3>3, <3>4
  <2>2. \A child : child \in Children(D, leaf) <=> child \in Children(GroupsIn(x), leaf)
    BY <2>1 DEF Children
  <2> QED
    BY <2>2
<1>4. ASSUME NEW id \in GroupsIn(x), id \notin GroupsOf(leaf)
      PROVE  Children(D, id) = Children(GroupsIn(x), id)
  <2>1. id # <<>>
    BY GroupsInAre
  <2>2. \A child \in GroupsOf(leaf) : Len(child) = 1 \/ Len(child) > 1
    BY <1>1
  <2>3. \A child \in GroupsOf(leaf) : Front(child) # id
    BY <1>1, <1>4, <2>1, <2>2
  <2>4. \A child : child \in Children(D, id) <=> child \in Children(GroupsIn(x), id)
    BY <2>3 DEF Children
  <2> QED
    BY <2>4
<1>5. Roots(D) = Roots(GroupsIn(x)) \cup {Upper(leaf, 1)}
  <2>1. PICK root : root = Upper(leaf, 1)
    OBVIOUS
  <2>2. 1 \in 1 .. Len(leaf)
    BY DEF IsBranch
  <2>3. root \in GroupsOf(leaf) /\ Len(root) = 1
    BY <2>1, <2>2 DEF IsBranch
  <2>4. \A id \in GroupsOf(leaf) : Len(id) = 1 => id = root
    BY <1>1, <2>1
  <2>5. \A id : id \in Roots(D) <=> id \in Roots(GroupsIn(x)) \/ id = root
    BY <2>3, <2>4 DEF Roots
  <2> QED
    BY <2>1, <2>5
<1> QED
  BY <1>2, <1>3, <1>4, <1>5

(* A group of the path takes the exchange in. *)
LEMMA AddToIs ==
  ASSUME NEW x, IsPart(x), NEW node, NEW children, NEW own, NEW part, IsPart(part),
         IsNode(node, children, own, part),
         NEW k, k \notin DOMAIN part, k \notin own, NEW e \in Exchanges, NEW id, NEW leaf
  PROVE  IsNode(AddTo(node, id, leaf, k, e),
                IF id = leaf THEN children ELSE children \cup {Upper(leaf, Len(id) + 1)},
                IF id = leaf THEN own \cup {k} ELSE own, With(part, k, e))
<1> PICK next : next = AddTo(node, id, leaf, k, e)
  OBVIOUS
<1>1. /\ next = [childIds |-> next.childIds, exchangeIds |-> next.exchangeIds, aggregate |-> next.aggregate]
      /\ next.aggregate = ChangeAggregate(node.aggregate, e, 1)
      /\ next.childIds = IF id = leaf THEN node.childIds
                         ELSE AppendOnce(node.childIds, Upper(leaf, Len(id) + 1))
      /\ next.exchangeIds = IF id = leaf THEN Append(node.exchangeIds, k) ELSE node.exchangeIds
  BY DEF AddTo, Upper
<1>2. IsAggregate(next.aggregate, With(part, k, e))
  BY <1>1, AggregateAdds DEF IsNode
<1>3. /\ Listing!Lists(node.childIds, children) /\ Listing!Lists(node.exchangeIds, own)
      /\ Listing!Lists(AppendOnce(node.childIds, Upper(leaf, Len(id) + 1)),
                       children \cup {Upper(leaf, Len(id) + 1)})
  BY AppendOnceLists DEF IsNode
<1>4. Listing!Lists(Append(node.exchangeIds, k), own \cup {k})
  BY <1>3, Listing!AppendLists
<1>5. CASE id = leaf
  BY <1>1, <1>2, <1>3, <1>4, <1>5 DEF IsNode
<1>6. CASE id # leaf
  BY <1>1, <1>2, <1>3, <1>6 DEF IsNode
<1> QED
  BY <1>5, <1>6

(* An insertion turns the index of x into that of x and the exchange. *)
LEMMA InsertionIs ==
  ASSUME NEW x, IsPart(x), NEW index, IsIndex(index, x),
         NEW k, k \notin DOMAIN x, NEW e \in Exchanges
  PROVE  IsIndex(InsertStructureSummary(index, k, StructurePath(e), e), With(x, k, e))
<1> PICK leaf : leaf = StructurePath(e)
  OBVIOUS
<1> PICK y : y = With(x, k, e)
  OBVIOUS
<1> PICK next : next = InsertStructureSummary(index, k, leaf, e)
  OBVIOUS
<1> PICK D : D = GroupsIn(x)
  OBVIOUS
<1> PICK E : E = GroupsIn(y)
  OBVIOUS
<1>1. IsBranch(leaf)
  BY StructurePathsAreBranches
<1>2. OneMore(x, y, k, leaf, e)
  BY WithIsOneMore
<1>3. \A id : id \in E <=> id \in D \/ id \in GroupsOf(leaf)
  BY <1>2 DEF OneMore
<1>4. DOMAIN index.nodes = D
  BY DEF IsIndex
<1>5. /\ next = [nodes |-> next.nodes, rootIds |-> next.rootIds, paths |-> next.paths]
      /\ next.nodes = [id \in E |-> IF id \notin GroupsOf(leaf) THEN index.nodes[id]
                                    ELSE AddTo(FoundOrEmpty(index, id), id, leaf, k, e)]
      /\ next.rootIds = AppendOnce(index.rootIds, <<leaf[1]>>)
      /\ next.paths = [other \in DOMAIN index.paths \cup {k} |->
                         IF other = k THEN leaf ELSE index.paths[other]]
  <2>1. E = DOMAIN index.nodes \cup GroupsOf(leaf)
    BY <1>3, <1>4
  <2> QED
    BY <2>1 DEF InsertStructureSummary, FoundOrEmpty
<1>6. next.paths = [i \in DOMAIN y |-> PathOf(y, i)]
  <2>1. index.paths = [i \in DOMAIN x |-> PathOf(x, i)]
    BY DEF IsIndex
  <2>2. IsWith(y, x, k, e)
    BY WithIsPart
  <2>3. DOMAIN y = DOMAIN index.paths \cup {k}
    BY <2>1, <2>2 DEF IsWith
  <2>4. \A i \in DOMAIN y : PathOf(y, i) = IF i = k THEN leaf ELSE index.paths[i]
    BY <2>1, <2>2 DEF IsWith, PathOf
  <2> QED
    BY <1>5, <2>3, <2>4
<1>7. Listing!Lists(next.rootIds, Roots(E))
  <2>1. Upper(leaf, 1) = <<leaf[1]>>
    <3> PICK X : X = {other.host : other \in Exchanges} \cup {InvalidUrl} \cup Nat
      OBVIOUS
    <3>1. leaf \in Seq(X) /\ Len(leaf) \in Nat /\ Len(leaf) > 0
      BY <1>1 DEF IsBranch, Groups
    <3>2. 1 \in 1 .. Len(leaf) /\ leaf[1] \in X
      BY <3>1
    <3>3. SubSeq(leaf, 1, 1) = <<leaf[1]>>
      <4>1. PICK s : s = SubSeq(leaf, 1, 1)
        OBVIOUS
      <4>2. s \in Seq(X) /\ Len(s) = 1 /\ s[1] = leaf[1]
        BY <3>1, <3>2, <4>1
      <4>3. s = <<leaf[1]>>
        BY <3>2, <4>2
      <4> QED
        BY <4>1, <4>3
    <3> QED
      BY <3>3 DEF Upper
  <2>2. Roots(E) = Roots(D) \cup {Upper(leaf, 1)}
    BY <1>1, <1>3, PathChildren
  <2>3. Listing!Lists(index.rootIds, Roots(D))
    BY DEF IsIndex
  <2> QED
    BY <1>5, <2>1, <2>2, <2>3, AppendOnceLists
<1>8. ASSUME NEW id \in E
      PROVE  IsNode(next.nodes[id], Children(E, id), Own(y, id), Below(y, id))
  <2>1. CASE id \notin GroupsOf(leaf)
    <3>1. id \in D /\ next.nodes[id] = index.nodes[id]
      BY <1>3, <1>5, <2>1
    <3>2. id # leaf
      <4>1. Len(leaf) \in 1 .. Len(leaf)
        BY <1>1 DEF IsBranch
      <4> QED
        BY <1>1, <2>1, <4>1 DEF IsBranch
    <3>3. Own(y, id) = Own(x, id) /\ Below(y, id) = Below(x, id)
      BY <1>2, <2>1, <3>2 DEF OneMore
    <3>4. Children(E, id) = Children(D, id)
      BY <1>1, <1>3, <2>1, <3>1, PathChildren
    <3>5. IsNode(index.nodes[id], Children(D, id), Own(x, id), Below(x, id))
      BY <3>1 DEF IsIndex
    <3> QED
      BY <3>1, <3>3, <3>4, <3>5
  <2>2. CASE id \in GroupsOf(leaf)
    <3>1. next.nodes[id] = AddTo(FoundOrEmpty(index, id), id, leaf, k, e)
      BY <1>5, <2>2
    <3>2. id \in Groups /\ Len(id) \in Nat /\ Len(id) > 0
      <4>1. Len(id) \in 1 .. Len(leaf) /\ id = Upper(leaf, Len(id))
        BY <1>1, <2>2 DEF IsBranch
      <4>2. Upper(leaf, Len(id)) \in Groups
        BY <1>1, <4>1 DEF IsBranch
      <4> QED
        BY <4>1, <4>2
    <3>3. IsNode(FoundOrEmpty(index, id), Children(D, id), Own(x, id), Below(x, id))
      BY <3>2, FoundIsNode
    <3>4. /\ Below(y, id) = With(Below(x, id), k, e) /\ k \notin DOMAIN Below(x, id)
          /\ k \notin Own(x, id)
      BY <1>2, <2>2 DEF OneMore, Own
    <3>5. IsPart(Below(x, id))
      BY BelowIs
    <3>6. Children(E, id) = IF id = leaf THEN Children(D, id)
                            ELSE Children(D, id) \cup {Upper(leaf, Len(id) + 1)}
      BY <1>1, <1>3, <2>2, PathChildren
    <3>7. Own(y, id) = IF id = leaf THEN Own(x, id) \cup {k} ELSE Own(x, id)
      BY <1>2 DEF OneMore
    <3>8. PICK node : node = FoundOrEmpty(index, id)
      OBVIOUS
    <3>9. PICK part : part = Below(x, id)
      OBVIOUS
    <3>10. PICK own : own = Own(x, id)
      OBVIOUS
    <3>11. PICK children : children = Children(D, id)
      OBVIOUS
    <3>12. IsNode(node, children, own, part) /\ IsPart(part) /\ k \notin DOMAIN part /\ k \notin own
      BY <3>3, <3>4, <3>5, <3>8, <3>9, <3>10, <3>11
    <3>13. IsNode(AddTo(node, id, leaf, k, e),
                  IF id = leaf THEN children ELSE children \cup {Upper(leaf, Len(id) + 1)},
                  IF id = leaf THEN own \cup {k} ELSE own, With(part, k, e))
      BY <3>12, AddToIs
    <3> QED
      BY <3>1, <3>4, <3>6, <3>7, <3>8, <3>9, <3>10, <3>11, <3>13
  <2> QED
    BY <2>1, <2>2
<1>9. next.nodes = [id \in E |-> next.nodes[id]]
  BY <1>5
<1> QED
  BY <1>5, <1>6, <1>7, <1>8, <1>9 DEF IsIndex

---------------------------------------------------------------------------------------
(* An exchange leaves the tree: the groups of its path that the loop has    *)
(* yet to reach still count it.                                             *)

Pending(leaf, n) == {Upper(leaf, m) : m \in 1 .. n}

IsLeaving(nodes, x, k, e, pending) ==
  /\ nodes = [id \in GroupsIn(x) \cup pending |-> nodes[id]]
  /\ \A id \in GroupsIn(x) \cup pending :
       IsNode(nodes[id], Children(GroupsIn(x) \cup pending, id), Own(x, id),
              IF id \in pending THEN With(Below(x, id), k, e) ELSE Below(x, id))

(* Only the empty list lists nothing. *)
LEMMA NothingListed ==
  ASSUME NEW s, Listing!Lists(s, {})
  PROVE  s = <<>>
<1>1. s \in Seq({})
  BY DEF Listing!Lists
<1>2. Len(s) \in Nat /\ \A n \in 1 .. Len(s) : s[n] \in {}
  BY <1>1
<1>3. Len(s) = 0
  BY <1>2
<1> QED
  BY <1>1, <1>3

(* One round of the loop: the last pending group gives the exchange up. *)
LEMMA TakeFromIs ==
  ASSUME NEW x, IsPart(x), NEW k, k \notin DOMAIN x, NEW e \in Exchanges,
         NEW leaf, IsBranch(leaf), NEW n \in 1 .. Len(leaf), NEW nodes,
         IsLeaving(nodes, x, k, e, Pending(leaf, n))
  PROVE  IsLeaving(TakeFrom(nodes, Upper(leaf, n), e), x, k, e, Pending(leaf, n - 1))
<1> PICK G : G = GroupsIn(x)
  OBVIOUS
<1> PICK P : P = Pending(leaf, n)
  OBVIOUS
<1> PICK Q : Q = Pending(leaf, n - 1)
  OBVIOUS
<1> PICK D : D = G \cup P
  OBVIOUS
<1> PICK E : E = G \cup Q
  OBVIOUS
<1> PICK id : id = Upper(leaf, n)
  OBVIOUS
<1> PICK next : next = TakeFrom(nodes, id, e)
  OBVIOUS
<1> PICK a : a = ChangeAggregate(nodes[id].aggregate, e, -1)
  OBVIOUS
<1>1. Len(leaf) \in Nat /\ \A m \in 1 .. n : m \in 1 .. Len(leaf)
  BY DEF IsBranch
<1>2. \A m \in 1 .. n : Len(Upper(leaf, m)) = m
  BY <1>1 DEF IsBranch
<1>3. id \in Groups /\ Len(id) = n /\ n > 0 /\ n \in Nat /\ Front(id) = Upper(leaf, n - 1)
  BY <1>1 DEF IsBranch
<1>4. id \in P /\ id \notin Q /\ P = Q \cup {id}
  <2>1. \A m \in 1 .. n - 1 : m \in 1 .. n /\ m # n
    BY <1>3
  <2>2. \A m \in 1 .. n : m = n \/ m \in 1 .. n - 1
    BY <1>3
  <2>3. n \in 1 .. n
    BY <1>3
  <2>4. id \in P
    BY <2>3 DEF Pending
  <2>5. id \notin Q
    BY <1>2, <1>3, <2>1 DEF Pending
  <2>6. \A c : c \in P <=> c \in Q \/ c = id
    BY <2>1, <2>2, <2>3 DEF Pending
  <2> QED
    BY <2>4, <2>5, <2>6
<1>5. /\ nodes = [c \in D |-> nodes[c]] /\ DOMAIN nodes = D
      /\ \A c \in D : IsNode(nodes[c], Children(D, c), Own(x, c),
                             IF c \in P THEN With(Below(x, c), k, e) ELSE Below(x, c))
  BY DEF IsLeaving
<1>6. IsNode(nodes[id], Children(D, id), Own(x, id), With(Below(x, id), k, e)) /\ id \in D
  BY <1>4, <1>5
<1>7. IsPart(Below(x, id)) /\ DOMAIN Below(x, id) = Under(x, id) /\ k \notin Under(x, id)
  <2>1. k \notin Under(x, id)
    BY DEF Under
  <2> QED
    BY <2>1, BelowIs
<1>8. IsAggregate(a, Below(x, id))
  BY <1>6, <1>7, AggregateTakes DEF IsNode
<1>9. a.known.exchangeCount = 0 <=> id \notin G
  <2>1. a.known.exchangeCount = 0 <=> Under(x, id) = {}
    BY <1>7, <1>8, CountTellsEmpty
  <2>2. id \in G <=> Under(x, id) # {}
    BY GroupsInAre
  <2> QED
    BY <2>1, <2>2
<1>10. next = IF a.known.exchangeCount = 0 /\ nodes[id].childIds = <<>>
              THEN [c \in DOMAIN nodes \ {id} |->
                      IF c = Front(id) THEN [nodes[c] EXCEPT !.childIds = Without(@, id)] ELSE nodes[c]]
              ELSE [nodes EXCEPT ![id].aggregate = a]
  BY DEF TakeFrom
<1>11. SUFFICES /\ next = [c \in E |-> next[c]]
                /\ \A c \in E : IsNode(next[c], Children(E, c), Own(x, c),
                                       IF c \in Q THEN With(Below(x, c), k, e) ELSE Below(x, c))
  BY DEF IsLeaving
<1>12. CASE id \in G
  <2>1. next = [nodes EXCEPT ![id].aggregate = a]
    BY <1>9, <1>10, <1>12
  <2>2. E = D
    BY <1>4, <1>12
  <2>3. next = [c \in E |-> next[c]]
    BY <1>5, <2>1, <2>2
  <2>4. /\ next[id] = [nodes[id] EXCEPT !.aggregate = a]
        /\ \A c \in D : c # id => next[c] = nodes[c]
    BY <1>5, <1>6, <2>1
  <2>5. IsNode(next[id], Children(D, id), Own(x, id), Below(x, id))
    BY <1>6, <1>8, <2>4 DEF IsNode
  <2>6. ASSUME NEW c \in E
        PROVE  IsNode(next[c], Children(E, c), Own(x, c),
                      IF c \in Q THEN With(Below(x, c), k, e) ELSE Below(x, c))
    <3>1. CASE c = id
      BY <1>4, <2>2, <2>5, <3>1
    <3>2. CASE c # id
      <4>1. c \in P <=> c \in Q
        BY <1>4, <3>2
      <4> QED
        BY <1>5, <2>2, <2>4, <3>2, <4>1
    <3> QED
      BY <3>1, <3>2
  <2> QED
    BY <2>3, <2>6
<1>13. CASE id \notin G
  <2>1. Children(D, id) = {}
    <3> SUFFICES ASSUME NEW c \in D, Front(c) = id PROVE FALSE
      BY DEF Children
    <3>1. CASE c \in G
      BY <1>3, <1>13, <3>1, NoChildren
    <3>2. CASE c \in P
      <4>1. PICK m \in 1 .. n : c = Upper(leaf, m)
        BY <3>2 DEF Pending
      <4>2. Front(c) = Upper(leaf, m - 1)
        BY <1>1, <4>1 DEF IsBranch
      <4>3. CASE m = 1
        <5>1. Front(c) = <<>>
          BY <4>2, <4>3 DEF IsBranch
        <5> QED
          BY <1>3, <5>1
      <4>4. CASE m # 1
        <5>1. m - 1 \in 1 .. n /\ m - 1 # n
          BY <1>3, <4>4
        <5>2. Len(id) = m - 1
          BY <1>2, <4>2, <5>1
        <5> QED
          BY <1>3, <5>1, <5>2
      <4> QED
        BY <4>3, <4>4
    <3> QED
      BY <3>1, <3>2
  <2>2. nodes[id].childIds = <<>>
    BY <1>6, <2>1, NothingListed DEF IsNode
  <2>3. E = D \ {id}
    BY <1>4, <1>13
  <2>4. next = [c \in E |->
                  IF c = Front(id) THEN [nodes[c] EXCEPT !.childIds = Without(@, id)] ELSE nodes[c]]
    BY <1>5, <1>9, <1>10, <1>13, <2>2, <2>3
  <2>5. \A c : Children(E, c) = Children(D, c) \ {id}
    BY <2>3 DEF Children
  <2>6. ASSUME NEW c \in E
        PROVE  IsNode(next[c], Children(E, c), Own(x, c),
                      IF c \in Q THEN With(Below(x, c), k, e) ELSE Below(x, c))
    <3>1. PICK part : part = IF c \in Q THEN With(Below(x, c), k, e) ELSE Below(x, c)
      OBVIOUS
    <3>2. IsNode(nodes[c], Children(D, c), Own(x, c), part)
      <4>1. c \in D /\ (c \in P <=> c \in Q)
        BY <1>4, <2>3
      <4> QED
        BY <1>5, <3>1, <4>1
    <3>3. CASE c = Front(id)
      <4>1. next[c] = [nodes[c] EXCEPT !.childIds = Without(@, id)]
        BY <2>4, <3>3
      <4>2. Listing!Lists(Without(nodes[c].childIds, id), Children(D, c) \ {id})
        BY <3>2, WithoutLists DEF IsNode
      <4>3. IsNode(next[c], Children(E, c), Own(x, c), part)
        BY <2>5, <3>2, <4>1, <4>2 DEF IsNode
      <4> QED
        BY <3>1, <4>3
    <3>4. CASE c # Front(id)
      <4>1. next[c] = nodes[c]
        BY <2>4, <3>4
      <4>2. Children(E, c) = Children(D, c)
        <5>1. id \notin Children(D, c)
          BY <3>4 DEF Children
        <5>2. PICK A : A = Children(D, c)
          OBVIOUS
        <5>3. A \ {id} = A
          BY <5>1, <5>2
        <5> QED
          BY <2>5, <5>2, <5>3
      <4> QED
        BY <3>1, <3>2, <4>1, <4>2
    <3> QED
      BY <3>3, <3>4
  <2>7. next = [c \in E |-> next[c]]
    BY <2>4
  <2> QED
    BY <2>6, <2>7
<1> QED
  BY <1>12, <1>13

(* Before the loop every group of the path is pending. *)
LEMMA LeavingStarts ==
  ASSUME NEW x, IsPart(x), NEW k, k \notin DOMAIN x, NEW e \in Exchanges,
         NEW leaf, leaf = StructurePath(e), NEW index, IsIndex(index, With(x, k, e))
  PROVE  IsLeaving([index.nodes EXCEPT ![leaf].exchangeIds = Without(@, k)], x, k, e,
                   Pending(leaf, Len(leaf)))
<1> PICK y : y = With(x, k, e)
  OBVIOUS
<1> PICK nodes : nodes = index.nodes
  OBVIOUS
<1> PICK base : base = [nodes EXCEPT ![leaf].exchangeIds = Without(@, k)]
  OBVIOUS
<1> PICK P : P = Pending(leaf, Len(leaf))
  OBVIOUS
<1> PICK D : D = GroupsIn(x) \cup P
  OBVIOUS
<1>1. IsBranch(leaf) /\ OneMore(x, y, k, leaf, e)
  BY StructurePathsAreBranches, WithIsOneMore
<1>2. P = GroupsOf(leaf)
  <2>1. \A id : id \in P <=> id \in GroupsOf(leaf)
    BY <1>1 DEF Pending, IsBranch
  <2> QED
    BY <2>1
<1>3. GroupsIn(y) = D
  BY <1>1, <1>2 DEF OneMore
<1>4. leaf \in P /\ leaf \in D
  <2>1. Len(leaf) \in 1 .. Len(leaf)
    BY <1>1 DEF IsBranch
  <2>2. leaf \in GroupsOf(leaf)
    BY <1>1, <2>1 DEF IsBranch
  <2> QED
    BY <1>2, <2>2
<1>5. /\ nodes = [id \in D |-> nodes[id]]
      /\ \A id \in D : IsNode(nodes[id], Children(D, id), Own(y, id), Below(y, id))
  BY <1>3 DEF IsIndex
<1>6. /\ base = [id \in D |-> base[id]]
      /\ base[leaf] = [nodes[leaf] EXCEPT !.exchangeIds = Without(@, k)]
      /\ \A id \in D : id # leaf => base[id] = nodes[id]
  BY <1>4, <1>5
<1>7. \A id : Below(y, id) = IF id \in P THEN With(Below(x, id), k, e) ELSE Below(x, id)
  BY <1>1, <1>2 DEF OneMore
<1>8. ASSUME NEW id \in D
      PROVE  IsNode(base[id], Children(D, id), Own(x, id), Below(y, id))
  <2>1. CASE id = leaf
    <3>1. IsNode(nodes[leaf], Children(D, leaf), Own(y, leaf), Below(y, leaf))
      BY <1>4, <1>5
    <3>2. Own(y, leaf) \ {k} = Own(x, leaf)
      BY <1>1 DEF OneMore
    <3>3. Listing!Lists(Without(nodes[leaf].exchangeIds, k), Own(x, leaf))
      BY <3>1, <3>2, WithoutLists DEF IsNode
    <3>4. IsNode(base[leaf], Children(D, leaf), Own(x, leaf), Below(y, leaf))
      BY <1>6, <3>1, <3>3 DEF IsNode
    <3> QED
      BY <2>1, <3>4
  <2>2. CASE id # leaf
    <3>1. Own(y, id) = Own(x, id)
      BY <1>1, <2>2 DEF OneMore
    <3> QED
      BY <1>5, <1>6, <2>2, <3>1
  <2> QED
    BY <2>1, <2>2
<1>9. IsLeaving(base, x, k, e, P)
  <2>1. ASSUME NEW id \in D
        PROVE  IsNode(base[id], Children(D, id), Own(x, id),
                      IF id \in P THEN With(Below(x, id), k, e) ELSE Below(x, id))
    <3>1. PICK part : part = Below(y, id)
      OBVIOUS
    <3>2. IsNode(base[id], Children(D, id), Own(x, id), part)
      BY <1>8, <3>1
    <3>3. part = IF id \in P THEN With(Below(x, id), k, e) ELSE Below(x, id)
      BY <1>7, <3>1
    <3> QED
      BY <3>2, <3>3
  <2> QED
    BY <1>6, <2>1 DEF IsLeaving
<1> QED
  BY <1>9

(* The states of the loop. *)
LeavingStates(f, base, path, outcome) ==
  /\ f[0] = base
  /\ \A n \in 1 .. Len(path) : f[n] = TakeFrom(f[n - 1], path[n].id, path[n].exchange)
  /\ outcome = f[Len(path)]

(* The loop passes through states (FoldHasStates). *)
LEMMA LeavingHasStates ==
  ASSUME NEW base, NEW path, Len(path) \in Nat
  PROVE  \E f : LeavingStates(f, base, path, Leaving!Fold(base, path))
BY Leaving!FoldHasStates DEF LeavingStates

(* A removal turns the index of x and the exchange into that of x. *)
LEMMA RemovalIs ==
  ASSUME NEW x, IsPart(x), NEW k, k \notin DOMAIN x, NEW e \in Exchanges,
         NEW index, IsIndex(index, With(x, k, e))
  PROVE  IsIndex(RemoveStructureSummary(index, k, e), x)
<1> PICK y : y = With(x, k, e)
  OBVIOUS
<1> PICK leaf : leaf = StructurePath(e)
  OBVIOUS
<1> PICK L : L = Len(leaf)
  OBVIOUS
<1>1. IsBranch(leaf) /\ OneMore(x, y, k, leaf, e) /\ IsWith(y, x, k, e)
  BY StructurePathsAreBranches, WithIsOneMore, WithIsPart
<1>2. index.paths = [i \in DOMAIN y |-> PathOf(y, i)] /\ DOMAIN y = DOMAIN x \cup {k}
  BY <1>1 DEF IsIndex, IsWith
<1>3. index.paths[k] = leaf /\ k \in DOMAIN index.paths
  BY <1>1, <1>2 DEF IsWith, PathOf
<1> PICK base : base = [index.nodes EXCEPT ![leaf].exchangeIds = Without(@, k)]
  OBVIOUS
<1> PICK path : path = [n \in 1 .. L |-> [id |-> SubSeq(leaf, 1, L + 1 - n), exchange |-> e]]
  OBVIOUS
<1> PICK nodes : nodes = Leaving!Fold(base, path)
  OBVIOUS
<1>4. RemoveStructureSummary(index, k, e) = Forget(index, k, nodes)
  BY <1>3 DEF RemoveStructureSummary
<1>5. L \in Nat /\ Len(path) = L
  BY <1>1 DEF IsBranch
<1>16. Len(path) \in Nat
  BY <1>5
<1>17. PICK f : LeavingStates(f, base, path, nodes)
  BY <1>16, LeavingHasStates
<1>6. /\ f[0] = base
      /\ \A n \in 1 .. Len(path) : f[n] = TakeFrom(f[n - 1], path[n].id, path[n].exchange)
      /\ nodes = f[Len(path)]
  BY <1>17 DEF LeavingStates
<1>7. \A n \in 1 .. L : f[n] = TakeFrom(f[n - 1], Upper(leaf, L + 1 - n), e)
  <2>1. \A n \in 1 .. L : path[n].id = Upper(leaf, L + 1 - n) /\ path[n].exchange = e
    BY DEF Upper
  <2> QED
    BY <1>5, <1>6, <2>1
<1> DEFINE S == {n \in Nat : IsLeaving(f[n], x, k, e, Pending(leaf, L - n))}
<1>8. 0 \in S
  <2>1. L - 0 = L
    BY <1>5
  <2>2. IsLeaving([index.nodes EXCEPT ![leaf].exchangeIds = Without(@, k)], x, k, e,
                  Pending(leaf, Len(leaf)))
    BY LeavingStarts
  <2>3. IsLeaving(f[0], x, k, e, Pending(leaf, L))
    BY <1>6, <2>2
  <2> QED
    BY <2>1, <2>3
<1>9. ASSUME NEW n \in 1 .. L, n - 1 \in S PROVE n \in S
  <2>1. PICK m : m = L + 1 - n
    OBVIOUS
  <2>2. m \in 1 .. L /\ L - (n - 1) = m /\ L - n = m - 1
    BY <1>5, <2>1
  <2>3. IsLeaving(f[n - 1], x, k, e, Pending(leaf, m))
    BY <1>9, <2>2
  <2>4. IsLeaving(TakeFrom(f[n - 1], Upper(leaf, m), e), x, k, e, Pending(leaf, m - 1))
    BY <1>1, <2>2, <2>3, TakeFromIs
  <2>5. IsLeaving(f[n], x, k, e, Pending(leaf, L - n))
    BY <1>7, <2>1, <2>2, <2>4
  <2> QED
    BY <2>5
<1>10. L \in S
  <2> HIDE DEF S
  <2>1. \A n \in 0 .. L : n \in S
    BY <1>5, <1>8, <1>9, Leaving!UpwardInduction
  <2> QED
    BY <1>5, <2>1
<1>11. /\ nodes = [id \in GroupsIn(x) |-> nodes[id]]
       /\ \A id \in GroupsIn(x) :
            IsNode(nodes[id], Children(GroupsIn(x), id), Own(x, id), Below(x, id))
  <2>1. IsLeaving(nodes, x, k, e, Pending(leaf, L - L))
    BY <1>5, <1>6, <1>10
  <2>2. Pending(leaf, L - L) = {}
    BY <1>5 DEF Pending
  <2>3. GroupsIn(x) \cup {} = GroupsIn(x)
    OBVIOUS
  <2> QED
    BY <2>1, <2>2, <2>3 DEF IsLeaving
<1> HIDE DEF S
<1> PICK next : next = Forget(index, k, nodes)
  OBVIOUS
<1>12. /\ next = [nodes |-> next.nodes, rootIds |-> next.rootIds, paths |-> next.paths]
       /\ next.nodes = nodes
       /\ next.rootIds = Listing!Kept(index.rootIds, DOMAIN nodes)
       /\ next.paths = [other \in DOMAIN index.paths \ {k} |-> index.paths[other]]
  BY DEF Forget
<1>13. next.paths = [i \in DOMAIN x |-> PathOf(x, i)]
  <2>1. DOMAIN index.paths \ {k} = DOMAIN x
    BY <1>2
  <2>2. \A i \in DOMAIN x : index.paths[i] = PathOf(x, i)
    BY <1>1, <1>2 DEF IsWith, PathOf
  <2> QED
    BY <1>12, <2>1, <2>2
<1>14. Listing!Lists(next.rootIds, Roots(GroupsIn(x)))
  <2>1. Listing!Lists(index.rootIds, Roots(GroupsIn(y)))
    BY DEF IsIndex
  <2>2. Roots(GroupsIn(y)) \cap GroupsIn(x) = Roots(GroupsIn(x))
    <3>1. \A id : id \in Roots(GroupsIn(y)) \cap GroupsIn(x) <=> id \in Roots(GroupsIn(x))
      BY <1>1 DEF Roots, OneMore
    <3> QED
      BY <3>1
  <2>3. DOMAIN nodes = GroupsIn(x)
    BY <1>11
  <2>4. Listing!Lists(Listing!Kept(index.rootIds, DOMAIN nodes), Roots(GroupsIn(y)) \cap DOMAIN nodes)
    BY <2>1, Listing!KeptLists
  <2> QED
    BY <1>12, <2>2, <2>3, <2>4
<1>15. IsIndex(next, x)
  BY <1>11, <1>12, <1>13, <1>14 DEF IsIndex
<1> QED
  BY <1>4, <1>15

---------------------------------------------------------------------------------------
(* The tree is the one that the rows give. *)

(* No path is longer than some bound. *)
LEMMA GroupsAreBounded ==
  ASSUME NEW x, IsPart(x)
  PROVE  \E B \in Nat : \A id \in GroupsIn(x) : Len(id) <= B
<1> PICK K : K = DOMAIN x
  OBVIOUS
<1> DEFINE Good == {T \in SUBSET K : \E B \in Nat : \A k \in T : Len(PathOf(x, k)) <= B}
<1>1. \A k \in K : IsBranch(PathOf(x, k))
  BY StructurePathsAreBranches DEF IsPart, PathOf
<1>2. ASSUME NEW T \in SUBSET K, \A P \in SUBSET T : P # T => P \in Good
      PROVE  T \in Good
  <2>1. CASE T = {}
    <3>1. \A k \in T : Len(PathOf(x, k)) <= 0
      BY <2>1
    <3> QED
      BY <3>1
  <2>2. CASE T # {}
    <3>1. PICK k \in T : TRUE
      BY <2>2
    <3>2. PICK P : P = T \ {k}
      OBVIOUS
    <3>3. P \in Good
      BY <1>2, <3>1, <3>2
    <3>4. PICK A \in Nat : \A i \in P : Len(PathOf(x, i)) <= A
      BY <3>3
    <3>5. PICK n : n = Len(PathOf(x, k))
      OBVIOUS
    <3>6. n \in Nat
      BY <1>1, <3>5 DEF IsBranch
    <3>7. \A i \in T : Len(PathOf(x, i)) <= A + n
      <4> SUFFICES ASSUME NEW i \in T PROVE Len(PathOf(x, i)) <= A + n
        OBVIOUS
      <4>1. CASE i = k
        BY <3>5, <3>6, <4>1
      <4>2. CASE i # k
        <5>1. PICK m : m = Len(PathOf(x, i))
          OBVIOUS
        <5>2. m \in Nat /\ m <= A
          BY <1>1, <3>2, <3>4, <4>2, <5>1 DEF IsBranch
        <5>3. m <= A + n
          BY <3>6, <5>2
        <5> QED
          BY <5>1, <5>3
      <4> QED
        BY <4>1, <4>2
    <3>8. A + n \in Nat
      BY <3>6
    <3> QED
      BY <3>7, <3>8
  <2> QED
    BY <2>1, <2>2
<1>3. Listing!IsFiniteSet(K)
  BY FiniteIsFinite DEF IsPart
<1>4. \A T \in SUBSET K : T \in Good
  <2> PICK good : good = Good
    OBVIOUS
  <2>1. \A T \in SUBSET K : (\A P \in SUBSET T : P # T => P \in good) => T \in good
    <3> HIDE DEF Good
    <3> QED
      BY <1>2
  <2>2. \A T \in SUBSET K : T \in good
    BY ONLY <1>3, <2>1, Listing!PartsInduction
  <2> QED
    BY <2>2
<1>5. PICK B \in Nat : \A k \in K : Len(PathOf(x, k)) <= B
  <2>1. K \in Good
    BY <1>4
  <2> QED
    BY <2>1
<1>6. ASSUME NEW id \in GroupsIn(x) PROVE Len(id) <= B
  <2>1. PICK k \in K : id \in GroupsOf(PathOf(x, k))
    BY DEF GroupsIn
  <2>2. Len(id) \in 1 .. Len(PathOf(x, k)) /\ Len(PathOf(x, k)) \in Nat
    BY <1>1, <2>1 DEF IsBranch
  <2>3. PICK m : m = Len(PathOf(x, k))
    OBVIOUS
  <2>4. PICK n : n = Len(id)
    OBVIOUS
  <2>5. n \in 1 .. m /\ m \in Nat /\ m <= B
    BY <1>5, <2>2, <2>3, <2>4
  <2>6. n <= B
    BY <2>5
  <2> QED
    BY <2>4, <2>6
<1> QED
  BY <1>6

(* Under a group are its own exchanges and those under its children. *)
LEMMA UnderIs ==
  ASSUME NEW x, IsPart(x), NEW id \in GroupsIn(x)
  PROVE  /\ Under(x, id) = Own(x, id) \cup UNION {Under(x, child) : child \in Children(GroupsIn(x), id)}
         /\ \A child \in Children(GroupsIn(x), id) :
              child \in GroupsIn(x) /\ Len(child) = Len(id) + 1
<1> PICK G : G = GroupsIn(x)
  OBVIOUS
<1> PICK n : n = Len(id)
  OBVIOUS
<1>1. n \in Nat /\ n > 0 /\ id # <<>>
  BY GroupsInAre
<1>2. \A k \in DOMAIN x : IsBranch(PathOf(x, k))
  BY StructurePathsAreBranches DEF IsPart, PathOf
<1>3. ASSUME NEW child \in Children(G, id) PROVE child \in G /\ Len(child) = n + 1
  <2>1. child \in G /\ Front(child) = id
    BY DEF Children
  <2>2. PICK m : m = Len(child)
    OBVIOUS
  <2>3. m \in Nat /\ m > 0 /\ m # 1
    BY <1>1, <2>1, <2>2, GroupsInAre
  <2>4. m > 1
    BY <2>3
  <2>5. n = m - 1
    BY <2>1, <2>2, <2>4, GroupsInAre
  <2>6. m = n + 1
    BY <2>3, <2>5
  <2> QED
    BY <2>1, <2>2, <2>6
<1>4. ASSUME NEW k \in Under(x, id)
      PROVE  k \in Own(x, id) \/ \E child \in Children(G, id) : k \in Under(x, child)
  <2>1. PICK p : p = PathOf(x, k)
    OBVIOUS
  <2>2. k \in DOMAIN x /\ id \in GroupsOf(p) /\ IsBranch(p)
    BY <1>2, <2>1 DEF Under
  <2>3. n \in 1 .. Len(p) /\ id = Upper(p, n) /\ Len(p) \in Nat
    BY <2>2 DEF IsBranch
  <2>4. CASE n = Len(p)
    <3>1. p = id
      BY <2>2, <2>3, <2>4 DEF IsBranch
    <3> QED
      BY <2>1, <2>2, <3>1 DEF Own
  <2>5. CASE n # Len(p)
    <3>1. n + 1 \in 1 .. Len(p) /\ (n + 1) - 1 = n
      BY <2>3, <2>5
    <3>2. PICK child : child = Upper(p, n + 1)
      OBVIOUS
    <3>3. child \in GroupsOf(p) /\ Front(child) = id
      BY <2>2, <2>3, <3>1, <3>2 DEF IsBranch
    <3>4. child \in G
      BY <2>1, <2>2, <3>3 DEF GroupsIn
    <3>5. child \in Children(G, id) /\ k \in Under(x, child)
      BY <2>1, <2>2, <3>3, <3>4 DEF Children, Under
    <3> QED
      BY <3>5
  <2> QED
    BY <2>4, <2>5
<1>5. ASSUME NEW k \in Own(x, id) PROVE k \in Under(x, id)
  <2>1. PICK p : p = PathOf(x, k)
    OBVIOUS
  <2>2. k \in DOMAIN x /\ p = id /\ IsBranch(p)
    BY <1>2, <2>1 DEF Own
  <2>3. Len(p) \in 1 .. Len(p)
    BY <2>2 DEF IsBranch
  <2>4. id \in GroupsOf(p)
    BY <2>2, <2>3 DEF IsBranch
  <2> QED
    BY <2>1, <2>2, <2>4 DEF Under
<1>6. ASSUME NEW child \in Children(G, id), NEW k \in Under(x, child) PROVE k \in Under(x, id)
  <2>1. PICK p : p = PathOf(x, k)
    OBVIOUS
  <2>2. k \in DOMAIN x /\ child \in GroupsOf(p) /\ IsBranch(p)
    BY <1>2, <2>1 DEF Under
  <2>3. Front(child) = id /\ Len(child) = n + 1
    BY <1>3 DEF Children
  <2>4. n + 1 \in 1 .. Len(p) /\ child = Upper(p, n + 1)
    BY <2>2, <2>3 DEF IsBranch
  <2>5. Front(child) = Upper(p, (n + 1) - 1)
    BY <2>2, <2>4 DEF IsBranch
  <2>6. (n + 1) - 1 = n /\ n \in 1 .. Len(p)
    <3>1. PICK m : m = Len(p)
      OBVIOUS
    <3>2. m \in Nat
      BY <2>2, <3>1 DEF IsBranch
    <3>3. (n + 1) - 1 = n /\ n \in 1 .. m
      BY <1>1, <2>4, <3>1, <3>2
    <3> QED
      BY <3>1, <3>3
  <2>7. id \in GroupsOf(p)
    BY <2>2, <2>3, <2>5, <2>6 DEF IsBranch
  <2> QED
    BY <2>1, <2>2, <2>7 DEF Under
<1>7. \A k : k \in Under(x, id)
        <=> k \in Own(x, id) \/ \E child \in Children(G, id) : k \in Under(x, child)
  BY <1>4, <1>5, <1>6
<1>8. Under(x, id) = Own(x, id) \cup UNION {Under(x, child) : child \in Children(G, id)}
  BY <1>7
<1> QED
  BY <1>3, <1>8

(* A list of LeftFold is one that names its members once. *)
LEMMA ListsAreSets ==
  ASSUME NEW S, NEW s, Listing!Lists(s, S)
  PROVE  ListsOnce(s, S) /\ ToSet(s) = S
<1>1. s \in Seq(S) /\ DOMAIN s = 1 .. Len(s) /\ \A n \in 1 .. Len(s) : s[n] \in S
  BY DEF Listing!Lists
<1>2. /\ \A i, j \in 1 .. Len(s) : s[i] = s[j] => i = j
      /\ \A y \in S : \E n \in 1 .. Len(s) : s[n] = y
  BY DEF Listing!Lists
<1>3. ToSet(s) = S
  BY <1>1, <1>2 DEF ToSet
<1>4. IsInjective(s)
  BY <1>1, <1>2 DEF IsInjective
<1> QED
  BY <1>3, <1>4 DEF ListsOnce

(* Looking along the children finds the exchanges under every group. *)
Sees(under, index) ==
  under = [id \in DOMAIN index.nodes |->
             ToSet(index.nodes[id].exchangeIds)
               \cup UNION {under[child] : child \in ToSet(index.nodes[id].childIds)}]

(* Looking along the children finds exactly the exchanges under a group. *)
LEMMA SeenIsUnder ==
  ASSUME NEW x, IsPart(x), NEW index, IsIndex(index, x)
  PROVE  \A id \in GroupsIn(x) : ExchangeIdsUnder(index)[id] = Under(x, id)
<1> PICK G : G = GroupsIn(x)
  OBVIOUS
<1>1. DOMAIN index.nodes = G
  BY DEF IsIndex
<1>2. \A id \in G : /\ ToSet(index.nodes[id].exchangeIds) = Own(x, id)
                    /\ ToSet(index.nodes[id].childIds) = Children(G, id)
  BY ListsAreSets DEF IsIndex, IsNode
<1>3. PICK h : h = [id \in G |-> Under(x, id)]
  OBVIOUS
<1>4. ASSUME NEW id \in G
      PROVE  h[id] = ToSet(index.nodes[id].exchangeIds)
                       \cup UNION {h[child] : child \in ToSet(index.nodes[id].childIds)}
  <2>1. PICK C : C = Children(G, id)
    OBVIOUS
  <2>2. Under(x, id) = Own(x, id) \cup UNION {Under(x, child) : child \in C} /\ \A child \in C : child \in G
    BY <2>1, UnderIs
  <2>3. \A child \in C : h[child] = Under(x, child)
    BY <1>3, <2>2
  <2>4. UNION {h[child] : child \in C} = UNION {Under(x, child) : child \in C}
    BY <2>3
  <2> QED
    BY <1>2, <1>3, <2>1, <2>2, <2>4
<1>5. Sees(h, index)
  BY <1>1, <1>3, <1>4 DEF Sees
<1>6. PICK u : u = ExchangeIdsUnder(index) /\ Sees(u, index)
  <2>1. ExchangeIdsUnder(index) = CHOOSE under : Sees(under, index)
    BY DEF ExchangeIdsUnder, Sees
  <2> QED
    BY <1>5, <2>1
<1>7. \A id \in G : u[id] = Own(x, id) \cup UNION {u[child] : child \in Children(G, id)}
  BY <1>1, <1>2, <1>6 DEF Sees
<1>8. PICK B \in Nat : \A id \in G : Len(id) <= B
  BY GroupsAreBounded
<1> DEFINE Bad == {id \in G : u[id] # Under(x, id)}
           Depths == {B - Len(id) : id \in Bad}
<1>9. SUFFICES ASSUME Bad # {} PROVE FALSE
  BY <1>6
<1>10. \A id \in G : Len(id) \in Nat /\ B - Len(id) \in Nat
  <2> TAKE id \in G
  <2>1. PICK n : n = Len(id)
    OBVIOUS
  <2>2. n \in Nat /\ n <= B
    BY <1>8, <2>1, GroupsInAre
  <2>3. B - n \in Nat
    BY <2>2
  <2> QED
    BY <2>1, <2>2, <2>3
<1>11. Depths \in SUBSET Nat /\ Depths # {}
  BY <1>9, <1>10
<1>12. PICK d \in Depths : \A m \in Depths : d <= m
  <2> HIDE DEF Depths
  <2> QED
    BY <1>11, Listing!LeastNatural
<1>13. PICK id \in Bad : d = B - Len(id)
  BY <1>12
<1>14. ASSUME NEW child \in Children(G, id) PROVE u[child] = Under(x, child)
  <2>1. child \in G /\ Len(child) = Len(id) + 1
    BY <1>13, UnderIs
  <2>2. PICK n : n = Len(id)
    OBVIOUS
  <2>3. n \in Nat /\ d = B - n /\ Len(child) = n + 1
    BY <1>10, <1>13, <2>1, <2>2
  <2>4. ~(d <= B - (n + 1))
    BY <2>3
  <2>5. B - Len(child) \notin Depths
    BY <1>12, <2>3, <2>4
  <2> QED
    BY <2>1, <2>5
<1>15. u[id] = Under(x, id)
  <2>1. PICK C : C = Children(G, id)
    OBVIOUS
  <2>2. \A child \in C : u[child] = Under(x, child)
    BY <1>14, <2>1
  <2>3. UNION {u[child] : child \in C} = UNION {Under(x, child) : child \in C}
    BY <2>2
  <2>4. id \in G
    BY <1>13
  <2>5. Under(x, id) = Own(x, id) \cup UNION {Under(x, child) : child \in C}
    BY <2>1, <2>4, UnderIs
  <2> QED
    BY <1>7, <2>1, <2>3, <2>4, <2>5
<1> QED
  BY <1>13, <1>15

RowKeys(rs) == {k \in Keys : rs[k] # Absent}

Retained(rs) == [k \in RowKeys(rs) |-> rs[k]]

(* An aggregate that is right is the reference's. *)
LEMMA AggregatesAgree ==
  ASSUME NEW rs, NEW part, NEW U, DOMAIN part = U, \A k \in U : part[k] = rs[k],
         NEW a, IsAggregate(a, part)
  PROVE  AggregateAgrees(a, rs, U)
<1>1. ASSUME NEW f \in DOMAIN a.known
      PROVE  a.known[f] = SumFunction([k \in U |-> Contribution(rs[k])[f]])
  <2>1. Values(part, f) = [k \in U |-> Contribution(rs[k])[f]]
    BY DEF Values
  <2>2. a.known[f] = SumFunction(Values(part, f))
    BY DEF IsAggregate
  <2> QED
    BY <2>1, <2>2
<1>2. \A s : OfSource(part, s) = {k \in U : rs[k].source = s}
  BY DEF OfSource
<1>3. DOMAIN a.sourceCounts = {rs[k].source : k \in U}
  <2>1. \A s : s \in DOMAIN a.sourceCounts <=> {k \in U : rs[k].source = s} # {}
    BY <1>2 DEF IsAggregate
  <2> QED
    BY <2>1
<1>4. ASSUME NEW s \in DOMAIN a.sourceCounts
      PROVE  a.sourceCounts[s] = Cardinality({k \in U : rs[k].source = s})
  <2>1. a.sourceCounts[s] = Cardinality(OfSource(part, s))
    BY DEF IsAggregate
  <2> QED
    BY <1>2, <2>1
<1> QED
  BY <1>1, <1>3, <1>4 DEF AggregateAgrees

(* An index that is right agrees with the rows. *)
LEMMA IndexAgrees ==
  ASSUME NEW rs \in [Keys -> Exchanges \cup {Absent}], IsPart(Retained(rs)),
         NEW index, IsIndex(index, Retained(rs))
  PROVE  AgreesWith(index, rs)
<1> PICK x : x = Retained(rs)
  OBVIOUS
<1> DEFINE retained == {k \in DOMAIN rs : rs[k] # Absent}
           UnderIn(id) == {k \in retained : id \in GroupsOf(StructurePath(rs[k]))}
           groups == DOMAIN index.nodes
<1>1. DOMAIN x = retained /\ \A k \in retained : x[k] = rs[k]
  BY DEF Retained, RowKeys
<1>2. \A k \in retained : PathOf(x, k) = StructurePath(rs[k])
  BY <1>1 DEF PathOf
<1>3. groups = GroupsIn(x)
  BY DEF IsIndex
<1>4. index.paths = [k \in retained |-> StructurePath(rs[k])]
  <2>1. index.paths = [k \in DOMAIN x |-> PathOf(x, k)]
    BY DEF IsIndex
  <2> HIDE DEF retained
  <2> QED
    BY <1>1, <1>2, <2>1
<1>5. groups = UNION {GroupsOf(StructurePath(rs[k])) : k \in retained}
  <2> HIDE DEF retained, groups
  <2> QED
    BY <1>1, <1>2, <1>3 DEF GroupsIn
<1>6. ListsOnce(index.rootIds, {id \in groups : Len(id) = 1})
  <2>1. Listing!Lists(index.rootIds, Roots(groups))
    BY <1>3 DEF IsIndex
  <2>2. ListsOnce(index.rootIds, Roots(groups))
    BY <2>1, ListsAreSets
  <2> QED
    BY <2>2 DEF Roots
<1>7. ASSUME NEW id \in groups
      PROVE  LET node == index.nodes[id]
             IN  /\ ListsOnce(node.childIds, {child \in groups : Front(child) = id})
                 /\ ListsOnce(node.exchangeIds, {k \in retained : StructurePath(rs[k]) = id})
                 /\ ExchangeIdsUnder(index)[id] = UnderIn(id)
                 /\ AggregateAgrees(node.aggregate, rs, UnderIn(id))
  <2> PICK node : node = index.nodes[id]
    OBVIOUS
  <2>1. IsNode(node, Children(groups, id), Own(x, id), Below(x, id))
    BY <1>3 DEF IsIndex
  <2>2. ListsOnce(node.childIds, {child \in groups : Front(child) = id})
    <3>1. ListsOnce(node.childIds, Children(groups, id))
      BY <2>1, ListsAreSets DEF IsNode
    <3> QED
      BY <3>1 DEF Children
  <2>3. ListsOnce(node.exchangeIds, {k \in retained : StructurePath(rs[k]) = id})
    <3>1. ListsOnce(node.exchangeIds, Own(x, id))
      BY <2>1, ListsAreSets DEF IsNode
    <3>2. Own(x, id) = {k \in retained : StructurePath(rs[k]) = id}
      <4> HIDE DEF retained
      <4> QED
        BY <1>1, <1>2 DEF Own
    <3> QED
      BY <3>1, <3>2
  <2>4. Under(x, id) = UnderIn(id)
    <3> HIDE DEF retained
    <3> QED
      BY <1>1, <1>2 DEF Under
  <2>5. ExchangeIdsUnder(index)[id] = UnderIn(id)
    <3> HIDE DEF UnderIn
    <3> QED
      BY <1>3, <2>4, SeenIsUnder
  <2>6. AggregateAgrees(node.aggregate, rs, UnderIn(id))
    <3> PICK U : U = UnderIn(id)
      OBVIOUS
    <3> PICK part : part = Below(x, id)
      OBVIOUS
    <3> PICK a : a = node.aggregate
      OBVIOUS
    <3>1. IsAggregate(a, part)
      BY <2>1 DEF IsNode
    <3>2. \A k \in U : k \in retained
      OBVIOUS
    <3> HIDE DEF UnderIn, retained
    <3>3. DOMAIN part = U /\ \A k \in U : part[k] = rs[k]
      BY <1>1, <2>4, <3>2 DEF Below
    <3>4. AggregateAgrees(a, rs, U)
      BY <3>1, <3>3, AggregatesAgree
    <3> QED
      BY <3>4
  <2> QED
    BY <2>2, <2>3, <2>5, <2>6
<1> QED
  BY <1>4, <1>5, <1>6, <1>7, Zenon DEF AgreesWith

(* An exchange joins the rows or takes the place of its last revision; the  *)
(* tree and the rows change together.                                       *)
LEMMA RetainedIsPart ==
  ASSUME NEW rs \in [Keys -> Exchanges \cup {Absent}], IsFiniteSet(RowKeys(rs))
  PROVE  IsPart(Retained(rs)) /\ DOMAIN Retained(rs) = RowKeys(rs)
<1>1. \A k \in RowKeys(rs) : rs[k] \in Exchanges
  BY DEF RowKeys
<1> QED
  BY <1>1 DEF IsPart, Retained

(* What a list names is finite. *)
LEMMA ListedKeysAreFinite ==
  ASSUME NEW S, NEW s, Listing!Lists(s, S)
  PROVE  IsFiniteSet(S)
<1>1. s \in Seq(S) /\ Len(s) \in Nat /\ \A n \in 1 .. Len(s) : s[n] \in S
  BY DEF Listing!Lists
<1>2. \A y \in S : \E n \in 1 .. Len(s) : s[n] = y
  BY DEF Listing!Lists
<1> PICK I : I = 1 .. Len(s)
  OBVIOUS
<1>3. IsFiniteSet(I)
  BY <1>1, FS_Interval
<1> PICK f : f = [n \in I |-> s[n]]
  OBVIOUS
<1>4. f \in [I -> S] /\ \A y \in S : \E n \in I : f[n] = y
  BY <1>1, <1>2
<1>5. f \in Surjection(I, S)
  BY <1>4 DEF Surjection
<1> QED
  BY <1>3, <1>5, FS_Surjection

(* A row is taken from the rows. *)
LEMMA RowsWithout ==
  ASSUME NEW rs \in [Keys -> Exchanges \cup {Absent}], IsFiniteSet(RowKeys(rs)),
         NEW k \in RowKeys(rs), NEW next, next = [rs EXCEPT ![k] = Absent]
  PROVE  /\ IsPart(Retained(next)) /\ k \notin DOMAIN Retained(next)
         /\ Retained(rs) = With(Retained(next), k, rs[k]) /\ rs[k] \in Exchanges
<1>1. k \in Keys /\ rs[k] \in Exchanges
  BY DEF RowKeys
<1>2. next \in [Keys -> Exchanges \cup {Absent}] /\ next[k] = Absent
      /\ \A i \in Keys : i # k => next[i] = rs[i]
  BY <1>1
<1>3. RowKeys(next) = RowKeys(rs) \ {k}
  BY <1>1, <1>2 DEF RowKeys
<1>4. IsFiniteSet(RowKeys(next))
  BY <1>3, FS_RemoveElement
<1>5. IsPart(Retained(next)) /\ DOMAIN Retained(next) = RowKeys(next)
  BY <1>2, <1>4, RetainedIsPart
<1>6. Retained(rs) = With(Retained(next), k, rs[k])
  <2>1. RowKeys(rs) = DOMAIN Retained(next) \cup {k}
    BY <1>3, <1>5
  <2>2. \A i \in RowKeys(rs) : rs[i] = IF i = k THEN rs[k] ELSE Retained(next)[i]
    BY <1>2, <1>3 DEF Retained, RowKeys
  <2> QED
    BY <2>1, <2>2 DEF Retained, With
<1> QED
  BY <1>1, <1>3, <1>5, <1>6

(* An upsert keeps the index that of the rows, whether the exchange is new,
   stays in its groups or moves to others. *)
LEMMA UpsertedIsIndex ==
  ASSUME NEW rs \in [Keys -> Exchanges \cup {Absent}], IsFiniteSet(RowKeys(rs)),
         NEW index, IsIndex(index, Retained(rs)),
         NEW k \in Keys, NEW e \in Exchanges, e # Absent, NEW next, next = [rs EXCEPT ![k] = e]
  PROVE  IsIndex(UpsertStructureSummary(index, k, rs[k], e), Retained(next))
<1> PICK others : others = [rs EXCEPT ![k] = Absent]
  OBVIOUS
<1> PICK x : x = Retained(others)
  OBVIOUS
<1> PICK old : old = IF rs[k] = Absent THEN index ELSE RemoveStructureSummary(index, k, rs[k])
  OBVIOUS
<1>1. /\ others \in [Keys -> Exchanges \cup {Absent}] /\ others[k] = Absent
      /\ \A i \in Keys : i # k => others[i] = rs[i]
  OBVIOUS
<1>2. IsPart(x) /\ k \notin DOMAIN x /\ DOMAIN x = RowKeys(others) /\ IsIndex(old, x)
  <2>1. CASE rs[k] = Absent
    <3>1. others = rs
      BY <2>1
    <3>2. k \notin RowKeys(rs)
      BY <2>1 DEF RowKeys
    <3> QED
      BY <2>1, <3>1, <3>2, RetainedIsPart
  <2>2. CASE rs[k] # Absent
    <3>1. k \in RowKeys(rs)
      BY <2>2 DEF RowKeys
    <3>2. IsPart(x) /\ k \notin DOMAIN x /\ Retained(rs) = With(x, k, rs[k]) /\ rs[k] \in Exchanges
      BY <3>1, RowsWithout
    <3>3. IsIndex(old, x)
      BY <2>2, <3>2, RemovalIs
    <3> QED
      BY <3>2, <3>3 DEF Retained
  <2> QED
    BY <2>1, <2>2
<1>3. Retained(next) = With(x, k, e)
  <2>1. /\ next[k] = e /\ \A i \in Keys : i # k => next[i] = rs[i]
        /\ DOMAIN next = Keys
    OBVIOUS
  <2>2. RowKeys(next) = RowKeys(others) \cup {k}
    BY <1>1, <2>1 DEF RowKeys
  <2>3. \A i \in RowKeys(others) : x[i] = others[i]
    BY DEF Retained
  <2>4. RowKeys(next) = DOMAIN x \cup {k}
    BY <1>2, <2>2
  <2>5. ASSUME NEW i \in RowKeys(next) PROVE next[i] = IF i = k THEN e ELSE x[i]
    <3>1. CASE i = k
      BY <2>1, <3>1
    <3>2. CASE i # k
      BY <1>1, <2>1, <2>2, <2>3, <2>5, <3>2 DEF RowKeys
    <3> QED
      BY <3>1, <3>2
  <2> PICK f : f = Retained(next)
    OBVIOUS
  <2> PICK g : g = With(x, k, e)
    OBVIOUS
  <2>6. f = [i \in RowKeys(next) |-> next[i]]
    BY DEF Retained
  <2>7. g = [i \in RowKeys(next) |-> IF i = k THEN e ELSE x[i]]
    BY <2>4 DEF With
  <2>8. DOMAIN f = DOMAIN g /\ \A i \in DOMAIN f : f[i] = g[i]
    BY <2>5, <2>6, <2>7
  <2>9. f = [i \in DOMAIN f |-> f[i]] /\ g = [i \in DOMAIN g |-> g[i]]
    BY <2>6, <2>7
  <2>10. f = g
    BY ONLY <2>8, <2>9
  <2> QED
    BY <2>10
<1>4. IsIndex(InsertStructureSummary(old, k, StructurePath(e), e), With(x, k, e))
  BY <1>2, InsertionIs
<1> QED
  BY <1>3, <1>4 DEF UpsertStructureSummary

---------------------------------------------------------------------------------------
(* The order is by arrival. *)

(* A later place in the order is a later arrival. *)
Ascends(order, rs) ==
  \A m, n \in 1 .. Len(order) : m < n => CompareArrival(rs[order[m]], rs[order[n]])

(* Two exchanges are in one order or the other. *)
LEMMA CompareIsTotal ==
  ASSUME NEW e \in Exchanges, NEW other \in Exchanges, e.key # other.key
  PROVE  CompareArrival(e, other) \/ CompareArrival(other, e)
<1>1. e.arrival \in Nat /\ other.arrival \in Nat /\ e.key \in Nat /\ other.key \in Nat
  BY StoreAssumption
<1> QED
  BY <1>1 DEF CompareArrival

(* The order by arrival and key is transitive. *)
LEMMA CompareIsTransitive ==
  ASSUME NEW a \in Exchanges, NEW b \in Exchanges, NEW c \in Exchanges,
         CompareArrival(a, b), CompareArrival(b, c)
  PROVE  CompareArrival(a, c)
<1>1. \A e \in Exchanges : e.arrival \in Nat /\ e.key \in Nat
  BY StoreAssumption
<1> QED
  BY <1>1 DEF CompareArrival

(* Inserted between the earlier and the later ones, a key keeps the order. *)
LEMMA InsertedAscends ==
  ASSUME NEW S, NEW s, Listing!Lists(s, S), NEW rs, Ascends(s, rs),
         NEW k, k \notin S, NEW i \in 1 .. Len(s),
         \A n \in 1 .. Len(s) : n < i => CompareArrival(rs[s[n]], rs[k]),
         \A n \in 1 .. Len(s) : i <= n => CompareArrival(rs[k], rs[s[n]])
  PROVE  Ascends(Listing!Inserted(s, i, k), rs)
<1> PICK t : t = Listing!Inserted(s, i, k)
  OBVIOUS
<1> PICK E : E = S \cup {k}
  OBVIOUS
<1> PICK last : last = Len(s)
  OBVIOUS
<1>1. s \in Seq(E) /\ k \in E /\ last \in Nat
  BY DEF Listing!Lists
<1>2. /\ Len(t) = last + 1
      /\ \A n \in 1 .. last + 1 : t[n] = IF n < i THEN s[n] ELSE IF n = i THEN k ELSE s[n - 1]
  <2>1. Listing!IsInserted(t, s, i, k)
    BY <1>1, Listing!InsertedAtPosition
  <2> QED
    BY <2>1 DEF Listing!IsInserted
<1>3. ASSUME NEW m \in 1 .. last + 1, NEW n \in 1 .. last + 1, m < n
      PROVE  CompareArrival(rs[t[m]], rs[t[n]])
  <2>1. CASE n < i
    <3>1. m \in 1 .. last /\ n \in 1 .. last /\ m < i
      BY <1>1, <1>3, <2>1
    <3>2. t[m] = s[m] /\ t[n] = s[n]
      BY <1>2, <2>1, <3>1
    <3> QED
      BY <1>3, <3>1, <3>2 DEF Ascends
  <2>2. CASE n = i
    <3>1. m \in 1 .. last /\ m < i
      BY <1>1, <1>3, <2>2
    <3>2. t[m] = s[m] /\ t[n] = k
      BY <1>2, <2>2, <3>1
    <3> QED
      BY <3>1, <3>2
  <2>3. CASE i < n
    <3>1. n - 1 \in 1 .. last /\ i <= n - 1 /\ ~(n < i) /\ n # i
      BY <1>1, <2>3
    <3>2. t[n] = s[n - 1]
      BY <1>2, <3>1
    <3>3. CASE m < i
      <4>1. m \in 1 .. last /\ m < n - 1
        BY <1>1, <2>3, <3>3
      <4>2. t[m] = s[m]
        BY <1>2, <3>3
      <4> QED
        BY <3>1, <3>2, <4>1, <4>2 DEF Ascends
    <3>4. CASE m = i
      <4>1. t[m] = k
        BY <1>2, <3>4
      <4> QED
        BY <3>1, <3>2, <4>1
    <3>5. CASE i < m
      <4>1. m - 1 \in 1 .. last /\ m - 1 < n - 1 /\ ~(m < i) /\ m # i
        BY <1>1, <1>3, <3>5
      <4>2. t[m] = s[m - 1]
        BY <1>2, <4>1
      <4> QED
        BY <3>1, <3>2, <4>1, <4>2 DEF Ascends
    <3> QED
      BY <3>3, <3>4, <3>5
  <2> QED
    BY <2>1, <2>2, <2>3
<1>4. Ascends(t, rs)
  BY <1>2, <1>3 DEF Ascends
<1> QED
  BY <1>4

(* Appended after earlier ones, a key keeps the order. *)
LEMMA AppendedAscends ==
  ASSUME NEW S, NEW s, Listing!Lists(s, S), NEW rs, Ascends(s, rs), NEW k,
         \A n \in 1 .. Len(s) : CompareArrival(rs[s[n]], rs[k])
  PROVE  Ascends(Append(s, k), rs)
<1> PICK t : t = Append(s, k)
  OBVIOUS
<1> PICK last : last = Len(s)
  OBVIOUS
<1>1. s \in Seq(S) /\ last \in Nat
  BY DEF Listing!Lists
<1>2. Len(t) = last + 1 /\ t[last + 1] = k /\ \A n \in 1 .. last : t[n] = s[n]
  BY <1>1
<1>3. ASSUME NEW m \in 1 .. last + 1, NEW n \in 1 .. last + 1, m < n
      PROVE  CompareArrival(rs[t[m]], rs[t[n]])
  <2>1. m \in 1 .. last /\ (n = last + 1 \/ n \in 1 .. last)
    BY <1>1, <1>3
  <2> QED
    BY <1>2, <1>3, <2>1 DEF Ascends
<1>4. Ascends(t, rs)
  BY <1>2, <1>3 DEF Ascends
<1> QED
  BY <1>4

(* What is kept of an ordered list is ordered. *)
LEMMA KeptAscends ==
  ASSUME NEW S, NEW s, Listing!Lists(s, S), NEW rs, Ascends(s, rs), NEW T
  PROVE  Ascends(Listing!Kept(s, T), rs)
<1> PICK t : t = Listing!Kept(s, T)
  OBVIOUS
<1>1. s \in Seq(S)
  BY DEF Listing!Lists
<1>2. PICK at : Listing!IsKept(t, s, T, Len(s), at)
  BY <1>1, Listing!KeptInOrder
<1>3. ASSUME NEW m \in 1 .. Len(t), NEW n \in 1 .. Len(t), m < n
      PROVE  CompareArrival(rs[t[m]], rs[t[n]])
  <2>1. /\ at[m] \in 1 .. Len(s) /\ at[n] \in 1 .. Len(s) /\ at[m] < at[n]
        /\ t[m] = s[at[m]] /\ t[n] = s[at[n]]
    BY <1>2, <1>3 DEF Listing!IsKept
  <2> QED
    BY <2>1 DEF Ascends
<1>4. Ascends(t, rs)
  BY <1>3 DEF Ascends
<1> QED
  BY <1>4

(* The rows of a list that changed in nothing that orders them. *)
ArriveAlike(S, rs, next) ==
  \A k \in S : next[k].arrival = rs[k].arrival /\ next[k].key = rs[k].key

LEMMA OrderIsByArrival ==
  ASSUME NEW S, NEW s, Listing!Lists(s, S), NEW rs, NEW next,
         ArriveAlike(S, rs, next), Ascends(s, rs)
  PROVE  Ascends(s, next)
<1>1. \A n \in 1 .. Len(s) : s[n] \in S
  BY DEF Listing!Lists
<1> QED
  BY <1>1 DEF Ascends, CompareArrival, ArriveAlike

---------------------------------------------------------------------------------------
(* The order lists every row once. *)

(* The first position is one of the positions. *)
LEMMA LeastIsMember ==
  ASSUME NEW I \in SUBSET Nat, I # {}
  PROVE  Min(I) \in I /\ \A n \in I : Min(I) <= n
BY Upserting!LeastNatural DEF Min

---------------------------------------------------------------------------------------
(* The reducer. *)

IsEntities(st) ==
  /\ st = [rows |-> st.rows, order |-> st.order, tree |-> st.tree, displaced |-> st.displaced]
  /\ st.displaced \subseteq Keys
  /\ st.rows \in [Keys -> Exchanges \cup {Absent}]
  /\ \A k \in RowKeys(st.rows) : st.rows[k].key = k
  /\ Listing!Lists(st.order, RowKeys(st.rows))
  /\ st.displaced = {} => Ascends(st.order, st.rows)
  /\ IsIndex(st.tree, Retained(st.rows))

(* What else is known of well-formed entities. *)
LEMMA EntitiesAre ==
  ASSUME NEW st, IsEntities(st)
  PROVE  IsFiniteSet(RowKeys(st.rows)) /\ IsPart(Retained(st.rows)) /\ NamesGroups(st.tree)
<1>1. IsFiniteSet(RowKeys(st.rows))
  BY ListedKeysAreFinite DEF IsEntities
<1>2. IsPart(Retained(st.rows))
  BY <1>1, RetainedIsPart DEF IsEntities
<1>3. NamesGroups(st.tree)
  <2> PICK x : x = Retained(st.rows)
    OBVIOUS
  <2>1. DOMAIN st.tree.nodes = GroupsIn(x)
    BY DEF IsEntities, IsIndex
  <2>2. GroupsIn(x) \subseteq Groups
    BY <1>2, GroupsInAre
  <2>3. st.tree.paths = [k \in DOMAIN x |-> PathOf(x, k)]
    BY DEF IsEntities, IsIndex
  <2>4. \A k \in DOMAIN x : PathOf(x, k) \in Groups
    BY <1>2, PathsAreGroups DEF IsPart, PathOf
  <2> QED
    BY <2>1, <2>2, <2>3, <2>4 DEF NamesGroups
<1> QED
  BY <1>1, <1>2, <1>3

(* The entities at the start are well formed. *)
LEMMA EmptyIsEntities == IsEntities(EmptyEntities)
<1>1. EmptyEntities.rows = [k \in Keys |-> Absent] /\ EmptyEntities.order = <<>>
  BY DEF EmptyEntities
<1>2. RowKeys(EmptyEntities.rows) = {}
  BY <1>1 DEF RowKeys
<1>3. Listing!Lists(<<>>, {})
  BY DEF Listing!Lists
<1>4. IsIndex(EmptyIndex, Retained(EmptyEntities.rows))
  <2>1. DOMAIN Retained(EmptyEntities.rows) = {}
    BY <1>2 DEF Retained
  <2> QED
    BY <2>1, EmptyIsIndex
<1>5. Ascends(<<>>, EmptyEntities.rows)
  BY DEF Ascends
<1> QED
  BY <1>1, <1>2, <1>3, <1>4, <1>5 DEF IsEntities, EmptyEntities

LEMMA InsertArrivalIs ==
  ASSUME NEW st, IsEntities(st), NEW e \in Exchanges, e.key \notin RowKeys(st.rows),
         NEW next, next[e.key] = e, \A k \in RowKeys(st.rows) : next[k] = st.rows[k]
  PROVE  /\ Listing!Lists(InsertArrival(st, e), RowKeys(st.rows) \cup {e.key})
         /\ st.displaced = {} => Ascends(InsertArrival(st, e), next)
<1> DEFINE first == SelectInSeq(st.order, LAMBDA k : CompareArrival(e, st.rows[k]))
           I == {i \in 1 .. Len(st.order) : CompareArrival(e, st.rows[st.order[i]])}
<1> PICK S : S = RowKeys(st.rows)
  OBVIOUS
<1> PICK s : s = st.order
  OBVIOUS
<1> PICK k : k = e.key
  OBVIOUS
<1>0. Listing!Lists(s, S) /\ k \notin S /\ Len(s) \in Nat /\ \A n \in 1 .. Len(s) : s[n] \in S
  BY DEF IsEntities, Listing!Lists
<1>1. first = IF I # {} THEN Min(I) ELSE 0
  BY DEF SelectInSeq
<1>2. /\ first = 0 \/ first \in I
      /\ first = 0 => I = {}
      /\ \A n \in I : first <= n
  <2>1. I \in SUBSET Nat /\ \A n \in I : n # 0
    OBVIOUS
  <2> HIDE DEF I, first
  <2> QED
    BY <1>1, <2>1, LeastIsMember
<1>3. InsertArrival(st, e) = IF first = 0 THEN Append(s, k) ELSE InsertAt(s, first, k)
  BY DEF InsertArrival
<1> HIDE DEF first
<1>4. InsertAt(s, first, k) = Listing!Inserted(s, first, k)
  BY DEF InsertAt, Listing!Inserted
<1>5. \A n \in 1 .. Len(s) : n \in I <=> CompareArrival(e, st.rows[s[n]])
  OBVIOUS
<1> HIDE DEF I
<1>6. first = 0 \/ first \in 1 .. Len(s)
  BY <1>2 DEF I
<1>7. Listing!Lists(InsertArrival(st, e), S \cup {k})
  BY <1>0, <1>3, <1>4, <1>6, Listing!InsertLists, Listing!AppendLists
<1>8. ASSUME st.displaced = {} PROVE Ascends(InsertArrival(st, e), next)
  <2>1. \A n \in 1 .. Len(s) : /\ next[s[n]] = st.rows[s[n]] /\ next[s[n]] \in Exchanges
                                /\ next[s[n]].key = s[n]
    BY <1>0 DEF IsEntities, RowKeys
  <2>2. Ascends(s, st.rows)
    BY <1>8 DEF IsEntities
  <2>3. Ascends(s, next)
    BY <2>1, <2>2 DEF Ascends
  <2>4. \A n \in 1 .. Len(s) : n \in I <=> CompareArrival(next[k], next[s[n]])
    BY <1>5, <2>1
  <2>5. next[k] \in Exchanges /\ next[k].key = k
    OBVIOUS
  <2>6. ASSUME NEW n \in 1 .. Len(s), n \notin I PROVE CompareArrival(next[s[n]], next[k])
    <3>1. next[s[n]].key # next[k].key
      BY <1>0, <2>1, <2>5
    <3> QED
      BY <2>1, <2>4, <2>5, <2>6, <3>1, CompareIsTotal
  <2>7. CASE first = 0
    <3>1. \A n \in 1 .. Len(s) : CompareArrival(next[s[n]], next[k])
      BY <1>2, <2>6, <2>7
    <3>2. Ascends(Append(s, k), next)
      BY <1>0, <2>3, <3>1, AppendedAscends
    <3> QED
      BY <1>3, <2>7, <3>2
  <2>8. CASE first # 0
    <3>1. first \in 1 .. Len(s) /\ first \in I
      BY <1>2, <1>6, <2>8
    <3>2. ASSUME NEW n \in 1 .. Len(s), n < first PROVE CompareArrival(next[s[n]], next[k])
      <4>1. ~(first <= n)
        BY <3>1, <3>2
      <4>2. n \notin I
        BY <1>2, <4>1
      <4> QED
        BY <2>6, <4>2
    <3>3. ASSUME NEW n \in 1 .. Len(s), first <= n PROVE CompareArrival(next[k], next[s[n]])
      <4>1. CompareArrival(next[k], next[s[first]])
        BY <2>4, <3>1
      <4>2. CASE n = first
        BY <4>1, <4>2
      <4>3. CASE n # first
        <5>1. first < n
          BY <3>1, <3>3, <4>3
        <5>2. CompareArrival(next[s[first]], next[s[n]])
          BY <2>3, <3>1, <5>1 DEF Ascends
        <5> QED
          BY <2>1, <2>5, <3>1, <4>1, <5>2, CompareIsTransitive
      <4> QED
        BY <4>2, <4>3
    <3>4. Ascends(Listing!Inserted(s, first, k), next)
      BY <1>0, <2>3, <3>1, <3>2, <3>3, InsertedAscends
    <3> QED
      BY <1>3, <1>4, <2>8, <3>4
  <2> QED
    BY <2>7, <2>8
<1> QED
  BY <1>7, <1>8

(* An upsert changes no other row, leaves a row, and changes nothing at all *)
(* unless it changes that row.                                              *)
LEMMA UpsertIs ==
  ASSUME NEW st, IsEntities(st), NEW e \in Exchanges
  PROVE  /\ IsEntities(Upsert(st, e))
         /\ e.key \in RowKeys(Upsert(st, e).rows)
         /\ \A k \in Keys \ {e.key} : Upsert(st, e).rows[k] = st.rows[k]
         /\ Upsert(st, e) = st \/ Upsert(st, e).rows[e.key] # st.rows[e.key]
<1> DEFINE current == st.rows[e.key]
<1>1. e.key \in Keys /\ e # Absent /\ e.revision \in Nat
  BY StoreAssumption DEF Keys
<1>2. CASE current # Absent /\ current.revision >= e.revision
  BY <1>1, <1>2 DEF Upsert, RowKeys
<1>3. CASE ~(current # Absent /\ current.revision >= e.revision)
  <2> DEFINE order == IF current # Absent THEN st.order ELSE InsertArrival(st, e)
             tree == UpsertStructureSummary(st.tree, e.key, current, e)
             moved == Displaced(st, e)
             next == [rows |-> [st.rows EXCEPT ![e.key] = e], order |-> order, tree |-> tree,
                      displaced |-> moved]
  <2>1. Upsert(st, e) = next
    BY <1>3 DEF Upsert
  <2>2. IsIndex(tree, Retained(next.rows))
    BY <1>1, EntitiesAre, UpsertedIsIndex DEF IsEntities
  <2>3. /\ next.rows \in [Keys -> Exchanges \cup {Absent}]
        /\ next.rows[e.key] = e /\ \A k \in Keys \ {e.key} : next.rows[k] = st.rows[k]
    BY <1>1 DEF IsEntities
  <2>4. RowKeys(next.rows) = RowKeys(st.rows) \cup {e.key}
    BY <1>1, <2>3 DEF RowKeys
  <2>5. /\ Listing!Lists(order, RowKeys(next.rows))
        /\ moved = {} => Ascends(order, next.rows)
    <3> PICK rs : rs = next.rows
      OBVIOUS
    <3>0. rs[e.key] = e /\ \A k \in Keys \ {e.key} : rs[k] = st.rows[k]
      BY <2>3
    <3>1. CASE current # Absent
      <4>1. RowKeys(st.rows) \cup {e.key} = RowKeys(st.rows)
        BY <1>1, <3>1 DEF RowKeys
      <4>2. order = st.order
        BY <3>1
      <4>3. Listing!Lists(st.order, RowKeys(st.rows))
        BY DEF IsEntities
      <4>4. ASSUME moved = {} PROVE Ascends(st.order, rs)
        <5>1. current \in Exchanges /\ current.key = e.key
          BY <1>1, <3>1 DEF IsEntities, RowKeys
        <5>2. current.arrival = e.arrival
          BY <3>1, <4>4 DEF Displaced
        <5>3. \A k \in RowKeys(st.rows) : rs[k].arrival = st.rows[k].arrival /\ rs[k].key = st.rows[k].key
          BY <3>0, <5>1, <5>2 DEF RowKeys
        <5>4. Ascends(st.order, st.rows)
          BY <4>4 DEF IsEntities, Displaced
        <5> PICK listed : listed = st.order
          OBVIOUS
        <5> PICK old : old = st.rows
          OBVIOUS
        <5> PICK S : S = RowKeys(old)
          OBVIOUS
        <5>5. Listing!Lists(listed, S) /\ Ascends(listed, old)
          BY <4>3, <5>4
        <5>6. ArriveAlike(S, old, rs)
          BY <5>3 DEF ArriveAlike
        <5>7. Ascends(listed, rs)
          BY <5>5, <5>6, OrderIsByArrival
        <5> QED
          BY <5>7
      <4> HIDE DEF next, order, current, moved
      <4> QED
        BY <2>4, <4>1, <4>2, <4>3, <4>4
    <3>2. CASE current = Absent
      <4>1. e.key \notin RowKeys(st.rows)
        BY <3>2 DEF RowKeys
      <4>2. \A k \in RowKeys(st.rows) : rs[k] = st.rows[k]
        BY <3>0, <4>1 DEF RowKeys
      <4>3. order = InsertArrival(st, e) /\ moved = st.displaced
        BY <3>2 DEF Displaced
      <4> HIDE DEF next, order, current, moved
      <4> QED
        BY <2>4, <3>0, <4>1, <4>2, <4>3, InsertArrivalIs
    <3> QED
      BY <3>1, <3>2
  <2>6. /\ next = [rows |-> next.rows, order |-> next.order, tree |-> next.tree,
                    displaced |-> next.displaced]
        /\ next.order = order /\ next.tree = tree /\ next.displaced = moved
    OBVIOUS
  <2>10. moved \subseteq Keys
    BY <1>1 DEF Displaced, IsEntities
  <2> HIDE DEF next, order, tree, moved
  <2>7. \A k \in RowKeys(next.rows) : next.rows[k].key = k
    BY <2>3 DEF IsEntities, RowKeys
  <2>8. IsEntities(next)
    BY <2>2, <2>3, <2>5, <2>6, <2>7, <2>10 DEF IsEntities
  <2>9. e # current
    BY <1>1, <1>3
  <2> QED
    BY <2>1, <2>3, <2>4, <2>8, <2>9
<1> QED
  BY <1>2, <1>3

LEMMA RemoveIs ==
  ASSUME NEW st, IsEntities(st), NEW k \in Keys
  PROVE  /\ IsEntities(RemoveExchange(st, k))
         /\ \A other \in Keys \ {k} : RemoveExchange(st, k).rows[other] = st.rows[other]
         /\ RemoveExchange(st, k) = st \/ RemoveExchange(st, k).rows[k] # st.rows[k]
<1>1. CASE st.rows[k] = Absent
  BY <1>1 DEF RemoveExchange
<1>2. CASE st.rows[k] # Absent
  <2> DEFINE order == Listing!Kept(st.order, Keys \ {k})
             tree == RemoveStructureSummary(st.tree, k, st.rows[k])
             next == [rows |-> [st.rows EXCEPT ![k] = Absent], order |-> order, tree |-> tree,
                      displaced |-> st.displaced]
  <2>1. RemoveExchange(st, k) = next
    BY <1>2 DEF RemoveExchange
  <2>2. IsIndex(tree, Retained(next.rows))
    <3> PICK rs : rs = next.rows
      OBVIOUS
    <3>1. rs = [st.rows EXCEPT ![k] = Absent] /\ k \in RowKeys(st.rows)
      BY <1>2 DEF RowKeys
    <3>2. /\ IsPart(Retained(rs)) /\ k \notin DOMAIN Retained(rs)
          /\ Retained(st.rows) = With(Retained(rs), k, st.rows[k]) /\ st.rows[k] \in Exchanges
      BY <3>1, EntitiesAre, RowsWithout DEF IsEntities
    <3>3. IsIndex(st.tree, With(Retained(rs), k, st.rows[k]))
      BY <3>2 DEF IsEntities
    <3>4. IsIndex(RemoveStructureSummary(st.tree, k, st.rows[k]), Retained(rs))
      BY <3>2, <3>3, RemovalIs
    <3> QED
      BY <3>4
  <2>3. /\ next.rows \in [Keys -> Exchanges \cup {Absent}]
        /\ next.rows[k] = Absent /\ \A other \in Keys \ {k} : next.rows[other] = st.rows[other]
    BY DEF IsEntities
  <2>4. RowKeys(next.rows) = RowKeys(st.rows) \cap (Keys \ {k})
    BY <2>3 DEF RowKeys
  <2>5. Listing!Lists(order, RowKeys(next.rows))
    BY <2>4, Listing!KeptLists DEF IsEntities
  <2>9. st.displaced = {} => Ascends(order, next.rows)
    <3> SUFFICES ASSUME st.displaced = {} PROVE Ascends(order, next.rows)
      OBVIOUS
    <3> PICK rs : rs = next.rows
      OBVIOUS
    <3> PICK T : T = Keys \ {k}
      OBVIOUS
    <3> PICK S : S = RowKeys(st.rows) \cap T
      OBVIOUS
    <3>1. Listing!Lists(st.order, RowKeys(st.rows)) /\ Ascends(st.order, st.rows)
      BY DEF IsEntities
    <3>2. Ascends(Listing!Kept(st.order, T), st.rows) /\ Listing!Lists(Listing!Kept(st.order, T), S)
      BY <3>1, KeptAscends, Listing!KeptLists
    <3> PICK kept : kept = Listing!Kept(st.order, T)
      OBVIOUS
    <3> PICK old : old = st.rows
      OBVIOUS
    <3>3. Listing!Lists(kept, S) /\ Ascends(kept, old)
      BY <3>2
    <3>4. ArriveAlike(S, old, rs)
      BY <2>3 DEF RowKeys, ArriveAlike
    <3>5. Ascends(kept, rs)
      BY <3>3, <3>4, OrderIsByArrival
    <3>6. order = kept /\ next.rows = rs
      OBVIOUS
    <3> QED
      BY <3>5, <3>6
  <2>6. /\ next = [rows |-> next.rows, order |-> next.order, tree |-> next.tree,
                    displaced |-> next.displaced]
        /\ next.order = order /\ next.tree = tree /\ next.displaced = st.displaced
    OBVIOUS
  <2>10. st.displaced \subseteq Keys
    BY DEF IsEntities
  <2> HIDE DEF next, order, tree
  <2>7. \A other \in RowKeys(next.rows) : next.rows[other].key = other
    BY <2>3 DEF IsEntities, RowKeys
  <2>8. IsEntities(next)
    BY <2>2, <2>3, <2>5, <2>6, <2>7, <2>9, <2>10 DEF IsEntities
  <2> QED
    BY <1>2, <2>1, <2>3, <2>8
<1> QED
  BY <1>1, <1>2

LEMMA SnapshotIs ==
  ASSUME NEW exchanges \in Seq(Exchanges)
  PROVE  /\ IsEntities(FromSnapshot(exchanges))
         /\ \A n \in 1 .. Len(exchanges) : exchanges[n].key \in RowKeys(FromSnapshot(exchanges).rows)
<1>1. PICK f : /\ f[0] = EmptyEntities
               /\ \A n \in 1 .. Len(exchanges) : f[n] = Upsert(f[n - 1], exchanges[n])
               /\ FromSnapshot(exchanges) = f[Len(exchanges)]
  BY Upserting!FoldHasStates DEF FromSnapshot
<1> DEFINE S == {n \in Nat : /\ IsEntities(f[n])
                             /\ \A i \in 1 .. n : exchanges[i].key \in RowKeys(f[n].rows)}
<1>2. 0 \in S
  BY <1>1, EmptyIsEntities
<1>3. \A n \in 1 .. Len(exchanges) : n - 1 \in S => n \in S
  <2> SUFFICES ASSUME NEW n \in 1 .. Len(exchanges), n - 1 \in S
               PROVE  n \in S
    OBVIOUS
  <2>1. exchanges[n] \in Exchanges /\ f[n] = Upsert(f[n - 1], exchanges[n])
    BY <1>1
  <2>2. IsEntities(f[n - 1]) /\ \A i \in 1 .. n - 1 : exchanges[i].key \in RowKeys(f[n - 1].rows)
    OBVIOUS
  <2>3. /\ IsEntities(f[n]) /\ exchanges[n].key \in RowKeys(f[n].rows)
        /\ \A k \in Keys \ {exchanges[n].key} : f[n].rows[k] = f[n - 1].rows[k]
    <3> DEFINE st == f[n - 1]
               e == exchanges[n]
    <3>1. IsEntities(st) /\ e \in Exchanges /\ f[n] = Upsert(st, e)
      BY <2>1, <2>2
    <3> HIDE DEF st, e, S
    <3>2. /\ IsEntities(f[n]) /\ e.key \in RowKeys(f[n].rows)
          /\ \A k \in Keys \ {e.key} : f[n].rows[k] = st.rows[k]
      BY <3>1, UpsertIs
    <3> QED
      BY <3>2 DEF st, e
  <2>4. \A i \in 1 .. n - 1 : exchanges[i].key \in RowKeys(f[n].rows)
    BY <2>2, <2>3 DEF RowKeys
  <2>5. \A i \in 1 .. n : i = n \/ i \in 1 .. n - 1
    OBVIOUS
  <2> QED
    BY <2>3, <2>4, <2>5
<1>4. \A n \in 0 .. Len(exchanges) : n \in S
  <2>1. Len(exchanges) \in Nat
    OBVIOUS
  <2> HIDE DEF S
  <2> QED
    BY <1>2, <1>3, <2>1, Upserting!UpwardInduction
<1> QED
  BY <1>1, <1>4

IsChange(delta) == delta.kind \in {"upsert", "remove"}

LEMMA DeltaFields ==
  ASSUME NEW delta \in Deltas
  PROVE  /\ delta.kind \in {"upsert", "remove", "reset", "status"}
         /\ delta.kind = "upsert" => delta.exchange \in Exchanges /\ delta.key = delta.exchange.key
         /\ IsChange(delta) => delta.key \in Keys
         /\ delta.kind = "reset" => delta.exchanges \in Seq(Exchanges)
BY DEF Deltas, Keys, IsChange

(* One delta for an exchange at most, and no reset unless there may be one. *)
IsCoalesced(deltas, resets) ==
  /\ deltas \in Seq(Deltas)
  /\ \A i, j \in 1 .. Len(deltas) :
       i # j /\ IsChange(deltas[i]) /\ IsChange(deltas[j]) => deltas[i].key # deltas[j].key
  /\ ~resets => \A i \in 1 .. Len(deltas) : deltas[i].kind # "reset"

LEMMA NothingIsCoalesced ==
  ASSUME NEW resets
  PROVE  IsCoalesced(<<>>, resets)
<1>1. <<>> \in Seq(Deltas) /\ 1 .. Len(<<>>) = {}
  OBVIOUS
<1> QED
  BY <1>1, Zenon DEF IsCoalesced

LEMMA AddDeltaIs ==
  ASSUME NEW result, NEW resets, IsCoalesced(result, resets), NEW delta \in Deltas,
         delta.kind = "reset" => resets
  PROVE  IsCoalesced(AddDelta(result, delta), resets)
<1> DEFINE at == SelectInSeq(result, LAMBDA other : SameSubject(delta, other))
           I == {i \in 1 .. Len(result) : SameSubject(delta, result[i])}
<1>1. at = IF I # {} THEN Min(I) ELSE 0
  BY DEF SelectInSeq
<1>2. \/ at = 0 /\ \A i \in 1 .. Len(result) : ~SameSubject(delta, result[i])
      \/ at \in 1 .. Len(result) /\ SameSubject(delta, result[at])
  <2>1. I \in SUBSET Nat /\ \A i \in I : i \in 1 .. Len(result) /\ i # 0 /\ SameSubject(delta, result[i])
    OBVIOUS
  <2>2. I = {} => \A i \in 1 .. Len(result) : ~SameSubject(delta, result[i])
    OBVIOUS
  <2> HIDE DEF I, at
  <2> QED
    BY <1>1, <2>1, <2>2, LeastIsMember
<1>3. AddDelta(result, delta) =
        IF delta.kind = "reset" THEN <<delta>>
        ELSE IF at = 0 THEN Append(result, delta) ELSE [result EXCEPT ![at] = delta]
  BY DEF AddDelta
<1> HIDE DEF at
<1>4. CASE delta.kind = "reset"
  BY <1>3, <1>4 DEF IsCoalesced, IsChange
<1>5. CASE delta.kind # "reset" /\ at = 0
  <2>1. AddDelta(result, delta) = Append(result, delta)
    BY <1>3, <1>5
  <2>2. \A i \in 1 .. Len(result) : IsChange(delta) /\ IsChange(result[i]) => result[i].key # delta.key
    BY <1>2, <1>5, DeltaFields DEF SameSubject, IsChange
  <2> QED
    BY <1>5, <2>1, <2>2 DEF IsCoalesced
<1>6. CASE delta.kind # "reset" /\ at # 0
  <2>1. AddDelta(result, delta) = [result EXCEPT ![at] = delta]
    BY <1>3, <1>6
  <2>2. at \in 1 .. Len(result)
    BY <1>2, <1>6
  <2>3. IsChange(delta) => IsChange(result[at]) /\ result[at].key = delta.key
    BY <1>2, <1>6, DeltaFields DEF SameSubject, IsChange
  <2> DEFINE next == [result EXCEPT ![at] = delta]
  <2>4. /\ next \in Seq(Deltas) /\ Len(next) = Len(result)
        /\ \A i \in 1 .. Len(result) : next[i] = IF i = at THEN delta ELSE result[i]
    BY <2>2 DEF IsCoalesced
  <2> HIDE DEF next
  <2> QED
    BY <1>6, <2>1, <2>3, <2>4 DEF IsCoalesced, next
<1> QED
  BY <1>4, <1>5, <1>6

HasReset(deltas) == \E n \in DOMAIN deltas : deltas[n].kind = "reset"

LEMMA CoalesceIs ==
  ASSUME NEW deltas \in Seq(Deltas)
  PROVE  IsCoalesced(Coalesce(deltas), HasReset(deltas))
<1>1. PICK f : /\ f[0] = <<>>
               /\ \A n \in 1 .. Len(deltas) : f[n] = AddDelta(f[n - 1], deltas[n])
               /\ Coalesce(deltas) = f[Len(deltas)]
  BY Adding!FoldHasStates DEF Coalesce
<1> DEFINE S == {n \in Nat : IsCoalesced(f[n], HasReset(deltas))}
<1>2. 0 \in S
  BY <1>1, NothingIsCoalesced
<1>3. \A n \in 1 .. Len(deltas) : n - 1 \in S => n \in S
  <2> SUFFICES ASSUME NEW n \in 1 .. Len(deltas), n - 1 \in S
               PROVE  n \in S
    OBVIOUS
  <2>1. deltas[n] \in Deltas /\ (deltas[n].kind = "reset" => HasReset(deltas))
    BY DEF HasReset
  <2>2. IsCoalesced(f[n - 1], HasReset(deltas))
    OBVIOUS
  <2> QED
    BY <1>1, <2>1, <2>2, AddDeltaIs
<1>4. \A n \in 0 .. Len(deltas) : n \in S
  <2>1. Len(deltas) \in Nat
    OBVIOUS
  <2> HIDE DEF S
  <2> QED
    BY <1>2, <1>3, <2>1, Adding!UpwardInduction
<1> QED
  BY <1>1, <1>4

LEMMA ReduceDeltaIs ==
  ASSUME NEW st, IsEntities(st), NEW delta \in Deltas
  PROVE  /\ IsEntities(ReduceCaptureDelta(st, delta))
         /\ IsChange(delta) =>
              /\ \A k \in Keys \ {delta.key} : ReduceCaptureDelta(st, delta).rows[k] = st.rows[k]
              /\ \/ ReduceCaptureDelta(st, delta) = st
                 \/ ReduceCaptureDelta(st, delta).rows[delta.key] # st.rows[delta.key]
         /\ delta.kind = "status" => ReduceCaptureDelta(st, delta) = st
<1>1. CASE delta.kind = "reset"
  <2>1. ReduceCaptureDelta(st, delta) = FromSnapshot(delta.exchanges)
    BY <1>1 DEF ReduceCaptureDelta
  <2> QED
    BY <1>1, <2>1, DeltaFields, SnapshotIs DEF IsChange
<1>2. CASE delta.kind = "status"
  <2>1. ReduceCaptureDelta(st, delta) = st
    BY <1>2 DEF ReduceCaptureDelta
  <2> QED
    BY <1>2, <2>1 DEF IsChange
<1>3. CASE delta.kind = "remove"
  <2>1. ReduceCaptureDelta(st, delta) = RemoveExchange(st, delta.key) /\ delta.key \in Keys
    BY <1>3, DeltaFields DEF ReduceCaptureDelta, IsChange
  <2> QED
    BY <1>3, <2>1, RemoveIs
<1>4. CASE delta.kind = "upsert"
  <2>1. ReduceCaptureDelta(st, delta) = Upsert(st, delta.exchange)
    BY <1>4 DEF ReduceCaptureDelta
  <2>2. delta.exchange \in Exchanges /\ delta.key = delta.exchange.key
    BY <1>4, DeltaFields
  <2> QED
    BY <1>4, <2>1, <2>2, UpsertIs
<1> QED
  BY <1>1, <1>2, <1>3, <1>4, DeltaFields

(***************************************************************************)
(* A batch yields entities, and one without a reset that changes no row    *)
(* changes neither order nor tree: since it has one delta for an exchange  *)
(* at most, no row can go and come back.                                   *)
(***************************************************************************)
LEMMA ReduceIs ==
  ASSUME NEW st, IsEntities(st), NEW deltas \in Seq(Deltas)
  PROVE  /\ IsEntities(ReduceCaptureDeltas(st, deltas))
         /\ ~HasReset(deltas) =>
              \/ ReduceCaptureDeltas(st, deltas) = st
              \/ ReduceCaptureDeltas(st, deltas).rows # st.rows
<1> DEFINE r == Coalesce(deltas)
<1>1. IsCoalesced(r, HasReset(deltas))
  BY CoalesceIs
<1> HIDE DEF r
<1>2. r \in Seq(Deltas) /\ Len(r) \in Nat
  BY <1>1 DEF IsCoalesced
<1>3. PICK f : /\ f[0] = st
               /\ \A n \in 1 .. Len(r) : f[n] = ReduceCaptureDelta(f[n - 1], r[n])
               /\ ReduceCaptureDeltas(st, deltas) = f[Len(r)]
  BY <1>2, Reducing!FoldHasStates DEF ReduceCaptureDeltas, r
<1> DEFINE S == {n \in Nat : IsEntities(f[n])}
<1>4. \A n \in 0 .. Len(r) : n \in S
  <2>1. 0 \in S
    BY <1>3
  <2>2. \A n \in 1 .. Len(r) : n - 1 \in S => n \in S
    <3> SUFFICES ASSUME NEW n \in 1 .. Len(r), n - 1 \in S
                 PROVE  n \in S
      OBVIOUS
    <3>1. r[n] \in Deltas /\ IsEntities(f[n - 1]) /\ f[n] = ReduceCaptureDelta(f[n - 1], r[n])
      BY <1>2, <1>3
    <3> QED
      BY <3>1, ReduceDeltaIs
  <2> HIDE DEF S
  <2> QED
    BY <1>2, <2>1, <2>2, Reducing!UpwardInduction
<1>5. ASSUME ~HasReset(deltas)
      PROVE  f[Len(r)] = st \/ f[Len(r)].rows # st.rows
  <2> DEFINE Changed(n) == {r[i].key : i \in {j \in 1 .. n : IsChange(r[j])}}
             T == {n \in Nat : /\ \A k \in Keys \ Changed(n) : f[n].rows[k] = st.rows[k]
                               /\ \/ f[n] = st
                                  \/ \E k \in Keys \cap Changed(n) : f[n].rows[k] # st.rows[k]}
  <2>1. 0 \in T
    BY <1>3
  <2>2. ASSUME NEW n \in 1 .. Len(r), n - 1 \in T
        PROVE  n \in T
    <3>1. /\ r[n] \in Deltas /\ IsEntities(f[n - 1]) /\ f[n] = ReduceCaptureDelta(f[n - 1], r[n])
          /\ r[n].kind # "reset"
      BY <1>1, <1>2, <1>3, <1>4, <1>5 DEF IsCoalesced
    <3>2. CASE IsChange(r[n])
      <4>1. r[n].key \in Keys
        BY <3>1, <3>2, DeltaFields
      <4>2. Changed(n) = Changed(n - 1) \cup {r[n].key}
        <5>1. \A i : i \in 1 .. n <=> i \in 1 .. n - 1 \/ i = n
          OBVIOUS
        <5> QED
          BY <3>2, <5>1
      <4>3. r[n].key \notin Changed(n - 1)
        BY <1>1, <1>2, <3>2 DEF IsCoalesced
      <4>4. /\ \A k \in Keys \ {r[n].key} : f[n].rows[k] = f[n - 1].rows[k]
            /\ f[n] = f[n - 1] \/ f[n].rows[r[n].key] # f[n - 1].rows[r[n].key]
        BY <3>1, <3>2, ReduceDeltaIs
      <4> HIDE DEF Changed
      <4>5. f[n - 1].rows[r[n].key] = st.rows[r[n].key]
        BY <2>2, <4>1, <4>3
      <4>6. \A k \in Keys \ Changed(n) : f[n].rows[k] = st.rows[k]
        BY <2>2, <4>2, <4>4
      <4>7. f[n] = st \/ \E k \in Keys \cap Changed(n) : f[n].rows[k] # st.rows[k]
        BY <2>2, <4>1, <4>2, <4>3, <4>4, <4>5
      <4> QED
        BY <4>6, <4>7
    <3>3. CASE ~IsChange(r[n])
      <4>1. f[n] = f[n - 1]
        BY <3>1, <3>3, DeltaFields, ReduceDeltaIs DEF IsChange
      <4>2. Changed(n) = Changed(n - 1)
        <5>1. \A i : i \in 1 .. n <=> i \in 1 .. n - 1 \/ i = n
          OBVIOUS
        <5> QED
          BY <3>3, <5>1
      <4> HIDE DEF Changed
      <4> QED
        BY <2>2, <4>1, <4>2
    <3> QED
      BY <3>2, <3>3
  <2>3. \A n \in 0 .. Len(r) : n \in T
    <3> HIDE DEF T
    <3> QED
      BY <1>2, <2>1, <2>2, Reducing!UpwardInduction
  <2> QED
    BY <1>2, <2>3
<1> QED
  BY <1>2, <1>3, <1>4, <1>5

---------------------------------------------------------------------------------------
(* The invariant. *)

EntitiesInv == IsEntities(Entities)

(* One thing at most is selected, and a row that is gone is told.           *)
SelectionInv ==
  /\ selectedExchangeId \in Keys \cup {Absent}
  /\ draftSelected \in BOOLEAN /\ selectedExchangeEvicted \in BOOLEAN
  /\ selectedGroupId # Absent => selectedExchangeId = Absent
  /\ draftSelected => selectedExchangeId = Absent /\ selectedGroupId = Absent
  /\ selectedExchangeEvicted => selectedExchangeId # Absent /\ rows[selectedExchangeId] = Absent
  /\ selectedExchangeId # Absent /\ ~blind =>
       (selectedExchangeEvicted <=> rows[selectedExchangeId] = Absent)

HiddenInv ==
  /\ selectedExchangeHidden \in BOOLEAN /\ effectDue \in BOOLEAN
  /\ selectedExchangeHidden => selectedExchangeId # Absent \/ selectedGroupId # Absent
  /\ ~effectDue /\ ~blind => (selectedExchangeHidden <=> IsHidden(Visible, VisibleGroups))

(* Unless a draft was outlived, the replays under way, one at most, are of  *)
(* the draft there is.                                                      *)
DraftInv ==
  /\ draft \in DraftType \cup {Absent} /\ menu \in Exchanges \cup {Absent}
  /\ drafts \in Nat /\ outlived \in BOOLEAN
  /\ draftSelected => draft # Absent
  /\ \A x \in executions : x.draft \in Nat
  /\ ~outlived =>
       /\ \A x \in executions : draft # Absent /\ x.draft = draft.id
       /\ \A x, y \in executions : x = y
       /\ draft # Absent => /\ draft.pending <=> executions # {}
                            /\ draft.latest \in {Absent, draft.id}

NodesInv == expanded \subseteq Groups /\ known \subseteq Groups

SourcingInv ==
  /\ dataSource \in {"live", "imported"} /\ loading \in BOOLEAN
  /\ batches \in 0 .. MaxBatches /\ translating \in 0 .. batches /\ clicks \in 0 .. MaxClicks
  /\ workspaceView \in {"structure", "sequence", "database"}

StoreInv == EntitiesInv /\ SelectionInv /\ HiddenInv /\ DraftInv /\ NodesInv /\ SourcingInv

LEMMA StoreInitInv == StoreInit => StoreInv
<1> SUFFICES ASSUME StoreInit PROVE StoreInv
  OBVIOUS
<1>1. EntitiesInv
  <2>1. Entities = EmptyEntities
    BY DEF StoreInit, Entities, EmptyEntities
  <2> QED
    BY <2>1, EmptyIsEntities DEF EntitiesInv
<1>2. SelectionInv
  BY DEF StoreInit, SelectionInv
<1>3. HiddenInv
  BY DEF StoreInit, HiddenInv
<1>4. DraftInv
  BY DEF StoreInit, DraftInv
<1>5. NodesInv /\ SourcingInv
  BY StoreAssumption DEF StoreInit, NodesInv, SourcingInv
<1> QED
  BY <1>1, <1>2, <1>3, <1>4, <1>5 DEF StoreInv

(* What the views show is retained.                                         *)
LEMMA ShownIsRetained ==
  ASSUME EntitiesInv
  PROVE  /\ rows \in [Keys -> Exchanges \cup {Absent}]
         /\ Visible \subseteq RowKeys(rows)
         /\ VisibleGroups \subseteq DOMAIN structureTree.nodes
         /\ VisibleGroups \subseteq Groups
<1>1. /\ rows \in [Keys -> Exchanges \cup {Absent}] /\ Listing!Lists(arrivalOrder, RowKeys(rows))
      /\ NamesGroups(structureTree)
  BY EntitiesAre DEF EntitiesInv, IsEntities, Entities
<1>2. Visible \subseteq RowKeys(rows)
  BY <1>1 DEF Visible, SelectFilteredExchangeIds, ToSet, Listing!Lists
<1>3. VisibleGroups \subseteq DOMAIN structureTree.nodes
  BY DEF VisibleGroups, GroupIds
<1> QED
  BY <1>1, <1>2, <1>3 DEF NamesGroups

LEMMA ClickableIsShown ==
  ASSUME EntitiesInv, SourcingInv, NEW row \in ClickableRows
  PROVE  \/ row.kind = "exchange" /\ row.id \in Visible
         \/ row.kind = "group" /\ row.id \in VisibleGroups
         \/ row.kind = "draft" /\ draft # Absent
<1>1. CASE workspaceView = "structure"
  <2> DEFINE open == Open
             groups == {id \in VisibleGroups : GroupsOf(Front(id)) \subseteq open}
             leaves == {k \in Visible : \E id \in groups \cap open :
                                          k \in ToSet(structureTree.nodes[id].exchangeIds)}
             draftOf == IF draft = Absent THEN Absent ELSE draft.source
  <2>1. row \in {[kind |-> "group", id |-> id] : id \in groups}
                  \cup {[kind |-> "exchange", id |-> k] : k \in leaves}
                  \cup {[kind |-> "draft", id |-> k] : k \in leaves \cap {draftOf}}
    BY <1>1 DEF ClickableRows, StructureRows, FlattenStructureGroups, VisibleGroups
  <2>2. groups \subseteq VisibleGroups /\ leaves \subseteq Visible
    OBVIOUS
  <2>3. draft = Absent => draftOf \notin leaves
    <3>1. Absent \notin Keys
      BY StoreAssumption DEF Keys
    <3>2. leaves \subseteq Keys
      BY <2>2, ShownIsRetained DEF RowKeys
    <3> QED
      BY <3>1, <3>2
  <2> HIDE DEF groups, leaves, draftOf
  <2> QED
    BY <2>1, <2>2, <2>3
<1>2. CASE workspaceView = "sequence"
  BY <1>2 DEF ClickableRows
<1>3. CASE workspaceView = "database"
  BY <1>3 DEF ClickableRows
<1> QED
  BY <1>1, <1>2, <1>3 DEF SourcingInv

---------------------------------------------------------------------------------------
(* The steps. *)

(* A batch changes neither what is selected nor the draft unless it resets, *)
(* and has the view run its effects if it changes what is shown.            *)
LEMMA ApplyKeepsInv ==
  ASSUME StoreInv, NEW deltas \in Seq(Deltas), ApplyDeltas(deltas), UNCHANGED <<filtering, menu>>
  PROVE  EntitiesInv' /\ SelectionInv' /\ HiddenInv' /\ DraftInv'
<1> PICK next : next = ReduceCaptureDeltas(Entities, deltas)
  OBVIOUS
<1>1. /\ IsEntities(next)
      /\ HasReset(deltas) \/ next = Entities \/ next.rows # rows
  BY ReduceIs DEF StoreInv, EntitiesInv, Entities
<1>2. /\ rows' = next.rows /\ arrivalOrder' = next.order /\ structureTree' = next.tree
      /\ displaced' = next.displaced
  BY DEF ApplyDeltas, Apply, SetEntities
<1>3. EntitiesInv'
  <2>1. Entities' = next
    BY <1>1, <1>2 DEF Entities, IsEntities
  <2> QED
    BY <1>1, <2>1 DEF EntitiesInv
<1>4. rows' \in [Keys -> Exchanges \cup {Absent}] /\ Absent \notin Keys
  BY <1>1, <1>2, StoreAssumption DEF IsEntities, Keys
<1>5. CASE HasReset(deltas)
  <2> DEFINE kept == IF selectedExchangeId # Absent /\ next.rows[selectedExchangeId] # Absent
                     THEN selectedExchangeId ELSE Absent
  <2>1. /\ selectedExchangeId' = kept
        /\ selectedGroupId' = KeptGroup(next, kept)
        /\ selectedExchangeHidden' = FALSE /\ selectedExchangeEvicted' = FALSE
        /\ blind' = FALSE
        /\ ForgetDraft
        /\ effectDue' = TRUE
    BY <1>5 DEF ApplyDeltas, Apply, HasReset
  <2>2. SelectionInv'
    BY <1>2, <2>1 DEF StoreInv, SelectionInv, ForgetDraft, KeptGroup
  <2>3. HiddenInv'
    BY <2>1 DEF HiddenInv
  <2>4. DraftInv'
    BY <2>1 DEF StoreInv, DraftInv, ForgetDraft
  <2> QED
    BY <1>3, <2>2, <2>3, <2>4
<1>6. CASE ~HasReset(deltas)
  <2>1. /\ selectedExchangeEvicted' =
             (selectedExchangeId # Absent /\ ~(next.rows[selectedExchangeId] # Absent))
        /\ effectDue' = (effectDue \/ next.rows # rows)
        /\ UNCHANGED <<selectedExchangeId, selectedGroupId, selectedExchangeHidden,
                       draftSelected, blind, drafting>>
    BY <1>6 DEF ApplyDeltas, Apply, HasReset
  <2>2. SelectionInv'
    BY <1>2, <2>1 DEF StoreInv, SelectionInv
  <2>3. HiddenInv'
    <3>1. next = Entities => UNCHANGED <<Visible, VisibleGroups>>
      <4>1. next = Entities => UNCHANGED <<rows, arrivalOrder, structureTree, captureFilter, focusedGroupId>>
        BY <1>2 DEF Entities, filtering
      <4> QED
        BY <4>1 DEF Visible, VisibleGroups
    <3>2. selectedExchangeHidden' \in BOOLEAN /\ effectDue' \in BOOLEAN
      BY <2>1 DEF StoreInv, HiddenInv
    <3>3. ~effectDue' => ~effectDue /\ next = Entities
      BY <1>1, <1>6, <2>1 DEF StoreInv, HiddenInv
    <3>4. ~effectDue' /\ ~blind' =>
            (selectedExchangeHidden' <=> IsHidden(Visible, VisibleGroups)')
      BY <2>1, <3>1, <3>3 DEF StoreInv, HiddenInv, IsHidden
    <3> QED
      BY <2>1, <3>2, <3>4 DEF StoreInv, HiddenInv
  <2>4. DraftInv'
    BY <2>1 DEF StoreInv, DraftInv, drafting
  <2> QED
    BY <1>3, <2>2, <2>3, <2>4
<1> QED
  BY <1>5, <1>6

(* The first exchange of a snapshot is a row once the snapshot is loaded.   *)
LEMMA ReplaceKeepsInv ==
  ASSUME StoreInv, NEW exchanges \in Seq(Exchanges), ReplaceSnapshot(exchanges), UNCHANGED menu
  PROVE  EntitiesInv' /\ SelectionInv' /\ HiddenInv' /\ DraftInv'
<1> PICK next : next = FromSnapshot(exchanges)
  OBVIOUS
<1>1. /\ IsEntities(next)
      /\ \A n \in 1 .. Len(exchanges) : exchanges[n].key \in RowKeys(next.rows)
  BY SnapshotIs
<1>2. /\ rows' = next.rows /\ arrivalOrder' = next.order /\ structureTree' = next.tree
      /\ displaced' = next.displaced
  BY DEF ReplaceSnapshot, SetEntities
<1>3. EntitiesInv'
  <2>1. Entities' = next
    BY <1>1, <1>2 DEF Entities, IsEntities
  <2> QED
    BY <1>1, <2>1 DEF EntitiesInv
<1>4. selectedExchangeId' \in RowKeys(rows') \cup {Absent}
  <2>1. exchanges # <<>> => 1 \in 1 .. Len(exchanges)
    OBVIOUS
  <2> QED
    BY <1>1, <1>2, <2>1 DEF ReplaceSnapshot
<1>5. SelectionInv'
  BY <1>4 DEF ReplaceSnapshot, SelectionInv, ForgetDraft, RowKeys
<1>6. HiddenInv'
  BY DEF ReplaceSnapshot, HiddenInv
<1>7. DraftInv'
  BY DEF StoreInv, ReplaceSnapshot, DraftInv, ForgetDraft
<1> QED
  BY <1>3, <1>5, <1>6, <1>7

(* A selection other than a blind one is of what is shown.                  *)
LEMMA SelectKeepsInv ==
  ASSUME StoreInv, NEW exchange \in Keys \cup {Absent}, NEW group, NEW isDraft \in BOOLEAN,
         Select(exchange, group, isDraft), UNCHANGED <<entities, filtering>>,
         group # Absent => exchange = Absent, isDraft => exchange = Absent /\ group = Absent,
         effectDue' \in BOOLEAN,
         blind' \/ (exchange \in Visible \cup {Absent} /\ group \in VisibleGroups \cup {Absent})
  PROVE  EntitiesInv' /\ SelectionInv' /\ HiddenInv'
<1>1. UNCHANGED <<rows, arrivalOrder, structureTree, displaced, captureFilter, focusedGroupId>>
  BY DEF entities, filtering
<1>2. EntitiesInv'
  BY <1>1 DEF StoreInv, EntitiesInv, Entities
<1>3. UNCHANGED <<Visible, VisibleGroups>>
  BY <1>1 DEF Visible, VisibleGroups
<1>4. SelectionInv'
  BY <1>1, ShownIsRetained DEF StoreInv, SelectionInv, Select, RowKeys
<1>5. HiddenInv'
  BY <1>3 DEF HiddenInv, IsHidden, Select
<1> QED
  BY <1>2, <1>4, <1>5

(* A step that leaves what a part of the invariant is about keeps it.       *)
LEMMA FramesKeepInv ==
  ASSUME StoreInv
  PROVE  /\ UNCHANGED entities => EntitiesInv'
         /\ UNCHANGED <<entities, selection>> => SelectionInv'
         /\ UNCHANGED <<entities, filtering, selectedExchangeId, selectedGroupId, blind,
                        selectedExchangeHidden>>
              /\ effectDue' \in BOOLEAN /\ (effectDue => effectDue') => HiddenInv'
         /\ UNCHANGED <<drafting, menu, draftSelected>> => DraftInv'
         /\ UNCHANGED nodeState => NodesInv'
         /\ UNCHANGED <<sourcing, clicks, workspaceView>> => SourcingInv'
<1>1. UNCHANGED entities => EntitiesInv'
  BY DEF StoreInv, EntitiesInv, Entities, entities
<1>2. UNCHANGED <<entities, selection>> => SelectionInv'
  BY DEF StoreInv, SelectionInv, entities, selection
<1>3. ASSUME UNCHANGED <<entities, filtering, selectedExchangeId, selectedGroupId, blind,
                         selectedExchangeHidden>>,
             effectDue' \in BOOLEAN, effectDue => effectDue'
      PROVE  HiddenInv'
  <2>1. UNCHANGED <<Visible, VisibleGroups>>
    BY <1>3 DEF Visible, VisibleGroups, entities, filtering
  <2> QED
    BY <1>3, <2>1 DEF StoreInv, HiddenInv, IsHidden
<1>4. UNCHANGED <<drafting, menu, draftSelected>> => DraftInv'
  BY DEF StoreInv, DraftInv, drafting
<1>5. UNCHANGED nodeState => NodesInv'
  BY DEF StoreInv, NodesInv, nodeState
<1>6. UNCHANGED <<sourcing, clicks, workspaceView>> => SourcingInv'
  BY DEF StoreInv, SourcingInv, sourcing
<1> QED
  BY <1>1, <1>2, <1>3, <1>4, <1>5, <1>6

LEMMA ClickKeepsCount ==
  ASSUME StoreInv, Click
  PROVE  clicks' \in 0 .. MaxClicks
BY StoreAssumption DEF StoreInv, SourcingInv, Click

(* The steps of the data source. *)
LEMMA SourceStepsKeepInv ==
  ASSUME StoreInv,
         \/ \E s \in IF dataSource = "live" THEN Snapshots ELSE {<<Imported>>} : LoadSnapshot(s)
         \/ LoadFails \/ Translate \/ ClearImported \/ Import \/ ReturnToLiveCapture
         \/ \E deltas \in Batches : Deliver(deltas)
  PROVE  StoreInv'
<1>1. ASSUME NEW s \in IF dataSource = "live" THEN Snapshots ELSE {<<Imported>>}, LoadSnapshot(s)
      PROVE  StoreInv'
  <2>1. s \in Seq(Exchanges)
    <3>1. Imported \in Exchanges /\ Snapshots \subseteq Seq(Exchanges)
      BY StoreAssumption
    <3>2. <<Imported>> \in Seq(Exchanges)
      BY <3>1
    <3> QED
      BY <3>1, <3>2
  <2>2. EntitiesInv' /\ SelectionInv' /\ HiddenInv' /\ DraftInv'
    BY <1>1, <2>1, ReplaceKeepsInv DEF LoadSnapshot
  <2>3. NodesInv'
    BY <1>1, FramesKeepInv DEF LoadSnapshot
  <2>4. SourcingInv'
    BY <1>1 DEF LoadSnapshot, StoreInv, SourcingInv
  <2> QED
    BY <2>2, <2>3, <2>4 DEF StoreInv
<1>2. CASE LoadFails
  <2>1. <<[kind |-> "status"]>> \in Seq(Deltas)
    BY DEF Deltas
  <2>2. EntitiesInv' /\ SelectionInv' /\ HiddenInv' /\ DraftInv'
    BY <1>2, <2>1, ApplyKeepsInv DEF LoadFails
  <2>3. NodesInv'
    BY <1>2, FramesKeepInv DEF LoadFails
  <2>4. SourcingInv'
    BY <1>2 DEF LoadFails, StoreInv, SourcingInv
  <2> QED
    BY <2>2, <2>3, <2>4 DEF StoreInv
<1>3. CASE Translate
  <2>1. SourcingInv'
    BY <1>3, StoreAssumption DEF Translate, StoreInv, SourcingInv
  <2>2. UNCHANGED <<entities, selection, filtering, nodeState, drafting, menu, effectDue>>
    BY <1>3 DEF Translate
  <2>3. EntitiesInv' /\ SelectionInv' /\ HiddenInv' /\ DraftInv' /\ NodesInv'
    BY <2>2, FramesKeepInv DEF selection, StoreInv, HiddenInv
  <2> QED
    BY <2>1, <2>3 DEF StoreInv
<1>4. CASE ClearImported
  <2>1. <<[kind |-> "reset", exchanges |-> <<>>]>> \in Seq(Deltas)
    <3>1. <<>> \in Seq(Exchanges)
      OBVIOUS
    <3> QED
      BY <3>1 DEF Deltas
  <2>2. EntitiesInv' /\ SelectionInv' /\ HiddenInv' /\ DraftInv'
    BY <1>4, <2>1, ApplyKeepsInv DEF ClearImported
  <2>3. NodesInv'
    BY <1>4, FramesKeepInv DEF ClearImported
  <2>4. SourcingInv'
    BY <1>4, ClickKeepsCount DEF ClearImported, sourcing, StoreInv, SourcingInv
  <2> QED
    BY <2>2, <2>3, <2>4 DEF StoreInv
<1>5. CASE Import \/ ReturnToLiveCapture
  <2>1. SourcingInv'
    BY <1>5, ClickKeepsCount DEF Import, ReturnToLiveCapture, StoreInv, SourcingInv
  <2>2. UNCHANGED <<entities, selection, filtering, nodeState, drafting, menu, effectDue>>
    BY <1>5 DEF Import, ReturnToLiveCapture
  <2>3. EntitiesInv' /\ SelectionInv' /\ HiddenInv' /\ DraftInv' /\ NodesInv'
    BY <2>2, FramesKeepInv DEF selection, StoreInv, HiddenInv
  <2> QED
    BY <2>1, <2>3 DEF StoreInv
<1>6. ASSUME NEW deltas \in Batches, Deliver(deltas)
      PROVE  StoreInv'
  <2>1. deltas \in Seq(Deltas)
    BY StoreAssumption
  <2>2. EntitiesInv' /\ SelectionInv' /\ HiddenInv' /\ DraftInv'
    BY <1>6, <2>1, ApplyKeepsInv DEF Deliver
  <2>3. NodesInv'
    BY <1>6, FramesKeepInv DEF Deliver
  <2>4. SourcingInv'
    BY <1>6 DEF Deliver, StoreInv, SourcingInv
  <2> QED
    BY <2>2, <2>3, <2>4 DEF StoreInv
<1> QED
  BY <1>1, <1>2, <1>3, <1>4, <1>5, <1>6

(* The steps of the user that leave the draft alone, and the view's.        *)
LEMMA ViewStepsKeepInv ==
  ASSUME StoreInv,
         \/ RunViewEffects \/ ClearSelection \/ ToggleFocused \/ CloseMenu
         \/ \E row \in ClickableRows : SelectRow(row) \/ ToggleStructureNode(row) \/ OpenRecomposeMenu(row)
         \/ \E view \in {"structure", "sequence", "database"} : SetWorkspaceView(view)
         \/ \E tokens \in Filters : SetFilterInput(tokens)
  PROVE  StoreInv'
<1> USE DEF StoreInv
<1>0. effectDue \in BOOLEAN
  BY DEF HiddenInv
<1>1. CASE RunViewEffects
  <2>1. EntitiesInv' /\ DraftInv' /\ SourcingInv'
    BY <1>1, FramesKeepInv DEF RunViewEffects
  <2>2. SelectionInv'
    BY <1>1 DEF RunViewEffects, SelectionInv, entities
  <2>3. HiddenInv'
    <3>1. UNCHANGED <<Visible, VisibleGroups>>
      BY <1>1 DEF RunViewEffects, Visible, VisibleGroups, entities, filtering
    <3> QED
      BY <1>1, <3>1 DEF RunViewEffects, HiddenInv, IsHidden
  <2>4. NodesInv'
    BY <1>1, ShownIsRetained DEF RunViewEffects, NodesInv, nodeState
  <2> QED
    BY <2>1, <2>2, <2>3, <2>4
<1>2. CASE ClearSelection
  <2>1. NodesInv'
    BY <1>2, FramesKeepInv DEF ClearSelection
  <2>2. EntitiesInv' /\ SelectionInv' /\ HiddenInv'
    BY <1>0, <1>2, SelectKeepsInv DEF ClearSelection
  <2>3. DraftInv'
    BY <1>2 DEF ClearSelection, DraftInv, Select, drafting
  <2>4. SourcingInv'
    BY <1>2, ClickKeepsCount DEF ClearSelection, SourcingInv, sourcing
  <2> QED
    BY <2>1, <2>2, <2>3, <2>4
<1>3. CASE ToggleFocused
  <2>1. EntitiesInv' /\ SelectionInv' /\ DraftInv' /\ NodesInv'
    BY <1>3, FramesKeepInv DEF ToggleFocused, selection
  <2>2. HiddenInv'
    BY <1>3 DEF ToggleFocused, HiddenInv, selection
  <2>3. SourcingInv'
    BY <1>3, ClickKeepsCount DEF ToggleFocused, SourcingInv, sourcing
  <2> QED
    BY <2>1, <2>2, <2>3
<1>4. CASE CloseMenu
  <2>1. EntitiesInv' /\ SelectionInv' /\ HiddenInv' /\ NodesInv' /\ SourcingInv'
    BY <1>0, <1>4, FramesKeepInv DEF CloseMenu, selection
  <2>2. DraftInv'
    BY <1>4 DEF CloseMenu, DraftInv, drafting, selection
  <2> QED
    BY <2>1, <2>2
<1>5. ASSUME NEW row \in ClickableRows, SelectRow(row)
      PROVE  StoreInv'
  <2>1. NodesInv'
    BY <1>5, FramesKeepInv DEF SelectRow
  <2>2. SourcingInv'
    BY <1>5, ClickKeepsCount DEF SelectRow, SourcingInv, sourcing
  <2>3. UNCHANGED <<entities, filtering, drafting, menu, effectDue>> /\ blind' = FALSE
    BY <1>5 DEF SelectRow
  <2>4. CASE row.kind = "exchange" /\ row.id \in Visible
    <3>1. Select(row.id, Absent, FALSE) /\ row.id \in Keys
      BY <1>5, <2>4, ShownIsRetained DEF SelectRow, RowKeys
    <3>2. EntitiesInv' /\ SelectionInv' /\ HiddenInv'
      BY <1>0, <2>3, <2>4, <3>1, SelectKeepsInv
    <3>3. DraftInv'
      BY <2>3, <3>1 DEF DraftInv, Select, drafting
    <3> QED
      BY <2>1, <2>2, <3>2, <3>3
  <2>5. CASE row.kind = "group" /\ row.id \in VisibleGroups
    <3>1. Select(Absent, row.id, FALSE)
      BY <1>5, <2>5 DEF SelectRow
    <3>2. EntitiesInv' /\ SelectionInv' /\ HiddenInv'
      BY <1>0, <2>3, <2>5, <3>1, SelectKeepsInv
    <3>3. DraftInv'
      BY <2>3, <3>1 DEF DraftInv, Select, drafting
    <3> QED
      BY <2>1, <2>2, <3>2, <3>3
  <2>6. CASE row.kind = "draft" /\ draft # Absent
    <3>1. Select(Absent, Absent, TRUE)
      BY <1>5, <2>6 DEF SelectRow
    <3>2. EntitiesInv' /\ SelectionInv' /\ HiddenInv'
      BY <1>0, <2>3, <3>1, SelectKeepsInv
    <3>3. DraftInv'
      BY <2>3, <2>6, <3>1 DEF DraftInv, Select, drafting
    <3> QED
      BY <2>1, <2>2, <3>2, <3>3
  <2> QED
    BY <2>4, <2>5, <2>6, ClickableIsShown
<1>6. ASSUME NEW row \in ClickableRows, ToggleStructureNode(row)
      PROVE  StoreInv'
  <2>1. row.id \in Groups
    BY <1>6, ClickableIsShown, ShownIsRetained DEF ToggleStructureNode
  <2>2. NodesInv'
    BY <1>6, <2>1 DEF ToggleStructureNode, NodesInv
  <2>3. SourcingInv'
    BY <1>6, ClickKeepsCount DEF ToggleStructureNode, SourcingInv, sourcing
  <2>4. EntitiesInv' /\ SelectionInv' /\ HiddenInv' /\ DraftInv'
    BY <1>0, <1>6, FramesKeepInv DEF ToggleStructureNode, selection
  <2> QED
    BY <2>2, <2>3, <2>4
<1>7. ASSUME NEW row \in ClickableRows, OpenRecomposeMenu(row)
      PROVE  StoreInv'
  <2>1. row.id \in Visible /\ row.id \in Keys /\ rows[row.id] \in Exchanges \cup {Absent}
    BY <1>7, ClickableIsShown, ShownIsRetained DEF OpenRecomposeMenu, RowKeys
  <2>2. NodesInv'
    BY <1>7, FramesKeepInv DEF OpenRecomposeMenu
  <2>3. SourcingInv'
    BY <1>7, ClickKeepsCount DEF OpenRecomposeMenu, SourcingInv, sourcing
  <2>4. EntitiesInv' /\ SelectionInv' /\ HiddenInv'
    BY <1>0, <1>7, <2>1, SelectKeepsInv DEF OpenRecomposeMenu
  <2>5. DraftInv'
    BY <1>7, <2>1 DEF OpenRecomposeMenu, DraftInv, Select, drafting
  <2> QED
    BY <2>2, <2>3, <2>4, <2>5
<1>8. ASSUME NEW view \in {"structure", "sequence", "database"}, SetWorkspaceView(view)
      PROVE  StoreInv'
  <2>1. EntitiesInv' /\ SelectionInv' /\ DraftInv' /\ NodesInv' /\ HiddenInv'
    BY <1>8, FramesKeepInv DEF SetWorkspaceView, selection
  <2>2. SourcingInv'
    BY <1>8, ClickKeepsCount DEF SetWorkspaceView, SourcingInv, sourcing
  <2> QED
    BY <2>1, <2>2
<1>9. ASSUME NEW tokens \in Filters, SetFilterInput(tokens)
      PROVE  StoreInv'
  <2>1. EntitiesInv' /\ SelectionInv' /\ DraftInv' /\ NodesInv'
    BY <1>9, FramesKeepInv DEF SetFilterInput, selection
  <2>2. SourcingInv'
    BY <1>9, ClickKeepsCount DEF SetFilterInput, SourcingInv, sourcing
  <2>3. HiddenInv'
    <3>1. CASE ParseCaptureFilter(tokens).error
      <4>1. UNCHANGED <<entities, filtering, selection>> /\ effectDue' \in BOOLEAN /\ (effectDue => effectDue')
        BY <1>0, <1>9, <3>1 DEF SetFilterInput, filtering
      <4> QED
        BY <4>1, FramesKeepInv DEF selection
    <3>2. CASE ~ParseCaptureFilter(tokens).error
      <4>1. effectDue' = TRUE /\ UNCHANGED selection
        BY <1>0, <1>9, <3>2 DEF SetFilterInput
      <4> QED
        BY <4>1 DEF HiddenInv, selection
    <3> QED
      BY <3>1, <3>2
  <2> QED
    BY <2>1, <2>2, <2>3
<1> QED
  BY <1>1, <1>2, <1>3, <1>4, <1>5, <1>6, <1>7, <1>8, <1>9

(* The steps of the draft. *)
LEMMA DraftStepsKeepInv ==
  ASSUME StoreInv,
         \/ Recompose \/ Execute \/ RevertDraft \/ CancelDraft \/ OpenLatestExecution
         \/ \E dirty \in BOOLEAN : EditDraft(dirty)
         \/ \E x \in executions : CompleteExecution(x) \/ FailExecution(x)
  PROVE  StoreInv'
<1> USE DEF StoreInv
<1>0. effectDue \in BOOLEAN
  BY DEF HiddenInv
<1>1. Editing => draft \in DraftType
  BY DEF Editing, Inspected, DraftInv
<1>2. ASSUME NEW e, e.key \in Keys
      PROVE  NewDraft(e) \in DraftType
  BY <1>2 DEF NewDraft, DraftType, DraftInv
<1>3. ReplayKey \in Keys
  BY DEF Keys
<1>4. CASE Recompose
  <2> DEFINE kept == draft # Absent /\ (draft.dirty \/ draft.hasExecuted)
  <2>1. NodesInv'
    BY <1>4, FramesKeepInv DEF Recompose
  <2>2. SourcingInv'
    BY <1>4 DEF Recompose, SourcingInv, sourcing
  <2>3. EntitiesInv' /\ SelectionInv' /\ HiddenInv'
    BY <1>0, <1>4, SelectKeepsInv DEF Recompose
  <2>4. DraftInv'
    <3>1. menu \in Exchanges /\ menu.key \in Keys /\ menu' = Absent
      BY <1>4 DEF Recompose, DraftInv, Keys
    <3>2. NewDraft(menu) \in DraftType /\ Absent \notin DraftType
      BY <1>2, <3>1, StoreAssumption
    <3>3. UNCHANGED executions
      BY <1>4 DEF Recompose
    <3>4. CASE kept
      <4>1. UNCHANGED <<draft, drafts>> /\ outlived' = outlived
        BY <1>4, <3>4 DEF Recompose, DraftInv
      <4> QED
        BY <3>1, <3>3, <3>4, <4>1 DEF DraftInv
    <3>5. CASE ~kept
      <4>1. draft' = NewDraft(menu) /\ drafts' = drafts + 1 /\ outlived' = (outlived \/ executions # {})
        BY <1>4, <3>5 DEF Recompose
      <4>2. ~NewDraft(menu).pending /\ NewDraft(menu).latest = Absent
        BY DEF NewDraft
      <4>3. ~outlived' => executions' = {}
        BY <3>3, <4>1
      <4>4. drafts' \in Nat /\ outlived' \in BOOLEAN /\ draft' \in DraftType /\ draft' # Absent
        BY <3>2, <4>1 DEF DraftInv
      <4> QED
        BY <3>1, <3>3, <4>1, <4>2, <4>3, <4>4 DEF DraftInv
    <3> QED
      BY <3>4, <3>5
  <2> QED
    BY <2>1, <2>2, <2>3, <2>4
<1>5. CASE Execute
  <2>1. EntitiesInv' /\ SelectionInv' /\ HiddenInv' /\ NodesInv'
    BY <1>0, <1>5, FramesKeepInv DEF Execute, selection
  <2>2. SourcingInv'
    BY <1>5, ClickKeepsCount DEF Execute, Editing, SourcingInv, sourcing
  <2>3. DraftInv'
    <3>1. PICK x : x = [draft |-> draft.id, at |-> clicks, source |-> dataSource]
      OBVIOUS
    <3>2. /\ draft \in DraftType /\ ~draft.pending /\ draft' = [draft EXCEPT !.pending = TRUE]
          /\ executions' = executions \cup {x} /\ UNCHANGED <<drafts, outlived, menu, draftSelected>>
      BY <1>1, <1>5, <3>1 DEF Execute, selection
    <3>3. x.draft = draft.id /\ x.draft \in Nat
      BY <3>1, <3>2 DEF DraftType
    <3>4. /\ draft' \in DraftType /\ draft' # Absent /\ draft'.pending /\ draft'.id = draft.id
          /\ draft'.latest = draft.latest /\ draft # Absent
      BY <3>2, StoreAssumption DEF DraftType
    <3>5. ~outlived => executions = {}
      BY <3>2, <3>4 DEF DraftInv
    <3> QED
      BY <3>2, <3>3, <3>4, <3>5 DEF DraftInv
  <2> QED
    BY <2>1, <2>2, <2>3
<1>6. CASE RevertDraft
  <2>1. EntitiesInv' /\ SelectionInv' /\ HiddenInv' /\ NodesInv'
    BY <1>0, <1>6, FramesKeepInv DEF RevertDraft, selection
  <2>2. SourcingInv'
    BY <1>6, ClickKeepsCount DEF RevertDraft, Editing, SourcingInv, sourcing
  <2>3. DraftInv'
    <3>1. /\ draft \in DraftType /\ draft' = [NewDraft([key |-> draft.source]) EXCEPT !.id = draft.id]
          /\ outlived' = (outlived \/ executions # {})
          /\ UNCHANGED <<drafts, executions, menu, draftSelected>>
      BY <1>1, <1>6 DEF RevertDraft, selection
    <3>2. draft' \in DraftType /\ ~draft'.pending /\ draft'.latest = Absent /\ draft' # Absent
      <4>1. NewDraft([key |-> draft.source]) \in DraftType
        BY <1>2, <3>1 DEF DraftType
      <4> QED
        BY <3>1, <4>1, StoreAssumption DEF DraftType, NewDraft
    <3>3. ~outlived' => executions' = {}
      BY <3>1
    <3>4. outlived' \in BOOLEAN
      BY <3>1 DEF DraftInv
    <3> QED
      BY <3>1, <3>2, <3>3, <3>4 DEF DraftInv
  <2> QED
    BY <2>1, <2>2, <2>3
<1>7. CASE CancelDraft
  <2>1. NodesInv'
    BY <1>7, FramesKeepInv DEF CancelDraft
  <2>2. SourcingInv'
    BY <1>7, ClickKeepsCount DEF CancelDraft, Editing, SourcingInv, sourcing
  <2>3. EntitiesInv' /\ SelectionInv' /\ HiddenInv'
    <3>1. draft.source \in Keys
      BY <1>1, <1>7 DEF CancelDraft, DraftType
    <3> QED
      BY <1>0, <1>7, <3>1, SelectKeepsInv DEF CancelDraft
  <2>4. DraftInv'
    BY <1>7 DEF CancelDraft, DraftInv, Select
  <2> QED
    BY <2>1, <2>2, <2>3, <2>4
<1>8. CASE OpenLatestExecution
  <2>1. NodesInv'
    BY <1>8, FramesKeepInv DEF OpenLatestExecution
  <2>2. SourcingInv'
    BY <1>8, ClickKeepsCount DEF OpenLatestExecution, Editing, SourcingInv, sourcing
  <2>3. EntitiesInv' /\ SelectionInv' /\ HiddenInv'
    BY <1>0, <1>3, <1>8, SelectKeepsInv DEF OpenLatestExecution
  <2>4. DraftInv'
    BY <1>8 DEF OpenLatestExecution, DraftInv, Select, drafting
  <2> QED
    BY <2>1, <2>2, <2>3, <2>4
<1>9. ASSUME NEW dirty \in BOOLEAN, EditDraft(dirty)
      PROVE  StoreInv'
  <2>1. EntitiesInv' /\ SelectionInv' /\ HiddenInv' /\ NodesInv'
    BY <1>0, <1>9, FramesKeepInv DEF EditDraft, selection
  <2>2. SourcingInv'
    BY <1>9, ClickKeepsCount DEF EditDraft, Editing, SourcingInv, sourcing
  <2>3. DraftInv'
    <3>1. /\ draft \in DraftType /\ draft' = [draft EXCEPT !.dirty = dirty]
          /\ UNCHANGED <<executions, drafts, outlived, menu, draftSelected>>
      BY <1>1, <1>9 DEF EditDraft, Edited, selection
    <3>2. /\ draft' \in DraftType /\ draft' # Absent /\ draft # Absent /\ draft'.id = draft.id
          /\ draft'.pending = draft.pending /\ draft'.latest = draft.latest
      BY <3>1, StoreAssumption DEF DraftType
    <3> QED
      BY <3>1, <3>2 DEF DraftInv
  <2> QED
    BY <2>1, <2>2, <2>3
<1>10. ASSUME NEW x \in executions, CompleteExecution(x) \/ FailExecution(x)
       PROVE  StoreInv'
  <2>1. /\ UNCHANGED <<entities, selection, filtering, nodeState, workspaceView, effectDue,
                       drafts, outlived, menu, sourcing, clicks>>
        /\ executions' = executions \ {x}
    BY <1>10 DEF CompleteExecution, FailExecution
  <2>2. EntitiesInv' /\ SelectionInv' /\ HiddenInv' /\ NodesInv' /\ SourcingInv'
    BY <1>0, <2>1, FramesKeepInv DEF selection
  <2>3. DraftInv'
    <3>1. UNCHANGED <<drafts, outlived, menu, draftSelected>> /\ x.draft \in Nat
      BY <2>1 DEF selection, DraftInv
    <3>2. CASE draft = Absent
      <4>1. draft' = Absent
        BY <1>10, <3>2 DEF CompleteExecution, FailExecution
      <4> QED
        BY <2>1, <3>1, <3>2, <4>1 DEF DraftInv
    <3>3. CASE draft # Absent
      <4>1. draft \in DraftType
        BY <3>3 DEF DraftInv
      <4>2. /\ draft' \in DraftType /\ draft' # Absent /\ ~draft'.pending /\ draft'.id = draft.id
            /\ draft'.latest \in {draft.latest, x.draft}
        <5>1. \/ draft' = [draft EXCEPT !.pending = FALSE, !.hasExecuted = TRUE, !.latest = x.draft]
              \/ draft' = [draft EXCEPT !.pending = FALSE]
          BY <1>10, <3>3 DEF CompleteExecution, FailExecution
        <5>2. Absent \notin DraftType
          BY StoreAssumption
        <5>3. CASE draft' = [draft EXCEPT !.pending = FALSE]
          BY <4>1, <5>2, <5>3 DEF DraftType
        <5>4. CASE draft' = [draft EXCEPT !.pending = FALSE, !.hasExecuted = TRUE, !.latest = x.draft]
          BY <3>1, <4>1, <5>2, <5>4 DEF DraftType
        <5> QED
          BY <5>1, <5>3, <5>4
      <4>3. ~outlived => executions' = {} /\ x.draft = draft.id
        BY <2>1 DEF DraftInv
      <4> QED
        BY <2>1, <3>1, <3>3, <4>2, <4>3 DEF DraftInv
    <3> QED
      BY <3>2, <3>3
  <2> QED
    BY <2>2, <2>3
<1> QED
  BY <1>4, <1>5, <1>6, <1>7, <1>8, <1>9, <1>10

LEMMA StoreNextKeepsInv == StoreInv /\ [StoreNext]_storeVars => StoreInv'
<1> SUFFICES ASSUME StoreInv, [StoreNext]_storeVars
             PROVE  StoreInv'
  OBVIOUS
<1>1. CASE StoreNext
  BY <1>1, SourceStepsKeepInv, ViewStepsKeepInv, DraftStepsKeepInv DEF StoreNext
<1>2. CASE UNCHANGED storeVars
  <2>1. UNCHANGED <<entities, selection, filtering, nodeState, workspaceView, effectDue, drafting,
                    menu, sourcing, clicks>>
    BY <1>2 DEF storeVars
  <2>2. effectDue \in BOOLEAN
    BY DEF StoreInv, HiddenInv
  <2> QED
    BY <2>1, <2>2, FramesKeepInv DEF selection, StoreInv
<1> QED
  BY <1>1, <1>2

---------------------------------------------------------------------------------------

(***************************************************************************)
(* Every step of the data source, the views and the user keeps the parts   *)
(* that the four properties below rest on.                                 *)
(***************************************************************************)
THEOREM StoreInvariant == StoreSpec => []StoreInv
<1> QED
  BY StoreInitInv, StoreNextKeepsInv, PTL DEF StoreSpec

(***************************************************************************)
(* For all exchanges, batches, snapshots and filters, the rows are of the  *)
(* exchanges told, each under its own key, and what the views keep about   *)
(* them has its type (captureEntitiesSlice.ts, captureDeltaReducer.ts).    *)
(***************************************************************************)
THEOREM StoreTypeCorrect == StoreSpec => []StoreTypeOK
<1>1. StoreInv => StoreTypeOK
  <2> SUFFICES ASSUME StoreInv PROVE StoreTypeOK
    OBVIOUS
  <2>1. /\ rows \in [Keys -> Exchanges \cup {Absent}] /\ displaced \subseteq Keys
        /\ \A k \in Keys : rows[k] # Absent => rows[k].key = k
    BY DEF StoreInv, EntitiesInv, IsEntities, Entities, RowKeys
  <2>2. /\ selectedExchangeId \in Keys \cup {Absent}
        /\ {selectedExchangeHidden, selectedExchangeEvicted, draftSelected, effectDue, loading} \subseteq BOOLEAN
    BY DEF StoreInv, SelectionInv, HiddenInv, SourcingInv
  <2>3. draft \in DraftType \cup {Absent} /\ menu \in Exchanges \cup {Absent} /\ (draftSelected => draft # Absent)
    BY DEF StoreInv, DraftInv
  <2>4. expanded \cup known \subseteq Seq({e.host : e \in Exchanges} \cup {InvalidUrl} \cup Nat)
    BY DEF StoreInv, NodesInv, Groups
  <2>5. /\ dataSource \in {"live", "imported"}
        /\ translating \in 0 .. batches /\ batches \in 0 .. MaxBatches /\ clicks \in 0 .. MaxClicks
    BY DEF StoreInv, SourcingInv
  <2> QED
    BY <2>1, <2>2, <2>3, <2>4, <2>5 DEF StoreTypeOK
<1> QED
  BY <1>1, StoreInvariant, PTL

(***************************************************************************)
(* Whatever was inserted, moved to other groups, refused as stale, removed *)
(* or reset, in batches applied in any order, the tree maintained change   *)
(* by change is the one computed from the rows, aggregates included, and   *)
(* the order lists every row once, by arrival as long as no row was told a *)
(* new arrival since the rows were last replaced (treeIndex.ts,            *)
(* captureDeltaReducer.ts).                                                *)
(***************************************************************************)
THEOREM TreeCorrect == StoreSpec => []TreeMatchesRows
<1>1. StoreInv => TreeMatchesRows
  <2> SUFFICES ASSUME StoreInv PROVE TreeMatchesRows
    OBVIOUS
  <2> PICK st : st = Entities
    OBVIOUS
  <2>1. /\ IsEntities(st) /\ st.rows = rows /\ st.order = arrivalOrder /\ st.tree = structureTree
        /\ st.displaced = displaced
    BY DEF StoreInv, EntitiesInv, Entities
  <2>2. AgreesWith(structureTree, rows)
    BY <2>1, EntitiesAre, IndexAgrees DEF IsEntities
  <2>3. /\ Listing!Lists(arrivalOrder, RowKeys(rows))
        /\ displaced = {} => Ascends(arrivalOrder, rows)
    BY <2>1 DEF IsEntities
  <2>4. IsInjective(arrivalOrder) /\ ToSet(arrivalOrder) = {k \in Keys : rows[k] # Absent}
    BY <2>3, ListsAreSets DEF ListsOnce, RowKeys
  <2>5. DOMAIN arrivalOrder = 1 .. Len(arrivalOrder)
    BY <2>3 DEF Listing!Lists
  <2> QED
    BY <2>2, <2>3, <2>4, <2>5 DEF TreeMatchesRows, Ascends
<1> QED
  BY <1>1, StoreInvariant, PTL

(***************************************************************************)
(* However deltas, resets, snapshots and clicks follow each other, at most *)
(* one of an exchange, a group and the draft is selected, and a selected   *)
(* exchange whose row is gone is told as evicted                           *)
(* (captureEntitiesSlice.ts, selectionSlice.ts).                           *)
(***************************************************************************)
THEOREM SelectionCorrect == StoreSpec => []OneSelection
<1>1. StoreInv => OneSelection
  <2> SUFFICES ASSUME StoreInv PROVE OneSelection
    OBVIOUS
  <2> DEFINE chosen == {s \in {"exchange", "group", "draft"} :
                          \/ s = "exchange" /\ selectedExchangeId # Absent
                          \/ s = "group" /\ selectedGroupId # Absent
                          \/ s = "draft" /\ draftSelected}
  <2>1. chosen = {} \/ \E s : chosen = {s}
    <3>1. \A s, t \in chosen : s = t
      BY DEF StoreInv, SelectionInv
    <3> HIDE DEF chosen
    <3> QED
      BY <3>1
  <2>2. Cardinality(chosen) <= 1
    <3> HIDE DEF chosen
    <3>1. CASE chosen = {}
      BY <3>1, FS_EmptySet
    <3>2. CASE \E s : chosen = {s}
      BY <3>2, FS_Singleton
    <3> QED
      BY <2>1, <3>1, <3>2
  <2> QED
    BY <2>2 DEF StoreInv, SelectionInv, OneSelection
<1> QED
  BY <1>1, StoreInvariant, PTL

(***************************************************************************)
(* Whatever changed the filter, the focus, the rows or the view since an   *)
(* exchange or group was selected, once the view has run its effects the   *)
(* Inspector's note says whether it is outside the filter                  *)
(* (StructureView.tsx, SequenceView.tsx).                                  *)
(***************************************************************************)
THEOREM HiddenCorrect == StoreSpec => []HiddenIsTold
<1>1. StoreInv => HiddenIsTold
  BY DEF StoreInv, HiddenInv, HiddenIsTold, IsHidden
<1> QED
  BY <1>1, StoreInvariant, PTL

(***************************************************************************)
(* However often a draft is edited, executed, reverted or reopened, it is  *)
(* pending while a replay of it is under way and its latest execution is   *)
(* its own, until a draft goes that was executing (recomposeDraftSlice.ts, *)
(* RecomposeEditor.tsx).                                                   *)
(***************************************************************************)
THEOREM DraftCorrect == StoreSpec => []DraftTellsItsExecutions
<1>1. StoreInv => DraftTellsItsExecutions
  BY DEF StoreInv, DraftInv, DraftTellsItsExecutions
<1> QED
  BY <1>1, StoreInvariant, PTL
=======================================================================================
