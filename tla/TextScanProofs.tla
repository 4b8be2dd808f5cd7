-------------------------------- MODULE TextScanProofs --------------------------------
(***************************************************************************)
(* Proofs about TextScan, for all texts, queries and names: the scanners   *)
(* lose, move and confuse nothing of the captured text.  Each scanner is a *)
(* loop over the places of a text, with an invariant that holds at every   *)
(* place (FoldKeeps of LeftFold).                                          *)
(***************************************************************************)
EXTENDS TextScan, FiniteSetTheorems, SequenceTheorems, TLAPS

ScanSpec == ScanInit /\ [][ScanNext]_scanVars

---------------------------------------------------------------------------------------
(* Class ids. *)

(* A text stays one with any character after it. *)
LEMMA TextGrows ==
  ASSUME NEW s, IsText(s), NEW x
  PROVE  IsText(Append(s, x))
<1> PICK t : t = Append(s, x)
  OBVIOUS
<1> PICK E : E = ToSet(s) \cup {x}
  OBVIOUS
<1>1. s \in Seq(ToSet(s)) /\ ToSet(s) \subseteq E
  BY DEF IsText
<1>2. s \in Seq(E) /\ x \in E
  BY <1>1
<1>3. t \in Seq(E)
  BY <1>2
<1>4. \A i \in 1 .. Len(t) : t[i] \in ToSet(t)
  BY <1>3 DEF ToSet
<1>5. t \in Seq(ToSet(t))
  BY <1>3, <1>4
<1> QED
  BY <1>5 DEF IsText

(* A sequence has finitely many elements. *)
LEMMA ElementsAreFinite ==
  ASSUME NEW E, NEW s \in Seq(E)
  PROVE  IsFiniteSet(ToSet(s))
<1> PICK last \in Nat : last = Len(s)
  OBVIOUS
<1> PICK T : T = ToSet(s)
  OBVIOUS
<1>1. IsFiniteSet(1 .. last)
  BY FS_Interval
<1>2. /\ \A n \in 1 .. last : s[n] \in T
      /\ \A x \in T : \E n \in 1 .. last : s[n] = x
  BY DEF ToSet
<1>3. [n \in 1 .. last |-> s[n]] \in Surjection(1 .. last, T)
  BY <1>2 DEF Surjection
<1> QED
  BY <1>1, <1>3, FS_Surjection

(* Numbers are as many names as there are numbers. *)
LEMMA NumberedNames ==
  ASSUME NEW name \in Names, NEW m \in Nat, NEW n \in Nat
  PROVE  Numbered(name, n) \in Names /\ (Numbered(name, m) = Numbered(name, n) => m = n)
<1> PICK s \in Seq(Nat) : s = name.suffix
  BY DEF Names
<1>1. Numbered(name, m).suffix = Append(s, m) /\ Numbered(name, n).suffix = Append(s, n)
  BY DEF Numbered, Names
<1>2. Append(s, m) = Append(s, n) => m = n
  <2>1. Append(s, m)[Len(s) + 1] = m /\ Append(s, n)[Len(s) + 1] = n
    OBVIOUS
  <2> QED
    BY <2>1
<1>3. Numbered(name, n) \in Names
  <2> PICK t : t = Append(s, n)
    OBVIOUS
  <2>1. t \in Seq(Nat)
    OBVIOUS
  <2>2. Numbered(name, n) = [name EXCEPT !.suffix = t]
    BY DEF Numbered
  <2> QED
    BY <2>1, <2>2 DEF Names
<1> QED
  BY <1>1, <1>2, <1>3

(* The search for a free number ends, at a name that is not used. *)
LEMMA UniqueIsNew ==
  ASSUME NEW used, IsFiniteSet(used), NEW name \in Names
  PROVE  UniqueClassId(name, used) \in Names \ used
<1>1. CASE name \notin used
  BY <1>1 DEF UniqueClassId
<1>2. CASE name \in used
  <2> PICK c \in Nat : c = Cardinality(used)
    BY FS_CardinalityType
  <2> DEFINE Free == {n \in 2 .. 2 + c : Numbered(name, n) \notin used}
             Chosen(n) == /\ Numbered(name, n) \notin used
                          /\ \A m \in 2 .. n - 1 : Numbered(name, m) \in used
  <2>1. Free # {}
    <3> SUFFICES ASSUME Free = {}
                 PROVE  FALSE
      OBVIOUS
    <3> DEFINE f == [n \in 2 .. 2 + c |-> Numbered(name, n)]
    <3>1. f \in [2 .. 2 + c -> used]
      OBVIOUS
    <3>2. IsFiniteSet(2 .. 2 + c) /\ Cardinality(2 .. 2 + c) = c + 1
      <4> PICK last : last = 2 + c
        OBVIOUS
      <4>1. last \in Int /\ 2 \in Int /\ ~(2 > last) /\ last - 2 + 1 = c + 1
        OBVIOUS
      <4> QED
        BY <4>1, FS_Interval
    <3>3. \A g \in [2 .. 2 + c -> used] : \E x, y \in 2 .. 2 + c : x # y /\ g[x] = g[y]
      <4>1. Cardinality(used) < Cardinality(2 .. 2 + c)
        BY <3>2
      <4> QED
        BY <3>2, <4>1, FS_PigeonHole
    <3>4. PICK x \in 2 .. 2 + c, y \in 2 .. 2 + c : x # y /\ f[x] = f[y]
      BY <3>1, <3>3
    <3>5. x \in Nat /\ y \in Nat /\ Numbered(name, x) = Numbered(name, y)
      BY <3>4
    <3> QED
      BY <3>4, <3>5, NumberedNames
  <2>2. PICK n \in Free : \A m \in Free : n <= m
    <3>1. Free \in SUBSET Nat
      OBVIOUS
    <3> HIDE DEF Free
    <3> QED
      BY <2>1, <3>1, Naming!LeastNatural
  <2>3. n \in 2 .. 2 + c /\ Chosen(n)
    <3>1. \A m \in 2 .. n - 1 : m \in 2 .. 2 + c /\ ~(n <= m)
      OBVIOUS
    <3> QED
      BY <2>2, <3>1
  <2> DEFINE k == CHOOSE m \in 2 .. 2 + c : Chosen(m)
  <2>4. k \in 2 .. 2 + c /\ Chosen(k)
    <3> HIDE DEF Chosen
    <3> QED
      BY <2>3
  <2>5. UniqueClassId(name, used) = Numbered(name, k)
    BY <1>2 DEF UniqueClassId
  <2> HIDE DEF k
  <2>6. k \in Nat
    BY <2>4
  <2> QED
    BY <2>4, <2>5, <2>6, NumberedNames
<1> QED
  BY <1>1, <1>2

(* The ids that a diagram may have so far. *)
IdsSoFar == {ids \in Seq(Names) : IsInjective(ids) /\ ToSet(ids) \cap Reserved = {}}

(* Three class ids are taken before the first expansion. *)
LEMMA ReservedIsFinite == IsFiniteSet(Reserved)
<1> PICK a, b, c : /\ a = [stem |-> "REQUEST", suffix |-> <<>>]
                   /\ b = [stem |-> "ALL", suffix |-> <<>>]
                   /\ c = [stem |-> "EXPAND", suffix |-> <<>>]
  OBVIOUS
<1>1. Reserved = (({} \cup {a}) \cup {b}) \cup {c}
  BY DEF Reserved
<1> QED
  BY <1>1, FS_EmptySet, FS_AddElement

(* One more class id is another than those before it. *)
LEMMA AddClassIdKeeps ==
  ASSUME NEW ids \in IdsSoFar, NEW name \in Names
  PROVE  AddClassId(ids, name) \in IdsSoFar
<1> PICK used : used = Reserved \cup ToSet(ids)
  OBVIOUS
<1> PICK id : id = UniqueClassId(name, used)
  OBVIOUS
<1>1. ids \in Seq(Names) /\ IsInjective(ids) /\ ToSet(ids) \cap Reserved = {}
  BY DEF IdsSoFar
<1>2. IsFiniteSet(used)
  BY <1>1, ElementsAreFinite, ReservedIsFinite, FS_Union
<1>3. id \in Names /\ id \notin Reserved /\ id \notin ToSet(ids)
  BY <1>2, UniqueIsNew
<1> PICK next : next = Append(ids, id)
  OBVIOUS
<1> PICK n : n = Len(ids)
  OBVIOUS
<1>4. /\ next \in Seq(Names) /\ DOMAIN next = 1 .. n + 1 /\ n \in Nat /\ DOMAIN ids = 1 .. n
      /\ next[n + 1] = id /\ \A i \in 1 .. n : next[i] = ids[i]
  BY <1>1, <1>3
<1>5. \A i \in 1 .. n : ids[i] # id /\ ids[i] \notin Reserved
  BY <1>1, <1>3, <1>4 DEF ToSet
<1>6. IsInjective(next)
  <2> SUFFICES ASSUME NEW a \in 1 .. n + 1, NEW b \in 1 .. n + 1, next[a] = next[b]
               PROVE  a = b
    BY <1>4 DEF IsInjective
  <2>1. CASE a \in 1 .. n /\ b \in 1 .. n
    BY <1>1, <1>4, <2>1 DEF IsInjective
  <2>2. CASE a = n + 1 /\ b # n + 1
    <3>1. b \in 1 .. n /\ next[a] = id /\ next[b] = ids[b]
      BY <1>4, <2>2
    <3> QED
      BY <1>5, <3>1
  <2>3. CASE b = n + 1 /\ a # n + 1
    <3>1. a \in 1 .. n /\ next[b] = id /\ next[a] = ids[a]
      BY <1>4, <2>3
    <3> QED
      BY <1>5, <3>1
  <2> QED
    BY <1>4, <2>1, <2>2, <2>3
<1>7. ToSet(next) \cap Reserved = {}
  BY <1>3, <1>4, <1>5 DEF ToSet
<1>8. AddClassId(ids, name) = next
  BY DEF AddClassId
<1> QED
  BY <1>4, <1>6, <1>7, <1>8 DEF IdsSoFar

(* No two expansions share a card, and none takes that of the request. *)
LEMMA ClassIdsAreNew ==
  ASSUME NEW names \in Seq(Names)
  PROVE  IsInjective(ClassIds(names)) /\ ToSet(ClassIds(names)) \cap Reserved = {}
<1> DEFINE I == [n \in 0 .. Len(names) |-> IdsSoFar]
<1>1. <<>> \in I[0]
  BY DEF IdsSoFar, IsInjective, ToSet
<1>2. \A n \in 1 .. Len(names) : \A x \in I[n - 1] : AddClassId(x, names[n]) \in I[n]
  BY AddClassIdKeeps
<1>3. Len(names) \in Nat
  OBVIOUS
<1>4. Naming!Fold(<<>>, names) \in I[Len(names)]
  <2> HIDE DEF I
  <2> QED
    BY <1>1, <1>2, <1>3, Naming!FoldKeeps
<1>5. ClassIds(names) \in IdsSoFar
  BY <1>3, <1>4 DEF ClassIds
<1> QED
  BY <1>5 DEF IdsSoFar

---------------------------------------------------------------------------------------
(* Texts that are joined again. *)

Joined(pieces) == Joining!Fold(<<>>, pieces)

(* No pieces make no text. *)
LEMMA NothingJoined == Joined(<<>>) = <<>>
<1> PICK none : none = <<>>
  OBVIOUS
<1>1. Len(none) \in Nat /\ Len(none) = 0
  OBVIOUS
<1>2. PICK f : Joining!IsRun(f, none, none) /\ Joining!Fold(none, none) = f[Len(none)]
  BY <1>1, Joining!FoldIsRun
<1>3. f[0] = none
  BY <1>2 DEF Joining!IsRun
<1> QED
  BY <1>1, <1>2, <1>3 DEF Joined

(* One more piece comes after the text of the others. *)
LEMMA JoinMore ==
  ASSUME NEW E, NEW pieces \in Seq(E), NEW x \in E
  PROVE  Joined(Append(pieces, x)) = Joined(pieces) \o x
BY Joining!FoldOfMore DEF Joined

(* The text up to a place and the text from it on. *)
LEMMA SubSeqJoin ==
  ASSUME NEW E, NEW s \in Seq(E), NEW i \in 1 .. Len(s) + 1, NEW j \in i - 1 .. Len(s)
  PROVE  SubSeq(s, 1, i - 1) \o SubSeq(s, i, j) = SubSeq(s, 1, j)
<1> PICK n \in Nat : n = Len(s)
  OBVIOUS
<1>0. i \in Nat /\ j \in Nat /\ 1 <= i /\ i <= n + 1 /\ i - 1 <= j /\ j <= n
  OBVIOUS
<1> PICK a, b, c : a = SubSeq(s, 1, i - 1) /\ b = SubSeq(s, i, j) /\ c = SubSeq(s, 1, j)
  OBVIOUS
<1>1. a \in Seq(E) /\ Len(a) = i - 1 /\ \A k \in 1 .. i - 1 : a[k] = s[k]
  OBVIOUS
<1>2. b \in Seq(E) /\ Len(b) = j - i + 1 /\ \A k \in 1 .. j - i + 1 : b[k] = s[i + k - 1]
  OBVIOUS
<1>3. c \in Seq(E) /\ Len(c) = j /\ \A k \in 1 .. j : c[k] = s[k]
  OBVIOUS
<1> PICK d : d = a \o b
  OBVIOUS
<1>4. d \in Seq(E) /\ Len(d) = Len(a) + Len(b)
      /\ \A k \in 1 .. Len(a) + Len(b) : d[k] = IF k <= Len(a) THEN a[k] ELSE b[k - Len(a)]
  BY <1>1, <1>2, ConcatProperties
<1>5. Len(d) = j
  BY <1>1, <1>2, <1>4
<1>6. \A k \in 1 .. j : d[k] = s[k]
  <2> SUFFICES ASSUME NEW k \in 1 .. j PROVE d[k] = s[k]
    OBVIOUS
  <2>3. k \in Int /\ i - 1 \in Int
    BY <1>0
  <2>1. CASE k <= i - 1
    BY <1>1, <1>2, <1>4, <2>1
  <2>2. CASE ~(k <= i - 1)
    <3>1. k - (i - 1) \in 1 .. j - i + 1 /\ i + (k - (i - 1)) - 1 = k
      BY <1>0, <2>2, <2>3
    <3>2. d[k] = b[k - (i - 1)]
      BY <1>1, <1>2, <1>4, <2>2
    <3> QED
      BY <1>2, <3>1, <3>2
  <2> QED
    BY <2>1, <2>2
<1>7. d = c
  <2>1. d \in Seq(E) /\ c \in Seq(E) /\ Len(d) = Len(c) /\ \A k \in 1 .. Len(d) : d[k] = c[k]
    BY <1>3, <1>4, <1>5, <1>6
  <2> QED
    BY <2>1, SeqEqual
<1> QED
  BY <1>7

(* A text between two places, as far as they are in the text. *)
LEMMA SubSeqIsText ==
  ASSUME NEW E, NEW s \in Seq(E), NEW i \in 1 .. Len(s) + 1, NEW j \in i - 1 .. Len(s)
  PROVE  SubSeq(s, i, j) \in Seq(E) /\ Len(SubSeq(s, i, j)) = j - i + 1
OBVIOUS

IsNextPart(s, part, i, j) ==
  i \in Nat /\ j \in Nat /\ i <= j /\ j <= Len(s) /\ part = SubSeq(s, i + 1, j)

(* The text up to a piece and the piece are the text up to its end. *)
LEMMA TextGoesOn ==
  ASSUME NEW E, NEW s \in Seq(E), NEW part, NEW i, NEW j, IsNextPart(s, part, i, j)
  PROVE  part \in Seq(E) /\ SubSeq(s, 1, i) \o part = SubSeq(s, 1, j)
<1> PICK k : k = i + 1
  OBVIOUS
<1>1. k \in 1 .. Len(s) + 1 /\ j \in k - 1 .. Len(s) /\ k - 1 = i /\ part = SubSeq(s, k, j)
  BY DEF IsNextPart
<1>2. SubSeq(s, k, j) \in Seq(E)
  BY <1>1, SubSeqIsText
<1>3. SubSeq(s, 1, k - 1) \o SubSeq(s, k, j) = SubSeq(s, 1, j)
  BY <1>1, SubSeqJoin
<1> QED
  BY <1>1, <1>2, <1>3

(* The text up to a place and what is left are the text. *)
LEMMA TextEnds ==
  ASSUME NEW E, NEW s \in Seq(E), NEW rest, NEW i, IsNextPart(s, rest, i, Len(s))
  PROVE  rest \in Seq(E) /\ SubSeq(s, 1, i) \o rest = s
<1>1. rest \in Seq(E) /\ SubSeq(s, 1, i) \o rest = SubSeq(s, 1, Len(s))
  BY TextGoesOn
<1>2. SubSeq(s, 1, Len(s)) = s
  OBVIOUS
<1> QED
  BY <1>1, <1>2

(* Two pieces are appended one after the other. *)
LEMMA AppendTwo ==
  ASSUME NEW E, NEW s \in Seq(E), NEW a \in E, NEW b \in E
  PROVE  s \o <<a, b>> = Append(Append(s, a), b)
<1> PICK n \in Nat : n = Len(s)
  OBVIOUS
<1> PICK one : one = Append(s, a)
  OBVIOUS
<1> PICK two : two = Append(one, b)
  OBVIOUS
<1> PICK both : both = <<a, b>>
  OBVIOUS
<1> PICK joined : joined = s \o both
  OBVIOUS
<1>1. /\ one \in Seq(E) /\ Len(one) = n + 1 /\ one[n + 1] = a
      /\ \A i \in 1 .. n : one[i] = s[i]
  OBVIOUS
<1>2. /\ two \in Seq(E) /\ Len(two) = n + 2 /\ two[n + 2] = b
      /\ \A i \in 1 .. n + 1 : two[i] = one[i]
  BY <1>1
<1>3. both \in Seq(E) /\ Len(both) = 2 /\ both[1] = a /\ both[2] = b
  OBVIOUS
<1>4. /\ joined \in Seq(E) /\ Len(joined) = Len(s) + Len(both)
      /\ \A i \in 1 .. Len(s) + Len(both) :
           joined[i] = IF i <= Len(s) THEN s[i] ELSE both[i - Len(s)]
  BY <1>3, ConcatProperties
<1>5. Len(joined) = Len(two) /\ Len(joined) = n + 2
  BY <1>2, <1>3, <1>4
<1>6. \A i \in 1 .. n + 2 : joined[i] = two[i]
  <2> SUFFICES ASSUME NEW i \in 1 .. n + 2 PROVE joined[i] = two[i]
    OBVIOUS
  <2>0. i \in 1 .. Len(s) + Len(both)
    BY <1>3
  <2>1. CASE i \in 1 .. n
    BY <1>1, <1>2, <1>4, <2>0, <2>1
  <2>2. CASE i = n + 1
    <3>1. ~(i <= Len(s)) /\ i - Len(s) = 1 /\ i \in 1 .. n + 1
      BY <2>2
    <3>2. joined[i] = a
      BY <1>3, <1>4, <2>0, <3>1
    <3>3. two[i] = a
      BY <1>1, <1>2, <2>2, <3>1
    <3> QED
      BY <3>2, <3>3
  <2>3. CASE i = n + 2
    <3>1. ~(i <= Len(s)) /\ i - Len(s) = 2
      BY <2>3
    <3> QED
      BY <1>2, <1>3, <1>4, <2>0, <2>3, <3>1
  <2> QED
    BY <2>1, <2>2, <2>3
<1>7. joined = two
  <2>1. \A i \in 1 .. Len(joined) : joined[i] = two[i]
    BY <1>5, <1>6
  <2> QED
    BY <1>2, <1>4, <1>5, <2>1, SeqEqual
<1> QED
  BY <1>7

---------------------------------------------------------------------------------------
(* Search. *)

(* Matches are occurrences, each after the end of the one before it. *)
AreMatches(content, pattern, matches) ==
  /\ matches \in Seq(Nat \ {0})
  /\ \A k \in 1 .. Len(matches) : StartsWith(content, pattern, matches[k])
  /\ \A k \in 2 .. Len(matches) : matches[k - 1] + Len(pattern) <= matches[k]

(* An occurrence overlaps a match or comes after the last that is sought. *)
IsCovered(pattern, matches, i) ==
  \/ \E k \in 1 .. Len(matches) : matches[k] <= i /\ i < matches[k] + Len(pattern)
  \/ Len(matches) = MaxMatches /\ i > matches[Len(matches)]

FoundUpTo(content, pattern, matches, start, n) ==
  /\ AreMatches(content, pattern, matches) /\ Len(matches) <= MaxMatches
  /\ IF Len(matches) = 0 THEN start = 1
     ELSE matches[Len(matches)] <= n /\ start = matches[Len(matches)] + Len(pattern)
  /\ \A i \in 1 .. n : StartsWith(content, pattern, i) => IsCovered(pattern, matches, i)

SearchStates(content, pattern) ==
  [content : {content}, pattern : {pattern}, start : Nat, matches : Seq(Nat \ {0})]

(* At every place the matches so far cover the occurrences before it. *)
LEMMA NextMatchKeeps ==
  ASSUME NEW content, NEW pattern, Len(pattern) \in Nat, Len(pattern) > 0,
         NEW n \in Nat, n > 0,
         NEW state \in SearchStates(content, pattern),
         FoundUpTo(content, pattern, state.matches, state.start, n - 1)
  PROVE  /\ NextMatch(state, n) \in SearchStates(content, pattern)
         /\ FoundUpTo(content, pattern, NextMatch(state, n).matches, NextMatch(state, n).start, n)
<1> PICK ms : ms = state.matches
  OBVIOUS
<1> PICK start : start = state.start
  OBVIOUS
<1> PICK p \in Nat : p = Len(pattern) /\ p > 0
  OBVIOUS
<1>1. /\ state.content = content /\ state.pattern = pattern /\ start \in Nat /\ ms \in Seq(Nat \ {0})
      /\ FoundUpTo(content, pattern, ms, start, n - 1)
  BY DEF SearchStates
<1> PICK l \in Nat : l = Len(ms)
  BY <1>1
<1>2. /\ AreMatches(content, pattern, ms) /\ l <= MaxMatches
      /\ l = 0 => start = 1
      /\ l # 0 => ms[l] <= n - 1 /\ start = ms[l] + p
      /\ \A i \in 1 .. n - 1 : StartsWith(content, pattern, i) => IsCovered(pattern, ms, i)
  BY <1>1 DEF FoundUpTo
<1>3. \A k \in 1 .. l : ms[k] \in Nat
  BY <1>1
<1>4. CASE n < start \/ l = MaxMatches \/ ~StartsWith(content, pattern, n)
  <2>1. NextMatch(state, n) = state
    BY <1>1, <1>4 DEF NextMatch
  <2>2. n < start => IsCovered(pattern, ms, n)
    <3> SUFFICES ASSUME n < start PROVE IsCovered(pattern, ms, n)
      OBVIOUS
    <3>1. l # 0
      BY <1>2
    <3>2. l \in 1 .. l /\ ms[l] <= n /\ n < ms[l] + p
      BY <1>2, <1>3, <3>1
    <3> QED
      BY <3>2 DEF IsCovered
  <2>3. l = MaxMatches => IsCovered(pattern, ms, n)
    <3> SUFFICES ASSUME l = MaxMatches PROVE IsCovered(pattern, ms, n)
      OBVIOUS
    <3>1. l # 0
      BY ScanAssumption
    <3>2. n > ms[l]
      <4>1. l \in 1 .. l
        BY <3>1
      <4> QED
        BY <1>2, <1>3, <3>1, <4>1
    <3> QED
      BY <3>2 DEF IsCovered
  <2>4. \A i \in 1 .. n : StartsWith(content, pattern, i) => IsCovered(pattern, ms, i)
    <3> SUFFICES ASSUME NEW i \in 1 .. n, StartsWith(content, pattern, i)
                 PROVE  IsCovered(pattern, ms, i)
      OBVIOUS
    <3>1. i \in 1 .. n - 1 \/ i = n
      OBVIOUS
    <3> QED
      BY <1>2, <1>4, <2>2, <2>3, <3>1
  <2>5. l # 0 => ms[l] <= n
    <3>1. l # 0 => l \in 1 .. l
      OBVIOUS
    <3> QED
      BY <1>2, <1>3, <3>1
  <2>6. FoundUpTo(content, pattern, ms, start, n)
    BY <1>2, <2>4, <2>5 DEF FoundUpTo
  <2> QED
    BY <2>1, <2>6
<1>5. CASE ~(n < start) /\ l # MaxMatches /\ StartsWith(content, pattern, n)
  <2> PICK next : next = Append(ms, n)
    OBVIOUS
  <2>1. /\ next \in Seq(Nat \ {0}) /\ Len(next) = l + 1 /\ next[l + 1] = n
        /\ \A k \in 1 .. l : next[k] = ms[k]
    BY <1>1
  <2>2. NextMatch(state, n) = [state EXCEPT !.start = n + p, !.matches = next]
    BY <1>1, <1>5 DEF NextMatch
  <2>3. /\ NextMatch(state, n) \in SearchStates(content, pattern)
        /\ NextMatch(state, n).matches = next /\ NextMatch(state, n).start = n + p
    <3> PICK q \in Nat : q = n + p
      OBVIOUS
    <3>1. NextMatch(state, n) = [state EXCEPT !.start = q, !.matches = next]
      BY <2>2
    <3> QED
      BY <2>1, <3>1 DEF SearchStates
  <2>4. \A k \in 1 .. l + 1 : StartsWith(content, pattern, next[k])
    <3> SUFFICES ASSUME NEW k \in 1 .. l + 1 PROVE StartsWith(content, pattern, next[k])
      OBVIOUS
    <3>1. k \in 1 .. l \/ k = l + 1
      OBVIOUS
    <3>2. \A j \in 1 .. l : StartsWith(content, pattern, ms[j])
      BY <1>2 DEF AreMatches
    <3> QED
      BY <1>5, <2>1, <3>1, <3>2
  <2>5. \A k \in 2 .. l + 1 : next[k - 1] + p <= next[k]
    <3> SUFFICES ASSUME NEW k \in 2 .. l + 1 PROVE next[k - 1] + p <= next[k]
      OBVIOUS
    <3>1. CASE k \in 2 .. l
      <4>1. k - 1 \in 1 .. l /\ k \in 1 .. l
        BY <3>1
      <4>2. ms[k - 1] + p <= ms[k]
        BY <1>2, <3>1 DEF AreMatches
      <4> QED
        BY <2>1, <4>1, <4>2
    <3>2. CASE k = l + 1
      <4>1. k - 1 = l /\ l # 0 /\ l \in 1 .. l
        BY <3>2
      <4>2. ms[l] + p <= n
        BY <1>2, <1>3, <1>5, <4>1
      <4> QED
        BY <2>1, <3>2, <4>1, <4>2
    <3> QED
      BY <3>1, <3>2
  <2>6. \A i \in 1 .. n : StartsWith(content, pattern, i) => IsCovered(pattern, next, i)
    <3> SUFFICES ASSUME NEW i \in 1 .. n, StartsWith(content, pattern, i)
                 PROVE  IsCovered(pattern, next, i)
      OBVIOUS
    <3>1. CASE i = n
      <4>1. l + 1 \in 1 .. l + 1 /\ next[l + 1] <= i /\ i < next[l + 1] + p
        BY <2>1, <3>1
      <4> QED
        BY <2>1, <4>1 DEF IsCovered
    <3>2. CASE i \in 1 .. n - 1
      <4>1. PICK k \in 1 .. l : ms[k] <= i /\ i < ms[k] + p
        BY <1>2, <1>5, <3>2 DEF IsCovered
      <4>2. k \in 1 .. l + 1 /\ next[k] = ms[k]
        BY <2>1
      <4> QED
        BY <2>1, <4>1, <4>2 DEF IsCovered
    <3> QED
      BY <3>1, <3>2
  <2>7. AreMatches(content, pattern, next)
    BY <2>1, <2>4, <2>5 DEF AreMatches
  <2>8. l + 1 <= MaxMatches
    BY <1>2, <1>5, ScanAssumption
  <2>9. FoundUpTo(content, pattern, next, n + p, n)
    BY <2>1, <2>6, <2>7, <2>8 DEF FoundUpTo
  <2> QED
    BY <2>3, <2>9
<1> QED
  BY <1>4, <1>5

(* The matches of a search are occurrences, and cover the others. *)
LEMMA SearchCovers ==
  ASSUME NEW E, NEW content \in Seq(E), NEW pattern, Len(pattern) \in Nat, Len(pattern) > 0
  PROVE  /\ AreMatches(content, pattern, FindAll(content, pattern))
         /\ \A i \in 1 .. Len(content) :
              StartsWith(content, pattern, i) => IsCovered(pattern, FindAll(content, pattern), i)
<1> PICK places : places = Places(content)
  OBVIOUS
<1> PICK n \in Nat : n = Len(content)
  OBVIOUS
<1>1. Len(places) = n /\ Len(places) \in Nat /\ \A i \in 1 .. n : places[i] = i
  BY DEF Places
<1> DEFINE Found(i) == {state \in SearchStates(content, pattern) :
                          FoundUpTo(content, pattern, state.matches, state.start, i)}
           I == [i \in 0 .. n |-> Found(i)]
<1> PICK base : base = [content |-> content, pattern |-> pattern, start |-> 1, matches |-> <<>>]
  OBVIOUS
<1>2. base \in I[0]
  <2>1. base \in SearchStates(content, pattern)
    BY DEF SearchStates
  <2>2. FoundUpTo(content, pattern, <<>>, 1, 0)
    <3>1. Len(<<>>) = 0 /\ 0 <= MaxMatches
      BY ScanAssumption
    <3> QED
      BY <3>1 DEF FoundUpTo, AreMatches
  <2> QED
    BY <2>1, <2>2
<1>3. ASSUME NEW i \in 1 .. n, NEW state \in I[i - 1]
      PROVE  NextMatch(state, places[i]) \in I[i]
  <2>1. i - 1 \in 0 .. n /\ i \in 0 .. n /\ i \in Nat /\ i > 0 /\ places[i] = i
    BY <1>1
  <2>2. /\ state \in SearchStates(content, pattern)
        /\ FoundUpTo(content, pattern, state.matches, state.start, i - 1)
    BY <2>1
  <2>3. NextMatch(state, i) \in Found(i)
    BY <2>1, <2>2, NextMatchKeeps
  <2> QED
    BY <2>1, <2>3
<1>4. Searching!Fold(base, places) \in I[n]
  <2> HIDE DEF I
  <2> QED
    BY <1>1, <1>2, <1>3, Searching!FoldKeeps
<1>5. PICK state : /\ state = Searching!Fold(base, places)
                   /\ FoundUpTo(content, pattern, state.matches, state.start, n)
  BY <1>4
<1>6. FindAll(content, pattern) = state.matches
  BY <1>5 DEF FindAll
<1> QED
  BY <1>5, <1>6 DEF FoundUpTo

---------------------------------------------------------------------------------------
(* Trimmed and lower-cased texts. *)

(* Numbers up to a bound have a greatest. *)
LEMMA GreatestIndex ==
  ASSUME NEW n \in Nat, NEW S \in SUBSET (1 .. n), S # {}
  PROVE  \E i \in S : \A j \in S : i >= j
<1> PICK R : R = {n - i : i \in S}
  OBVIOUS
<1>1. R \in SUBSET Nat /\ R # {}
  <2>1. \A r : r \in R <=> \E i \in S : r = n - i
    OBVIOUS
  <2>2. \A i \in S : n - i \in Nat
    OBVIOUS
  <2> QED
    BY <2>1, <2>2
<1>2. PICK r \in R : \A q \in R : r <= q
  BY <1>1, Joining!LeastNatural
<1>3. PICK i \in S : r = n - i
  OBVIOUS
<1>4. \A j \in S : n - i <= n - j
  BY <1>2, <1>3
<1>5. \A j \in S : i >= j
  BY <1>4
<1> QED
  BY <1>5

(* What is trimmed is a text of the same characters. *)
LEMMA TrimIsText ==
  ASSUME NEW E, NEW s \in Seq(E)
  PROVE  Trim(s) \in Seq(E)
<1> PICK solid : solid = {i \in DOMAIN s : s[i] # Blank}
  OBVIOUS
<1> PICK n \in Nat : n = Len(s)
  OBVIOUS
<1>1. CASE solid = {}
  BY <1>1 DEF Trim
<1>2. CASE solid # {}
  <2>1. solid \in SUBSET (1 .. n) /\ solid \in SUBSET Nat
    OBVIOUS
  <2>2. \E i \in solid : \A j \in solid : i <= j
    BY <1>2, <2>1, Joining!LeastNatural
  <2>3. \E i \in solid : \A j \in solid : i >= j
    BY <1>2, <2>1, GreatestIndex
  <2> PICK i : i = Min(solid)
    OBVIOUS
  <2> PICK j : j = Max(solid)
    OBVIOUS
  <2>4. i \in solid /\ j \in solid
    BY <2>2, <2>3 DEF Min, Max
  <2>5. i \in 1 .. n /\ j \in 1 .. n
    BY <2>1, <2>4
  <2>6. SubSeq(s, i, j) \in Seq(E)
    <3>1. s \in Seq(E) /\ i \in 1 .. Len(s) /\ j \in 1 .. Len(s)
      BY <2>5
    <3>2. CASE i <= j
      <4>1. i \in 1 .. Len(s) + 1 /\ j \in i - 1 .. Len(s)
        BY <3>1, <3>2
      <4> QED
        BY ONLY <3>1, <4>1, SubSeqIsText
    <3>3. CASE ~(i <= j)
      <4>1. SubSeq(s, i, j) = <<>>
        BY ONLY <3>1, <3>3
      <4>2. <<>> \in Seq(E)
        OBVIOUS
      <4> QED
        BY <4>1, <4>2, Zenon
    <3> QED
      BY <3>2, <3>3
  <2>7. Trim(s) = SubSeq(s, i, j)
    BY <1>2 DEF Trim
  <2> QED
    BY <2>6, <2>7
<1> QED
  BY <1>1, <1>2

IsLowerRun(f, s) ==
  /\ f[0] = <<>>
  /\ \A n \in 1 .. Len(s) : f[n] = f[n - 1] \o Lower[s[n]]

(* The characters of a text in lower case, one after the other. *)
LEMMA LowerCaseRun ==
  ASSUME NEW s, Len(s) \in Nat
  PROVE  \E f : IsLowerRun(f, s) /\ LowerCase(s) = f[Len(s)]
<1> PICK none : none = <<>>
  OBVIOUS
<1> PICK parts : parts = [i \in 1 .. Len(s) |-> Lower[s[i]]]
  OBVIOUS
<1>1. Len(parts) = Len(s) /\ Len(parts) \in Nat /\ \A i \in 1 .. Len(s) : parts[i] = Lower[s[i]]
  OBVIOUS
<1>2. Len(parts) \in Nat
  BY <1>1
<1>3. PICK f : Joining!IsRun(f, none, parts) /\ Joining!Fold(none, parts) = f[Len(parts)]
  BY ONLY <1>2, Joining!FoldIsRun
<1>4. IsLowerRun(f, s)
  BY <1>1, <1>3 DEF Joining!IsRun, IsLowerRun
<1>5. LowerCase(s) = f[Len(s)]
  BY <1>1, <1>3 DEF LowerCase
<1> QED
  BY <1>4, <1>5

(* A text in lower case is a text. *)
LEMMA LowerIsText ==
  ASSUME NEW s \in Seq(DOMAIN Lower)
  PROVE  LowerCase(s) \in Seq(Characters)
<1> PICK l \in Nat : l = Len(s)
  OBVIOUS
<1> PICK f : IsLowerRun(f, s) /\ LowerCase(s) = f[l]
  BY LowerCaseRun
<1> PICK T : T = Seq(Characters)
  OBVIOUS
<1> DEFINE G == {n \in Nat : f[n] \in T}
<1>1. 0 \in G
  <2>1. f[0] = <<>>
    BY DEF IsLowerRun
  <2>2. <<>> \in Seq(Characters)
    OBVIOUS
  <2> QED
    BY <2>1, <2>2
<1>2. \A n \in 1 .. l : n - 1 \in G => n \in G
  <2> SUFFICES ASSUME NEW n \in 1 .. l, f[n - 1] \in T PROVE f[n] \in T
    OBVIOUS
  <2> PICK one : one = Lower[s[n]]
    OBVIOUS
  <2>1. one \in Seq(Characters)
    BY ScanAssumption
  <2>2. f[n] = f[n - 1] \o one
    BY DEF IsLowerRun
  <2> PICK before \in Seq(Characters) : before = f[n - 1]
    OBVIOUS
  <2>3. before \o one \in Seq(Characters)
    BY ONLY <2>1, before \in Seq(Characters)
  <2> QED
    BY <2>2, <2>3
<1>3. \A n \in 0 .. l : n \in G
  <2> HIDE DEF G
  <2> QED
    BY <1>1, <1>2, Joining!UpwardInduction
<1> QED
  BY <1>3

(* t has at every place the lower case of the character that s has there. *)
IsLowered(t, s, n) == t \in Seq(Characters) /\ Len(t) = n /\ \A i \in 1 .. n : Lower[s[i]] = <<t[i]>>

(* Where every character keeps to one, lower case keeps the places. *)
LEMMA LowerKeepsPlaces ==
  ASSUME NEW s \in Seq(DOMAIN Lower), KeepsPlaces(s)
  PROVE  IsLowered(LowerCase(s), s, Len(s))
<1> PICK l \in Nat : l = Len(s)
  OBVIOUS
<1> PICK f : IsLowerRun(f, s) /\ LowerCase(s) = f[l]
  BY LowerCaseRun
<1> DEFINE G == {n \in Nat : IsLowered(f[n], s, n)}
<1>1. 0 \in G
  <2>1. f[0] = <<>>
    BY DEF IsLowerRun
  <2> PICK none : none = <<>>
    OBVIOUS
  <2>2. none \in Seq(Characters) /\ Len(none) = 0
    OBVIOUS
  <2>3. IsLowered(none, s, 0)
    BY <2>2 DEF IsLowered
  <2> QED
    BY <2>1, <2>3
<1>2. \A n \in 1 .. l : n - 1 \in G => n \in G
  <2> SUFFICES ASSUME NEW n \in 1 .. l, IsLowered(f[n - 1], s, n - 1) PROVE IsLowered(f[n], s, n)
    OBVIOUS
  <2> PICK before : before = f[n - 1]
    OBVIOUS
  <2> PICK after : after = f[n]
    OBVIOUS
  <2> PICK one : one = Lower[s[n]]
    OBVIOUS
  <2>1. one \in Seq(Characters) /\ Len(one) = 1
    BY ScanAssumption DEF KeepsPlaces
  <2> PICK c : c = one[1]
    OBVIOUS
  <2>2. c \in Characters /\ one = <<c>>
    <3>1. c \in Characters
      <4>1. \A i \in 1 .. Len(one) : one[i] \in Characters
        BY ONLY <2>1, ElementOfSeq
      <4>2. 1 \in 1 .. Len(one)
        BY ONLY <2>1
      <4> QED
        BY <4>1, <4>2
    <3> PICK only : only = <<c>>
      OBVIOUS
    <3>2. only \in Seq(Characters) /\ Len(only) = 1 /\ only[1] = c
      BY <3>1
    <3>3. Len(one) = Len(only) /\ \A i \in 1 .. Len(one) : one[i] = only[i]
      BY <2>1, <3>2
    <3>4. one = only
      BY ONLY <2>1, <3>2, <3>3, SeqEqual
    <3> QED
      BY <3>1, <3>4
  <2>3. /\ before \in Seq(Characters) /\ Len(before) = n - 1
        /\ \A i \in 1 .. n - 1 : Lower[s[i]] = <<before[i]>>
    BY DEF IsLowered
  <2>4. after = Append(before, c)
    <3>1. after = before \o one
      BY DEF IsLowerRun
    <3>2. before \o one = Append(before, c)
      BY ONLY <2>2, <2>3
    <3> QED
      BY <3>1, <3>2
  <2>5. /\ after \in Seq(Characters) /\ Len(after) = n /\ after[n] = c
        /\ \A i \in 1 .. n - 1 : after[i] = before[i]
    BY <2>2, <2>3, <2>4
  <2>6. \A i \in 1 .. n : Lower[s[i]] = <<after[i]>>
    <3> SUFFICES ASSUME NEW i \in 1 .. n PROVE Lower[s[i]] = <<after[i]>>
      OBVIOUS
    <3>1. CASE i = n
      BY <2>2, <2>5, <3>1
    <3>2. CASE i \in 1 .. n - 1
      BY <2>3, <2>5, <3>2
    <3> QED
      BY <3>1, <3>2
  <2> QED
    BY <2>5, <2>6 DEF IsLowered
<1>3. \A n \in 0 .. l : n \in G
  <2> HIDE DEF G
  <2> QED
    BY <1>1, <1>2, Joining!UpwardInduction
<1> QED
  BY <1>3

(* An occurrence in the text is one in its lower case. *)
LEMMA OccursInLowerCase ==
  ASSUME NEW s, NEW t, NEW n \in Nat, n = Len(s), IsLowered(t, s, n),
         NEW sought \in Seq(Characters), NEW i \in Nat, i > 0
  PROVE  Occurs(s, sought, i) <=> StartsWith(t, sought, i)
<1> PICK p \in Nat : p = Len(sought)
  OBVIOUS
<1>1. t \in Seq(Characters) /\ Len(t) = n /\ \A j \in 1 .. n : Lower[s[j]] = <<t[j]>>
  BY DEF IsLowered
<1>2. CASE i + p - 1 <= n
  <2> PICK j : j = i + p - 1
    OBVIOUS
  <2>0. j \in Int /\ j <= n
    BY <1>2
  <2> PICK part : part = SubSeq(t, i, j)
    OBVIOUS
  <2>1. i \in 1 .. Len(t) + 1 /\ j \in i - 1 .. Len(t) /\ j - i + 1 = p
    BY <1>1, <2>0
  <2>2. part \in Seq(Characters) /\ Len(part) = p /\ \A k \in 1 .. p : part[k] = t[i + k - 1]
    <3>1. part \in Seq(Characters) /\ Len(part) = p
      BY <1>1, <2>1, SubSeqIsText
    <3>2. \A k \in 1 .. p : part[k] = t[i + k - 1]
      BY <1>1, <2>1, <3>1
    <3> QED
      BY <3>1, <3>2
  <2>3. \A k \in 1 .. p : Lower[s[i + k - 1]] = <<part[k]>>
    <3> SUFFICES ASSUME NEW k \in 1 .. p PROVE Lower[s[i + k - 1]] = <<part[k]>>
      OBVIOUS
    <3> PICK m \in 1 .. n : m = i + k - 1
      BY <2>1, <1>1
    <3> QED
      BY <1>1, <2>2
  <2>4. part = sought <=> \A k \in 1 .. p : part[k] = sought[k]
    <3>1. (\A k \in 1 .. Len(part) : part[k] = sought[k]) => part = sought
      BY <2>2, SeqEqual
    <3> QED
      BY <2>2, <3>1
  <2>5. \A k \in 1 .. p : Lower[s[i + k - 1]] = <<sought[k]>> <=> part[k] = sought[k]
    <3>1. \A a, b : <<a>> = <<b>> <=> a = b
      OBVIOUS
    <3> QED
      BY <2>3, <3>1
  <2>6. Occurs(s, sought, i) <=> \A k \in 1 .. p : part[k] = sought[k]
    BY <1>2, <2>5 DEF Occurs
  <2>7. StartsWith(t, sought, i) <=> part = sought
    BY <1>1, <1>2 DEF StartsWith
  <2> QED
    BY <2>4, <2>6, <2>7
<1>3. CASE ~(i + p - 1 <= n)
  BY <1>1, <1>3 DEF Occurs, StartsWith
<1> QED
  BY <1>2, <1>3

---------------------------------------------------------------------------------------
(* What the viewer shows. *)

Capped(content, i) == IF i < Len(content) THEN i ELSE Len(content)

(* A slice is the part of the text between two places that may be after it. *)
LEMMA SliceIsPart ==
  ASSUME NEW E, NEW content \in Seq(E), NEW i \in Nat, NEW j \in Nat, i <= j
  PROVE  IsNextPart(content, Slice(content, i + 1, j), Capped(content, i), Capped(content, j))
<1> PICK n \in Nat : n = Len(content)
  OBVIOUS
<1> PICK to : to = Capped(content, j)
  OBVIOUS
<1>1. to \in Nat /\ to <= n /\ to = (IF j < n THEN j ELSE n)
  BY DEF Capped
<1>2. Slice(content, i + 1, j) = SubSeq(content, i + 1, to)
  BY <1>1 DEF Slice
<1>3. CASE i < n
  <2>1. Capped(content, i) = i /\ i <= to
    BY <1>1, <1>3 DEF Capped
  <2> QED
    BY <1>1, <1>2, <2>1 DEF IsNextPart
<1>4. CASE ~(i < n)
  <2>1. Capped(content, i) = n /\ to = n
    BY <1>1, <1>4 DEF Capped
  <2>2. SubSeq(content, i + 1, n) = <<>>
    BY <1>4
  <2>3. SubSeq(content, n + 1, n) = <<>>
    OBVIOUS
  <2> QED
    BY <1>1, <1>2, <2>1, <2>2, <2>3 DEF IsNextPart
<1> QED
  BY <1>3, <1>4

(* What is shown after some matches is the content up to the cursor. *)
MarkStates(content, pattern, E) ==
  [content : {content}, pattern : {pattern}, cursor : Nat \ {0}, pieces : Seq(Seq(E))]

(* Each match is after the end of the one before it. *)
AreApart(pattern, matches) ==
  /\ matches \in Seq(Nat \ {0})
  /\ \A k \in 2 .. Len(matches) : matches[k - 1] + Len(pattern) <= matches[k]

MarkedUpTo(content, pattern, matches, state, k) ==
  /\ state.cursor = IF k = 0 THEN 1 ELSE matches[k] + Len(pattern)
  /\ Joined(state.pieces) = SubSeq(content, 1, Capped(content, state.cursor - 1))

(* After every match the pieces so far are the text up to its end. *)
LEMMA PieceKeeps ==
  ASSUME NEW E, NEW content \in Seq(E), NEW pattern, NEW p \in Nat, p = Len(pattern),
         NEW matches, AreApart(pattern, matches), NEW k \in 1 .. Len(matches),
         NEW state \in MarkStates(content, pattern, E),
         MarkedUpTo(content, pattern, matches, state, k - 1)
  PROVE  /\ Piece(state, matches[k]) \in MarkStates(content, pattern, E)
         /\ MarkedUpTo(content, pattern, matches, Piece(state, matches[k]), k)
<1> PICK n \in Nat : n = Len(content)
  OBVIOUS
<1> PICK l : l = Len(matches)
  OBVIOUS
<1>1. matches \in Seq(Nat \ {0}) /\ l \in Nat /\ k \in 1 .. l /\ k \in Nat
  BY DEF AreApart
<1> PICK at \in Nat : at = matches[k] /\ at > 0
  BY <1>1
<1> PICK cursor \in Nat : cursor = state.cursor /\ 1 <= cursor
  BY DEF MarkStates
<1> PICK after \in Nat : after = at + p
  OBVIOUS
<1> PICK pieces : pieces = state.pieces
  OBVIOUS
<1>2. /\ state.content = content /\ state.pattern = pattern /\ pieces \in Seq(Seq(E))
      /\ Joined(pieces) = SubSeq(content, 1, Capped(content, cursor - 1))
  BY DEF MarkStates, MarkedUpTo
<1>3. cursor <= at
  <2>1. CASE k = 1
    <3>1. k - 1 = 0
      BY <2>1
    <3>2. cursor = 1
      BY <3>1 DEF MarkedUpTo
    <3> QED
      BY <3>2
  <2>2. CASE k # 1
    <3>1. k - 1 # 0 /\ k \in 2 .. l
      BY <1>1, <2>2
    <3>2. cursor = matches[k - 1] + p
      BY <3>1 DEF MarkedUpTo
    <3> QED
      BY <3>1, <3>2 DEF AreApart
  <2> QED
    BY <2>1, <2>2
<1> PICK c0 \in Nat : cursor = c0 + 1 /\ c0 = cursor - 1
  OBVIOUS
<1> PICK a0 \in Nat : at = a0 + 1 /\ a0 = at - 1
  OBVIOUS
<1> PICK b0 \in Nat : after - 1 = b0 /\ b0 = a0 + p
  OBVIOUS
<1>4. c0 <= a0 /\ a0 <= b0
  BY <1>3
<1> PICK c1 : c1 = Capped(content, c0)
  OBVIOUS
<1> PICK a1 : a1 = Capped(content, a0)
  OBVIOUS
<1> PICK b1 : b1 = Capped(content, b0)
  OBVIOUS
<1> PICK a : a = Slice(content, c0 + 1, a0)
  OBVIOUS
<1> PICK b : b = Slice(content, a0 + 1, b0)
  OBVIOUS
<1>5. a \in Seq(E) /\ SubSeq(content, 1, c1) \o a = SubSeq(content, 1, a1)
  <2>1. IsNextPart(content, a, c1, a1)
    BY <1>4, SliceIsPart
  <2>2. content \in Seq(E)
    OBVIOUS
  <2> QED
    BY ONLY <2>1, <2>2, TextGoesOn
<1>6. b \in Seq(E) /\ SubSeq(content, 1, a1) \o b = SubSeq(content, 1, b1)
  <2>1. IsNextPart(content, b, a1, b1)
    BY <1>4, SliceIsPart
  <2>2. content \in Seq(E)
    OBVIOUS
  <2> QED
    BY ONLY <2>1, <2>2, TextGoesOn
<1> PICK one : one = Append(pieces, a)
  OBVIOUS
<1> PICK two : two = Append(one, b)
  OBVIOUS
<1>7. one \in Seq(Seq(E)) /\ two \in Seq(Seq(E)) /\ pieces \o <<a, b>> = two
  <2>1. one \in Seq(Seq(E))
    BY <1>2, <1>5
  <2>2. two \in Seq(Seq(E))
    BY <1>6, <2>1
  <2>3. pieces \o <<a, b>> = two
    <3> PICK T : T = Seq(E)
      OBVIOUS
    <3>1. pieces \in Seq(T) /\ a \in T /\ b \in T
      BY <1>2, <1>5, <1>6
    <3>2. pieces \o <<a, b>> = Append(Append(pieces, a), b)
      BY ONLY <3>1, AppendTwo
    <3> QED
      BY <3>2
  <2> QED
    BY <2>1, <2>2, <2>3
<1>8. Joined(two) = SubSeq(content, 1, b1)
  <2>1. Joined(one) = Joined(pieces) \o a
    BY <1>2, <1>5, JoinMore
  <2>2. Joined(two) = Joined(one) \o b
    <3> PICK T : T = Seq(E)
      OBVIOUS
    <3>1. one \in Seq(T) /\ b \in T /\ two = Append(one, b)
      BY <1>6, <1>7
    <3> QED
      BY ONLY <3>1, JoinMore
  <2>3. Joined(pieces) = SubSeq(content, 1, c1)
    BY <1>2
  <2> QED
    BY <1>5, <1>6, <2>1, <2>2, <2>3
<1>9. Piece(state, at) = [state EXCEPT !.cursor = after, !.pieces = two]
  <2>1. Slice(state.content, state.cursor, at - 1) = a
    BY <1>2
  <2>2. Slice(state.content, at, at + Len(state.pattern) - 1) = b
    BY <1>2
  <2> QED
    BY <1>2, <1>7, <2>1, <2>2 DEF Piece
<1>10. after \in Nat \ {0}
  OBVIOUS
<1>11. /\ Piece(state, at) \in MarkStates(content, pattern, E)
       /\ Piece(state, at).cursor = after /\ Piece(state, at).pieces = two
  BY <1>7, <1>9, <1>10 DEF MarkStates
<1>12. k # 0
  BY <1>1
<1> QED
  BY <1>8, <1>11, <1>12 DEF MarkedUpTo

(* Where the marks are apart, what is shown is the content. *)
LEMMA ContentIsShown ==
  ASSUME NEW E, NEW content \in Seq(E), NEW query, NEW pattern, pattern = NormalizedQuery(query),
         NEW p \in Nat, p = Len(pattern), NEW ms, ms = Search(content, query), AreApart(pattern, ms)
  PROVE  Joining!Fold(<<>>, RenderContent(content, query)) = content
<1> PICK n \in Nat : n = Len(content)
  OBVIOUS
<1> PICK l : l = Len(ms)
  OBVIOUS
<1>2. ms \in Seq(Nat \ {0}) /\ l \in Nat /\ Len(ms) \in Nat /\ \A k \in 1 .. l : ms[k] \in Nat
  BY DEF AreApart
<1> DEFINE Marked(k) == {state \in MarkStates(content, pattern, E) :
                           MarkedUpTo(content, pattern, ms, state, k)}
           I == [k \in 0 .. l |-> Marked(k)]
<1> PICK base : base = [content |-> content, pattern |-> pattern, cursor |-> 1, pieces |-> <<>>]
  OBVIOUS
<1>3. base \in I[0]
  <2>1. base \in MarkStates(content, pattern, E)
    BY DEF MarkStates
  <2>2. MarkedUpTo(content, pattern, ms, base, 0)
    <3>1. SubSeq(content, 1, 0) = <<>> /\ Capped(content, 0) = 0
      BY DEF Capped
    <3>2. base.cursor = 1 /\ base.pieces = <<>> /\ base.cursor - 1 = 0
      OBVIOUS
    <3> QED
      BY <3>1, <3>2, NothingJoined DEF MarkedUpTo
  <2> QED
    BY <1>2, <2>1, <2>2
<1>4. ASSUME NEW k \in 1 .. l, NEW state \in I[k - 1]
      PROVE  Piece(state, ms[k]) \in I[k]
  <2>1. k - 1 \in 0 .. l /\ k \in 0 .. l
    BY <1>2
  <2>2. state \in MarkStates(content, pattern, E) /\ MarkedUpTo(content, pattern, ms, state, k - 1)
    BY <2>1
  <2>3. Piece(state, ms[k]) \in Marked(k)
    BY <2>2, PieceKeeps
  <2> QED
    BY <2>1, <2>3
<1>5. Marking!Fold(base, ms) \in I[l]
  <2> HIDE DEF I
  <2> QED
    BY <1>2, <1>3, <1>4, Marking!FoldKeeps
<1>6. PICK done : done = Marking!Fold(base, ms)
  OBVIOUS
<1>7. /\ done.pieces \in Seq(Seq(E)) /\ done.cursor \in Nat \ {0}
      /\ Joined(done.pieces) = SubSeq(content, 1, Capped(content, done.cursor - 1))
  BY <1>2, <1>5, <1>6 DEF MarkedUpTo, MarkStates
<1> PICK pieces \in Seq(Seq(E)) : pieces = done.pieces
  BY <1>7
<1> PICK c0 \in Nat : done.cursor = c0 + 1 /\ done.cursor - 1 = c0
  BY <1>7
<1> PICK c1 : c1 = Capped(content, c0)
  OBVIOUS
<1> PICK rest : rest = SubSeq(content, c0 + 1, n)
  OBVIOUS
<1>8. rest \in Seq(E) /\ SubSeq(content, 1, c1) \o rest = content
  <2> HIDE DEF Marked, I
  <2>1. c1 \in Nat /\ c1 <= n /\ rest = SubSeq(content, c1 + 1, n)
    <3>1. CASE c0 < n
      BY <3>1 DEF Capped
    <3>2. CASE ~(c0 < n)
      <4>1. c1 = n
        BY <3>2 DEF Capped
      <4>2. rest = <<>>
        BY <3>2
      <4>3. SubSeq(content, n + 1, n) = <<>>
        OBVIOUS
      <4> QED
        BY <4>1, <4>2, <4>3
    <3> QED
      BY <3>1, <3>2
  <2>2. IsNextPart(content, rest, c1, Len(content))
    <3>1. n \in Nat /\ Len(content) = n
      OBVIOUS
    <3> QED
      BY ONLY <2>1, <3>1 DEF IsNextPart
  <2>3. content \in Seq(E)
    OBVIOUS
  <2> QED
    BY ONLY <2>2, <2>3, TextEnds
<1>9. RenderContent(content, query) = Append(pieces, rest)
  BY <1>6 DEF RenderContent
<1>10. Joined(Append(pieces, rest)) = Joined(pieces) \o rest
  BY <1>8, JoinMore
<1>11. Joined(Append(pieces, rest)) = content
  BY <1>7, <1>8, <1>10
<1> QED
  BY <1>9, <1>11 DEF Joined

(* What the plain viewer shows is the content, and its marks cover it. *)
LEMMA ContentIsCovered ==
  ASSUME NEW content \in Seq(DOMAIN Lower), NEW query \in Seq(DOMAIN Lower)
  PROVE  MatchesCoverTheContent(content, query)
<1> PICK n \in Nat : n = Len(content)
  OBVIOUS
<1> PICK pattern : pattern = NormalizedQuery(query)
  OBVIOUS
<1> PICK lowered : lowered = LowerCase(content)
  OBVIOUS
<1> PICK ms : ms = Search(content, query)
  OBVIOUS
<1>1. pattern \in Seq(Characters) /\ lowered \in Seq(Characters)
  <2>1. Trim(query) \in Seq(DOMAIN Lower)
    BY TrimIsText
  <2> QED
    BY <2>1, LowerIsText DEF NormalizedQuery
<1> PICK p \in Nat : p = Len(pattern)
  BY <1>1
<1> PICK l : l = Len(ms)
  OBVIOUS
<1>2. /\ AreMatches(lowered, pattern, ms)
      /\ pattern # <<>> => \A i \in 1 .. Len(lowered) :
                             StartsWith(lowered, pattern, i) => IsCovered(pattern, ms, i)
  <2>1. CASE pattern = <<>>
    <3>1. ms = <<>>
      BY <2>1 DEF Search
    <3> QED
      BY <2>1, <3>1 DEF AreMatches
  <2>2. CASE pattern # <<>>
    <3>1. ms = FindAll(lowered, pattern)
      BY <2>2 DEF Search
    <3>2. p > 0
      BY <1>1, <2>2, EmptySeq
    <3> QED
      BY <1>1, <3>1, <3>2, SearchCovers
  <2> QED
    BY <2>1, <2>2
<1>3. /\ ms \in Seq(Nat \ {0}) /\ l \in Nat /\ Len(ms) \in Nat
      /\ \A k \in 1 .. l : ms[k] \in Nat /\ ms[k] > 0 /\ StartsWith(lowered, pattern, ms[k])
  BY <1>2 DEF AreMatches
<1>4. Joining!Fold(<<>>, RenderContent(content, query)) = content
  <2>1. AreApart(pattern, ms)
    BY <1>2 DEF AreMatches, AreApart
  <2> QED
    BY <2>1, ContentIsShown
<1>5. ASSUME KeepsPlaces(content), pattern # <<>>
      PROVE  /\ \A m \in ToSet(ms) : Occurs(content, pattern, m)
             /\ \A i \in 1 .. n - p + 1 :
                  Occurs(content, pattern, i) =>
                    \/ \E m \in ToSet(ms) : i - m \in 0 .. p - 1
                    \/ Len(ms) = MaxMatches /\ i > Last(ms)
  <2>1. IsLowered(lowered, content, n)
    BY <1>5, LowerKeepsPlaces
  <2>2. Len(lowered) = n
    BY <2>1 DEF IsLowered
  <2>3. \A i \in Nat : i > 0 => (Occurs(content, pattern, i) <=> StartsWith(lowered, pattern, i))
    BY <1>1, <2>1, OccursInLowerCase
  <2>4. ASSUME NEW m \in ToSet(ms) PROVE Occurs(content, pattern, m)
    <3>1. PICK k \in 1 .. l : ms[k] = m
      BY <1>3 DEF ToSet
    <3> QED
      BY <1>3, <2>3, <3>1
  <2>5. ASSUME NEW i \in 1 .. n - p + 1, Occurs(content, pattern, i)
        PROVE  \/ \E m \in ToSet(ms) : i - m \in 0 .. p - 1
               \/ Len(ms) = MaxMatches /\ i > Last(ms)
    <3>0. p > 0
      BY <1>1, <1>5, EmptySeq
    <3>1. i \in 1 .. n /\ i \in Nat /\ i > 0
      BY <3>0
    <3>2. IsCovered(pattern, ms, i)
      BY <1>2, <1>5, <2>2, <2>3, <2>5, <3>1
    <3>3. CASE \E k \in 1 .. l : ms[k] <= i /\ i < ms[k] + p
      <4>1. PICK k \in 1 .. l : ms[k] <= i /\ i < ms[k] + p
        BY <3>3
      <4>2. PICK m \in Nat : m = ms[k]
        BY <1>3
      <4>3. m \in ToSet(ms)
        <5>1. k \in DOMAIN ms
          BY <1>3
        <5> QED
          BY <4>2, <5>1 DEF ToSet
      <4>4. i - m \in 0 .. p - 1
        BY <3>1, <4>1, <4>2
      <4> QED
        BY <4>3, <4>4
    <3>4. CASE Len(ms) = MaxMatches /\ i > ms[Len(ms)]
      BY <3>4 DEF Last
    <3> QED
      BY <3>2, <3>3, <3>4 DEF IsCovered
  <2> QED
    BY <2>4, <2>5
<1> QED
  BY <1>4, <1>5 DEF MatchesCoverTheContent

---------------------------------------------------------------------------------------
(* XML. *)

(* A place of the text at or after from, or 0. *)
IsInside(value, i, from) == i = 0 \/ (i \in Nat /\ from <= i /\ i <= Len(value))

IsFound(value, pattern, i, from) ==
  i = 0 \/ /\ i \in Nat /\ from <= i /\ i + Len(pattern) - 1 <= Len(value)
           /\ SubSeq(value, i, i + Len(pattern) - 1) = pattern

(* What is found is at or after from, and whole. *)
LEMMA IndexIsInside ==
  ASSUME NEW E, NEW value \in Seq(E), NEW pattern, Len(pattern) \in Nat, Len(pattern) > 0,
         NEW from \in Nat, from > 0, NEW i, i = IndexOf(value, pattern, from)
  PROVE  IsFound(value, pattern, i, from)
<1> PICK n \in Nat : n = Len(value)
  OBVIOUS
<1> PICK p \in Nat : p = Len(pattern) /\ p > 0
  OBVIOUS
<1> DEFINE places == {j \in from .. n - p + 1 : SubSeq(value, j, j + p - 1) = pattern}
<1>1. CASE places = {}
  BY <1>1 DEF IndexOf, IsFound
<1>2. CASE places # {}
  <2>1. places \in SUBSET Nat
    OBVIOUS
  <2>2. \E j \in places : \A k \in places : j <= k
    <3> HIDE DEF places
    <3> QED
      BY <1>2, <2>1, Naming!LeastNatural
  <2>3. i = CHOOSE j \in places : \A k \in places : j <= k
    BY <1>2 DEF IndexOf
  <2>4. i \in places
    <3> HIDE DEF places
    <3> QED
      BY <2>2, <2>3
  <2>5. i \in from .. n - p + 1 /\ SubSeq(value, i, i + p - 1) = pattern
    BY <2>4
  <2> QED
    BY <2>5 DEF IsFound
<1> QED
  BY <1>1, <1>2

(* What ends a markup ends inside the text, after its beginning. *)
LEMMA EndingIsInside ==
  ASSUME NEW E, NEW value \in Seq(E), NEW ending, Len(ending) \in Nat, Len(ending) > 0,
         NEW from \in Nat, from > 0, NEW end, end = EndingIndex(value, ending, from)
  PROVE  IsInside(value, end, from)
<1> PICK at : at = IndexOf(value, ending, from)
  OBVIOUS
<1>0. at = 0 \/ (at \in Nat /\ from <= at /\ at + Len(ending) - 1 <= Len(value))
  BY IndexIsInside DEF IsFound
<1> PICK n \in Nat : n = Len(value)
  OBVIOUS
<1> PICK p \in Nat : p = Len(ending) /\ p > 0
  OBVIOUS
<1>1. at = 0 \/ (at \in Nat /\ from <= at /\ at + p - 1 <= n)
  BY <1>0
<1>2. end = IF at = 0 THEN 0 ELSE at + p - 1
  BY DEF EndingIndex
<1>3. CASE at = 0
  BY <1>2, <1>3 DEF IsInside
<1>4. CASE at # 0
  <2>1. end = at + p - 1
    BY <1>2, <1>4
  <2>2. end \in Nat /\ from <= end /\ end <= n
    BY <1>1, <1>4, <2>1
  <2> QED
    BY <2>2 DEF IsInside
<1> QED
  BY <1>3, <1>4

(* The states of the scan of a tag: where it may be, and closed after it    *)
(* has moved.                                                              *)
Tags == [at : Nat, quote : Quotes \cup {"none"}, closed : BOOLEAN]

IsTagScan(tag, start, last) ==
  tag \in Tags /\ start <= tag.at /\ tag.at <= last /\ (tag.closed => start < tag.at)

(* Reading a tag goes on by one place, until it is closed. *)
LEMMA InTagKeeps ==
  ASSUME NEW start \in Nat, NEW last \in Nat, NEW tag, NEW character, IsTagScan(tag, start, last)
  PROVE  IsTagScan(InTag(tag, character), start, last + 1)
<1>1. tag \in Tags /\ start <= tag.at /\ tag.at <= last
  BY DEF IsTagScan
<1> PICK at \in Nat : at = tag.at
  BY <1>1 DEF Tags
<1> PICK quote \in Quotes \cup {"none"} : quote = tag.quote
  BY <1>1 DEF Tags
<1>2. CASE tag.closed
  <2>1. InTag(tag, character) = tag
    BY <1>2 DEF InTag
  <2>2. tag.at <= last + 1
    BY <1>1
  <2> QED
    BY <2>1, <2>2 DEF IsTagScan
<1>3. CASE ~tag.closed
  <2> PICK q : q = IF quote = "none" THEN (IF character \in Quotes THEN character ELSE "none")
                   ELSE IF quote = character THEN "none" ELSE quote
    OBVIOUS
  <2>1. InTag(tag, character) = [at |-> at + 1, quote |-> q, closed |-> quote = "none" /\ character = ">"]
    BY <1>3 DEF InTag
  <2> PICK next \in Nat : next = at + 1
    OBVIOUS
  <2>2. start <= next /\ next <= last + 1 /\ start < next
    BY <1>1
  <2>3. q \in Quotes \cup {"none"}
    OBVIOUS
  <2>4. CASE quote = "none" /\ character = ">"
    <3>1. InTag(tag, character) = [at |-> next, quote |-> q, closed |-> TRUE]
      BY <2>1, <2>4
    <3> QED
      BY <2>2, <2>3, <3>1 DEF IsTagScan, Tags
  <2>5. CASE ~(quote = "none" /\ character = ">")
    <3>1. InTag(tag, character) = [at |-> next, quote |-> q, closed |-> FALSE]
      BY <2>1, <2>5
    <3> QED
      BY <2>2, <2>3, <3>1 DEF IsTagScan, Tags
  <2> QED
    BY <2>4, <2>5
<1> QED
  BY <1>2, <1>3

(* A tag that is closed ends inside the text. *)
LEMMA TagEndIsInside ==
  ASSUME NEW E, NEW value \in Seq(E), NEW start \in Nat, start <= Len(value),
         NEW end, end = TagEnd(value, start)
  PROVE  IsInside(value, end, start)
<1> PICK l \in Nat : l = Len(value) /\ start <= l
  OBVIOUS
<1>8. l - start \in Nat
  OBVIOUS
<1> PICK n \in Nat : n = l - start
  BY <1>8
<1>9. start + n = l
  OBVIOUS
<1> PICK rest : rest = SubSeq(value, start + 1, l)
  OBVIOUS
<1> PICK base : base = [at |-> start, quote |-> "none", closed |-> FALSE]
  OBVIOUS
<1> DEFINE At(k) == {tag \in Tags : IsTagScan(tag, start, start + k)}
           I == [k \in 0 .. n |-> At(k)]
<1>1. Len(rest) = n /\ Len(rest) \in Nat
  <2> PICK first : first = start + 1
    OBVIOUS
  <2>1. first \in 1 .. l + 1 /\ l \in first - 1 .. l /\ l - first + 1 = n
    OBVIOUS
  <2>2. Len(SubSeq(value, first, l)) = l - first + 1
    BY <2>1, SubSeqIsText
  <2> QED
    BY <2>1, <2>2
<1>2. base \in I[0]
  <2>1. base \in Tags
    BY DEF Tags
  <2>2. IsTagScan(base, start, start + 0)
    BY <2>1 DEF IsTagScan
  <2>3. 0 \in 0 .. n
    OBVIOUS
  <2> QED
    BY <2>1, <2>2, <2>3
<1>3. ASSUME NEW k \in 1 .. n, NEW tag \in I[k - 1]
      PROVE  InTag(tag, rest[k]) \in I[k]
  <2> PICK last \in Nat : last = start + (k - 1) /\ last + 1 = start + k
    OBVIOUS
  <2>1. k \in 0 .. n /\ k - 1 \in 0 .. n
    OBVIOUS
  <2>2. IsTagScan(tag, start, last)
    BY <2>1
  <2>3. IsTagScan(InTag(tag, rest[k]), start, last + 1)
    BY <2>2, InTagKeeps
  <2>4. InTag(tag, rest[k]) \in At(k)
    BY <2>3 DEF IsTagScan
  <2> QED
    BY <2>1, <2>4
<1>4. TagScan!Fold(base, rest) \in I[n]
  <2> HIDE DEF I
  <2> QED
    BY <1>1, <1>2, <1>3, TagScan!FoldKeeps
<1> PICK tag : tag = TagScan!Fold(base, rest)
  OBVIOUS
<1>5. IsTagScan(tag, start, l)
  <2>1. n \in 0 .. n
    OBVIOUS
  <2> QED
    BY <1>4, <2>1
<1>6. tag.at \in Nat /\ tag.at <= l /\ start <= tag.at
  BY <1>5 DEF IsTagScan, Tags
<1>7. end = IF tag.closed THEN tag.at ELSE 0
  BY DEF TagEnd
<1> QED
  BY <1>6, <1>7 DEF IsInside

(* A markup that ends does so inside the text, not before it begins. *)
LEMMA MarkupEndIsInside ==
  ASSUME NEW E, NEW value \in Seq(E), NEW start \in Nat, start > 0, start <= Len(value),
         NEW end, end = MarkupEnd(value, start)
  PROVE  IsInside(value, end, start)
<1> PICK n \in Nat : n = Len(value)
  OBVIOUS
<1> PICK a : a = <<"-", "-", ">">>
  OBVIOUS
<1> PICK b : b = <<"]", ">">>
  OBVIOUS
<1> PICK c : c = <<"?", ">">>
  OBVIOUS
<1>1. /\ Len(a) \in Nat /\ Len(a) > 0 /\ Len(b) \in Nat /\ Len(b) > 0
      /\ Len(c) \in Nat /\ Len(c) > 0
  OBVIOUS
<1> PICK i \in Nat : i = start + 4 /\ i > 0 /\ start <= i
  OBVIOUS
<1> PICK j \in Nat : j = start + 3 /\ j > 0 /\ start <= j
  OBVIOUS
<1> PICK k \in Nat : k = start + 2 /\ k > 0 /\ start <= k
  OBVIOUS
<1> PICK x : x = EndingIndex(value, a, i)
  OBVIOUS
<1> PICK y : y = EndingIndex(value, b, j)
  OBVIOUS
<1> PICK z : z = EndingIndex(value, c, k)
  OBVIOUS
<1> PICK w : w = TagEnd(value, start)
  OBVIOUS
<1>3. IsInside(value, x, i)
  BY <1>1, EndingIsInside
<1>4. IsInside(value, y, j)
  BY <1>1, EndingIsInside
<1>5. IsInside(value, z, k)
  BY <1>1, EndingIsInside
<1>6. IsInside(value, w, start)
  BY TagEndIsInside
<1>7. IsInside(value, x, start) /\ IsInside(value, y, start) /\ IsInside(value, z, start)
  BY <1>3, <1>4, <1>5 DEF IsInside
<1>8. end = x \/ end = y \/ end = z \/ end = w
  BY DEF MarkupEnd
<1> QED
  BY <1>6, <1>7, <1>8

(* So does every token. *)
LEMMA TokenEndIsInside ==
  ASSUME NEW E, NEW value \in Seq(E), NEW i \in Nat, i > 0, i <= Len(value),
         NEW end, end = TokenEnd(value, i)
  PROVE  IsInside(value, end, i)
<1> PICK n \in Nat : n = Len(value)
  OBVIOUS
<1> PICK open : open = <<"<">>
  OBVIOUS
<1> PICK next : next = IndexOf(value, open, i)
  OBVIOUS
<1>1. CASE value[i] = "<"
  <2>1. end = MarkupEnd(value, i)
    BY <1>1 DEF TokenEnd
  <2> QED
    BY <2>1, MarkupEndIsInside
<1>2. CASE value[i] # "<" /\ next = 0
  <2>1. end = n
    BY <1>2 DEF TokenEnd
  <2> QED
    BY <2>1 DEF IsInside
<1>3. CASE value[i] # "<" /\ next # 0
  <2>1. end = next - 1
    BY <1>3 DEF TokenEnd
  <2>2. Len(open) = 1 /\ Len(open) \in Nat /\ Len(open) > 0 /\ open[1] = "<"
    OBVIOUS
  <2>3. next \in Nat /\ i <= next /\ next + Len(open) - 1 <= Len(value)
        /\ SubSeq(value, next, next + Len(open) - 1) = open
    <3>1. IsFound(value, open, next, i)
      BY <2>2, IndexIsInside
    <3> QED
      BY <1>3, <3>1 DEF IsFound
  <2>4. next <= n /\ SubSeq(value, next, next) = open
    BY <2>2, <2>3
  <2>5. SubSeq(value, next, next)[1] = value[next]
    BY <2>3, <2>4
  <2>6. next # i
    BY <1>3, <2>2, <2>4, <2>5
  <2>7. end \in Nat /\ i <= end /\ end <= n
    BY <2>1, <2>3, <2>4, <2>6
  <2> QED
    BY <2>7 DEF IsInside
<1> QED
  BY <1>1, <1>2, <1>3

(* The tokens so far are the text before the index. *)
TokenStates(E, value) ==
  [value : {value}, index : 0 .. Len(value) + 1, tokens : Seq(Seq(E))]

ReadUpTo(value, state, n) ==
  state.index # 0 =>
    /\ n + 1 <= state.index
    /\ Joined(state.tokens) = SubSeq(value, 1, state.index - 1)

(* At every place the tokens so far are the text before the index. *)
LEMMA NextTokenKeeps ==
  ASSUME NEW E, NEW value \in Seq(E), NEW i \in Nat, i > 0, i <= Len(value),
         NEW state \in TokenStates(E, value), ReadUpTo(value, state, i - 1)
  PROVE  NextToken(state, i) \in TokenStates(E, value) /\ ReadUpTo(value, NextToken(state, i), i)
<1> PICK n \in Nat : n = Len(value)
  OBVIOUS
<1> PICK end : end = TokenEnd(value, i)
  OBVIOUS
<1> PICK tokens : tokens = state.tokens
  OBVIOUS
<1>1. /\ state.value = value /\ state.index \in Nat /\ state.index <= n + 1
      /\ tokens \in Seq(Seq(E))
  BY DEF TokenStates
<1>2. CASE i # state.index
  <2>1. NextToken(state, i) = state
    BY <1>2 DEF NextToken
  <2>2. ReadUpTo(value, state, i)
    BY <1>1, <1>2 DEF ReadUpTo
  <2> QED
    BY <2>1, <2>2
<1>3. CASE i = state.index /\ end = 0
  <2>1. NextToken(state, i) = [state EXCEPT !.index = 0]
    BY <1>1, <1>3 DEF NextToken
  <2>2. NextToken(state, i) \in TokenStates(E, value) /\ NextToken(state, i).index = 0
    <3>1. 0 \in 0 .. Len(value) + 1
      OBVIOUS
    <3> QED
      BY <2>1, <3>1 DEF TokenStates
  <2> QED
    BY <2>2 DEF ReadUpTo
<1>4. CASE i = state.index /\ end # 0
  <2>1. end \in Nat /\ i <= end /\ end <= n
    <3>1. IsInside(value, end, i)
      BY TokenEndIsInside
    <3> QED
      BY <1>4, <3>1 DEF IsInside
  <2> PICK before \in Nat : i = before + 1 /\ before = i - 1
    OBVIOUS
  <2> PICK token : token = Token(value, i, end)
    OBVIOUS
  <2>2. IsNextPart(value, token, before, end)
    BY <2>1 DEF IsNextPart, Token
  <2>3. token \in Seq(E) /\ SubSeq(value, 1, before) \o token = SubSeq(value, 1, end)
    BY <2>2, TextGoesOn
  <2> PICK more : more = Append(tokens, token)
    OBVIOUS
  <2>4. more \in Seq(Seq(E))
    BY <1>1, <2>3
  <2>5. Joined(tokens) = SubSeq(value, 1, before)
    BY <1>1, <1>4 DEF ReadUpTo
  <2>6. Joined(more) = Joined(tokens) \o token
    BY <1>1, <2>3, JoinMore
  <2>7. Joined(more) = SubSeq(value, 1, end)
    BY <2>3, <2>5, <2>6
  <2> PICK after \in Nat : after = end + 1 /\ after - 1 = end /\ after <= n + 1 /\ i + 1 <= after
    BY <2>1
  <2>8. NextToken(state, i) = [state EXCEPT !.index = after, !.tokens = more]
    BY <1>1, <1>4 DEF NextToken
  <2>9. /\ NextToken(state, i) \in TokenStates(E, value)
        /\ NextToken(state, i).index = after /\ NextToken(state, i).tokens = more
    <3>1. after \in 0 .. Len(value) + 1
      OBVIOUS
    <3> QED
      BY <2>4, <2>8, <3>1 DEF TokenStates
  <2> QED
    BY <2>7, <2>9 DEF ReadUpTo
<1> QED
  BY <1>2, <1>3, <1>4

(* The tokens are the text. *)
LEMMA TokensAreTheText ==
  ASSUME NEW E, NEW value \in Seq(E), Tokenize(value) # NoTokens
  PROVE  Tokenize(value) \in Seq(Seq(E)) /\ Joined(Tokenize(value)) = value
<1> PICK n \in Nat : n = Len(value)
  OBVIOUS
<1> PICK places : places = Places(value)
  OBVIOUS
<1>1. Len(places) = n /\ Len(places) \in Nat /\ \A i \in 1 .. n : places[i] = i
  BY DEF Places
<1> DEFINE Read(i) == {state \in TokenStates(E, value) : ReadUpTo(value, state, i)}
           I == [i \in 0 .. n |-> Read(i)]
<1> PICK base : base = [value |-> value, index |-> 1, tokens |-> <<>>]
  OBVIOUS
<1>2. base \in I[0]
  <2>1. base \in TokenStates(E, value)
    BY DEF TokenStates
  <2>2. ReadUpTo(value, base, 0)
    <3>1. SubSeq(value, 1, 0) = <<>>
      OBVIOUS
    <3>2. base.index = 1 /\ base.tokens = <<>> /\ base.index - 1 = 0
      OBVIOUS
    <3>3. Joined(base.tokens) = SubSeq(value, 1, base.index - 1)
      BY <3>1, <3>2, NothingJoined
    <3>4. 0 + 1 <= base.index
      BY <3>2
    <3> QED
      BY <3>3, <3>4 DEF ReadUpTo
  <2> QED
    BY <2>1, <2>2
<1>3. ASSUME NEW i \in 1 .. n, NEW state \in I[i - 1]
      PROVE  NextToken(state, places[i]) \in I[i]
  <2>1. i - 1 \in 0 .. n /\ i \in 0 .. n /\ i \in Nat /\ i > 0 /\ i <= n /\ places[i] = i
    BY <1>1
  <2>2. state \in TokenStates(E, value) /\ ReadUpTo(value, state, i - 1)
    BY <2>1
  <2>3. NextToken(state, i) \in Read(i)
    BY <2>1, <2>2, NextTokenKeeps
  <2> QED
    BY <2>1, <2>3
<1>4. Tokenizing!Fold(base, places) \in I[n]
  <2> HIDE DEF I
  <2> QED
    BY <1>1, <1>2, <1>3, Tokenizing!FoldKeeps
<1> PICK done : done = Tokenizing!Fold(base, places)
  OBVIOUS
<1>5. done \in TokenStates(E, value) /\ ReadUpTo(value, done, n)
  BY <1>4
<1>6. done.index # 0 /\ Tokenize(value) = done.tokens
  BY DEF Tokenize
<1>7. done.index \in Nat /\ done.index <= n + 1 /\ n + 1 <= done.index
      /\ Joined(done.tokens) = SubSeq(value, 1, done.index - 1) /\ done.tokens \in Seq(Seq(E))
  BY <1>5, <1>6 DEF TokenStates, ReadUpTo
<1>8. done.index - 1 = n /\ SubSeq(value, 1, n) = value
  BY <1>7
<1> QED
  BY <1>6, <1>7, <1>8

(* One more number to look at is one more to count, when it counts. *)
LEMMA CountOneMore ==
  ASSUME NEW n \in Nat, NEW A \in SUBSET (1 .. n), NEW B \in SUBSET (1 .. n + 1),
         \A j \in 1 .. n : j \in A <=> j \in B
  PROVE  /\ Cardinality(A) \in Nat
         /\ n + 1 \in B => Cardinality(B) = Cardinality(A) + 1
         /\ n + 1 \notin B => Cardinality(B) = Cardinality(A)
<1>1. IsFiniteSet(A)
  <2>1. IsFiniteSet(1 .. n)
    BY FS_Interval
  <2> QED
    BY <2>1, FS_Subset
<1>2. Cardinality(A) \in Nat
  BY <1>1, FS_CardinalityType
<1>3. \A j \in 1 .. n + 1 : j \in 1 .. n \/ j = n + 1
  OBVIOUS
<1> PICK m : m = n + 1
  OBVIOUS
<1>4. m \notin A
  OBVIOUS
<1>5. CASE m \in B
  <2>1. B = A \cup {m}
    <3>1. \A j : j \in B <=> j \in A \cup {m}
      BY <1>3, <1>5
    <3> QED
      BY <3>1
  <2> QED
    BY <1>1, <1>2, <1>4, <1>5, <2>1, FS_AddElement
<1>6. CASE m \notin B
  <2>1. B = A
    <3>1. \A j : j \in B <=> j \in A
      BY <1>3, <1>6
    <3> QED
      BY <3>1
  <2> QED
    BY <1>2, <1>6, <2>1
<1> QED
  BY <1>5, <1>6

OpenedBy(tokens, n) == Cardinality({j \in 1 .. n : Opens(tokens[j])})
EndedBy(tokens, n) == Cardinality({j \in 1 .. n : IsEnd(tokens[j])})

SameUpTo(tokens, others, n) == n \in Nat /\ \A j \in 1 .. n : tokens[j] = others[j]

(* Tokens that begin alike have opened and ended the same. *)
LEMMA SameTokensBefore ==
  ASSUME NEW tokens, NEW others, NEW n, SameUpTo(tokens, others, n), NEW m \in 0 .. n
  PROVE  OpenedBy(tokens, m) = OpenedBy(others, m) /\ EndedBy(tokens, m) = EndedBy(others, m)
<1>1. \A j \in 1 .. m : tokens[j] = others[j]
  BY DEF SameUpTo
<1>2. {j \in 1 .. m : Opens(tokens[j])} = {j \in 1 .. m : Opens(others[j])}
  BY <1>1
<1>3. {j \in 1 .. m : IsEnd(tokens[j])} = {j \in 1 .. m : IsEnd(others[j])}
  BY <1>1
<1> QED
  BY <1>2, <1>3 DEF OpenedBy, EndedBy

CountsOn(tokens, n) ==
  /\ OpenedBy(tokens, n) \in Nat /\ EndedBy(tokens, n) \in Nat
  /\ OpenedBy(tokens, n + 1) = OpenedBy(tokens, n) + (IF Opens(tokens[n + 1]) THEN 1 ELSE 0)
  /\ EndedBy(tokens, n + 1) = EndedBy(tokens, n) + (IF IsEnd(tokens[n + 1]) THEN 1 ELSE 0)

(* A token more is counted for what it opens and what it ends. *)
LEMMA OneMoreToken ==
  ASSUME NEW tokens, NEW n \in Nat
  PROVE  CountsOn(tokens, n)
<1> PICK A, B : A = {j \in 1 .. n : Opens(tokens[j])} /\ B = {j \in 1 .. n + 1 : Opens(tokens[j])}
  OBVIOUS
<1>1. /\ Cardinality(A) \in Nat
      /\ n + 1 \in B => Cardinality(B) = Cardinality(A) + 1
      /\ n + 1 \notin B => Cardinality(B) = Cardinality(A)
  <2>1. A \in SUBSET (1 .. n) /\ B \in SUBSET (1 .. n + 1) /\ \A j \in 1 .. n : j \in A <=> j \in B
    OBVIOUS
  <2> QED
    BY <2>1, CountOneMore
<1>2. n + 1 \in B <=> Opens(tokens[n + 1])
  OBVIOUS
<1>3. /\ OpenedBy(tokens, n) \in Nat
      /\ OpenedBy(tokens, n + 1) = OpenedBy(tokens, n) + (IF Opens(tokens[n + 1]) THEN 1 ELSE 0)
  BY <1>1, <1>2 DEF OpenedBy
<1> PICK C, D : C = {j \in 1 .. n : IsEnd(tokens[j])} /\ D = {j \in 1 .. n + 1 : IsEnd(tokens[j])}
  OBVIOUS
<1>4. /\ Cardinality(C) \in Nat
      /\ n + 1 \in D => Cardinality(D) = Cardinality(C) + 1
      /\ n + 1 \notin D => Cardinality(D) = Cardinality(C)
  <2>1. C \in SUBSET (1 .. n) /\ D \in SUBSET (1 .. n + 1) /\ \A j \in 1 .. n : j \in C <=> j \in D
    OBVIOUS
  <2> QED
    BY <2>1, CountOneMore
<1>5. n + 1 \in D <=> IsEnd(tokens[n + 1])
  OBVIOUS
<1>6. /\ EndedBy(tokens, n) \in Nat
      /\ EndedBy(tokens, n + 1) = EndedBy(tokens, n) + (IF IsEnd(tokens[n + 1]) THEN 1 ELSE 0)
  BY <1>4, <1>5 DEF EndedBy
<1> QED
  BY <1>3, <1>6 DEF CountsOn

(* No tokens open nothing and end nothing. *)
LEMMA NoTokensCount ==
  ASSUME NEW tokens
  PROVE  OpenedBy(tokens, 0) = 0 /\ EndedBy(tokens, 0) = 0
<1>1. {j \in 1 .. 0 : Opens(tokens[j])} = {} /\ {j \in 1 .. 0 : IsEnd(tokens[j])} = {}
  OBVIOUS
<1> QED
  BY <1>1, FS_EmptySet DEF OpenedBy, EndedBy

(* The lines of what is kept, each as deep as it should be, and the depth   *)
(* after them.                                                             *)
Lines(T) == [depth : Nat, text : T]

IsLaidOut(T, lines, depth, kept) ==
  /\ lines \in Seq(Lines(T)) /\ kept \in Seq(T) /\ Len(kept) = Len(lines) /\ depth \in Nat
  /\ \A i \in 1 .. Len(lines) : lines[i].text = LineText(kept[i]) /\ lines[i].depth = DepthOf(kept, i)
  /\ depth = OpenedBy(kept, Len(lines)) - EndedBy(kept, Len(lines))

(* A line at its depth keeps the layout of the lines before it. *)
LEMMA LineKeepsLayout ==
  ASSUME NEW T, NEW lines, NEW depth, NEW kept, IsLaidOut(T, lines, depth, kept),
         NEW token \in T, LineText(token) \in T, NEW at \in Nat, at = IF IsEnd(token) THEN depth - 1 ELSE depth,
         NEW after, after = IF Opens(token) THEN at + 1 ELSE at
  PROVE  IsLaidOut(T, Append(lines, [depth |-> at, text |-> LineText(token)]), after, Append(kept, token))
<1> PICK l \in Nat : l = Len(lines)
  BY DEF IsLaidOut
<1> PICK text1 \in T : text1 = LineText(token)
  OBVIOUS
<1> PICK line : line = [depth |-> at, text |-> text1]
  OBVIOUS
<1> PICK next : next = Append(lines, line)
  OBVIOUS
<1> PICK more : more = Append(kept, token)
  OBVIOUS
<1>1. /\ lines \in Seq(Lines(T)) /\ kept \in Seq(T) /\ Len(kept) = l /\ depth \in Nat
      /\ \A i \in 1 .. l : lines[i].text = LineText(kept[i]) /\ lines[i].depth = DepthOf(kept, i)
      /\ depth = OpenedBy(kept, l) - EndedBy(kept, l)
  BY DEF IsLaidOut
<1>2. line \in Lines(T) /\ line.text = text1 /\ line.depth = at
  BY DEF Lines
<1>3. /\ next \in Seq(Lines(T)) /\ Len(next) = l + 1 /\ next[l + 1] = line
      /\ \A i \in 1 .. l : next[i] = lines[i]
  BY <1>1, <1>2
<1>4. /\ more \in Seq(T) /\ Len(more) = l + 1 /\ more[l + 1] = token
      /\ \A i \in 1 .. l : more[i] = kept[i]
  BY <1>1
<1>5. \A m \in 0 .. l : OpenedBy(more, m) = OpenedBy(kept, m) /\ EndedBy(more, m) = EndedBy(kept, m)
  <2>1. SameUpTo(more, kept, l)
    BY <1>4 DEF SameUpTo
  <2> QED
    BY <2>1, SameTokensBefore
<1>6. OpenedBy(more, l) = OpenedBy(kept, l) /\ EndedBy(more, l) = EndedBy(kept, l)
  BY <1>5
<1> PICK o \in Nat, e \in Nat : o = OpenedBy(more, l) /\ e = EndedBy(more, l)
  BY OneMoreToken DEF CountsOn
<1>7. depth = o - e
  BY <1>1, <1>6
<1>8. /\ OpenedBy(more, l + 1) = o + (IF Opens(token) THEN 1 ELSE 0)
      /\ EndedBy(more, l + 1) = e + (IF IsEnd(token) THEN 1 ELSE 0)
  <2>1. CountsOn(more, l)
    BY OneMoreToken
  <2> QED
    BY <1>4, <2>1 DEF CountsOn
<1>9. at = o - EndedBy(more, l + 1)
  <2>1. CASE IsEnd(token)
    BY <1>7, <1>8, <2>1
  <2>2. CASE ~IsEnd(token)
    BY <1>7, <1>8, <2>2
  <2> QED
    BY <2>1, <2>2
<1>10. DepthOf(more, l + 1) = at
  <2>1. (l + 1) - 1 = l
    OBVIOUS
  <2> QED
    BY <1>9, <2>1 DEF DepthOf, OpenedBy, EndedBy
<1>11. \A i \in 1 .. l : DepthOf(more, i) = DepthOf(kept, i)
  <2> SUFFICES ASSUME NEW i \in 1 .. l PROVE DepthOf(more, i) = DepthOf(kept, i)
    OBVIOUS
  <2>1. i - 1 \in 0 .. l /\ i \in 0 .. l
    OBVIOUS
  <2> QED
    BY <1>5, <2>1 DEF DepthOf, OpenedBy, EndedBy
<1>12. \A i \in 1 .. l + 1 : next[i].text = LineText(more[i]) /\ next[i].depth = DepthOf(more, i)
  <2> SUFFICES ASSUME NEW i \in 1 .. l + 1
               PROVE  next[i].text = LineText(more[i]) /\ next[i].depth = DepthOf(more, i)
    OBVIOUS
  <2>1. CASE i = l + 1
    BY <1>2, <1>3, <1>4, <1>10, <2>1
  <2>2. CASE i \in 1 .. l
    BY <1>1, <1>3, <1>4, <1>11, <2>2
  <2>3. i = l + 1 \/ i \in 1 .. l
    OBVIOUS
  <2> QED
    BY <2>1, <2>2, <2>3
<1>13. after \in Nat /\ after = OpenedBy(more, l + 1) - EndedBy(more, l + 1)
  <2>1. CASE Opens(token)
    BY <1>8, <1>9, <2>1
  <2>2. CASE ~Opens(token)
    BY <1>8, <1>9, <2>2
  <2> QED
    BY <2>1, <2>2
<1>14. IsLaidOut(T, next, after, more)
  BY <1>3, <1>4, <1>12, <1>13 DEF IsLaidOut
<1> QED
  BY <1>14

(* What the formatter has, beside what is kept of the tokens, as long as no *)
(* end tag has nothing to end.                                             *)
IsFormatting(T, state, kept) ==
  /\ state \in [lines : Seq(Lines(T)), depth : Int] /\ kept \in Seq(T)
  /\ state.depth # -1 => IsLaidOut(T, state.lines, state.depth, kept)

(* Formatting keeps the layout, one token after another. *)
LEMMA AddLineKeeps ==
  ASSUME NEW T, NEW state, NEW kept, IsFormatting(T, state, kept), NEW token \in T, LineText(token) \in T,
         NEW more, more = IF IsBlank(token) THEN kept ELSE Append(kept, token)
  PROVE  IsFormatting(T, AddLine(state, token), more)
<1> PICK at : at = IF IsEnd(token) THEN state.depth - 1 ELSE state.depth
  OBVIOUS
<1>1. /\ state \in [lines : Seq(Lines(T)), depth : Int] /\ kept \in Seq(T)
      /\ state.depth # -1 => IsLaidOut(T, state.lines, state.depth, kept)
  BY DEF IsFormatting
<1>2. more \in Seq(T) /\ at \in Int /\ state.depth \in Int
  BY <1>1
<1>3. CASE state.depth = -1 \/ at = -1
  <2>1. AddLine(state, token) = [state EXCEPT !.depth = -1]
    BY <1>3 DEF AddLine
  <2>2. /\ AddLine(state, token) \in [lines : Seq(Lines(T)), depth : Int]
        /\ AddLine(state, token).depth = -1
    <3> PICK none \in Int : none = -1
      OBVIOUS
    <3>1. AddLine(state, token) = [state EXCEPT !.depth = none]
      BY <2>1
    <3> QED
      BY <1>1, <3>1
  <2> QED
    BY <1>2, <2>2 DEF IsFormatting
<1>4. CASE ~(state.depth = -1 \/ at = -1)
  <2>1. IsLaidOut(T, state.lines, state.depth, kept) /\ state.depth \in Nat
    BY <1>1, <1>4 DEF IsLaidOut
  <2>2. at \in Nat
    BY <1>4, <2>1
  <2>3. CASE IsBlank(token)
    <3>1. AddLine(state, token) = state /\ more = kept
      BY <1>4, <2>3 DEF AddLine
    <3> QED
      BY <3>1
  <2>4. CASE ~IsBlank(token)
    <3> PICK after : after = IF Opens(token) THEN at + 1 ELSE at
      OBVIOUS
    <3> PICK lines : lines = Append(state.lines, [depth |-> at, text |-> LineText(token)])
      OBVIOUS
    <3>1. IsLaidOut(T, lines, after, more)
      BY <2>1, <2>2, <2>4, LineKeepsLayout
    <3>2. lines \in Seq(Lines(T)) /\ after \in Int
      BY <3>1 DEF IsLaidOut
    <3>3. AddLine(state, token) = [lines |-> lines, depth |-> after]
      BY <1>4, <2>4 DEF AddLine
    <3> QED
      BY <1>2, <3>1, <3>2, <3>3 DEF IsFormatting
  <2> QED
    BY <2>3, <2>4
<1> QED
  BY <1>3, <1>4

KeptTokens(tokens) == Joining!Kept(tokens, {t \in ToSet(tokens) : ~IsBlank(t)})

(* The lines of the formatter are those of what is kept. *)
LEMMA FormatIsLaidOut ==
  ASSUME NEW T, \A t \in T : LineText(t) \in T, NEW tokens \in Seq(T)
  PROVE  IsFormatting(T, Format(tokens), KeptTokens(tokens))
<1> PICK n \in Nat : n = Len(tokens)
  OBVIOUS
<1> PICK S : S = {t \in ToSet(tokens) : ~IsBlank(t)}
  OBVIOUS
<1> PICK parts : parts = [i \in 1 .. Len(tokens) |-> IF tokens[i] \in S THEN <<tokens[i]>> ELSE <<>>]
  OBVIOUS
<1> PICK base : base = [lines |-> <<>>, depth |-> 0]
  OBVIOUS
<1> PICK none : none = <<>>
  OBVIOUS
<1>1. Len(parts) = n /\ Len(parts) \in Nat /\ Len(tokens) \in Nat
  OBVIOUS
<1>2. PICK f : Formatting!IsRun(f, base, tokens) /\ Formatting!Fold(base, tokens) = f[Len(tokens)]
  BY <1>1, Formatting!FoldIsRun
<1>3. PICK g : Joining!IsRun(g, none, parts) /\ Joining!Fold(none, parts) = g[Len(parts)]
  BY <1>1, Joining!FoldIsRun
<1>4. f[0] = base /\ \A i \in 1 .. n : f[i] = AddLine(f[i - 1], tokens[i])
  BY <1>2 DEF Formatting!IsRun
<1>5. g[0] = none /\ \A i \in 1 .. n : g[i] = g[i - 1] \o parts[i]
  BY <1>1, <1>3 DEF Joining!IsRun
<1> DEFINE G == {i \in Nat : IsFormatting(T, f[i], g[i])}
<1>6. 0 \in G
  <2>1. base \in [lines : Seq(Lines(T)), depth : Int] /\ base.lines = none /\ base.depth = 0
    OBVIOUS
  <2>2. IsLaidOut(T, none, 0, none)
    <3>1. none \in Seq(Lines(T)) /\ none \in Seq(T) /\ Len(none) = 0
      OBVIOUS
    <3>2. OpenedBy(none, 0) = 0 /\ EndedBy(none, 0) = 0
      BY NoTokensCount
    <3> QED
      BY <3>1, <3>2 DEF IsLaidOut
  <2>3. none \in Seq(T)
    OBVIOUS
  <2>4. IsFormatting(T, base, none)
    BY <2>1, <2>2, <2>3 DEF IsFormatting
  <2> QED
    BY <1>4, <1>5, <2>4
<1>7. \A i \in 1 .. n : i - 1 \in G => i \in G
  <2> SUFFICES ASSUME NEW i \in 1 .. n, IsFormatting(T, f[i - 1], g[i - 1])
               PROVE  IsFormatting(T, f[i], g[i])
    OBVIOUS
  <2> PICK token : token = tokens[i]
    OBVIOUS
  <2> PICK kept : kept = g[i - 1]
    OBVIOUS
  <2>1. token \in T /\ kept \in Seq(T)
    BY DEF IsFormatting
  <2>2. token \in ToSet(tokens)
    <3>1. i \in DOMAIN tokens
      OBVIOUS
    <3> QED
      BY <3>1 DEF ToSet
  <2>3. token \in S <=> ~IsBlank(token)
    BY <2>2
  <2>4. parts[i] = IF token \in S THEN <<token>> ELSE <<>>
    OBVIOUS
  <2>5. g[i] = IF IsBlank(token) THEN kept ELSE Append(kept, token)
    <3>1. g[i] = kept \o parts[i]
      BY <1>5
    <3>2. CASE IsBlank(token)
      <4>1. parts[i] = <<>>
        BY <2>3, <2>4, <3>2
      <4>2. kept \o <<>> = kept
        BY <2>1
      <4> QED
        BY <3>1, <3>2, <4>1, <4>2
    <3>3. CASE ~IsBlank(token)
      <4>1. parts[i] = <<token>>
        BY <2>3, <2>4, <3>3
      <4>2. kept \o <<token>> = Append(kept, token)
        BY <2>1
      <4> QED
        BY <3>1, <3>3, <4>1, <4>2
    <3> QED
      BY <3>2, <3>3
  <2>6. f[i] = AddLine(f[i - 1], token)
    BY <1>4
  <2>7. IsFormatting(T, f[i - 1], kept)
    OBVIOUS
  <2>8. IsFormatting(T, AddLine(f[i - 1], token), g[i])
    BY <2>1, <2>5, <2>7, AddLineKeeps
  <2> QED
    BY <2>6, <2>8
<1>8. \A i \in 0 .. n : i \in G
  <2> HIDE DEF G
  <2> QED
    BY <1>6, <1>7, Joining!UpwardInduction
<1>9. IsFormatting(T, f[n], g[n])
  BY <1>8
<1>10. Format(tokens) = f[n]
  BY <1>2 DEF Format
<1>11. KeptTokens(tokens) = g[n]
  BY <1>1, <1>3 DEF KeptTokens, Joining!Kept
<1> QED
  BY <1>9, <1>10, <1>11

(* XML keeps its source. *)
LEMMA XmlIsKept ==
  ASSUME NEW E, NEW value \in Seq(E)
  PROVE  XmlKeepsTheSource(value)
<1> PICK tokens : tokens = Tokenize(value)
  OBVIOUS
<1> PICK shown : shown = XmlPresentation(value)
  OBVIOUS
<1> PICK lines : lines = shown.lines
  OBVIOUS
<1>1. tokens # NoTokens => tokens \in Seq(Seq(E)) /\ Joined(tokens) = value
  BY TokensAreTheText
<1>2. ASSUME shown.valid
      PROVE  /\ Len(lines) = Len(KeptTokens(tokens))
             /\ \A n \in 1 .. Len(lines) :
                  /\ lines[n].text = LineText(KeptTokens(tokens)[n])
                  /\ lines[n].depth = DepthOf(KeptTokens(tokens), n) /\ lines[n].depth >= 0
  <2> PICK done : done = Format(tokens)
    OBVIOUS
  <2> PICK kept : kept = KeptTokens(tokens)
    OBVIOUS
  <2>1. tokens # NoTokens /\ done.depth = 0 /\ lines = done.lines
    BY <1>2 DEF XmlPresentation
  <2> PICK T : T = Seq(E)
    OBVIOUS
  <2>2. tokens \in Seq(T)
    BY <1>1, <2>1
  <2>3. IsFormatting(T, done, kept)
    <3>1. \A t \in T : LineText(t) \in T
      BY TrimIsText DEF LineText
    <3> QED
      BY <2>2, <3>1, FormatIsLaidOut
  <2>4. IsLaidOut(T, lines, done.depth, kept)
    BY <2>1, <2>3 DEF IsFormatting
  <2> PICK l \in Nat : l = Len(lines)
    BY <2>4 DEF IsLaidOut
  <2>5. /\ lines \in Seq(Lines(T)) /\ kept \in Seq(T) /\ Len(kept) = l
        /\ \A i \in 1 .. l : lines[i].text = LineText(kept[i]) /\ lines[i].depth = DepthOf(kept, i)
    BY <2>4 DEF IsLaidOut
  <2>6. ASSUME NEW n \in 1 .. l PROVE lines[n].depth >= 0
    <3>1. lines[n] \in Lines(T)
      BY <2>5
    <3>2. lines[n].depth \in Nat
      BY <3>1 DEF Lines
    <3> QED
      BY <3>2
  <2> QED
    BY <2>5, <2>6
<1> QED
  BY <1>1, <1>2 DEF XmlKeepsTheSource, KeptTokens, Joined

---------------------------------------------------------------------------------------
(* OData. *)

QuotesUpTo(value, n) == Cardinality({q \in 1 .. n : value[q] = "'"})

IsFree(value, i) == QuotesUpTo(value, i - 1) % 2 = 0

CountUpTo(value, c, n) == Cardinality({j \in 1 .. n : value[j] = c /\ IsFree(value, j)})

(* What it is to be at the top level, in terms of the counts. *)
LEMMA TopLevelCounts ==
  ASSUME NEW value, NEW i
  PROVE  TopLevel(value, i) <=>
           IsFree(value, i) /\ CountUpTo(value, "(", i - 1) = CountUpTo(value, ")", i - 1)
BY DEF TopLevel, IsFree, CountUpTo, QuotesUpTo

(* Every quote is counted, and nothing else. *)
LEMMA QuotesCount ==
  ASSUME NEW value, NEW n \in Nat
  PROVE  /\ QuotesUpTo(value, n) \in Nat
         /\ value[n + 1] = "'" => QuotesUpTo(value, n + 1) = QuotesUpTo(value, n) + 1
         /\ value[n + 1] # "'" => QuotesUpTo(value, n + 1) = QuotesUpTo(value, n)
<1> PICK A, B : A = {q \in 1 .. n : value[q] = "'"} /\ B = {q \in 1 .. n + 1 : value[q] = "'"}
  OBVIOUS
<1>1. A \in SUBSET (1 .. n) /\ B \in SUBSET (1 .. n + 1) /\ \A j \in 1 .. n : j \in A <=> j \in B
  OBVIOUS
<1>2. n + 1 \in B <=> value[n + 1] = "'"
  OBVIOUS
<1>3. /\ Cardinality(A) \in Nat
      /\ n + 1 \in B => Cardinality(B) = Cardinality(A) + 1
      /\ n + 1 \notin B => Cardinality(B) = Cardinality(A)
  BY <1>1, CountOneMore
<1> QED
  BY <1>2, <1>3 DEF QuotesUpTo

(* A parenthesis outside literals is counted, and nothing else. *)
LEMMA CountsGrow ==
  ASSUME NEW value, NEW c, NEW n \in Nat
  PROVE  /\ CountUpTo(value, c, n) \in Nat
         /\ value[n + 1] = c /\ IsFree(value, n + 1) =>
              CountUpTo(value, c, n + 1) = CountUpTo(value, c, n) + 1
         /\ ~(value[n + 1] = c /\ IsFree(value, n + 1)) =>
              CountUpTo(value, c, n + 1) = CountUpTo(value, c, n)
<1> PICK A, B : /\ A = {j \in 1 .. n : value[j] = c /\ IsFree(value, j)}
                /\ B = {j \in 1 .. n + 1 : value[j] = c /\ IsFree(value, j)}
  OBVIOUS
<1>1. A \in SUBSET (1 .. n) /\ B \in SUBSET (1 .. n + 1) /\ \A j \in 1 .. n : j \in A <=> j \in B
  OBVIOUS
<1>2. n + 1 \in B <=> value[n + 1] = c /\ IsFree(value, n + 1)
  OBVIOUS
<1>3. /\ Cardinality(A) \in Nat
      /\ n + 1 \in B => Cardinality(B) = Cardinality(A) + 1
      /\ n + 1 \notin B => Cardinality(B) = Cardinality(A)
  BY <1>1, CountOneMore
<1> QED
  BY <1>2, <1>3 DEF CountUpTo

(* The scanner is in a literal after an odd number of quotes, and as deep   *)
(* as parentheses are open outside literals.                               *)
ScanStates(E) == [parts : Seq(Seq(E)), part : Seq(E), depth : Int, quote : BOOLEAN]

IsScanOf(E, value, state, n) ==
  /\ state \in ScanStates(E)
  /\ state.quote <=> ~IsFree(value, n + 1)
  /\ state.depth = CountUpTo(value, "(", n) - CountUpTo(value, ")", n)

(* What the scanner makes of a character. *)
IsCut(state, character) == character = "," /\ ~state.quote /\ state.depth = 0

IsScanStep(E, state, character, next) ==
  /\ next \in ScanStates(E)
  /\ character = "'" => (next.quote <=> ~state.quote)
  /\ character # "'" => (next.quote <=> state.quote)
  /\ character = "(" /\ ~state.quote => next.depth = state.depth + 1
  /\ character = ")" /\ ~state.quote => next.depth = state.depth - 1
  /\ ~(character \in {"(", ")"} /\ ~state.quote) => next.depth = state.depth
  /\ IsCut(state, character) => next.parts = Append(state.parts, state.part) /\ next.part = <<>>
  /\ ~IsCut(state, character) => next.parts = state.parts /\ next.part = Append(state.part, character)

(* What a step of the scanner does, by the character that it reads. *)
LEMMA ScanCases ==
  ASSUME NEW E, NEW state \in ScanStates(E), NEW character \in E,
         NEW next, next = Scan(state, character)
  PROVE  IsScanStep(E, state, character, next)
<1> PICK more : more = Append(state.part, character)
  OBVIOUS
<1> PICK read : read = [state EXCEPT !.part = more]
  OBVIOUS
<1>1. /\ state.parts \in Seq(Seq(E)) /\ state.part \in Seq(E) /\ state.depth \in Int
      /\ state.quote \in BOOLEAN /\ more \in Seq(E)
  BY DEF ScanStates
<1>2. /\ read \in ScanStates(E) /\ read.parts = state.parts /\ read.part = more
      /\ read.depth = state.depth /\ read.quote = state.quote
  BY <1>1 DEF ScanStates
<1>3. CASE character = "'"
  <2>1. next = [read EXCEPT !.quote = ~state.quote]
    BY <1>2, <1>3 DEF Scan
  <2>2. next \in ScanStates(E) /\ next.parts = state.parts /\ next.part = more
        /\ next.depth = state.depth /\ next.quote = ~state.quote
    BY <1>2, <2>1 DEF ScanStates
  <2> QED
    BY <1>3, <2>2 DEF IsCut, IsScanStep
<1>4. CASE character # "'" /\ state.quote
  <2>1. next = read
    BY <1>4 DEF Scan
  <2> QED
    BY <1>2, <1>4, <2>1 DEF IsCut, IsScanStep
<1>5. CASE character = "(" /\ ~state.quote
  <2>1. next = [read EXCEPT !.depth = state.depth + 1]
    BY <1>2, <1>5 DEF Scan
  <2>2. next \in ScanStates(E) /\ next.parts = state.parts /\ next.part = more
        /\ next.depth = state.depth + 1 /\ next.quote = state.quote
    <3> PICK d \in Int : d = state.depth + 1
      BY <1>1
    <3> QED
      BY <1>2, <2>1 DEF ScanStates
  <2> QED
    BY <1>5, <2>2 DEF IsCut, IsScanStep
<1>6. CASE character = ")" /\ ~state.quote
  <2>1. next = [read EXCEPT !.depth = state.depth - 1]
    BY <1>2, <1>6 DEF Scan
  <2>2. next \in ScanStates(E) /\ next.parts = state.parts /\ next.part = more
        /\ next.depth = state.depth - 1 /\ next.quote = state.quote
    <3> PICK d \in Int : d = state.depth - 1
      BY <1>1
    <3> QED
      BY <1>2, <2>1 DEF ScanStates
  <2> QED
    BY <1>6, <2>2 DEF IsCut, IsScanStep
<1>7. CASE IsCut(state, character)
  <2>1. next = [state EXCEPT !.parts = Append(state.parts, state.part), !.part = <<>>]
    BY <1>7 DEF Scan, IsCut
  <2>2. next \in ScanStates(E) /\ next.parts = Append(state.parts, state.part) /\ next.part = <<>>
        /\ next.depth = state.depth /\ next.quote = state.quote
    <3> PICK parts : parts = Append(state.parts, state.part)
      OBVIOUS
    <3> PICK none : none = <<>>
      OBVIOUS
    <3>1. next = [state EXCEPT !.parts = parts, !.part = none]
      BY <2>1
    <3>2. none \in Seq(E)
      OBVIOUS
    <3>3. parts \in Seq(Seq(E))
      <4> PICK T : T = Seq(E)
        OBVIOUS
      <4>1. state.parts \in Seq(T) /\ state.part \in T
        BY <1>1
      <4>2. parts \in Seq(T)
        BY <4>1
      <4> QED
        BY <4>2
    <3> QED
      BY <3>1, <3>2, <3>3 DEF ScanStates
  <2> QED
    BY <1>7, <2>2 DEF IsCut, IsScanStep
<1>8. CASE character \notin {"'", "(", ")"} /\ ~state.quote /\ ~IsCut(state, character)
  <2>1. next = read
    BY <1>8 DEF Scan, IsCut
  <2> QED
    BY <1>2, <1>8, <2>1 DEF IsScanStep
<1> QED
  BY <1>3, <1>4, <1>5, <1>6, <1>7, <1>8 DEF IsCut

(* The scanner knows at every place whether it is in a literal, and how deep. *)
LEMMA ScanTracks ==
  ASSUME NEW E, NEW value \in Seq(E), NEW n \in Nat, n < Len(value),
         NEW state, IsScanOf(E, value, state, n), NEW next, next = Scan(state, value[n + 1])
  PROVE  IsScanOf(E, value, next, n + 1)
<1> PICK c \in E : c = value[n + 1]
  OBVIOUS
<1> PICK m \in Nat : m = n + 1
  OBVIOUS
<1>1. /\ state \in ScanStates(E) /\ (state.quote <=> ~IsFree(value, m)) /\ next = Scan(state, c)
      /\ state.depth = CountUpTo(value, "(", n) - CountUpTo(value, ")", n)
  BY DEF IsScanOf
<1>2. /\ next \in ScanStates(E)
      /\ c = "'" => (next.quote <=> ~state.quote)
      /\ c # "'" => (next.quote <=> state.quote)
      /\ c = "(" /\ ~state.quote => next.depth = state.depth + 1
      /\ c = ")" /\ ~state.quote => next.depth = state.depth - 1
      /\ ~(c \in {"(", ")"} /\ ~state.quote) => next.depth = state.depth
  <2>1. IsScanStep(E, state, c, next)
    BY <1>1, ScanCases
  <2> QED
    BY <2>1 DEF IsScanStep
<1>3. next.quote <=> ~IsFree(value, m + 1)
  <2> PICK q : q = QuotesUpTo(value, n)
    OBVIOUS
  <2> PICK r : r = QuotesUpTo(value, m)
    OBVIOUS
  <2>1. q \in Nat /\ (c = "'" => r = q + 1) /\ (c # "'" => r = q)
    BY QuotesCount
  <2>2. IsFree(value, m) <=> q % 2 = 0
    <3>1. m - 1 = n
      OBVIOUS
    <3> QED
      BY <3>1 DEF IsFree
  <2>3. IsFree(value, m + 1) <=> r % 2 = 0
    <3>1. (m + 1) - 1 = m
      OBVIOUS
    <3> QED
      BY <3>1 DEF IsFree
  <2>4. CASE c = "'"
    <3>1. r % 2 = 0 <=> ~(q % 2 = 0)
      BY <2>1, <2>4
    <3> QED
      BY <1>1, <1>2, <2>2, <2>3, <2>4, <3>1
  <2>5. CASE c # "'"
    BY <1>1, <1>2, <2>1, <2>2, <2>3, <2>5
  <2> QED
    BY <2>4, <2>5
<1>4. next.depth = CountUpTo(value, "(", m) - CountUpTo(value, ")", m)
  <2> PICK a, b : a = CountUpTo(value, "(", n) /\ b = CountUpTo(value, ")", n)
    OBVIOUS
  <2> PICK x, y : x = CountUpTo(value, "(", m) /\ y = CountUpTo(value, ")", m)
    OBVIOUS
  <2>1. /\ a \in Nat
        /\ c = "(" /\ ~state.quote => x = a + 1
        /\ ~(c = "(" /\ ~state.quote) => x = a
    BY <1>1, CountsGrow
  <2>2. /\ b \in Nat
        /\ c = ")" /\ ~state.quote => y = b + 1
        /\ ~(c = ")" /\ ~state.quote) => y = b
    BY <1>1, CountsGrow
  <2>3. state.depth = a - b
    BY <1>1
  <2>4. CASE c = "(" /\ ~state.quote
    BY <1>2, <2>1, <2>2, <2>3, <2>4
  <2>5. CASE c = ")" /\ ~state.quote
    BY <1>2, <2>1, <2>2, <2>3, <2>5
  <2>6. CASE ~(c \in {"(", ")"} /\ ~state.quote)
    BY <1>2, <2>1, <2>2, <2>3, <2>6
  <2> QED
    BY <2>4, <2>5, <2>6
<1> QED
  BY <1>2, <1>3, <1>4 DEF IsScanOf

(* The members of a set of numbers that are below one. *)
Below(S, a) == {j \in S : j < a}

(* Each member has its own number of members below. *)
LEMMA NthIs ==
  ASSUME NEW S \in SUBSET Nat, IsFiniteSet(S), NEW i \in S, NEW k, Cardinality(Below(S, i)) = k - 1
  PROVE  NthOf(S, k) = i
<1>1. \A x, y \in S : x < y => Cardinality(Below(S, x)) # Cardinality(Below(S, y))
  <2> SUFFICES ASSUME NEW x \in S, NEW y \in S, x < y
               PROVE  Cardinality(Below(S, x)) # Cardinality(Below(S, y))
    OBVIOUS
  <2> PICK A, B : A = Below(S, x) /\ B = Below(S, y)
    OBVIOUS
  <2>1. A \in SUBSET S /\ B \in SUBSET S /\ x \notin A /\ x \in B /\ A \subseteq B
    <3>1. \A j \in S : j \in Nat
      OBVIOUS
    <3>2. \A j \in S : j < x => j < y
      BY <3>1
    <3>3. ~(x < x)
      BY <3>1
    <3>4. (\A j : j \in A <=> j \in S /\ j < x) /\ (\A j : j \in B <=> j \in S /\ j < y)
      BY DEF Below
    <3> QED
      BY <3>2, <3>3, <3>4
  <2>2. IsFiniteSet(B)
    BY <2>1, FS_Subset
  <2>3. Cardinality(A) = Cardinality(B) => B = A
    <3>1. A \in SUBSET B
      BY <2>1
    <3> QED
      BY <2>2, <3>1, FS_Subset
  <2> QED
    BY <2>1, <2>3
<1>2. \A x \in S : Cardinality(Below(S, x)) = k - 1 => x = i
  BY <1>1
<1>3. NthOf(S, k) = CHOOSE x \in S : Cardinality(Below(S, x)) = k - 1
  BY DEF NthOf, Below
<1> QED
  BY <1>2, <1>3

(* The next member has one more below. *)
LEMMA NextMember ==
  ASSUME NEW S \in SUBSET Nat, IsFiniteSet(S), NEW a \in S, NEW b \in Nat, a < b,
         \A j \in S : ~(a < j /\ j < b)
  PROVE  Cardinality(Below(S, a)) \in Nat /\ Cardinality(Below(S, b)) = Cardinality(Below(S, a)) + 1
<1> PICK A, B : A = Below(S, a) /\ B = Below(S, b)
  OBVIOUS
<1>1. A \in SUBSET S /\ a \notin A
  BY DEF Below
<1>2. B = A \cup {a}
  <2>1. \A j : j \in B <=> j \in A \cup {a}
    <3>1. \A j \in S : j < b <=> j < a \/ j = a
      <4>1. \A j \in S : j \in Nat
        OBVIOUS
      <4> QED
        BY <4>1
    <3>2. (\A j : j \in A <=> j \in S /\ j < a) /\ (\A j : j \in B <=> j \in S /\ j < b)
      BY DEF Below
    <3> QED
      BY <3>1, <3>2
  <2> QED
    BY <2>1
<1>3. IsFiniteSet(A)
  BY <1>1, FS_Subset
<1>4. Cardinality(A) \in Nat /\ Cardinality(B) = Cardinality(A) + 1
  BY <1>1, <1>2, <1>3, FS_AddElement, FS_CardinalityType
<1> QED
  BY <1>4

(* The part between an end and the next. *)
PartOf(value, ends, k) == SubSeq(value, NthOf(ends, k) + 1, NthOf(ends, k + 1) - 1)

(* The parts so far are those between the ends so far, and the last end is  *)
(* a.                                                                      *)
IsSplit(value, ends, parts, part, n, a) ==
  /\ a \in ends /\ a <= n /\ \A j \in ends : ~(a < j /\ j <= n)
  /\ Len(parts) = Cardinality(Below(ends, a))
  /\ part = SubSeq(value, a + 1, n)
  /\ \A k \in 1 .. Len(parts) : parts[k] = PartOf(value, ends, k)

(* What is read after an end, with one more character. *)
LEMMA PartGrows ==
  ASSUME NEW E, NEW value \in Seq(E), NEW a \in Nat, NEW n \in Nat, a <= n, n < Len(value)
  PROVE  Append(SubSeq(value, a + 1, n), value[n + 1]) = SubSeq(value, a + 1, n + 1)
<1> PICK l \in Nat : l = Len(value)
  OBVIOUS
<1> PICK b : b = a + 1
  OBVIOUS
<1> PICK m : m = n + 1
  OBVIOUS
<1>0. b \in Nat /\ m \in Nat /\ b >= 1 /\ b <= m /\ m <= l
  OBVIOUS
<1> PICK k \in Nat : k = n - a /\ m - b + 1 = k + 1 /\ n - b + 1 = k
  <2>1. n - a \in Nat
    OBVIOUS
  <2> QED
    BY <2>1
<1> PICK x : x = SubSeq(value, b, n)
  OBVIOUS
<1> PICK y : y = SubSeq(value, b, m)
  OBVIOUS
<1>1. x \in Seq(E) /\ Len(x) = k /\ \A i \in 1 .. k : x[i] = value[b + i - 1]
  BY <1>0
<1>2. y \in Seq(E) /\ Len(y) = k + 1 /\ \A i \in 1 .. k + 1 : y[i] = value[b + i - 1]
  BY <1>0
<1> PICK c \in E : c = value[m]
  BY <1>0
<1> PICK z : z = Append(x, c)
  OBVIOUS
<1>3. z \in Seq(E) /\ Len(z) = k + 1 /\ z[k + 1] = c /\ \A i \in 1 .. k : z[i] = x[i]
  BY <1>1
<1>4. b + (k + 1) - 1 = m
  OBVIOUS
<1>5. \A i \in 1 .. k + 1 : z[i] = y[i]
  <2> SUFFICES ASSUME NEW i \in 1 .. k + 1 PROVE z[i] = y[i]
    OBVIOUS
  <2>1. CASE i = k + 1
    BY <1>2, <1>3, <1>4, <2>1
  <2>2. CASE i \in 1 .. k
    BY <1>1, <1>2, <1>3, <2>2
  <2>3. i = k + 1 \/ i \in 1 .. k
    OBVIOUS
  <2> QED
    BY <2>1, <2>2, <2>3
<1>6. z = y
  <2>1. Len(z) = Len(y) /\ \A i \in 1 .. Len(z) : z[i] = y[i]
    BY <1>2, <1>3, <1>5
  <2> QED
    BY <1>2, <1>3, <2>1, SeqEqual
<1> QED
  BY <1>6

(* A character that does not cut belongs to the part under way. *)
LEMMA SplitGoesOn ==
  ASSUME NEW E, NEW value \in Seq(E), NEW ends \in SUBSET Nat, IsFiniteSet(ends),
         NEW parts \in Seq(Seq(E)), NEW part, NEW n \in Nat, n < Len(value), NEW a,
         IsSplit(value, ends, parts, part, n, a), n + 1 \notin ends
  PROVE  IsSplit(value, ends, parts, Append(part, value[n + 1]), n + 1, a)
<1> PICK m \in Nat : m = n + 1
  OBVIOUS
<1>1. /\ a \in ends /\ a <= n /\ a \in Nat /\ \A j \in ends : ~(a < j /\ j <= n)
      /\ part = SubSeq(value, a + 1, n)
  BY DEF IsSplit
<1>2. a <= m /\ \A j \in ends : ~(a < j /\ j <= m)
  <2>1. \A j \in ends : j \in Nat /\ j # m
    OBVIOUS
  <2> QED
    BY <1>1, <2>1
<1>3. Append(part, value[m]) = SubSeq(value, a + 1, m)
  BY <1>1, PartGrows
<1> QED
  BY <1>1, <1>2, <1>3 DEF IsSplit

(* A cut ends the part under way and begins an empty one. *)
LEMMA SplitEnds ==
  ASSUME NEW E, NEW value \in Seq(E), NEW ends \in SUBSET Nat, IsFiniteSet(ends),
         NEW parts \in Seq(Seq(E)), NEW part \in Seq(E), NEW n \in Nat, n <= Len(value), NEW a,
         IsSplit(value, ends, parts, part, n, a), NEW m \in ends, m = n + 1,
         NEW more, more = Append(parts, part)
  PROVE  IsSplit(value, ends, more, <<>>, m, m)
<1>0. m \in Nat
  OBVIOUS
<1> PICK l \in Nat : l = Len(parts)
  OBVIOUS
<1>1. /\ a \in ends /\ a <= n /\ a \in Nat /\ \A j \in ends : ~(a < j /\ j <= n)
      /\ l = Cardinality(Below(ends, a)) /\ part = SubSeq(value, a + 1, n)
      /\ \A k \in 1 .. l : parts[k] = PartOf(value, ends, k)
  BY DEF IsSplit
<1>2. Cardinality(Below(ends, m)) = l + 1
  <2>1. \A j \in ends : ~(a < j /\ j < m)
    <3>1. \A j \in ends : j \in Nat
      OBVIOUS
    <3> QED
      BY <1>1, <3>1
  <2>2. a < m
    BY <1>1
  <2> QED
    BY <1>1, <2>1, <2>2, NextMember
<1>3. NthOf(ends, l + 1) = a
  <2> PICK k : k = l + 1
    OBVIOUS
  <2>1. Cardinality(Below(ends, a)) = k - 1
    BY <1>1
  <2> QED
    BY <1>1, <2>1, NthIs
<1>4. NthOf(ends, (l + 1) + 1) = m
  <2> PICK k : k = (l + 1) + 1
    OBVIOUS
  <2>1. Cardinality(Below(ends, m)) = k - 1
    BY <1>2
  <2> QED
    BY <2>1, NthIs
<1>5. PartOf(value, ends, l + 1) = part
  <2>1. m - 1 = n
    OBVIOUS
  <2> QED
    BY <1>1, <1>3, <1>4, <2>1 DEF PartOf
<1>6. Len(more) = l + 1 /\ more[l + 1] = part /\ \A k \in 1 .. l : more[k] = parts[k]
  OBVIOUS
<1>7. \A k \in 1 .. l + 1 : more[k] = PartOf(value, ends, k)
  <2> SUFFICES ASSUME NEW k \in 1 .. l + 1 PROVE more[k] = PartOf(value, ends, k)
    OBVIOUS
  <2>1. k = l + 1 \/ k \in 1 .. l
    OBVIOUS
  <2> QED
    BY <1>1, <1>5, <1>6, <2>1
<1>8. SubSeq(value, m + 1, m) = <<>>
  OBVIOUS
<1>9. \A j \in ends : ~(m < j /\ j <= m)
  <2>1. \A j \in ends : j \in Nat
    OBVIOUS
  <2> QED
    BY <2>1
<1>10. Len(more) = Cardinality(Below(ends, m)) /\ m <= m
  BY <1>0, <1>2, <1>6
<1> QED
  BY <1>6, <1>7, <1>8, <1>9, <1>10 DEF IsSplit

CutsOf(value) == {i \in DOMAIN value : value[i] = "," /\ TopLevel(value, i)}
EndsOf(value) == {0, Len(value) + 1} \cup CutsOf(value)

(* The ends of the parts are finitely many places. *)
LEMMA EndsAreFinite ==
  ASSUME NEW E, NEW value \in Seq(E)
  PROVE  /\ IsFiniteSet(CutsOf(value)) /\ IsFiniteSet(EndsOf(value)) /\ EndsOf(value) \in SUBSET Nat
         /\ CutsOf(value) \in SUBSET (1 .. Len(value))
<1> PICK l \in Nat : l = Len(value)
  OBVIOUS
<1> PICK cuts : cuts = CutsOf(value)
  OBVIOUS
<1>1. cuts \in SUBSET (1 .. l)
  <2>1. DOMAIN value = 1 .. l
    OBVIOUS
  <2> QED
    BY <2>1 DEF CutsOf
<1>2. IsFiniteSet(1 .. l)
  BY FS_Interval
<1>3. IsFiniteSet(cuts)
  BY <1>1, <1>2, FS_Subset
<1> PICK m \in Nat : m = l + 1
  OBVIOUS
<1>4. EndsOf(value) = (cuts \cup {0}) \cup {m}
  BY DEF EndsOf
<1>5. IsFiniteSet((cuts \cup {0}) \cup {m})
  BY <1>3, FS_AddElement
<1>6. (cuts \cup {0}) \cup {m} \in SUBSET Nat
  BY <1>1
<1> QED
  BY <1>1, <1>3, <1>4, <1>5, <1>6

NothingScanned == [parts |-> <<>>, part |-> <<>>, depth |-> 0, quote |-> FALSE]

(* What is scanned up to n, and where the last part of it begins. *)
IsScannedUpTo(E, value, state, n) ==
  /\ IsScanOf(E, value, state, n)
  /\ \E a : IsSplit(value, EndsOf(value), state.parts, state.part, n, a)

(* The invariant of the scanner holds before the first character. *)
LEMMA ScanBegins ==
  ASSUME NEW E, NEW value \in Seq(E)
  PROVE  IsScannedUpTo(E, value, NothingScanned, 0)
<1> PICK none : none = <<>>
  OBVIOUS
<1> PICK state : state = NothingScanned
  OBVIOUS
<1>1. state.parts = none /\ state.part = none /\ state.depth = 0 /\ state.quote = FALSE
  BY DEF NothingScanned
<1>2. state \in ScanStates(E)
  BY DEF ScanStates, NothingScanned
<1>3. IsFree(value, 0 + 1)
  <2>1. {q \in 1 .. 0 : value[q] = "'"} = {}
    OBVIOUS
  <2>2. QuotesUpTo(value, 0) = 0
    BY <2>1, FS_EmptySet DEF QuotesUpTo
  <2>3. (0 + 1) - 1 = 0 /\ 0 % 2 = 0
    OBVIOUS
  <2> QED
    BY <2>2, <2>3 DEF IsFree
<1>4. CountUpTo(value, "(", 0) = 0 /\ CountUpTo(value, ")", 0) = 0
  <2>1. \A c : {j \in 1 .. 0 : value[j] = c /\ IsFree(value, j)} = {}
    OBVIOUS
  <2> QED
    BY <2>1, FS_EmptySet DEF CountUpTo
<1>5. IsScanOf(E, value, state, 0)
  BY <1>1, <1>2, <1>3, <1>4 DEF IsScanOf
<1>6. IsSplit(value, EndsOf(value), none, none, 0, 0)
  <2> PICK ends : ends = EndsOf(value)
    OBVIOUS
  <2>1. 0 \in ends /\ \A j \in ends : j \in Nat
    <3>1. ends \in SUBSET Nat
      BY EndsAreFinite
    <3> QED
      BY <3>1 DEF EndsOf
  <2>2. \A j \in ends : ~(j < 0) /\ ~(0 < j /\ j <= 0)
    BY <2>1
  <2>3. Below(ends, 0) = {}
    BY <2>2 DEF Below
  <2>4. Len(none) = Cardinality(Below(ends, 0))
    BY <2>3, FS_EmptySet
  <2>5. none = SubSeq(value, 0 + 1, 0)
    OBVIOUS
  <2>6. \A k \in 1 .. Len(none) : none[k] = PartOf(value, ends, k)
    OBVIOUS
  <2> QED
    BY <2>1, <2>2, <2>4, <2>5, <2>6 DEF IsSplit
<1> QED
  BY <1>1, <1>5, <1>6 DEF IsScannedUpTo

(* Every character keeps the invariant of the scanner. *)
LEMMA ScanGoesOn ==
  ASSUME NEW E, NEW value \in Seq(E), NEW n \in Nat, n < Len(value),
         NEW state, IsScannedUpTo(E, value, state, n),
         NEW next, next = Scan(state, value[n + 1])
  PROVE  IsScannedUpTo(E, value, next, n + 1)
<1> PICK c \in E : c = value[n + 1]
  OBVIOUS
<1> PICK m \in Nat : m = n + 1
  OBVIOUS
<1> PICK ends : ends = EndsOf(value)
  OBVIOUS
<1>1. IsScanOf(E, value, state, n) /\ state \in ScanStates(E)
  BY DEF IsScannedUpTo, IsScanOf
<1>2. PICK a : IsSplit(value, ends, state.parts, state.part, n, a)
  BY DEF IsScannedUpTo
<1>3. IsScanOf(E, value, next, m)
  BY <1>1, ScanTracks
<1>4. IsScanStep(E, state, c, next)
  BY <1>1, ScanCases
<1>5. IsCut(state, c) <=> m \in ends
  <2>1. m \in 1 .. Len(value) /\ m # 0 /\ m # Len(value) + 1 /\ m - 1 = n /\ m \in DOMAIN value
    OBVIOUS
  <2>2. m \in ends <=> value[m] = "," /\ TopLevel(value, m)
    BY <2>1 DEF EndsOf, CutsOf
  <2>3. TopLevel(value, m) <=>
          IsFree(value, m) /\ CountUpTo(value, "(", n) = CountUpTo(value, ")", n)
    BY <2>1, TopLevelCounts
  <2>4. (state.quote <=> ~IsFree(value, m))
        /\ state.depth = CountUpTo(value, "(", n) - CountUpTo(value, ")", n)
    BY <1>1 DEF IsScanOf
  <2>5. CountUpTo(value, "(", n) \in Nat /\ CountUpTo(value, ")", n) \in Nat
    BY CountsGrow
  <2>6. state.depth = 0 <=> CountUpTo(value, "(", n) = CountUpTo(value, ")", n)
    BY <2>4, <2>5
  <2> QED
    BY <2>2, <2>3, <2>4, <2>6 DEF IsCut
<1>6. ends \in SUBSET Nat /\ IsFiniteSet(ends)
  BY EndsAreFinite
<1>7. state.parts \in Seq(Seq(E)) /\ state.part \in Seq(E)
  BY <1>1 DEF ScanStates
<1> PICK parts \in Seq(Seq(E)) : parts = state.parts
  BY <1>7
<1> PICK part \in Seq(E) : part = state.part
  BY <1>7
<1>8. CASE IsCut(state, c)
  <2>1. next.parts = Append(parts, part) /\ next.part = <<>>
    BY <1>4, <1>8 DEF IsScanStep
  <2> PICK more : more = Append(parts, part)
    OBVIOUS
  <2>2. IsSplit(value, ends, more, <<>>, m, m)
    <3>1. m \in ends /\ IsSplit(value, ends, parts, part, n, a) /\ n <= Len(value)
      BY <1>2, <1>5, <1>8
    <3> QED
      BY <1>6, <3>1, SplitEnds
  <2> QED
    BY <1>3, <2>1, <2>2 DEF IsScannedUpTo
<1>9. CASE ~IsCut(state, c)
  <2>1. next.parts = parts /\ next.part = Append(part, c)
    BY <1>4, <1>9 DEF IsScanStep
  <2>2. IsSplit(value, ends, parts, Append(part, value[n + 1]), n + 1, a)
    BY <1>2, <1>5, <1>6, <1>9, SplitGoesOn
  <2> QED
    BY <1>3, <2>1, <2>2 DEF IsScannedUpTo
<1> QED
  BY <1>8, <1>9

(* So it holds after every place of a run. *)
LEMMA ScanRuns ==
  ASSUME NEW E, NEW value \in Seq(E), NEW f, Scanning!IsRun(f, NothingScanned, value)
  PROVE  \A n \in 0 .. Len(value) : IsScannedUpTo(E, value, f[n], n)
<1> PICK l \in Nat : l = Len(value)
  OBVIOUS
<1> DEFINE G == {n \in Nat : IsScannedUpTo(E, value, f[n], n)}
<1>1. f[0] = NothingScanned /\ \A n \in 1 .. l : f[n] = Scan(f[n - 1], value[n])
  BY DEF Scanning!IsRun
<1>2. 0 \in G
  BY <1>1, ScanBegins
<1>3. \A n \in 1 .. l : n - 1 \in G => n \in G
  <2> SUFFICES ASSUME NEW n \in 1 .. l, IsScannedUpTo(E, value, f[n - 1], n - 1)
               PROVE  IsScannedUpTo(E, value, f[n], n)
    OBVIOUS
  <2>1. n - 1 \in Nat
    OBVIOUS
  <2> PICK m \in Nat : m = n - 1
    BY <2>1
  <2>2. m + 1 = n /\ m < Len(value)
    OBVIOUS
  <2>3. f[n] = Scan(f[m], value[m + 1]) /\ IsScannedUpTo(E, value, f[m], m)
    BY <1>1, <2>2
  <2>4. IsScannedUpTo(E, value, f[n], m + 1)
    BY <2>2, <2>3, ScanGoesOn
  <2> QED
    BY <2>2, <2>4
<1>4. \A n \in 0 .. l : n \in G
  <2> HIDE DEF G
  <2> QED
    BY <1>2, <1>3, Scanning!UpwardInduction
<1> QED
  BY <1>4

(* The parts are those between the delimiters at the top level. *)
LEMMA SplitIsAtTheTopLevel ==
  ASSUME NEW E, NEW value \in Seq(E), NEW all, all = Append(Scanned(value).parts, Scanned(value).part)
  PROVE  all = [n \in 1 .. Cardinality(CutsOf(value)) + 1 |-> PartOf(value, EndsOf(value), n)]
<1> PICK l \in Nat : l = Len(value)
  OBVIOUS
<1> PICK ends : ends = EndsOf(value)
  OBVIOUS
<1> PICK cuts : cuts = CutsOf(value)
  OBVIOUS
<1>1. Len(value) \in Nat
  OBVIOUS
<1> PICK base : base = NothingScanned
  OBVIOUS
<1>2. PICK f : Scanning!IsRun(f, base, value) /\ Scanning!Fold(base, value) = f[Len(value)]
  BY <1>1, Scanning!FoldIsRun
<1> PICK state : state = f[l]
  OBVIOUS
<1>3. Scanned(value) = state
  BY <1>2 DEF Scanned, NothingScanned
<1>4. IsScannedUpTo(E, value, state, l)
  <2>1. l \in 0 .. Len(value)
    OBVIOUS
  <2>2. \A n \in 0 .. Len(value) : IsScannedUpTo(E, value, f[n], n)
    BY <1>2, ScanRuns
  <2> QED
    BY <2>1, <2>2
<1>5. state.parts \in Seq(Seq(E)) /\ state.part \in Seq(E)
  BY <1>4 DEF IsScannedUpTo, IsScanOf, ScanStates
<1> PICK parts \in Seq(Seq(E)) : parts = state.parts
  BY <1>5
<1> PICK part \in Seq(E) : part = state.part
  BY <1>5
<1>6. all = Append(parts, part)
  BY <1>3
<1>7. PICK a : IsSplit(value, ends, parts, part, l, a)
  BY <1>4 DEF IsScannedUpTo
<1> PICK m \in Nat : m = l + 1
  OBVIOUS
<1>8. IsFiniteSet(cuts) /\ IsFiniteSet(ends) /\ ends \in SUBSET Nat /\ cuts \in SUBSET (1 .. l)
  BY EndsAreFinite
<1>9. m \in ends /\ l <= Len(value)
  BY DEF EndsOf
<1>10. IsSplit(value, ends, all, <<>>, m, m)
  BY <1>6, <1>7, <1>8, <1>9, SplitEnds
<1> PICK c \in Nat : c = Cardinality(cuts)
  BY <1>8, FS_CardinalityType
<1>11. Cardinality(Below(ends, m)) = c + 1
  <2>1. Below(ends, m) = cuts \cup {0}
    <3>1. \A j \in cuts : j \in Nat /\ j < m
      BY <1>8
    <3>2. 0 < m /\ ~(m < m)
      OBVIOUS
    <3>3. \A j : j \in ends <=> j = 0 \/ j = m \/ j \in cuts
      BY DEF EndsOf
    <3>4. \A j : j \in Below(ends, m) <=> j \in ends /\ j < m
      BY DEF Below
    <3>5. \A j : j \in Below(ends, m) <=> j \in cuts \cup {0}
      BY <3>1, <3>2, <3>3, <3>4
    <3> QED
      BY <3>5
  <2>2. 0 \notin cuts
    BY <1>8
  <2> QED
    BY <1>8, <2>1, <2>2, FS_AddElement
<1>12. Len(all) = c + 1 /\ \A k \in 1 .. c + 1 : all[k] = PartOf(value, ends, k)
  BY <1>10, <1>11 DEF IsSplit
<1>13. all \in Seq(Seq(E))
  <2> PICK T : T = Seq(E)
    OBVIOUS
  <2>1. parts \in Seq(T) /\ part \in T
    OBVIOUS
  <2>2. all \in Seq(T)
    BY <1>6, <2>1
  <2> QED
    BY <2>2
<1>14. all = [k \in 1 .. c + 1 |-> all[k]]
  BY <1>12, <1>13
<1>15. all = [k \in 1 .. c + 1 |-> PartOf(value, ends, k)]
  BY <1>12, <1>14
<1> QED
  BY <1>15

(* f is where the scanner of OData options is after every place of s. *)
IsScanRun(f, s) == Scanning!IsRun(f, NothingScanned, s)

IsFirst(t, s, n) == t = SubSeq(s, 1, n) /\ n \in 0 .. Len(s)

(* The scanner of a prefix ends where the scanner of the whole passes. *)
LEMMA PrefixIsScanned ==
  ASSUME NEW E, NEW s \in Seq(E), NEW f, IsScanRun(f, s), NEW n, NEW t, IsFirst(t, s, n)
  PROVE  Scanned(t) = f[n] /\ Len(t) = n
<1> PICK base : base = NothingScanned
  OBVIOUS
<1>1. n \in Nat /\ Len(s) \in Nat /\ n <= Len(s) /\ Len(t) = n /\ \A i \in 1 .. n : s[i] = t[i]
  BY DEF IsFirst
<1>2. Scanning!BeginAlike(s, t, n)
  BY <1>1 DEF Scanning!BeginAlike
<1>3. Scanning!IsRun(f, base, s)
  BY DEF IsScanRun
<1>4. Len(t) = n
  BY <1>1
<1>5. Scanning!Fold(base, t) = f[n]
  BY ONLY <1>2, <1>3, <1>4, Scanning!FoldOfFirst
<1> QED
  BY <1>1, <1>5 DEF Scanned, NothingScanned

(* One scan is as deep as another, less one. *)
IsOneDeeper(outer, inner) ==
  (inner.quote <=> outer.quote) /\ outer.depth = inner.depth + 1

(* Two scanners that read the same stay as far apart in depth. *)
LEMMA ScansStayApart ==
  ASSUME NEW E, NEW outer \in ScanStates(E), NEW inner \in ScanStates(E), IsOneDeeper(outer, inner),
         NEW c \in E, NEW o, o = Scan(outer, c), NEW i, i = Scan(inner, c)
  PROVE  i \in ScanStates(E) /\ IsOneDeeper(o, i)
<1>1. IsScanStep(E, outer, c, o) /\ IsScanStep(E, inner, c, i)
  BY ScanCases
<1>2. i \in ScanStates(E) /\ (i.quote <=> o.quote)
  BY <1>1 DEF IsScanStep, IsOneDeeper
<1>3. inner.depth \in Int /\ outer.depth = inner.depth + 1
  BY DEF ScanStates, IsOneDeeper
<1>4. o.depth = i.depth + 1
  <2>1. CASE c = "(" /\ ~inner.quote
    BY <1>1, <1>3, <2>1 DEF IsScanStep, IsOneDeeper
  <2>2. CASE c = ")" /\ ~inner.quote
    BY <1>1, <1>3, <2>2 DEF IsScanStep, IsOneDeeper
  <2>3. CASE ~(c \in {"(", ")"} /\ ~inner.quote)
    BY <1>1, <1>3, <2>3 DEF IsScanStep, IsOneDeeper
  <2> QED
    BY <2>1, <2>2, <2>3
<1> QED
  BY <1>2, <1>4 DEF IsOneDeeper

(* Parentheses are taken off only where they are a pair. *)
LEMMA InnerStaysClosed ==
  ASSUME NEW E, NEW value \in Seq(E), IsInParentheses(value), NEW inner, inner = Inside(value),
         NEW prefix \in Prefixes(inner)
  PROVE  Scanned(prefix).quote \/ Scanned(prefix).depth >= 0
<1> PICK l \in Nat : l = Len(value)
  OBVIOUS
<1> PICK base : base = NothingScanned
  OBVIOUS
<1> DEFINE Closes(t) == Scanned(t).depth = 0 /\ ~Scanned(t).quote
<1>1. /\ ~(l < 2) /\ value[1] = "(" /\ inner = SubSeq(value, 2, l - 1)
      /\ \A t \in Prefixes(value) \ {<<>>, value} : ~Closes(t)
  BY DEF IsInParentheses, Inside
<1>2. l - 2 \in Nat
  BY <1>1
<1> PICK k \in Nat : k = l - 2
  BY <1>2
<1>3. l = k + 2 /\ l - 1 = k + 1
  OBVIOUS
<1>4. inner \in Seq(E) /\ Len(inner) = k /\ \A i \in 1 .. k : inner[i] = value[i + 1]
  <2>1. inner = SubSeq(value, 2, k + 1)
    BY <1>1, <1>3
  <2>2. 2 \in 1 .. Len(value) + 1 /\ k + 1 \in 2 - 1 .. Len(value) /\ (k + 1) - 2 + 1 = k
    BY <1>3
  <2>3. inner \in Seq(E) /\ Len(inner) = k
    BY <2>1, <2>2, SubSeqIsText
  <2>4. \A i \in 1 .. k : inner[i] = value[i + 1]
    BY <1>3, <2>1, <2>3
  <2> QED
    BY <2>3, <2>4
<1>5. Len(value) \in Nat /\ Len(inner) \in Nat
  BY <1>4
<1>6. PICK f : Scanning!IsRun(f, base, value) /\ Scanning!Fold(base, value) = f[Len(value)]
  BY <1>5, Scanning!FoldIsRun
<1>7. PICK g : Scanning!IsRun(g, base, inner) /\ Scanning!Fold(base, inner) = g[Len(inner)]
  BY <1>5, Scanning!FoldIsRun
<1>8. f[0] = base /\ \A n \in 1 .. l : f[n] = Scan(f[n - 1], value[n])
  BY <1>6 DEF Scanning!IsRun
<1>9. g[0] = base /\ \A n \in 1 .. k : g[n] = Scan(g[n - 1], inner[n])
  BY <1>4, <1>7 DEF Scanning!IsRun
<1>10. \A n \in 0 .. l : f[n] \in ScanStates(E)
  <2>1. \A n \in 0 .. Len(value) : IsScannedUpTo(E, value, f[n], n)
    BY <1>6, ScanRuns
  <2> QED
    BY <2>1 DEF IsScannedUpTo, IsScanOf
<1>11. ASSUME NEW n \in 0 .. k
       PROVE  ~(f[n + 1].depth = 0 /\ ~f[n + 1].quote)
  <2> PICK m : m = n + 1
    OBVIOUS
  <2>1. m \in 0 .. Len(value) /\ m # 0 /\ m # l
    BY <1>3
  <2> PICK t : t = SubSeq(value, 1, m)
    OBVIOUS
  <2>2. Scanned(t) = f[m] /\ Len(t) = m
    <3>1. IsScanRun(f, value)
      BY <1>6 DEF IsScanRun
    <3>2. IsFirst(t, value, m)
      BY <2>1 DEF IsFirst
    <3>3. value \in Seq(E)
      OBVIOUS
    <3> QED
      BY ONLY <3>1, <3>2, <3>3, PrefixIsScanned
  <2>3. t \in Prefixes(value)
    BY <2>1 DEF Prefixes
  <2>4. t # <<>> /\ t # value
    BY <2>1, <2>2
  <2>5. ~Closes(t)
    BY <1>1, <2>3, <2>4
  <2> QED
    BY <2>2, <2>5
<1>12. base \in ScanStates(E) /\ base.depth = 0 /\ base.quote = FALSE
  BY DEF NothingScanned, ScanStates
<1>13. f[1].depth = 1 /\ ~f[1].quote
  <2> PICK c \in E : c = value[1]
    BY <1>3
  <2> PICK one : one = Scan(base, c)
    OBVIOUS
  <2>1. f[1] = one
    BY <1>3, <1>8
  <2>2. IsScanStep(E, base, c, one)
    BY <1>12, ScanCases
  <2>3. c = "("
    BY <1>1
  <2> QED
    BY <1>12, <2>1, <2>2, <2>3 DEF IsScanStep
<1> DEFINE G == {n \in Nat : f[n + 1].depth >= 1 /\ g[n] \in ScanStates(E) /\ IsOneDeeper(f[n + 1], g[n])}
<1>14. 0 \in G
  <2>1. f[0 + 1] = f[1]
    OBVIOUS
  <2>2. IsOneDeeper(f[1], g[0])
    BY <1>9, <1>12, <1>13 DEF IsOneDeeper
  <2> QED
    BY <1>9, <1>12, <1>13, <2>1, <2>2
<1>15. \A n \in 1 .. k : n - 1 \in G => n \in G
  <2> SUFFICES ASSUME NEW n \in 1 .. k, n - 1 \in G
               PROVE  n \in G
    OBVIOUS
  <2>1. n \in 0 .. k /\ n \in Nat /\ n + 1 \in 1 .. l /\ n \in 0 .. l /\ (n + 1) - 1 = n /\ (n - 1) + 1 = n
    BY <1>3
  <2>2. f[n].depth >= 1 /\ g[n - 1] \in ScanStates(E) /\ IsOneDeeper(f[n], g[n - 1])
    BY <2>1
  <2> PICK o : o = f[n + 1]
    OBVIOUS
  <2> PICK outer : outer = f[n]
    OBVIOUS
  <2> PICK c \in E : c = inner[n]
    BY <1>4
  <2>3. outer \in ScanStates(E) /\ o = Scan(outer, c) /\ g[n] = Scan(g[n - 1], c)
    BY <1>4, <1>8, <1>9, <1>10, <2>1
  <2>4. g[n] \in ScanStates(E) /\ IsOneDeeper(o, g[n])
    BY <2>2, <2>3, ScansStayApart
  <2>5. IsScanStep(E, outer, c, o)
    BY <2>3, ScanCases
  <2>6. ~(o.depth = 0 /\ ~o.quote)
    BY <1>11, <2>1
  <2>7. outer.depth \in Int /\ outer.depth >= 1
    BY <2>2, <2>3 DEF ScanStates
  <2>8. o.depth >= 1
    <3>1. CASE c = "(" /\ ~outer.quote
      BY <2>5, <2>7, <3>1 DEF IsScanStep
    <3>2. CASE c = ")" /\ ~outer.quote
      <4>1. o.depth = outer.depth - 1 /\ ~o.quote
        BY <2>5, <3>2 DEF IsScanStep
      <4> QED
        BY <2>6, <2>7, <4>1
    <3>3. CASE ~(c \in {"(", ")"} /\ ~outer.quote)
      BY <2>5, <2>7, <3>3 DEF IsScanStep
    <3> QED
      BY <3>1, <3>2, <3>3
  <2> QED
    BY <2>1, <2>4, <2>8
<1>16. \A n \in 0 .. k : n \in G
  <2> HIDE DEF G
  <2> QED
    BY <1>14, <1>15, Scanning!UpwardInduction
<1>17. PICK n \in 0 .. Len(inner) : prefix = SubSeq(inner, 1, n)
  BY DEF Prefixes
<1>18. Scanned(prefix) = g[n]
  <2>1. IsScanRun(g, inner)
    BY <1>7 DEF IsScanRun
  <2>2. IsFirst(prefix, inner, n)
    BY <1>17 DEF IsFirst
  <2>3. inner \in Seq(E)
    BY <1>4
  <2> QED
    BY ONLY <2>1, <2>2, <2>3, PrefixIsScanned
<1>19. f[n + 1].depth >= 1 /\ g[n] \in ScanStates(E) /\ IsOneDeeper(f[n + 1], g[n])
  <2>1. n \in 0 .. k
    BY <1>4
  <2> QED
    BY <1>16, <2>1
<1>20. g[n].depth >= 0
  <2> PICK d \in Int : d = g[n].depth
    BY <1>19 DEF ScanStates
  <2>1. d + 1 >= 1
    BY <1>19 DEF IsOneDeeper
  <2> QED
    BY <2>1
<1> QED
  BY <1>18, <1>20

(* OData options are split at the top level. *)
LEMMA OptionsAreSplit ==
  ASSUME NEW E, NEW value \in Seq(E)
  PROVE  SplitsAtTheTopLevel(value)
<1>1. SplitTopLevel(value) =
        Options([n \in 1 .. Cardinality(CutsOf(value)) + 1 |-> PartOf(value, EndsOf(value), n)])
  <2> PICK all : all = Append(Scanned(value).parts, Scanned(value).part)
    OBVIOUS
  <2>1. all = [n \in 1 .. Cardinality(CutsOf(value)) + 1 |-> PartOf(value, EndsOf(value), n)]
    BY SplitIsAtTheTopLevel
  <2> QED
    BY <2>1 DEF SplitTopLevel
<1>2. RemoveOuterParentheses(value) # value =>
        \A prefix \in Prefixes(Inside(value)) : Scanned(prefix).quote \/ Scanned(prefix).depth >= 0
  <2>1. RemoveOuterParentheses(value) # value => IsInParentheses(value)
    BY DEF RemoveOuterParentheses
  <2> QED
    BY <2>1, InnerStaysClosed
<1> QED
  BY <1>1, <1>2 DEF SplitsAtTheTopLevel, CutsOf, EndsOf, PartOf

---------------------------------------------------------------------------------------

(***************************************************************************)
(* The invariant that is inductive says only what was captured: a text of  *)
(* its kind.  That its scan is right does not depend on the step before;   *)
(* InvIsEnough has it of every text, scanner by scanner.                   *)
(***************************************************************************)
ScanInv ==
  /\ kind \in DOMAIN Alphabet /\ IsText(text)
  /\ kind = "names" => text \in Seq(Names)
  /\ kind = "plain" => text \in Seq(DOMAIN Lower)

(* Each kind of text has its scanner. *)
LEMMA InvIsEnough ==
  ASSUME ScanInv
  PROVE  ScansKeepTheText
<1> PICK E : E = ToSet(text)
  OBVIOUS
<1>1. text \in Seq(E)
  BY DEF ScanInv, IsText
<1>2. kind \in {"xml", "odata", "plain", "names"}
  BY ScanAssumption DEF ScanInv
<1>3. CASE kind = "xml"
  <2>1. XmlKeepsTheSource(text)
    BY <1>1, XmlIsKept
  <2> QED
    BY <1>3, <2>1 DEF ScansKeepTheText
<1>4. CASE kind = "odata"
  <2>1. SplitsAtTheTopLevel(text)
    BY <1>1, OptionsAreSplit
  <2> QED
    BY <1>4, <2>1 DEF ScansKeepTheText
<1>5. CASE kind = "plain"
  <2>1. ASSUME NEW query \in Queries PROVE MatchesCoverTheContent(text, query)
    <3>1. query \in Seq(DOMAIN Lower)
      BY ScanAssumption
    <3>2. text \in Seq(DOMAIN Lower)
      BY <1>5 DEF ScanInv
    <3> QED
      BY <3>1, <3>2, ContentIsCovered
  <2> QED
    BY <1>5, <2>1 DEF ScansKeepTheText
<1>6. CASE kind = "names"
  <2>1. IsInjective(ClassIds(text)) /\ ToSet(ClassIds(text)) \cap Reserved = {}
    BY <1>6, ClassIdsAreNew DEF ScanInv
  <2> QED
    BY <1>6, <2>1 DEF ScansKeepTheText
<1> QED
  BY <1>2, <1>3, <1>4, <1>5, <1>6

(***************************************************************************)
(* Whatever is captured, its tokens are the XML that they were cut from,   *)
(* every token that is not blank is a line, without the blanks around it,  *)
(* as deep as the elements around it; OData options are split at the       *)
(* delimiters outside literals and parentheses, and at no other; the       *)
(* marked text is the text, and where lower case keeps the places of the   *)
(* text a mark is an occurrence, and an occurrence is not marked only when *)
(* it overlaps a match or comes after as many as are sought; and no two    *)
(* expansions share a class id, nor any the id of REQUEST, ALL or EXPAND.  *)
(***************************************************************************)
THEOREM ScansCorrect == ScanSpec => []ScansKeepTheText
<1>1. ScanInit => ScanInv
  <2> SUFFICES ASSUME ScanInit PROVE ScanInv
    OBVIOUS
  <2>1. kind \in DOMAIN Openings /\ text \in Openings[kind]
    BY ScanAssumption DEF ScanInit
  <2>2. IsText(text)
    BY <2>1, ScanAssumption
  <2>3. kind = "names" => text \in Seq(Names)
    BY <2>1, ScanAssumption
  <2>4. kind = "plain" => text \in Seq(DOMAIN Lower)
    BY <2>1, ScanAssumption
  <2> QED
    BY <2>1, <2>2, <2>3, <2>4, ScanAssumption DEF ScanInv
<1>2. ScanInv /\ [ScanNext]_scanVars => ScanInv'
  <2> SUFFICES ASSUME ScanInv, [ScanNext]_scanVars PROVE ScanInv'
    OBVIOUS
  <2>1. CASE UNCHANGED scanVars
    BY <2>1 DEF ScanInv, scanVars, IsText
  <2>2. CASE ScanNext
    <3>1. PICK character \in Alphabet[kind] : text' = Append(text, character) /\ kind' = kind
      BY <2>2 DEF ScanNext
    <3>2. IsText(Append(text, character))
      BY TextGrows DEF ScanInv
    <3>3. kind = "names" => Append(text, character) \in Seq(Names)
      <4>1. kind = "names" => character \in Names /\ text \in Seq(Names)
        BY ScanAssumption DEF ScanInv
      <4> QED
        BY <4>1
    <3>4. kind = "plain" => Append(text, character) \in Seq(DOMAIN Lower)
      <4>1. kind = "plain" => character \in DOMAIN Lower /\ text \in Seq(DOMAIN Lower)
        BY ScanAssumption DEF ScanInv
      <4> QED
        BY <4>1
    <3> QED
      BY <3>1, <3>2, <3>3, <3>4 DEF ScanInv, IsText
  <2> QED
    BY <2>1, <2>2
<1>3. ScanInv => ScansKeepTheText
  BY InvIsEnough
<1> QED
  BY <1>1, <1>2, <1>3, PTL DEF ScanSpec

=======================================================================================
