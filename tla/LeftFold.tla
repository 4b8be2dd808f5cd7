----------------------------------- MODULE LeftFold -----------------------------------
(***************************************************************************)
(* A loop over a sequence: Step takes the state from one element to the    *)
(* next.  It is FoldLeft of the community modules with its operator as a   *)
(* parameter of the module, so that what holds of every Step is proved     *)
(* here once and cited by each instance.                                   *)
(***************************************************************************)
EXTENDS Integers, Sequences, FiniteSets, WellFoundedInduction, SequenceTheorems,
        FiniteSetTheorems, TLAPS

CONSTANT Step(_, _)

Fold(base, s) ==
  LET f[n \in 0 .. Len(s)] == IF n = 0 THEN base ELSE Step(f[n - 1], s[n])
  IN  f[Len(s)]

(* With \o for Step: the elements of s that are in S (Array.filter).        *)
Kept(s, S) == Fold(<<>>, [n \in 1 .. Len(s) |-> IF s[n] \in S THEN <<s[n]>> ELSE <<>>])

---------------------------------------------------------------------------------------

(* A set of naturals that is not empty has a least element. *)
LEMMA LeastNatural ==
  ASSUME NEW S \in SUBSET Nat, S # {}
  PROVE  \E n \in S : \A m \in S : n <= m
<1>1. PICK n \in S : \A m \in S : <<m, n>> \notin OpToRel(<, Nat)
  BY WFMin, NatLessThanWellFounded
<1>2. \A m \in S : ~(m < n)
  BY <1>1 DEF OpToRel
<1> QED
  BY <1>2

(* Induction up to a bound, for the numbers that are in a set. *)
LEMMA UpwardInduction ==
  ASSUME NEW last \in Nat, NEW S,
         0 \in S, \A n \in 1 .. last : n - 1 \in S => n \in S
  PROVE  \A n \in 0 .. last : n \in S
<1>1. SUFFICES ASSUME (0 .. last) \ S # {}
               PROVE  FALSE
  OBVIOUS
<1>2. PICK n \in (0 .. last) \ S : \A m \in (0 .. last) \ S : n <= m
  <2>1. (0 .. last) \ S \in SUBSET Nat
    OBVIOUS
  <2> QED
    BY <1>1, <2>1, LeastNatural
<1>3. n \in 1 .. last /\ n - 1 \in 0 .. last /\ ~(n <= n - 1)
  BY <1>2
<1> QED
  BY <1>2, <1>3

(* A loop has states: it starts at the base and steps along the sequence.   *)
THEOREM FoldHasStates ==
  ASSUME NEW base, NEW s, Len(s) \in Nat
  PROVE  \E f : /\ f[0] = base
                /\ \A n \in 1 .. Len(s) : f[n] = Step(f[n - 1], s[n])
                /\ Fold(base, s) = f[Len(s)]
<1> DEFINE Loop(n, f) ==
             f = [m \in 0 .. n |-> IF m = 0 THEN base ELSE Step(f[m - 1], s[m])]
           S == {n \in Nat : \E f : Loop(n, f)}
<1>1. 0 \in S
  <2>1. Loop(0, [m \in 0 .. 0 |-> base])
    OBVIOUS
  <2> QED
    BY <2>1
<1>2. \A n \in 1 .. Len(s) : n - 1 \in S => n \in S
  <2> SUFFICES ASSUME NEW n \in 1 .. Len(s), NEW f, Loop(n - 1, f)
               PROVE  \E g : Loop(n, g)
    OBVIOUS
  <2> DEFINE g == [m \in 0 .. n |-> IF m = n THEN Step(f[n - 1], s[n]) ELSE f[m]]
  <2>1. \A m \in 0 .. n :
           g[m] = IF m = 0 THEN base ELSE Step(g[m - 1], s[m])
    <3> TAKE m \in 0 .. n
    <3>1. CASE m = n
      <4>1. n # 0 /\ n - 1 \in 0 .. n /\ n - 1 # n
        OBVIOUS
      <4> QED
        BY <3>1, <4>1
    <3>2. CASE m # n
      <4>1. m \in 0 .. n - 1 /\ f[m] = IF m = 0 THEN base ELSE Step(f[m - 1], s[m])
        BY <3>2
      <4>2. m # 0 => m - 1 \in 0 .. n /\ m - 1 # n
        BY <3>2
      <4> QED
        BY <3>2, <4>1, <4>2
    <3> QED
      BY <3>1, <3>2
  <2>2. Loop(n, g)
    BY <2>1
  <2> QED
    BY <2>2
<1>3. Len(s) \in S
  <2>1. \A n \in 0 .. Len(s) : n \in S
    BY <1>1, <1>2, UpwardInduction
  <2> QED
    BY <2>1
<1>4. PICK f : f = (CHOOSE h : Loop(Len(s), h)) /\ Loop(Len(s), f)
  BY <1>3
<1>5. Fold(base, s) = f[Len(s)]
  BY <1>4 DEF Fold
<1>6. \A m \in 0 .. Len(s) : f[m] = IF m = 0 THEN base ELSE Step(f[m - 1], s[m])
  BY <1>4
<1> HIDE DEF Loop, S
<1>7. f[0] = base /\ \A n \in 1 .. Len(s) : f[n] = Step(f[n - 1], s[n])
  BY <1>6
<1> QED
  BY <1>5, <1>7

(* What the base has and every step keeps, the outcome has; I[n] are the    *)
(* states that may be met after n elements.                                 *)
THEOREM FoldKeeps ==
  ASSUME NEW base, NEW s, Len(s) \in Nat, NEW I, base \in I[0],
         \A n \in 1 .. Len(s) : \A x \in I[n - 1] : Step(x, s[n]) \in I[n]
  PROVE  Fold(base, s) \in I[Len(s)]
<1>1. PICK f : /\ f[0] = base
               /\ \A n \in 1 .. Len(s) : f[n] = Step(f[n - 1], s[n])
               /\ Fold(base, s) = f[Len(s)]
  BY FoldHasStates
<1> DEFINE S == {n \in Nat : f[n] \in I[n]}
<1>2. 0 \in S
  BY <1>1
<1>3. \A n \in 1 .. Len(s) : n - 1 \in S => n \in S
  BY <1>1
<1>4. \A n \in 0 .. Len(s) : n \in S
  <2> HIDE DEF S
  <2> QED
    BY <1>2, <1>3, UpwardInduction
<1> QED
  BY <1>1, <1>4

(* The states of a loop over s that begins at base. *)
IsRun(f, base, s) == f[0] = base /\ \A n \in 1 .. Len(s) : f[n] = Step(f[n - 1], s[n])

(* The first n elements of two sequences are the same. *)
BeginAlike(s, t, n) ==
  /\ n \in Nat /\ Len(s) \in Nat /\ Len(t) \in Nat /\ n <= Len(s) /\ n <= Len(t)
  /\ \A i \in 1 .. n : s[i] = t[i]

(* Two loops that have read the same are in the same state. *)
LEMMA RunsAgree ==
  ASSUME NEW base, NEW s, NEW t, NEW f, IsRun(f, base, s), NEW g, IsRun(g, base, t),
         NEW last, BeginAlike(s, t, last)
  PROVE  f[last] = g[last]
<1> DEFINE S == {n \in Nat : f[n] = g[n]}
<1>1. 0 \in S
  BY DEF IsRun
<1>2. \A n \in 1 .. last : n - 1 \in S => n \in S
  BY DEF IsRun, BeginAlike
<1>3. \A n \in 0 .. last : n \in S
  <2> HIDE DEF S
  <2> QED
    BY <1>1, <1>2, UpwardInduction DEF BeginAlike
<1> QED
  BY <1>3 DEF BeginAlike

LEMMA FoldIsRun ==
  ASSUME NEW base, NEW s, Len(s) \in Nat
  PROVE  \E f : IsRun(f, base, s) /\ Fold(base, s) = f[Len(s)]
<1>1. PICK f : /\ f[0] = base
               /\ \A n \in 1 .. Len(s) : f[n] = Step(f[n - 1], s[n])
               /\ Fold(base, s) = f[Len(s)]
  BY FoldHasStates
<1>2. IsRun(f, base, s)
  BY <1>1 DEF IsRun
<1> QED
  BY <1>1, <1>2

(* After the first elements a loop is where it ends on these alone. *)
LEMMA FoldOfFirst ==
  ASSUME NEW base, NEW s, NEW f, IsRun(f, base, s), NEW t, NEW n, BeginAlike(s, t, n), Len(t) = n
  PROVE  Fold(base, t) = f[n]
<1>1. Len(t) \in Nat
  BY DEF BeginAlike
<1>2. PICK g : IsRun(g, base, t) /\ Fold(base, t) = g[Len(t)]
  BY <1>1, FoldIsRun
<1>3. f[n] = g[n]
  BY <1>2, RunsAgree
<1> QED
  BY <1>2, <1>3

(* One more element is one more step. *)
LEMMA FoldOfMore ==
  ASSUME NEW base, NEW E, NEW s \in Seq(E), NEW x \in E
  PROVE  Fold(base, Append(s, x)) = Step(Fold(base, s), x)
<1> PICK t : t = Append(s, x)
  OBVIOUS
<1> PICK last : last = Len(s)
  OBVIOUS
<1>1. /\ t \in Seq(E) /\ Len(t) \in Nat /\ Len(t) = last + 1 /\ last \in Nat
      /\ t[last + 1] = x /\ \A i \in 1 .. last : t[i] = s[i]
  OBVIOUS
<1>2. PICK g : IsRun(g, base, t) /\ Fold(base, t) = g[Len(t)]
  BY <1>1, FoldIsRun
<1>3. BeginAlike(t, s, last)
  BY <1>1 DEF BeginAlike
<1>4. Fold(base, s) = g[last]
  BY <1>2, <1>3, FoldOfFirst
<1>5. g[last + 1] = Step(g[last], x)
  <2>1. last + 1 \in 1 .. Len(t) /\ (last + 1) - 1 = last
    BY <1>1
  <2> QED
    BY <1>1, <1>2, <2>1 DEF IsRun
<1> QED
  BY <1>1, <1>2, <1>4, <1>5

---------------------------------------------------------------------------------------

(* The result r has, in order, the elements of s up to n that are in S.     *)
IsKept(r, s, S, n, at) ==
  /\ at \in [1 .. Len(r) -> 1 .. n]
  /\ \A i, j \in 1 .. Len(r) : i < j => at[i] < at[j]
  /\ \A i \in 1 .. Len(r) : r[i] = s[at[i]] /\ s[at[i]] \in S
  /\ \A m \in 1 .. n : s[m] \in S => \E i \in 1 .. Len(r) : at[i] = m

LEMMA KeptStep ==
  ASSUME NEW E, NEW s \in Seq(E), NEW S, NEW n \in 1 .. Len(s),
         NEW r \in Seq(E), NEW at, IsKept(r, s, S, n - 1, at)
  PROVE  LET next == r \o (IF s[n] \in S THEN <<s[n]>> ELSE <<>>)
         IN  next \in Seq(E) /\ \E to : IsKept(next, s, S, n, to)
<1>1. CASE s[n] \in S
  <2> DEFINE next == Append(r, s[n])
             to == [i \in 1 .. Len(r) + 1 |-> IF i = Len(r) + 1 THEN n ELSE at[i]]
  <2>1. /\ r \o <<s[n]>> = next /\ next \in Seq(E) /\ Len(next) = Len(r) + 1
        /\ \A i \in 1 .. Len(r) : next[i] = r[i]
        /\ next[Len(r) + 1] = s[n]
    OBVIOUS
  <2>2. IsKept(next, s, S, n, to)
    <3> HIDE DEF next
    <3>1. to \in [1 .. Len(next) -> 1 .. n]
      BY <2>1 DEF IsKept
    <3>2. \A i, j \in 1 .. Len(next) : i < j => to[i] < to[j]
      <4> SUFFICES ASSUME NEW i \in 1 .. Len(r) + 1, NEW j \in 1 .. Len(r) + 1, i < j
                   PROVE  to[i] < to[j]
        BY <2>1
      <4>1. i \in 1 .. Len(r) /\ to[i] = at[i] /\ at[i] \in 1 .. n - 1
        <5>1. i \in 1 .. Len(r) /\ i # Len(r) + 1
          OBVIOUS
        <5>2. at[i] \in 1 .. n - 1
          BY <5>1 DEF IsKept
        <5> QED
          BY <5>1, <5>2
      <4>2. CASE j = Len(r) + 1
        BY <4>1, <4>2
      <4>3. CASE j \in 1 .. Len(r)
        <5>1. at[i] < at[j]
          BY <4>1, <4>3 DEF IsKept
        <5> QED
          BY <4>1, <4>3, <5>1
      <4> QED
        BY <4>2, <4>3
    <3>3. \A i \in 1 .. Len(next) : next[i] = s[to[i]] /\ s[to[i]] \in S
      BY <1>1, <2>1 DEF IsKept
    <3>4. \A m \in 1 .. n : s[m] \in S => \E i \in 1 .. Len(next) : to[i] = m
      <4> SUFFICES ASSUME NEW m \in 1 .. n, s[m] \in S
                   PROVE  \E i \in 1 .. Len(next) : to[i] = m
        OBVIOUS
      <4>1. CASE m = n
        BY <2>1, <4>1
      <4>2. CASE m # n
        <5>1. PICK i \in 1 .. Len(r) : at[i] = m
          BY <4>2 DEF IsKept
        <5> QED
          BY <2>1, <5>1
      <4> QED
        BY <4>1, <4>2
    <3> QED
      BY <3>1, <3>2, <3>3, <3>4 DEF IsKept
  <2> QED
    BY <1>1, <2>1, <2>2
<1>2. CASE s[n] \notin S
  <2>1. r \o <<>> = r
    OBVIOUS
  <2>2. at \in [1 .. Len(r) -> 1 .. n]
    BY DEF IsKept
  <2>3. \A m \in 1 .. n : s[m] \in S => m \in 1 .. n - 1
    BY <1>2
  <2>4. IsKept(r, s, S, n, at)
    BY <2>2, <2>3 DEF IsKept
  <2> QED
    BY <1>2, <2>1, <2>4
<1> QED
  BY <1>1, <1>2

(* What a loop that joins keeps of a sequence: the elements that are in S,  *)
(* each at its turn.                                                        *)
THEOREM KeptInOrder ==
  ASSUME \A x, y : Step(x, y) = x \o y, NEW E, NEW s \in Seq(E), NEW S
  PROVE  Kept(s, S) \in Seq(E) /\ \E at : IsKept(Kept(s, S), s, S, Len(s), at)
<1> DEFINE parts == [n \in 1 .. Len(s) |-> IF s[n] \in S THEN <<s[n]>> ELSE <<>>]
           I == [n \in 0 .. Len(s) |-> {r \in Seq(E) : \E at : IsKept(r, s, S, n, at)}]
<1>1. <<>> \in I[0]
  <2>1. IsKept(<<>>, s, S, 0, <<>>)
    BY DEF IsKept
  <2> QED
    BY <2>1
<1>2. ASSUME NEW n \in 1 .. Len(s), NEW r \in I[n - 1]
      PROVE  Step(r, parts[n]) \in I[n]
  <2>1. n - 1 \in 0 .. Len(s) /\ n \in 0 .. Len(s)
    OBVIOUS
  <2>2. PICK at : r \in Seq(E) /\ IsKept(r, s, S, n - 1, at)
    BY <2>1
  <2> DEFINE next == r \o parts[n]
  <2>3. next \in Seq(E) /\ \E to : IsKept(next, s, S, n, to)
    BY <2>2, KeptStep
  <2>4. next \in I[n]
    BY <2>1, <2>3
  <2> QED
    BY <2>4
<1>3. Len(parts) = Len(s)
  OBVIOUS
<1>4. Fold(<<>>, parts) \in I[Len(s)]
  <2> HIDE DEF I, parts
  <2> QED
    BY <1>1, <1>2, <1>3, FoldKeeps
<1> QED
  BY <1>4 DEF Kept

---------------------------------------------------------------------------------------
(* Sequences that list a set, as the order of a table lists its rows.       *)

(* InsertAt of the community modules. *)
Inserted(s, i, x) == SubSeq(s, 1, i - 1) \o <<x>> \o SubSeq(s, i, Len(s))

IsInserted(t, s, i, x) ==
  /\ Len(t) = Len(s) + 1
  /\ \A n \in 1 .. Len(s) + 1 :
       t[n] = IF n < i THEN s[n] ELSE IF n = i THEN x ELSE s[n - 1]

LEMMA InsertedAtPosition ==
  ASSUME NEW E, NEW s \in Seq(E), NEW x \in E, NEW i \in 1 .. Len(s)
  PROVE  Inserted(s, i, x) \in Seq(E) /\ IsInserted(Inserted(s, i, x), s, i, x)
<1> DEFINE front == SubSeq(s, 1, i - 1)
           back == SubSeq(s, i, Len(s))
<1>1. /\ front \in Seq(E) /\ Len(front) = i - 1
      /\ \A n \in 1 .. i - 1 : front[n] = s[n]
  OBVIOUS
<1>2. /\ back \in Seq(E) /\ Len(back) = Len(s) - i + 1
      /\ \A n \in 1 .. Len(s) - i + 1 : back[n] = s[i + n - 1]
  OBVIOUS
<1> HIDE DEF front, back
<1> DEFINE start == front \o <<x>>
<1>3. /\ start \in Seq(E) /\ Len(start) = i
      /\ \A n \in 1 .. i : start[n] = IF n < i THEN s[n] ELSE x
  BY <1>1
<1> HIDE DEF start
<1>4. /\ start \o back \in Seq(E) /\ Len(start \o back) = Len(s) + 1
      /\ \A n \in 1 .. Len(s) + 1 :
           (start \o back)[n] = IF n <= i THEN start[n] ELSE back[n - i]
  <2>1. start \o back \in Seq(E) /\ Len(start \o back) = Len(start) + Len(back)
    BY <1>2, <1>3, ConcatProperties
  <2>2. \A n \in 1 .. Len(start) + Len(back) :
          (start \o back)[n] = IF n <= Len(start) THEN start[n] ELSE back[n - Len(start)]
    BY <1>2, <1>3, ConcatProperties
  <2>3. Len(start) + Len(back) = Len(s) + 1
    BY <1>2, <1>3
  <2> QED
    BY <1>3, <2>1, <2>2, <2>3
<1>5. \A n \in 1 .. Len(s) + 1 : n > i => back[n - i] = s[n - 1]
  <2> SUFFICES ASSUME NEW n \in 1 .. Len(s) + 1, n > i
               PROVE  back[n - i] = s[n - 1]
    OBVIOUS
  <2>1. n - i \in 1 .. Len(s) - i + 1 /\ i + (n - i) - 1 = n - 1
    OBVIOUS
  <2> QED
    BY <1>2, <2>1
<1>6. Inserted(s, i, x) = start \o back
  BY DEF Inserted, start, front, back
<1>7. \A n \in 1 .. Len(s) + 1 :
         (start \o back)[n] = IF n < i THEN s[n] ELSE IF n = i THEN x ELSE s[n - 1]
  BY <1>3, <1>4, <1>5
<1> QED
  BY <1>4, <1>6, <1>7 DEF IsInserted

(* A sequence lists a set: every member once. *)
Lists(s, S) ==
  /\ s \in Seq(S)
  /\ \A m, n \in 1 .. Len(s) : s[m] = s[n] => m = n
  /\ \A y \in S : \E n \in 1 .. Len(s) : s[n] = y

LEMMA InsertLists ==
  ASSUME NEW S, NEW s, Lists(s, S), NEW x, x \notin S, NEW i \in 1 .. Len(s)
  PROVE  Lists(Inserted(s, i, x), S \cup {x})
<1> DEFINE t == Inserted(s, i, x)
<1> PICK E : E = S \cup {x}
  OBVIOUS
<1>1. s \in Seq(E) /\ x \in E /\ Len(s) \in Nat /\ DOMAIN s = 1 .. Len(s)
  BY DEF Lists
<1>2. /\ t \in Seq(E) /\ Len(t) = Len(s) + 1
      /\ \A n \in 1 .. Len(s) + 1 : t[n] = IF n < i THEN s[n] ELSE IF n = i THEN x ELSE s[n - 1]
  <2>1. t \in Seq(E) /\ IsInserted(t, s, i, x)
    BY <1>1, InsertedAtPosition
  <2> QED
    BY <2>1 DEF IsInserted
<1> HIDE DEF t
<1>3. \A n \in 1 .. Len(s) : s[n] \in S /\ s[n] # x
  BY <1>1 DEF Lists
<1>4. \A m, n \in 1 .. Len(s) : s[m] = s[n] => m = n
  BY <1>1 DEF Lists
<1>5. \A m, n \in 1 .. Len(s) + 1 : t[m] = t[n] => m = n
  <2> SUFFICES ASSUME NEW m \in 1 .. Len(s) + 1, NEW n \in 1 .. Len(s) + 1, t[m] = t[n]
               PROVE  m = n
    OBVIOUS
  <2> DEFINE from(j) == IF j < i THEN j ELSE j - 1
  <2>1. \A j \in {m, n} : j # i => from(j) \in 1 .. Len(s) /\ t[j] = s[from(j)] /\ t[j] # x
    BY <1>1, <1>2, <1>3
  <2>2. t[i] = x
    BY <1>1, <1>2
  <2>3. m # i /\ n # i => from(m) = from(n)
    BY <1>4, <2>1
  <2>4. m = i <=> n = i
    BY <2>1, <2>2
  <2> QED
    BY <2>3, <2>4
<1>6. \A y \in E : \E n \in 1 .. Len(s) + 1 : t[n] = y
  <2> SUFFICES ASSUME NEW y \in S
               PROVE  \E n \in 1 .. Len(s) + 1 : t[n] = y
    BY <1>1, <1>2
  <2>1. PICK j \in 1 .. Len(s) : s[j] = y
    BY <1>1 DEF Lists
  <2>2. CASE j < i
    BY <1>1, <1>2, <2>1, <2>2
  <2>3. CASE j >= i
    <3>1. j + 1 \in 1 .. Len(s) + 1 /\ ~(j + 1 < i) /\ j + 1 # i /\ (j + 1) - 1 = j
      BY <1>1, <2>3
    <3> QED
      BY <1>2, <2>1, <3>1
  <2> QED
    BY <2>2, <2>3
<1>7. Lists(t, E)
  BY <1>2, <1>5, <1>6 DEF Lists
<1> QED
  BY <1>7 DEF t

LEMMA AppendLists ==
  ASSUME NEW S, NEW s, Lists(s, S), NEW x, x \notin S
  PROVE  Lists(Append(s, x), S \cup {x})
<1> DEFINE t == Append(s, x)
<1>1. s \in Seq(S) /\ Len(s) \in Nat /\ DOMAIN s = 1 .. Len(s)
  BY DEF Lists
<1>2. /\ t \in Seq(S \cup {x}) /\ Len(t) = Len(s) + 1 /\ DOMAIN t = 1 .. Len(s) + 1
      /\ \A n \in 1 .. Len(s) : t[n] = s[n]
      /\ t[Len(s) + 1] = x
  BY <1>1
<1> HIDE DEF t
<1>3. \A n \in 1 .. Len(s) : s[n] \in S
  BY <1>1
<1>4. \A m, n \in 1 .. Len(s) : s[m] = s[n] => m = n
  BY <1>1 DEF Lists
<1>5. \A m, n \in 1 .. Len(s) + 1 : t[m] = t[n] => m = n
  BY <1>1, <1>2, <1>3, <1>4
<1>6. \A y \in S \cup {x} : \E n \in 1 .. Len(s) + 1 : t[n] = y
  BY <1>1, <1>2 DEF Lists
<1>7. Lists(t, S \cup {x})
  BY <1>2, <1>5, <1>6 DEF Lists
<1> QED
  BY <1>7 DEF t

LEMMA KeptLists ==
  ASSUME \A x, y : Step(x, y) = x \o y, NEW S, NEW s, Lists(s, S), NEW T
  PROVE  Lists(Kept(s, T), S \cap T)
<1> DEFINE t == Kept(s, T)
<1>1. s \in Seq(S) /\ Len(s) \in Nat /\ DOMAIN s = 1 .. Len(s)
  BY DEF Lists
<1>2. PICK at : t \in Seq(S) /\ IsKept(t, s, T, Len(s), at)
  BY <1>1, KeptInOrder
<1> HIDE DEF t
<1>3. Len(t) \in Nat /\ DOMAIN t = 1 .. Len(t)
  BY <1>2
<1>4. \A i \in 1 .. Len(t) : at[i] \in 1 .. Len(s) /\ t[i] = s[at[i]] /\ t[i] \in S \cap T
  BY <1>1, <1>2 DEF IsKept
<1>5. \A i, j \in 1 .. Len(t) : t[i] = t[j] => i = j
  <2> SUFFICES ASSUME NEW i \in 1 .. Len(t), NEW j \in 1 .. Len(t), t[i] = t[j]
               PROVE  i = j
    OBVIOUS
  <2>1. at[i] = at[j]
    BY <1>1, <1>4 DEF Lists
  <2>2. (i < j => at[i] < at[j]) /\ (j < i => at[j] < at[i])
    BY <1>2 DEF IsKept
  <2> QED
    BY <1>3, <1>4, <2>1, <2>2
<1>6. \A y \in S \cap T : \E i \in 1 .. Len(t) : t[i] = y
  <2> TAKE y \in S \cap T
  <2>1. PICK m \in 1 .. Len(s) : s[m] = y
    BY <1>1 DEF Lists
  <2>2. PICK i \in 1 .. Len(t) : at[i] = m
    BY <1>2, <2>1 DEF IsKept
  <2> QED
    BY <1>4, <2>1, <2>2
<1>7. t \in Seq(S \cap T)
  BY <1>2, <1>3, <1>4
<1>8. Lists(t, S \cap T)
  BY <1>5, <1>6, <1>7 DEF Lists
<1> QED
  BY <1>8 DEF t

(* Two lists of one set that ascend by the same weight are the same.        *)
LEMMA AscendingListsAgree ==
  ASSUME NEW S, NEW s, NEW t, Lists(s, S), Lists(t, S),
         NEW weight, \A x \in S : weight[x] \in Nat,
         \A i, j \in 1 .. Len(s) : i < j => weight[s[i]] < weight[s[j]],
         \A i, j \in 1 .. Len(t) : i < j => weight[t[i]] < weight[t[j]]
  PROVE  s = t
<1>1. /\ s \in Seq(S) /\ Len(s) \in Nat /\ \A i \in 1 .. Len(s) : s[i] \in S
      /\ t \in Seq(S) /\ Len(t) \in Nat /\ \A i \in 1 .. Len(t) : t[i] \in S
  BY DEF Lists
<1> DEFINE Same(n) == n <= Len(s) /\ n <= Len(t) => s[n] = t[n]
           D == {n \in 1 .. Len(s) : ~Same(n)}
<1>2. \A n \in 1 .. Len(s) : Same(n)
  <2> SUFFICES ASSUME D # {} PROVE FALSE
    OBVIOUS
  <2>1. D \in SUBSET Nat
    OBVIOUS
  <2>2. PICK n \in D : \A m \in D : n <= m
    <3> HIDE DEF D
    <3> QED
      BY <2>1, LeastNatural
  <2>3. n \in 1 .. Len(s) /\ n \in 1 .. Len(t) /\ s[n] # t[n]
    BY <1>1, <2>2
  <2>4. \A m \in 1 .. n - 1 : s[m] = t[m]
    <3> TAKE m \in 1 .. n - 1
    <3>1. m \in 1 .. Len(s) /\ m \in 1 .. Len(t) /\ ~(n <= m)
      BY <1>1, <2>3
    <3> QED
      BY <2>2, <3>1
  <2> HIDE DEF D
  <2>5. PICK i \in 1 .. Len(t) : t[i] = s[n]
    BY <1>1, <2>3 DEF Lists
  <2>6. PICK j \in 1 .. Len(s) : s[j] = t[n]
    BY <1>1, <2>3 DEF Lists
  <2>7. i > n
    <3>1. i \in 1 .. n - 1 => s[i] = s[n] /\ i \in 1 .. Len(s)
      BY <1>1, <2>3, <2>4, <2>5
    <3>2. i \in 1 .. n - 1 => i = n
      BY <2>3, <3>1 DEF Lists
    <3> QED
      BY <1>1, <2>3, <2>5, <3>2
  <2>8. j > n
    <3>1. j \in 1 .. n - 1 => t[j] = t[n] /\ j \in 1 .. Len(t)
      BY <1>1, <2>3, <2>4, <2>6
    <3>2. j \in 1 .. n - 1 => j = n
      BY <2>3, <3>1 DEF Lists
    <3> QED
      BY <1>1, <2>3, <2>6, <3>2
  <2>9. weight[t[n]] < weight[s[n]] /\ weight[s[n]] < weight[t[n]]
    BY <2>3, <2>5, <2>6, <2>7, <2>8
  <2>10. weight[t[n]] \in Nat /\ weight[s[n]] \in Nat
    BY <1>1, <2>3
  <2> QED
    BY <2>9, <2>10
<1>3. ASSUME NEW a, NEW b, Lists(a, S), Lists(b, S), Len(a) < Len(b),
             \A n \in 1 .. Len(a) : a[n] = b[n]
      PROVE  FALSE
  <2>1. Len(a) \in Nat /\ Len(b) \in Nat /\ \A i \in 1 .. Len(b) : b[i] \in S
    <3>1. a \in Seq(S) /\ b \in Seq(S)
      BY <1>3 DEF Lists
    <3> QED
      BY <3>1
  <2>2. Len(a) + 1 \in 1 .. Len(b)
    BY <1>3, <2>1
  <2>3. PICK i \in 1 .. Len(a) : a[i] = b[Len(a) + 1]
    BY <1>3, <2>1, <2>2 DEF Lists
  <2>4. i \in 1 .. Len(b) /\ b[i] = b[Len(a) + 1] /\ i # Len(a) + 1
    BY <1>3, <2>1, <2>3
  <2> QED
    BY <1>3, <2>2, <2>4 DEF Lists
<1>4. ~(Len(s) < Len(t))
  <2>1. Len(s) < Len(t) => \A n \in 1 .. Len(s) : n <= Len(s) /\ n <= Len(t)
    BY <1>1
  <2>2. Len(s) < Len(t) => \A n \in 1 .. Len(s) : s[n] = t[n]
    BY <1>2, <2>1
  <2> QED
    BY <1>3, <2>2
<1>5. ~(Len(t) < Len(s))
  <2>1. Len(t) < Len(s) =>
          \A n \in 1 .. Len(t) : n \in 1 .. Len(s) /\ n <= Len(s) /\ n <= Len(t)
    BY <1>1
  <2>2. Len(t) < Len(s) => \A n \in 1 .. Len(t) : t[n] = s[n]
    BY <1>2, <2>1
  <2> QED
    BY <1>3, <2>2
<1>6. Len(s) = Len(t) /\ \A n \in 1 .. Len(s) : s[n] = t[n]
  BY <1>1, <1>2, <1>4, <1>5
<1> QED
  BY <1>1, <1>6, SeqEqual

---------------------------------------------------------------------------------------
(* Totals over finite sets.                                                 *)

(* t gives every part of S the total of its weights.                        *)
IsTotal(t, w, S) ==
  /\ t \in [SUBSET S -> Nat] /\ t[{}] = 0
  /\ \A x \in S : w[x] \in Nat
  /\ \A T \in SUBSET S : \A x \in T : t[T] = w[x] + t[T \ {x}]

(* As the sum over a set is computed: one member after the other.           *)
AMember(T) == CHOOSE x \in T : TRUE
Adds(t, w, D) == t = [T \in D |-> IF T = {} THEN 0 ELSE w[AMember(T)] + t[T \ {AMember(T)}]]

(* The members of a finite set's parts can be added one after the other.    *)
LEMMA AddsExists ==
  ASSUME NEW K, IsFiniteSet(K), NEW w
  PROVE  \E t : Adds(t, w, SUBSET K)
<1> DEFINE Small(n) == {T \in SUBSET K : Cardinality(T) <= n}
           N == {n \in Nat : \E t : Adds(t, w, Small(n))}
<1>1. \A T \in SUBSET K : IsFiniteSet(T) /\ Cardinality(T) \in Nat
                         /\ Cardinality(T) <= Cardinality(K)
  BY FS_Subset, FS_CardinalityType
<1>2. \A T \in SUBSET K : T # {} =>
        /\ AMember(T) \in T /\ T \ {AMember(T)} \in SUBSET K
        /\ Cardinality(T \ {AMember(T)}) = Cardinality(T) - 1 /\ Cardinality(T) # 0
  <2> TAKE T \in SUBSET K
  <2> HAVE T # {}
  <2>1. AMember(T) \in T
    BY DEF AMember
  <2> QED
    BY <1>1, <2>1, FS_RemoveElement, FS_EmptySet
<1>3. Small(0) = {{}}
  <2>1. {} \in Small(0)
    BY FS_EmptySet
  <2>2. \A T \in Small(0) : T = {}
    <3> SUFFICES ASSUME NEW T \in SUBSET K, Cardinality(T) <= 0 PROVE T = {}
      OBVIOUS
    <3>1. Cardinality(T) = 0
      BY <1>1
    <3> QED
      BY <1>2, <3>1
  <2> HIDE DEF Small
  <2> QED
    BY <2>1, <2>2
<1>4. 0 \in N
  <2>1. Adds([T \in Small(0) |-> 0], w, Small(0))
    BY <1>3 DEF Adds
  <2> QED
    BY <2>1
<1>5. ASSUME NEW n \in 1 .. Cardinality(K), n - 1 \in N PROVE n \in N
  <2>1. PICK f : Adds(f, w, Small(n - 1))
    BY <1>5
  <2> DEFINE Sum(T, h) == IF T = {} THEN 0 ELSE w[AMember(T)] + h[T \ {AMember(T)}]
  <2> DEFINE g == [T \in Small(n) |-> Sum(T, f)]
  <2>2. \A T \in Small(n - 1) : f[T] = Sum(T, f)
    BY <2>1 DEF Adds
  <2>3. \A T \in Small(n) : T # {} => T \ {AMember(T)} \in Small(n - 1)
    BY <1>1, <1>2, <1>5
  <2>4. \A T \in Small(n - 1) : T \in Small(n)
    BY <1>1, <1>5
  <2> HIDE DEF Small
  <2>5. \A T \in Small(n - 1) : g[T] = f[T]
    BY <2>2, <2>4
  <2>6. \A T \in Small(n) : T # {} => g[T \ {AMember(T)}] = f[T \ {AMember(T)}]
    BY <2>3, <2>5
  <2> HIDE DEF g
  <2>7. \A T \in Small(n) : Sum(T, f) = Sum(T, g)
    BY <2>6
  <2>8. g = [T \in Small(n) |-> Sum(T, g)]
    <3>1. g = [T \in Small(n) |-> Sum(T, f)]
      BY DEF g
    <3> HIDE DEF Sum
    <3> QED
      BY <2>7, <3>1
  <2>9. Adds(g, w, Small(n))
    BY <2>8 DEF Adds
  <2> QED
    BY <1>5, <2>9
<1>6. Cardinality(K) \in N
  <2> HIDE DEF N
  <2>1. Cardinality(K) \in Nat
    BY FS_CardinalityType
  <2>2. \A n \in 0 .. Cardinality(K) : n \in N
    BY <1>4, <1>5, <2>1, UpwardInduction
  <2> QED
    BY <2>1, <2>2
<1>7. Small(Cardinality(K)) = SUBSET K
  BY <1>1
<1> QED
  BY <1>6, <1>7

(* What a part has as soon as all smaller parts of it have it, all have.    *)
LEMMA PartsInduction ==
  ASSUME NEW K, IsFiniteSet(K), NEW Good,
         \A T \in SUBSET K : (\A P \in SUBSET T : P # T => P \in Good) => T \in Good
  PROVE  \A T \in SUBSET K : T \in Good
<1> SUFFICES ASSUME NEW B \in SUBSET K, B \notin Good PROVE FALSE
  OBVIOUS
<1> DEFINE Counts == {Cardinality(T) : T \in {S \in SUBSET K : S \notin Good}}
<1>1. \A T \in SUBSET K : IsFiniteSet(T) /\ Cardinality(T) \in Nat
  BY FS_Subset, FS_CardinalityType
<1>2. Counts \in SUBSET Nat /\ Counts # {}
  BY <1>1
<1>3. PICK n \in Counts : \A m \in Counts : n <= m
  <2> HIDE DEF Counts
  <2> QED
    BY <1>2, LeastNatural
<1>4. PICK T \in SUBSET K : T \notin Good /\ Cardinality(T) = n
  BY <1>3
<1>5. PICK P \in SUBSET T : P # T /\ P \notin Good
  BY <1>4
<1>6. P \in SUBSET K /\ n <= Cardinality(P)
  BY <1>3, <1>5
<1>7. Cardinality(P) <= Cardinality(T) /\ Cardinality(P) # Cardinality(T)
  BY <1>1, <1>5, FS_Subset
<1> QED
  BY <1>1, <1>4, <1>6, <1>7

(* Added one after the other, in whatever order, they have one total.       *)
LEMMA AddsIsTotal ==
  ASSUME NEW K, IsFiniteSet(K), NEW w, \A x \in K : w[x] \in Nat,
         NEW t, Adds(t, w, SUBSET K)
  PROVE  IsTotal(t, w, K)
<1> DEFINE Right(T) == t[T] \in Nat /\ \A x \in T : t[T] = w[x] + t[T \ {x}]
           Good == {T \in SUBSET K : Right(T)}
<1>1. t[{}] = 0 /\ \A T \in SUBSET K : T # {} =>
        AMember(T) \in T /\ t[T] = w[AMember(T)] + t[T \ {AMember(T)}]
  <2>1. \A T \in SUBSET K : T # {} => AMember(T) \in T
    BY DEF AMember
  <2> QED
    BY <2>1 DEF Adds
<1>2. ASSUME NEW T \in SUBSET K, \A P \in SUBSET T : P # T => P \in Good
      PROVE  T \in Good
  <2>1. \A P \in SUBSET T : P # T => Right(P)
    BY <1>2
  <2>2. CASE T = {}
    BY <1>1, <2>2
  <2>3. CASE T # {}
    <3>1. PICK c : c = AMember(T)
      OBVIOUS
    <3>2. c \in T /\ c \in K /\ w[c] \in Nat /\ t[T] = w[c] + t[T \ {c}]
      BY <1>1, <2>3, <3>1
    <3>3. \A x \in T : Right(T \ {x})
      BY <2>1
    <3>4. t[T] \in Nat
      BY <3>2, <3>3
    <3>5. ASSUME NEW x \in T, x # c PROVE t[T] = w[x] + t[T \ {x}]
      <4>1. x \in T \ {c} /\ c \in T \ {x} /\ (T \ {c}) \ {x} = (T \ {x}) \ {c}
        BY <3>2, <3>5
      <4>2. t[T \ {c}] = w[x] + t[(T \ {c}) \ {x}]
        BY <3>2, <3>3, <4>1
      <4>3. t[T \ {c}] = w[x] + t[(T \ {x}) \ {c}]
        BY <4>1, <4>2
      <4>4. t[T \ {x}] = w[c] + t[(T \ {x}) \ {c}]
        BY <3>3, <4>1
      <4>5. t[(T \ {x}) \ {c}] \in Nat
        <5>1. (T \ {x}) \ {c} \in SUBSET T /\ (T \ {x}) \ {c} # T
          OBVIOUS
        <5> QED
          BY <2>1, <5>1
      <4>6. w[x] \in Nat
        OBVIOUS
      <4> HIDE DEF Good, Right
      <4> QED
        BY <3>2, <4>3, <4>4, <4>5, <4>6
    <3> QED
      BY <3>2, <3>4, <3>5
  <2> QED
    BY <2>2, <2>3
<1>3. \A T \in SUBSET K : T \in Good
  <2> HIDE DEF Good
  <2> QED
    BY <1>2, PartsInduction
<1>4. DOMAIN t = SUBSET K /\ t = [T \in DOMAIN t |-> t[T]]
  BY DEF Adds
<1> QED
  BY <1>1, <1>3, <1>4 DEF IsTotal

(* A part and the rest weigh what the whole does.                           *)
Splits(u, R) ==
  \A B \in SUBSET R : \A A \in SUBSET B :
    /\ u[A] \in Nat /\ u[B] \in Nat /\ u[B \ A] \in Nat
    /\ u[B] = u[A] + u[B \ A]

LEMMA TotalSplits ==
  ASSUME NEW R, IsFiniteSet(R), NEW v, NEW u, IsTotal(u, v, R)
  PROVE  Splits(u, R)
<1> SUFFICES ASSUME NEW B \in SUBSET R, NEW A \in SUBSET B
             PROVE  /\ u[A] \in Nat /\ u[B] \in Nat /\ u[B \ A] \in Nat
                    /\ u[B] = u[A] + u[B \ A]
  BY DEF Splits
<1> DEFINE Right(T) == u[B] = u[T] + u[B \ T]
           Good == {T \in SUBSET B : Right(T)}
<1>1. \A T \in SUBSET R : u[T] \in Nat
  BY DEF IsTotal
<1>2. \A T \in SUBSET B : T \in SUBSET R /\ B \ T \in SUBSET R
  OBVIOUS
<1>3. \A T \in SUBSET B : u[T] \in Nat /\ u[B \ T] \in Nat
  BY <1>1, <1>2
<1>4. ASSUME NEW T \in SUBSET B, \A P \in SUBSET T : P # T => P \in Good
      PROVE  T \in Good
  <2>1. CASE T = {}
    <3>1. B \ T = B /\ u[T] = 0 /\ u[B] \in Nat
      BY <1>1, <2>1 DEF IsTotal
    <3>2. u[B] = u[T] + u[B \ T]
      <4> HIDE DEF Good
      <4>1. u[B \ T] = u[B]
        BY <3>1
      <4> QED
        BY <3>1, <4>1
    <3> QED
      BY <3>2
  <2>2. CASE T # {}
    <3>1. PICK x : x \in T
      BY <2>2
    <3>2. PICK P : P = T \ {x}
      OBVIOUS
    <3>3. P \in SUBSET T /\ P # T /\ P \in SUBSET B
      BY <3>1, <3>2
    <3>4. u[B] = u[P] + u[B \ P]
      BY <1>4, <3>3
    <3>5. u[T] = v[x] + u[P]
      BY <1>2, <3>1, <3>2 DEF IsTotal
    <3>6. u[B \ P] = v[x] + u[B \ T]
      <4>1. x \in B \ P /\ (B \ P) \ {x} = B \ T
        BY <3>1, <3>2
      <4>2. u[B \ P] = v[x] + u[(B \ P) \ {x}]
        BY <1>2, <3>3, <4>1 DEF IsTotal
      <4> QED
        BY <4>1, <4>2
    <3>7. u[T] \in Nat /\ u[P] \in Nat /\ u[B \ T] \in Nat /\ u[B \ P] \in Nat
      BY <1>3, <3>3
    <3>8. u[B] = u[T] + u[B \ T]
      <4>1. v[x] \in Nat
        BY <1>2, <3>1 DEF IsTotal
      <4> HIDE DEF Good
      <4> QED
        BY <3>4, <3>5, <3>6, <3>7, <4>1
    <3> QED
      BY <3>8
  <2> QED
    BY <2>1, <2>2
<1>5. \A T \in SUBSET B : T \in Good
  <2>1. IsFiniteSet(B)
    BY FS_Subset
  <2> HIDE DEF Good
  <2> QED
    BY <1>4, <2>1, PartsInduction
<1>6. u[B] = u[A] + u[B \ A]
  BY <1>5
<1>7. B \in SUBSET B /\ A \in SUBSET B
  OBVIOUS
<1> QED
  BY <1>3, <1>6, <1>7

(* f takes each member of T to its own member of A, of no smaller weight.   *)
IsMatched(f, T, A, w, v) ==
  /\ f \in [T -> A]
  /\ \A x, y \in T : f[x] = f[y] => x = y
  /\ \A x \in T : w[x] \in Nat /\ v[f[x]] \in Nat /\ w[x] <= v[f[x]]

(* What is matched weighs no more.                                          *)
LEMMA TotalsCompare ==
  ASSUME NEW S, IsFiniteSet(S), NEW w, NEW t, IsTotal(t, w, S), NEW T \in SUBSET S,
         NEW R, IsFiniteSet(R), NEW v, NEW u, IsTotal(u, v, R), NEW A \in SUBSET R,
         NEW f, IsMatched(f, T, A, w, v)
  PROVE  t[T] \in Nat /\ u[A] \in Nat /\ t[T] <= u[A]
<1> DEFINE Image(P) == {f[x] : x \in P}
           Right(P) == t[P] <= u[Image(P)]
           Good == {P \in SUBSET T : Right(P)}
<1>1. \A P \in SUBSET T : t[P] \in Nat /\ P \in SUBSET S
  BY DEF IsTotal
<1>2. \A P \in SUBSET T : Image(P) \in SUBSET A /\ Image(P) \in SUBSET R
  BY DEF IsMatched
<1>3. \A P \in SUBSET R : u[P] \in Nat
  BY DEF IsTotal
<1>4. ASSUME NEW P \in SUBSET T, \A Q \in SUBSET P : Q # P => Q \in Good
      PROVE  P \in Good
  <2>1. CASE P = {}
    <3>1. Image(P) = {} /\ t[P] = 0 /\ u[{}] = 0
      BY <2>1 DEF IsTotal
    <3> QED
      BY <3>1
  <2>2. CASE P # {}
    <3>1. PICK x : x \in P
      BY <2>2
    <3>2. PICK Q : Q = P \ {x}
      OBVIOUS
    <3>3. Q \in SUBSET P /\ Q # P /\ Q \in SUBSET T
      BY <3>1, <3>2
    <3>4. t[Q] <= u[Image(Q)]
      BY <1>4, <3>3
    <3>5. t[P] = w[x] + t[Q]
      BY <1>1, <3>1, <3>2 DEF IsTotal
    <3>6. f[x] \in Image(P) /\ Image(P) \ {f[x]} = Image(Q)
      <4>1. f[x] \in Image(P)
        BY <3>1
      <4>2. \A y \in P : f[y] = f[x] => y = x
        BY <3>1 DEF IsMatched
      <4> QED
        BY <3>1, <3>2, <4>1, <4>2
    <3>7. Image(P) \in SUBSET R /\ Image(Q) \in SUBSET R
      BY <1>2, <3>3
    <3> HIDE DEF Image
    <3>8. u[Image(P)] = v[f[x]] + u[Image(P) \ {f[x]}]
      BY <3>6, <3>7 DEF IsTotal
    <3>9. u[Image(P)] = v[f[x]] + u[Image(Q)]
      BY <3>6, <3>8
    <3>10. w[x] \in Nat /\ v[f[x]] \in Nat /\ w[x] <= v[f[x]]
      BY <3>1 DEF IsMatched
    <3>11. t[Q] \in Nat /\ u[Image(Q)] \in Nat
      BY <1>1, <1>3, <3>3, <3>7
    <3>12. t[P] <= u[Image(P)]
      <4> HIDE DEF Good
      <4> QED
        BY <3>4, <3>5, <3>9, <3>10, <3>11
    <3> QED
      BY <3>12
  <2> QED
    BY <2>1, <2>2
<1>5. \A P \in SUBSET T : P \in Good
  <2>1. IsFiniteSet(T)
    BY FS_Subset
  <2> HIDE DEF Good
  <2> QED
    BY <1>4, <2>1, PartsInduction
<1>6. T \in SUBSET T
  OBVIOUS
<1>7. PICK P : P = Image(T)
  OBVIOUS
<1>8. t[T] <= u[P]
  BY <1>5, <1>6, <1>7
<1>9. P \in SUBSET A /\ P \in SUBSET R
  BY <1>2, <1>6, <1>7
<1> HIDE DEF Image, Good
<1>10. u[A] = u[P] + u[A \ P] /\ u[A] \in Nat /\ u[A \ P] \in Nat /\ u[P] \in Nat
  <2>1. Splits(u, R)
    BY TotalSplits
  <2> QED
    BY <1>9, <2>1 DEF Splits
<1>11. t[T] \in Nat
  BY <1>1, <1>6
<1> QED
  BY <1>8, <1>10, <1>11

=======================================================================================
