-------------------------------- MODULE UiStreamProofs --------------------------------
(***************************************************************************)
(* Proofs about UiStream for all messages, capacities and bounds: the rows *)
(* of a window at rest are the hub's, but for those that missed a change   *)
(* or got one late, and they are listed as the hub lists them; and the hub *)
(* of UiStream is the hub of CaptureHub.                                   *)
(***************************************************************************)
EXTENDS UiStream, CaptureHubProofs

---------------------------------------------------------------------------------------
(* Sequences and the sets of their elements. *)

LEMMA LeastIsMember ==
  ASSUME NEW I \in SUBSET Nat, I # {}
  PROVE  Min(I) \in I /\ \A n \in I : Min(I) <= n
BY Listing!LeastNatural DEF Min

LEMMA ElementsOf ==
  ASSUME NEW E, NEW s \in Seq(E)
  PROVE  /\ DOMAIN s = 1 .. Len(s) /\ Len(s) \in Nat
         /\ ToSet(s) \in SUBSET E
         /\ ToSet(s) = {s[i] : i \in 1 .. Len(s)}
BY DEF ToSet

LEMMA AppendElements ==
  ASSUME NEW E, NEW s \in Seq(E), NEW x \in E
  PROVE  Append(s, x) \in Seq(E) /\ ToSet(Append(s, x)) = ToSet(s) \cup {x}
<1> DEFINE t == Append(s, x)
<1>1. /\ t \in Seq(E) /\ Len(t) = Len(s) + 1 /\ Len(s) \in Nat
      /\ \A i \in 1 .. Len(s) : t[i] = s[i]
      /\ t[Len(s) + 1] = x
  OBVIOUS
<1> HIDE DEF t
<1>2. ToSet(t) = {t[i] : i \in 1 .. Len(s) + 1} /\ ToSet(s) = {s[i] : i \in 1 .. Len(s)}
  BY <1>1, ElementsOf
<1>3. ToSet(t) \subseteq ToSet(s) \cup {x}
  BY <1>1, <1>2
<1>4. ToSet(s) \subseteq ToSet(t) /\ x \in ToSet(t)
  BY <1>1, <1>2
<1> QED
  BY <1>1, <1>3, <1>4 DEF t

LEMMA TailElements ==
  ASSUME NEW E, NEW s \in Seq(E), s # <<>>
  PROVE  /\ Head(s) \in E /\ Tail(s) \in Seq(E) /\ Len(Tail(s)) = Len(s) - 1
         /\ ToSet(s) = ToSet(Tail(s)) \cup {Head(s)}
<1>1. /\ Head(s) = s[1] /\ Len(s) \in Nat \ {0} /\ Head(s) \in E
      /\ Tail(s) \in Seq(E) /\ Len(Tail(s)) = Len(s) - 1
      /\ \A i \in 1 .. Len(s) - 1 : Tail(s)[i] = s[i + 1]
  OBVIOUS
<1> DEFINE t == Tail(s)
<1> HIDE DEF t
<1>2. ToSet(s) = {s[i] : i \in 1 .. Len(s)}
  BY ElementsOf
<1>3. ToSet(t) = {t[i] : i \in 1 .. Len(s) - 1}
  <2>1. t \in Seq(E) /\ Len(t) = Len(s) - 1
    BY <1>1 DEF t
  <2>2. ToSet(t) = {t[i] : i \in 1 .. Len(t)}
    BY <2>1, ElementsOf
  <2> QED
    BY <2>1, <2>2
<1>4. \A i \in 1 .. Len(s) - 1 : t[i] = s[i + 1] /\ i + 1 \in 1 .. Len(s)
  BY <1>1 DEF t
<1>5. \A i \in 1 .. Len(s) : i = 1 \/ (i - 1 \in 1 .. Len(s) - 1 /\ i - 1 + 1 = i)
  BY <1>1
<1>6. ToSet(t) \subseteq ToSet(s) /\ Head(s) \in ToSet(s)
  BY <1>1, <1>2, <1>3, <1>4
<1>7. \A i \in 1 .. Len(s) : i = 1 \/ s[i] = t[i - 1]
  BY <1>4, <1>5
<1>8. ToSet(s) \subseteq ToSet(t) \cup {Head(s)}
  BY <1>1, <1>2, <1>3, <1>5, <1>7
<1> QED
  BY <1>1, <1>6, <1>8 DEF t

LEMMA RemoveAtElements ==
  ASSUME NEW E, NEW s \in Seq(E), NEW i \in DOMAIN s
  PROVE  /\ RemoveAt(s, i) \in Seq(E)
         /\ ToSet(RemoveAt(s, i)) \subseteq ToSet(s)
         /\ ToSet(s) \subseteq ToSet(RemoveAt(s, i)) \cup {s[i]}
<1> DEFINE front == SubSeq(s, 1, i - 1)
           back == SubSeq(s, i + 1, Len(s))
           t == front \o back
<1>1. i \in 1 .. Len(s) /\ Len(s) \in Nat
  OBVIOUS
<1>2. /\ front \in Seq(E) /\ Len(front) = i - 1
      /\ \A n \in 1 .. i - 1 : front[n] = s[n]
  BY <1>1
<1>3. /\ back \in Seq(E) /\ Len(back) = Len(s) - i
      /\ \A n \in 1 .. Len(s) - i : back[n] = s[i + n]
  BY <1>1
<1> HIDE DEF front, back
<1>4. /\ t \in Seq(E) /\ Len(t) = Len(s) - 1
      /\ \A n \in 1 .. Len(s) - 1 : t[n] = IF n <= i - 1 THEN front[n] ELSE back[n - (i - 1)]
  <2>1. /\ t \in Seq(E) /\ Len(t) = Len(front) + Len(back)
        /\ \A n \in 1 .. Len(front) + Len(back) :
             t[n] = IF n <= Len(front) THEN front[n] ELSE back[n - Len(front)]
    BY <1>2, <1>3, ConcatProperties
  <2>2. Len(front) + Len(back) = Len(s) - 1
    BY <1>1, <1>2, <1>3
  <2> QED
    BY <1>2, <2>1, <2>2
<1>5. RemoveAt(s, i) = t
  BY DEF RemoveAt, front, back
<1> HIDE DEF t
<1>6. ToSet(t) = {t[n] : n \in 1 .. Len(s) - 1} /\ ToSet(s) = {s[n] : n \in 1 .. Len(s)}
  BY <1>4, ElementsOf
<1>7. \A n \in 1 .. Len(s) - 1 : t[n] = IF n < i THEN s[n] ELSE s[n + 1]
  <2> TAKE n \in 1 .. Len(s) - 1
  <2>1. CASE n < i
    BY <1>1, <1>2, <1>4, <2>1
  <2>2. CASE ~(n < i)
    <3>1. n - (i - 1) \in 1 .. Len(s) - i /\ i + (n - (i - 1)) = n + 1 /\ ~(n <= i - 1)
      BY <1>1, <2>2
    <3> QED
      BY <1>3, <1>4, <2>2, <3>1
  <2> QED
    BY <2>1, <2>2
<1>8. ToSet(t) \subseteq ToSet(s)
  <2>1. \A n \in 1 .. Len(s) - 1 : n \in 1 .. Len(s) /\ n + 1 \in 1 .. Len(s)
    BY <1>1
  <2> QED
    BY <1>6, <1>7, <2>1
<1>9. ToSet(s) \subseteq ToSet(t) \cup {s[i]}
  <2> SUFFICES ASSUME NEW n \in 1 .. Len(s), n # i PROVE s[n] \in ToSet(t)
    BY <1>6
  <2>1. CASE n < i
    <3>1. n \in 1 .. Len(s) - 1 /\ t[n] = s[n]
      BY <1>1, <1>7, <2>1
    <3> QED
      BY <1>6, <3>1
  <2>2. CASE n > i
    <3>1. n - 1 \in 1 .. Len(s) - 1 /\ ~(n - 1 < i) /\ n - 1 + 1 = n
      BY <1>1, <2>2
    <3>2. t[n - 1] = s[n]
      BY <1>7, <3>1
    <3> QED
      BY <1>6, <3>1, <3>2
  <2> QED
    BY <1>1, <2>1, <2>2
<1> QED
  BY <1>4, <1>5, <1>8, <1>9

LEMMA ReplaceElements ==
  ASSUME NEW E, NEW s \in Seq(E), NEW i \in DOMAIN s, NEW x \in E
  PROVE  /\ [s EXCEPT ![i] = x] \in Seq(E)
         /\ ToSet([s EXCEPT ![i] = x]) \subseteq ToSet(s) \cup {x}
         /\ ToSet(s) \subseteq ToSet([s EXCEPT ![i] = x]) \cup {s[i]}
         /\ x \in ToSet([s EXCEPT ![i] = x])
<1> DEFINE t == [s EXCEPT ![i] = x]
<1>1. t \in Seq(E) /\ DOMAIN t = DOMAIN s /\ \A n \in DOMAIN s : t[n] = IF n = i THEN x ELSE s[n]
  OBVIOUS
<1> HIDE DEF t
<1>2. ToSet(t) = {t[n] : n \in DOMAIN s} /\ ToSet(s) = {s[n] : n \in DOMAIN s}
  BY <1>1 DEF ToSet
<1>3. /\ ToSet(t) \subseteq ToSet(s) \cup {x}
      /\ ToSet(s) \subseteq ToSet(t) \cup {s[i]}
      /\ x \in ToSet(t)
  BY <1>1, <1>2
<1> QED
  BY <1>1, <1>3 DEF t

---------------------------------------------------------------------------------------
(***************************************************************************)
(* The hub's changes and a window that follows them, as facts about        *)
(* values: held are the hub's exchanges after now changes; gone[k] is the  *)
(* newest change that took k's exchange away, and changed[k] the newest    *)
(* that touched k at all.                                                  *)
(***************************************************************************)
IsHistory(held, now, gone, changed) ==
  /\ now \in Nat
  /\ held \in [ExchangeKeys -> Exchange \cup {None}]
  /\ gone \in [ExchangeKeys -> Nat] /\ changed \in [ExchangeKeys -> Nat]
  /\ \A k \in ExchangeKeys :
       /\ gone[k] <= changed[k] /\ changed[k] <= now
       /\ IsExchange(held[k]) <=> gone[k] < changed[k]

(* e is what the hub holds, or held before: the same life of an exchange. *)
IsSince(e, current) ==
  /\ IsExchange(e) /\ IsExchange(current)
  /\ e.revision <= current.revision
  /\ e.revision = current.revision => e = current

(* The hub moves on: what changed, changed after now.                       *)
IsLater(held, now, gone, changed, held2, gone2, changed2) ==
  \A k \in ExchangeKeys :
    /\ gone2[k] # gone[k] => gone2[k] > now
    /\ changed2[k] # changed[k] => changed2[k] > now
    /\ changed2[k] = changed[k] => held2[k] = held[k] /\ gone2[k] = gone[k]
    /\ gone2[k] = gone[k] /\ IsExchange(held[k]) => IsSince(held[k], held2[k])

(* A batch tells of the change c of key k, and so of all before.            *)
Tells(b, k, c) == IF b.kind = "reset" THEN b.at >= c ELSE k \in Touched(b) /\ b.at = c

(* What a batch says of the keys is what became of them at its change.      *)
IsGood(b, now, gone, changed) ==
  /\ b \in BatchType /\ b.at <= now
  /\ \A k \in ToSet(b.upserts) \ b.removes : b.at >= gone[k] => gone[k] < changed[k]
  /\ b.kind = "reset" =>
       /\ b.removes = {}
       /\ \A k \in ExchangeKeys \ ToSet(b.upserts) : b.at >= changed[k] => gone[k] = changed[k]
  /\ b.kind = "changes" =>
       /\ \A k \in b.removes : b.at <= gone[k]
       /\ \A k \in ToSet(b.upserts) \ b.removes : b.at # gone[k]

(* What was fetched for a batch is at least as new as what the batch tells. *)
IsFetched(b, left, got, held, gone, changed) ==
  \A k \in ToSet(b.upserts) \ (b.removes \cup left) :
    b.at >= gone[k] => IsSince(got[k], held[k]) /\ (b.at >= changed[k] => got[k] = held[k])

(* The rows of a window that was given k by change given[k] and had it      *)
(* taken away by change taken[k], but for those that are doubtful.          *)
RowsFollow(rows, given, taken, doubts, held, gone, changed) ==
  \A k \in ExchangeKeys \ doubts : taken[k] >= gone[k] =>
    /\ IsExchange(rows[k]) => IsSince(rows[k], held[k])
    /\ gone[k] < changed[k] /\ given[k] >= changed[k] => rows[k] = held[k]

(* The window will be told of change c of key k: by a batch on its way, by  *)
(* a snapshot that is promised, or because it is cut off and must reset.    *)
IsDue(k, c, way, promised, cut) ==
  cut \/ (\E b \in way : Tells(b, k, c)) \/ \E b \in promised : b.at >= c

NothingIsLost(way, promised, cut, given, taken, gone, changed) ==
  \A k \in ExchangeKeys :
    /\ taken[k] >= gone[k] \/ IsDue(k, gone[k], way, promised, cut)
    /\ gone[k] < changed[k] => given[k] >= changed[k] \/ IsDue(k, changed[k], way, promised, cut)

(* All that a batch tells is settled. *)
IsSettled(b, given, taken, gone, changed) ==
  /\ \A k \in ExchangeKeys :
       /\ Tells(b, k, gone[k]) => taken[k] >= gone[k]
       /\ gone[k] < changed[k] /\ Tells(b, k, changed[k]) => given[k] >= changed[k]
  /\ b.kind = "reset" => \A k \in ExchangeKeys : given[k] >= b.at /\ taken[k] >= b.at

LEMMA BatchParts ==
  ASSUME NEW b \in BatchType
  PROVE  /\ b.kind \in {"changes", "reset"} /\ b.at \in Nat
         /\ b.upserts \in Seq(ExchangeKeys)
         /\ ToSet(b.upserts) \in SUBSET ExchangeKeys /\ b.removes \in SUBSET ExchangeKeys
         /\ Touched(b) \in SUBSET ExchangeKeys
         /\ b.kind = "reset" => Touched(b) = ExchangeKeys
         /\ b.kind = "changes" => Touched(b) = ToSet(b.upserts) \cup b.removes
<1>1. /\ b.kind \in {"changes", "reset"} /\ b.at \in Nat
      /\ b.upserts \in Seq(ExchangeKeys) /\ b.removes \in SUBSET ExchangeKeys
  BY UiAssumption DEF BatchType
<1>2. ToSet(b.upserts) \in SUBSET ExchangeKeys
  BY <1>1, ElementsOf
<1> QED
  BY <1>1, <1>2 DEF Touched

LEMMA SinceIsTransitive ==
  ASSUME NEW e \in Exchange \cup {None}, NEW f \in Exchange \cup {None},
         NEW g \in Exchange \cup {None}, IsSince(e, f), IsSince(f, g)
  PROVE  IsSince(e, g)
<1>1. e.revision \in Nat /\ f.revision \in Nat /\ g.revision \in Nat
  BY DEF IsSince, IsExchange, Exchange
<1> QED
  BY <1>1 DEF IsSince

LEMMA RaiseIs ==
  ASSUME NEW now \in Nat, NEW stamps \in [ExchangeKeys -> 0 .. now], NEW keys, NEW at \in 0 .. now
  PROVE  /\ Raise(stamps, keys, at) \in [ExchangeKeys -> 0 .. now]
         /\ \A k \in ExchangeKeys :
              /\ Raise(stamps, keys, at)[k] >= stamps[k]
              /\ k \in keys => Raise(stamps, keys, at)[k] >= at
              /\ Raise(stamps, keys, at)[k] \in {stamps[k], at}
              /\ k \notin keys => Raise(stamps, keys, at)[k] = stamps[k]
BY DEF Raise

(* What held of a window, its batches and what it fetched, holds when the   *)
(* hub moves on.                                                            *)
LEMMA GoodStays ==
  ASSUME NEW held, NEW now, NEW gone, NEW changed, NEW held2, NEW now2, NEW gone2, NEW changed2,
         IsHistory(held, now, gone, changed), IsHistory(held2, now2, gone2, changed2),
         now2 >= now, IsLater(held, now, gone, changed, held2, gone2, changed2),
         NEW b, IsGood(b, now, gone, changed)
  PROVE  IsGood(b, now2, gone2, changed2)
<1>1. /\ b \in BatchType /\ b.at \in Nat /\ b.at <= now /\ b.at <= now2 /\ b.kind \in {"changes", "reset"}
      /\ ToSet(b.upserts) \subseteq ExchangeKeys /\ b.removes \subseteq ExchangeKeys
  BY BatchParts DEF IsGood, IsHistory
<1>2. \A k \in ExchangeKeys :
        /\ gone[k] \in Nat /\ changed[k] \in Nat /\ gone2[k] \in Nat /\ changed2[k] \in Nat
        /\ gone[k] <= changed[k] /\ changed[k] <= now /\ gone2[k] <= changed2[k]
        /\ gone2[k] # gone[k] => gone2[k] > now
        /\ changed2[k] # changed[k] => changed2[k] > now
        /\ changed2[k] = changed[k] => gone2[k] = gone[k]
  BY DEF IsHistory, IsLater
<1>3. now \in Nat /\ now2 \in Nat
  BY DEF IsHistory
<1>4. \A k \in ExchangeKeys :
        /\ b.at >= gone2[k] => gone2[k] = gone[k]
        /\ b.at >= changed2[k] => changed2[k] = changed[k] /\ gone2[k] = gone[k]
        /\ gone[k] <= gone2[k] /\ changed[k] <= changed2[k]
  BY <1>1, <1>2, <1>3
<1>5. \A k \in ToSet(b.upserts) \ b.removes : b.at >= gone2[k] => gone2[k] < changed2[k]
  BY <1>1, <1>2, <1>4 DEF IsGood
<1>6. b.kind = "reset" =>
       /\ b.removes = {}
       /\ \A k \in ExchangeKeys \ ToSet(b.upserts) : b.at >= changed2[k] => gone2[k] = changed2[k]
  BY <1>1, <1>4 DEF IsGood
<1>7. b.kind = "changes" =>
       /\ \A k \in b.removes : b.at <= gone2[k]
       /\ \A k \in ToSet(b.upserts) \ b.removes : b.at # gone2[k]
  <2>1. ASSUME b.kind = "changes", NEW k \in b.removes PROVE b.at <= gone2[k]
    <3>1. k \in ExchangeKeys /\ b.at <= gone[k]
      BY <1>1, <2>1 DEF IsGood
    <3> QED
      BY <1>1, <1>2, <1>4, <3>1
  <2>2. ASSUME b.kind = "changes", NEW k \in ToSet(b.upserts) \ b.removes PROVE b.at # gone2[k]
    <3>1. k \in ExchangeKeys /\ b.at # gone[k]
      BY <1>1, <2>2 DEF IsGood
    <3> QED
      BY <1>1, <1>2, <1>3, <3>1
  <2> QED
    BY <2>1, <2>2
<1> QED
  BY <1>1, <1>5, <1>6, <1>7 DEF IsGood

LEMMA FetchedStays ==
  ASSUME NEW held, NEW now, NEW gone, NEW changed, NEW held2, NEW now2, NEW gone2, NEW changed2,
         IsHistory(held, now, gone, changed), IsHistory(held2, now2, gone2, changed2),
         IsLater(held, now, gone, changed, held2, gone2, changed2),
         NEW b, IsGood(b, now, gone, changed), NEW left,
         NEW got \in [ToSet(b.upserts) -> Exchange \cup {None}],
         IsFetched(b, left, got, held, gone, changed)
  PROVE  IsFetched(b, left, got, held2, gone2, changed2)
<1> SUFFICES ASSUME NEW k \in ToSet(b.upserts) \ (b.removes \cup left), b.at >= gone2[k]
             PROVE  IsSince(got[k], held2[k]) /\ (b.at >= changed2[k] => got[k] = held2[k])
  BY DEF IsFetched
<1>1. /\ b.at \in Nat /\ b.at <= now /\ k \in ExchangeKeys /\ got[k] \in Exchange \cup {None}
  BY BatchParts DEF IsGood
<1>2. /\ now \in Nat /\ gone[k] \in Nat /\ changed[k] \in Nat /\ gone2[k] \in Nat /\ changed2[k] \in Nat
      /\ held[k] \in Exchange \cup {None} /\ held2[k] \in Exchange \cup {None}
      /\ gone2[k] # gone[k] => gone2[k] > now
      /\ changed2[k] # changed[k] => changed2[k] > now
      /\ changed2[k] = changed[k] => held2[k] = held[k]
      /\ gone2[k] = gone[k] /\ IsExchange(held[k]) => IsSince(held[k], held2[k])
  BY <1>1 DEF IsHistory, IsLater
<1>3. gone2[k] = gone[k] /\ (b.at >= changed2[k] => changed2[k] = changed[k])
  BY <1>1, <1>2
<1>4. IsSince(got[k], held[k]) /\ (b.at >= changed[k] => got[k] = held[k])
  BY <1>3 DEF IsFetched
<1>5. IsSince(held[k], held2[k])
  BY <1>2, <1>3, <1>4 DEF IsSince
<1>6. IsSince(got[k], held2[k])
  BY <1>1, <1>2, <1>4, <1>5, SinceIsTransitive
<1> QED
  BY <1>2, <1>3, <1>4, <1>6

LEMMA RowsStay ==
  ASSUME NEW held, NEW now, NEW gone, NEW changed, NEW held2, NEW now2, NEW gone2, NEW changed2,
         IsHistory(held, now, gone, changed), IsHistory(held2, now2, gone2, changed2),
         IsLater(held, now, gone, changed, held2, gone2, changed2),
         NEW rows \in [ExchangeKeys -> Exchange \cup {None}],
         NEW given \in [ExchangeKeys -> 0 .. now], NEW taken \in [ExchangeKeys -> 0 .. now],
         NEW doubts, RowsFollow(rows, given, taken, doubts, held, gone, changed)
  PROVE  RowsFollow(rows, given, taken, doubts, held2, gone2, changed2)
<1> SUFFICES ASSUME NEW k \in ExchangeKeys \ doubts, taken[k] >= gone2[k]
             PROVE  /\ IsExchange(rows[k]) => IsSince(rows[k], held2[k])
                    /\ gone2[k] < changed2[k] /\ given[k] >= changed2[k] => rows[k] = held2[k]
  BY DEF RowsFollow
<1>1. /\ given[k] \in 0 .. now /\ taken[k] \in 0 .. now /\ rows[k] \in Exchange \cup {None}
  OBVIOUS
<1>2. /\ now \in Nat /\ gone[k] \in Nat /\ changed[k] \in Nat /\ gone2[k] \in Nat /\ changed2[k] \in Nat
      /\ held[k] \in Exchange \cup {None} /\ held2[k] \in Exchange \cup {None}
      /\ gone2[k] # gone[k] => gone2[k] > now
      /\ changed2[k] # changed[k] => changed2[k] > now
      /\ changed2[k] = changed[k] => held2[k] = held[k] /\ gone2[k] = gone[k]
      /\ gone2[k] = gone[k] /\ IsExchange(held[k]) => IsSince(held[k], held2[k])
  BY DEF IsHistory, IsLater
<1>3. gone2[k] = gone[k] /\ (given[k] >= changed2[k] => changed2[k] = changed[k])
  BY <1>1, <1>2
<1>4. /\ IsExchange(rows[k]) => IsSince(rows[k], held[k])
      /\ gone[k] < changed[k] /\ given[k] >= changed[k] => rows[k] = held[k]
  BY <1>3 DEF RowsFollow
<1>5. IsExchange(rows[k]) => IsSince(rows[k], held2[k])
  <2> SUFFICES ASSUME IsExchange(rows[k]) PROVE IsSince(rows[k], held2[k])
    OBVIOUS
  <2>1. IsSince(held[k], held2[k])
    BY <1>2, <1>3, <1>4 DEF IsSince
  <2> QED
    BY <1>1, <1>2, <1>4, <2>1, SinceIsTransitive
<1> QED
  BY <1>2, <1>3, <1>4, <1>5

(* The row a window keeps of two: the newer one, or the one it has. *)
Newer(row, e) == IF IsExchange(row) /\ row.revision >= e.revision THEN row ELSE e

(* What ApplyDeltas leaves of the rows and of the notes about them.         *)
IsApplied(b, got, rows, given, taken, doubts, rows2, given2, taken2, doubts2) ==
  LET base == IF b.kind = "reset" THEN EmptyView.rows ELSE rows
      late == {k \in Given(b, got) : taken[k] > b.at}
                \cup {k \in Touched(b) \ Given(b, got) : given[k] > b.at}
  IN  /\ \A k \in ExchangeKeys :
           rows2[k] = IF k \in Given(b, got) THEN Newer(base[k], got[k])
                      ELSE IF k \in Touched(b) THEN None ELSE rows[k]
      /\ given2 = Raise(given, IF b.kind = "reset" THEN ExchangeKeys ELSE Given(b, got), b.at)
      /\ taken2 = Raise(taken, IF b.kind = "reset" THEN ExchangeKeys
                               ELSE Touched(b) \ Given(b, got), b.at)
      /\ doubts2 = IF b.kind = "reset"
                   THEN {k \in ExchangeKeys : taken[k] > b.at \/ given[k] > b.at}
                   ELSE doubts \cup late

LEMMA SinceBoth ==
  ASSUME NEW row \in Exchange \cup {None}, NEW e \in Exchange \cup {None},
         NEW current \in Exchange \cup {None}, IsExchange(row) => IsSince(row, current),
         IsSince(e, current)
  PROVE  /\ IsSince(Newer(row, e), current)
         /\ row = current \/ e = current => Newer(row, e) = current
<1>1. IsExchange(row) => row.revision \in Nat
  BY DEF IsExchange, Exchange
<1>2. e.revision \in Nat /\ current.revision \in Nat
  BY DEF IsSince, IsExchange, Exchange
<1> QED
  BY <1>1, <1>2 DEF IsSince, Newer

(* A batch of single changes that is applied settles what it tells, and     *)
(* the rows go on to follow.                                                *)
LEMMA ChangesApplied ==
  ASSUME NEW held, NEW now, NEW gone, NEW changed, IsHistory(held, now, gone, changed),
         NEW b, IsGood(b, now, gone, changed), b.kind = "changes",
         NEW got, \A k \in ToSet(b.upserts) : got[k] \in Exchange \cup {None},
         IsFetched(b, {}, got, held, gone, changed),
         NEW rows \in [ExchangeKeys -> Exchange \cup {None}],
         NEW given \in [ExchangeKeys -> 0 .. now], NEW taken \in [ExchangeKeys -> 0 .. now],
         NEW doubts, RowsFollow(rows, given, taken, doubts, held, gone, changed),
         NEW rows2, NEW given2, NEW taken2, NEW doubts2,
         IsApplied(b, got, rows, given, taken, doubts, rows2, given2, taken2, doubts2)
  PROVE  /\ RowsFollow(rows2, given2, taken2, doubts2, held, gone, changed)
         /\ IsSettled(b, given2, taken2, gone, changed)
<1>1. /\ b \in BatchType /\ b.at \in 0 .. now /\ b.at \in Nat /\ now \in Nat
      /\ ToSet(b.upserts) \subseteq ExchangeKeys /\ b.removes \subseteq ExchangeKeys
      /\ Touched(b) = ToSet(b.upserts) \cup b.removes
  <2>1. b \in BatchType /\ b.at <= now /\ now \in Nat
    BY DEF IsGood, IsHistory
  <2> QED
    BY <2>1, BatchParts
<1>2. /\ Given(b, got) \subseteq ToSet(b.upserts) \ b.removes
      /\ \A k \in ToSet(b.upserts) \ b.removes : k \in Given(b, got) <=> IsExchange(got[k])
  BY DEF Given, IsExchange
<1> DEFINE G == Given(b, got)
           M == Touched(b) \ G
<1> HIDE DEF G
<1>3. /\ given2 = Raise(given, G, b.at) /\ taken2 = Raise(taken, M, b.at)
      /\ \A k \in ExchangeKeys \ doubts2 :
           /\ k \notin doubts
           /\ k \in G => taken[k] <= b.at
           /\ k \in M => given[k] <= b.at
      /\ \A k \in ExchangeKeys : rows2[k] = IF k \in G THEN Newer(rows[k], got[k])
                                            ELSE IF k \in Touched(b) THEN None ELSE rows[k]
  <2>1. b.kind # "reset"
    OBVIOUS
  <2>2. doubts2 = doubts \cup {k \in G : taken[k] > b.at} \cup {k \in M : given[k] > b.at}
    BY <2>1 DEF IsApplied, G
  <2>3. \A k \in ExchangeKeys : taken[k] \in Nat /\ given[k] \in Nat
    BY <1>1
  <2>4. \A k \in ExchangeKeys \ doubts2 :
           /\ k \notin doubts
           /\ k \in G => taken[k] <= b.at
           /\ k \in M => given[k] <= b.at
    BY <1>1, <2>2, <2>3
  <2>5. given2 = Raise(given, G, b.at) /\ taken2 = Raise(taken, M, b.at)
    BY <2>1 DEF IsApplied, G
  <2>6. \A k \in ExchangeKeys : rows2[k] = IF k \in G THEN Newer(rows[k], got[k])
                                           ELSE IF k \in Touched(b) THEN None ELSE rows[k]
    BY <2>1 DEF IsApplied, G
  <2> QED
    BY <2>4, <2>5, <2>6
<1>4. \A k \in ExchangeKeys :
        /\ given2[k] \in {given[k], b.at} /\ given2[k] >= given[k]
        /\ k \in G => given2[k] >= b.at
        /\ k \notin G => given2[k] = given[k]
  BY <1>1, <1>3, RaiseIs
<1>5. \A k \in ExchangeKeys :
        /\ taken2[k] \in {taken[k], b.at} /\ taken2[k] >= taken[k]
        /\ k \in M => taken2[k] >= b.at
        /\ k \notin M => taken2[k] = taken[k]
  BY <1>1, <1>3, RaiseIs
<1>6. \A k \in ExchangeKeys :
        /\ gone[k] \in Nat /\ changed[k] \in Nat /\ gone[k] <= changed[k]
        /\ given[k] \in Nat /\ taken[k] \in Nat /\ given2[k] \in Nat /\ taken2[k] \in Nat
        /\ rows[k] \in Exchange \cup {None} /\ held[k] \in Exchange \cup {None}
  BY <1>1, <1>4, <1>5 DEF IsHistory
<1> HIDE DEF M
<1>7. /\ \A k \in b.removes : b.at <= gone[k]
      /\ \A k \in ToSet(b.upserts) \ b.removes :
           /\ b.at # gone[k]
           /\ b.at >= gone[k] => /\ gone[k] < changed[k] /\ IsSince(got[k], held[k])
                                 /\ b.at >= changed[k] => got[k] = held[k]
  BY DEF IsGood, IsFetched
<1>8. \A k \in M : b.at > gone[k] => FALSE
  <2> SUFFICES ASSUME NEW k \in M, b.at > gone[k] PROVE FALSE
    OBVIOUS
  <2>1. k \in Touched(b) \ G
    BY DEF M
  <2>2. CASE k \in b.removes
    BY <1>1, <1>6, <1>7, <2>2
  <2>3. CASE k \in ToSet(b.upserts) \ b.removes
    <3>1. IsExchange(got[k])
      BY <1>1, <1>6, <1>7, <2>3 DEF IsSince
    <3> QED
      BY <1>2, <2>1, <2>3, <3>1 DEF G
  <2> QED
    BY <1>1, <2>1, <2>2, <2>3
<1>9. ASSUME NEW k \in ExchangeKeys \ doubts2, taken2[k] >= gone[k]
      PROVE  /\ IsExchange(rows2[k]) => IsSince(rows2[k], held[k])
             /\ gone[k] < changed[k] /\ given2[k] >= changed[k] => rows2[k] = held[k]
  <2>1. CASE k \in G
    <3>1. /\ k \in ToSet(b.upserts) \ b.removes /\ got[k] \in Exchange \cup {None}
          /\ k \notin M /\ taken2[k] = taken[k] /\ taken[k] <= b.at /\ k \notin doubts
          /\ rows2[k] = Newer(rows[k], got[k])
      BY <1>2, <1>3, <1>5, <2>1 DEF G, M
    <3>2. /\ IsSince(got[k], held[k]) /\ b.at >= gone[k]
          /\ b.at >= changed[k] => got[k] = held[k]
      BY <1>1, <1>6, <1>7, <1>9, <3>1
    <3>3. /\ IsExchange(rows[k]) => IsSince(rows[k], held[k])
          /\ gone[k] < changed[k] /\ given[k] >= changed[k] => rows[k] = held[k]
      BY <1>9, <3>1 DEF RowsFollow
    <3>4. /\ IsSince(Newer(rows[k], got[k]), held[k])
          /\ rows[k] = held[k] \/ got[k] = held[k] => Newer(rows[k], got[k]) = held[k]
      BY <1>6, <3>1, <3>2, <3>3, SinceBoth
    <3>5. given2[k] >= changed[k] => given[k] >= changed[k] \/ b.at >= changed[k]
      BY <1>4
    <3> QED
      BY <3>1, <3>2, <3>3, <3>4, <3>5
  <2>2. CASE k \in M
    <3>1. /\ k \notin G /\ k \in Touched(b) /\ rows2[k] = None /\ given2[k] = given[k]
          /\ given[k] <= b.at
      BY <1>3, <1>4, <2>2 DEF M
    <3>2. ~(gone[k] < changed[k] /\ given2[k] >= changed[k])
      BY <1>1, <1>6, <1>8, <2>2, <3>1
    <3> QED
      BY <3>1, <3>2 DEF IsExchange
  <2>3. CASE k \notin G /\ k \notin M
    <3>1. /\ rows2[k] = rows[k] /\ given2[k] = given[k] /\ taken2[k] = taken[k] /\ k \notin doubts
      BY <1>3, <1>4, <1>5, <2>3 DEF M
    <3> QED
      BY <1>9, <3>1 DEF RowsFollow
  <2> QED
    BY <2>1, <2>2, <2>3
<1>10. ASSUME NEW k \in ExchangeKeys
       PROVE  /\ Tells(b, k, gone[k]) => taken2[k] >= gone[k]
              /\ gone[k] < changed[k] /\ Tells(b, k, changed[k]) => given2[k] >= changed[k]
  <2>1. ASSUME Tells(b, k, gone[k]) PROVE taken2[k] >= gone[k]
    <3>1. k \in Touched(b) /\ b.at = gone[k]
      BY <2>1 DEF Tells
    <3>2. k \in M
      BY <1>1, <1>2, <1>7, <3>1 DEF G, M
    <3> QED
      BY <1>5, <3>1, <3>2
  <2>2. ASSUME gone[k] < changed[k], Tells(b, k, changed[k]) PROVE given2[k] >= changed[k]
    <3>1. k \in Touched(b) /\ b.at = changed[k] /\ b.at > gone[k]
      BY <1>6, <2>2 DEF Tells
    <3>2. k \in G
      BY <1>8, <3>1 DEF M
    <3> QED
      BY <1>4, <3>1, <3>2
  <2> QED
    BY <2>1, <2>2
<1>11. b.kind # "reset"
  OBVIOUS
<1> QED
  BY <1>9, <1>10, <1>11 DEF RowsFollow, IsSettled

(* So does a reset: what it was not given, the hub did not hold.            *)
LEMMA ResetApplied ==
  ASSUME NEW held, NEW now, NEW gone, NEW changed, IsHistory(held, now, gone, changed),
         NEW b, IsGood(b, now, gone, changed), b.kind = "reset",
         NEW got, \A k \in ToSet(b.upserts) : got[k] \in Exchange \cup {None},
         IsFetched(b, {}, got, held, gone, changed),
         NEW rows, NEW given \in [ExchangeKeys -> 0 .. now], NEW taken \in [ExchangeKeys -> 0 .. now],
         NEW doubts, NEW rows2, NEW given2, NEW taken2, NEW doubts2,
         IsApplied(b, got, rows, given, taken, doubts, rows2, given2, taken2, doubts2)
  PROVE  /\ RowsFollow(rows2, given2, taken2, doubts2, held, gone, changed)
         /\ IsSettled(b, given2, taken2, gone, changed)
<1>1. /\ b \in BatchType /\ b.at \in 0 .. now /\ b.at \in Nat /\ now \in Nat
      /\ ToSet(b.upserts) \subseteq ExchangeKeys /\ b.removes = {} /\ Touched(b) = ExchangeKeys
  <2>1. b \in BatchType /\ b.at <= now /\ now \in Nat /\ b.removes = {}
    BY DEF IsGood, IsHistory
  <2> QED
    BY <2>1, BatchParts
<1>2. /\ given2 = Raise(given, ExchangeKeys, b.at) /\ taken2 = Raise(taken, ExchangeKeys, b.at)
      /\ doubts2 = {k \in ExchangeKeys : taken[k] > b.at \/ given[k] > b.at}
      /\ \A k \in ExchangeKeys : rows2[k] = IF k \in Given(b, got) THEN Newer(None, got[k]) ELSE None
  BY <1>1 DEF IsApplied, EmptyView
<1>3. \A k \in ExchangeKeys :
        /\ given2[k] \in {given[k], b.at} /\ given2[k] >= b.at
        /\ taken2[k] \in {taken[k], b.at} /\ taken2[k] >= b.at
  BY <1>1, <1>2, RaiseIs
<1>4. \A k \in ExchangeKeys :
        /\ gone[k] \in Nat /\ changed[k] \in Nat
        /\ given[k] \in Nat /\ taken[k] \in Nat /\ given2[k] \in Nat /\ taken2[k] \in Nat
  BY <1>1, <1>3 DEF IsHistory
<1>5. ASSUME NEW k \in ExchangeKeys \ doubts2, taken2[k] >= gone[k]
      PROVE  /\ IsExchange(rows2[k]) => IsSince(rows2[k], held[k])
             /\ gone[k] < changed[k] /\ given2[k] >= changed[k] => rows2[k] = held[k]
  <2>1. taken2[k] = b.at /\ given2[k] = b.at
    <3>1. ~(taken[k] > b.at) /\ ~(given[k] > b.at)
      BY <1>2
    <3> QED
      BY <1>1, <1>3, <1>4, <3>1
  <2>2. CASE k \in ToSet(b.upserts)
    <3>1. /\ gone[k] < changed[k] /\ IsSince(got[k], held[k])
          /\ b.at >= changed[k] => got[k] = held[k]
      BY <1>1, <1>5, <2>1, <2>2 DEF IsGood, IsFetched
    <3>2. k \in Given(b, got)
      BY <1>1, <2>2, <3>1 DEF Given, IsSince, IsExchange
    <3>3. rows2[k] = got[k]
      BY <1>2, <3>2 DEF Newer, IsExchange
    <3> QED
      BY <2>1, <3>1, <3>3
  <2>3. CASE k \notin ToSet(b.upserts)
    <3>1. k \notin Given(b, got) /\ rows2[k] = None
      BY <1>2, <2>3 DEF Given
    <3>2. b.at >= changed[k] => gone[k] = changed[k]
      BY <2>3 DEF IsGood
    <3> QED
      BY <1>4, <2>1, <3>1, <3>2 DEF IsExchange
  <2> QED
    BY <2>2, <2>3
<1>6. ASSUME NEW k \in ExchangeKeys
      PROVE  /\ Tells(b, k, gone[k]) => taken2[k] >= gone[k]
             /\ Tells(b, k, changed[k]) => given2[k] >= changed[k]
  BY <1>1, <1>3, <1>4 DEF Tells
<1> QED
  BY <1>3, <1>5, <1>6 DEF RowsFollow, IsSettled

(* What ApplyDeltas does of both kinds.                                     *)
LEMMA BatchApplied ==
  ASSUME NEW held, NEW now, NEW gone, NEW changed, IsHistory(held, now, gone, changed),
         NEW b, IsGood(b, now, gone, changed),
         NEW got, \A k \in ToSet(b.upserts) : got[k] \in Exchange \cup {None},
         IsFetched(b, {}, got, held, gone, changed),
         NEW rows \in [ExchangeKeys -> Exchange \cup {None}],
         NEW given \in [ExchangeKeys -> 0 .. now], NEW taken \in [ExchangeKeys -> 0 .. now],
         NEW doubts \in SUBSET ExchangeKeys, RowsFollow(rows, given, taken, doubts, held, gone, changed),
         NEW rows2, NEW given2, NEW taken2, NEW doubts2,
         IsApplied(b, got, rows, given, taken, doubts, rows2, given2, taken2, doubts2)
  PROVE  /\ RowsFollow(rows2, given2, taken2, doubts2, held, gone, changed)
         /\ IsSettled(b, given2, taken2, gone, changed)
         /\ given2 \in [ExchangeKeys -> 0 .. now] /\ taken2 \in [ExchangeKeys -> 0 .. now]
         /\ \A k \in ExchangeKeys : given2[k] >= given[k] /\ taken2[k] >= taken[k]
         /\ doubts2 \in SUBSET ExchangeKeys
<1>1. b.kind \in {"changes", "reset"} /\ b.at \in 0 .. now /\ now \in Nat
      /\ Given(b, got) \subseteq ExchangeKeys /\ Touched(b) \subseteq ExchangeKeys
  <2>1. b \in BatchType /\ b.at <= now /\ now \in Nat
    BY DEF IsGood, IsHistory
  <2> QED
    BY <2>1, BatchParts DEF Given
<1>2. /\ RowsFollow(rows2, given2, taken2, doubts2, held, gone, changed)
      /\ IsSettled(b, given2, taken2, gone, changed)
  BY <1>1, ChangesApplied, ResetApplied
<1>3. \E g, t : given2 = Raise(given, g, b.at) /\ taken2 = Raise(taken, t, b.at)
  BY DEF IsApplied
<1>4. /\ given2 \in [ExchangeKeys -> 0 .. now] /\ taken2 \in [ExchangeKeys -> 0 .. now]
      /\ \A k \in ExchangeKeys : given2[k] >= given[k] /\ taken2[k] >= taken[k]
  BY <1>1, <1>3, RaiseIs
<1>5. doubts2 \in SUBSET ExchangeKeys
  BY <1>1 DEF IsApplied
<1> QED
  BY <1>2, <1>4, <1>5

(* What Miss leaves of the notes. *)
IsMissed(b, given, taken, doubts, given2, taken2, doubts2) ==
  /\ doubts2 = doubts \cup Touched(b)
  /\ given2 = Raise(given, Touched(b), b.at)
  /\ taken2 = Raise(taken, Touched(b), b.at)

(* A batch that is missed is settled too: all it tells is doubtful.         *)
AreNotes(given, taken, doubts, now) ==
  /\ given \in [ExchangeKeys -> 0 .. now] /\ taken \in [ExchangeKeys -> 0 .. now]
  /\ doubts \in SUBSET ExchangeKeys

LEMMA BatchMissed ==
  ASSUME NEW held, NEW now, NEW gone, NEW changed, IsHistory(held, now, gone, changed),
         NEW b \in BatchType, b.at \in 0 .. now,
         NEW rows, NEW given, NEW taken, NEW doubts, AreNotes(given, taken, doubts, now),
         RowsFollow(rows, given, taken, doubts, held, gone, changed),
         NEW given2, NEW taken2, NEW doubts2,
         IsMissed(b, given, taken, doubts, given2, taken2, doubts2)
  PROVE  /\ RowsFollow(rows, given2, taken2, doubts2, held, gone, changed)
         /\ IsSettled(b, given2, taken2, gone, changed)
         /\ AreNotes(given2, taken2, doubts2, now)
         /\ \A k \in ExchangeKeys : given2[k] >= given[k] /\ taken2[k] >= taken[k]
<1>1. /\ now \in Nat /\ b.at \in 0 .. now /\ b.at \in Nat /\ Touched(b) \in SUBSET ExchangeKeys
      /\ b.kind \in {"changes", "reset"}
      /\ b.kind = "reset" => Touched(b) = ExchangeKeys
  BY BatchParts DEF IsHistory
<1>2. given2 \in [ExchangeKeys -> 0 .. now] /\ taken2 \in [ExchangeKeys -> 0 .. now]
  BY <1>1, RaiseIs DEF AreNotes, IsMissed
<1>3. \A k \in ExchangeKeys :
        /\ given2[k] >= given[k] /\ taken2[k] >= taken[k]
        /\ k \in Touched(b) => given2[k] >= b.at /\ taken2[k] >= b.at
        /\ k \notin Touched(b) => given2[k] = given[k] /\ taken2[k] = taken[k]
  BY <1>1, RaiseIs DEF AreNotes, IsMissed
<1>4. RowsFollow(rows, given2, taken2, doubts2, held, gone, changed)
  BY <1>3 DEF RowsFollow, IsMissed
<1>5. ASSUME NEW k \in ExchangeKeys, NEW c \in Nat, Tells(b, k, c)
      PROVE  given2[k] >= c /\ taken2[k] >= c
  <2>1. given2[k] \in Nat /\ taken2[k] \in Nat
    BY <1>2
  <2>2. k \in Touched(b) /\ b.at >= c
    BY <1>1, <1>5 DEF Tells
  <2> QED
    BY <1>1, <1>3, <2>1, <2>2
<1>6. IsSettled(b, given2, taken2, gone, changed)
  <2>1. \A k \in ExchangeKeys : gone[k] \in Nat /\ changed[k] \in Nat
    BY DEF IsHistory
  <2> QED
    BY <1>1, <1>3, <1>5, <2>1 DEF IsSettled
<1> QED
  BY <1>1, <1>2, <1>3, <1>4, <1>6 DEF AreNotes, IsMissed

(* Everything up to change at will be told, or was.                         *)
IsCovered(at, way, promised, cut, given, taken) ==
  \/ cut
  \/ \E r \in way : r.kind = "reset" /\ r.at >= at
  \/ \E r \in promised : r.at >= at
  \/ \A k \in ExchangeKeys : given[k] >= at /\ taken[k] >= at

(* The types of what is on its way, and of what the window was told.        *)
AreTold(way, promised, cut, given, taken, now) ==
  /\ \A b \in way : b \in BatchType
  /\ \A b \in promised : b.at \in Nat
  /\ cut \in BOOLEAN
  /\ given \in [ExchangeKeys -> 0 .. now] /\ taken \in [ExchangeKeys -> 0 .. now]

IsHandedOn(way, promised, cut, way2, promised2, cut2, given2, taken2, now, gone, changed) ==
  /\ \A b \in way : \/ b \in way2
                    \/ IsSettled(b, given2, taken2, gone, changed)
                    \/ IsCovered(b.at, way2, promised2, cut2, given2, taken2)
  /\ cut => IsCovered(now, way2, promised2, cut2, given2, taken2)
  /\ \A b \in promised : IsCovered(b.at, way2, promised2, cut2, given2, taken2)

(* Nothing is lost when each batch stays on its way, is settled or covered. *)
LEMMA StillTold ==
  ASSUME NEW held, NEW now, NEW gone, NEW changed, IsHistory(held, now, gone, changed),
         NEW way, NEW promised, NEW cut, NEW given, NEW taken,
         AreTold(way, promised, cut, given, taken, now),
         NothingIsLost(way, promised, cut, given, taken, gone, changed),
         NEW way2, NEW promised2, NEW cut2, NEW given2, NEW taken2,
         AreTold(way2, promised2, cut2, given2, taken2, now),
         \A k \in ExchangeKeys : given2[k] >= given[k] /\ taken2[k] >= taken[k],
         IsHandedOn(way, promised, cut, way2, promised2, cut2, given2, taken2, now, gone, changed)
  PROVE  NothingIsLost(way2, promised2, cut2, given2, taken2, gone, changed)
<1>1. /\ now \in Nat /\ cut \in BOOLEAN
      /\ \A b \in way : /\ b \in BatchType
                        /\ \/ b \in way2
                           \/ IsSettled(b, given2, taken2, gone, changed)
                           \/ IsCovered(b.at, way2, promised2, cut2, given2, taken2)
      /\ \A b \in promised : /\ b.at \in Nat
                             /\ IsCovered(b.at, way2, promised2, cut2, given2, taken2)
      /\ cut => IsCovered(now, way2, promised2, cut2, given2, taken2)
      /\ \A b \in way2 : b \in BatchType
      /\ \A b \in promised2 : b.at \in Nat
      /\ given \in [ExchangeKeys -> 0 .. now] /\ taken \in [ExchangeKeys -> 0 .. now]
      /\ given2 \in [ExchangeKeys -> 0 .. now] /\ taken2 \in [ExchangeKeys -> 0 .. now]
  BY DEF IsHistory, AreTold, IsHandedOn
<1>2. ASSUME NEW k \in ExchangeKeys, NEW c \in Nat, NEW at \in Nat, c <= at,
             IsCovered(at, way2, promised2, cut2, given2, taken2)
      PROVE  IsDue(k, c, way2, promised2, cut2) \/ (given2[k] >= c /\ taken2[k] >= c)
  <2>1. CASE cut2
    BY <2>1 DEF IsDue
  <2>2. CASE \E r \in way2 : r.kind = "reset" /\ r.at >= at
    <3>1. PICK r \in way2 : r.kind = "reset" /\ r.at >= at
      BY <2>2
    <3>2. r.at \in Nat
      BY <1>1, BatchParts
    <3>3. Tells(r, k, c)
      BY <1>2, <3>1, <3>2 DEF Tells
    <3> QED
      BY <3>3 DEF IsDue
  <2>3. CASE \E r \in promised2 : r.at >= at
    <3>1. PICK r \in promised2 : r.at >= at
      BY <2>3
    <3>2. r.at >= c
      BY <1>1, <1>2, <3>1
    <3> QED
      BY <3>2 DEF IsDue
  <2>4. CASE \A j \in ExchangeKeys : given2[j] >= at /\ taken2[j] >= at
    <3>1. given2[k] >= at /\ taken2[k] >= at /\ given2[k] \in Nat /\ taken2[k] \in Nat
      BY <1>1, <2>4
    <3> QED
      BY <1>2, <3>1
  <2> QED
    BY <1>2, <2>1, <2>2, <2>3, <2>4 DEF IsCovered
<1>3. ASSUME NEW k \in ExchangeKeys, NEW c \in Nat, c <= now, IsDue(k, c, way, promised, cut)
      PROVE  \/ IsDue(k, c, way2, promised2, cut2)
             \/ given2[k] >= c /\ taken2[k] >= c
             \/ \E b \in way : Tells(b, k, c) /\ IsSettled(b, given2, taken2, gone, changed)
  <2>1. CASE cut
    BY <1>1, <1>2, <1>3, <2>1
  <2>2. CASE \E b \in promised : b.at >= c
    <3>1. PICK b \in promised : b.at >= c
      BY <2>2
    <3>2. b.at \in Nat /\ IsCovered(b.at, way2, promised2, cut2, given2, taken2)
      BY <1>1
    <3> QED
      BY <1>2, <3>1, <3>2
  <2>3. CASE \E b \in way : Tells(b, k, c)
    <3>1. PICK b \in way : Tells(b, k, c)
      BY <2>3
    <3>2. b.at \in Nat /\ b.at >= c
      BY <1>1, <3>1, BatchParts DEF Tells
    <3>3. CASE b \in way2
      BY <3>1, <3>3 DEF IsDue
    <3>4. CASE IsSettled(b, given2, taken2, gone, changed)
      BY <3>1, <3>4
    <3>5. CASE IsCovered(b.at, way2, promised2, cut2, given2, taken2)
      BY <1>2, <3>2, <3>5
    <3> QED
      BY <1>1, <3>3, <3>4, <3>5
  <2> QED
    BY <1>3, <2>1, <2>2, <2>3 DEF IsDue
<1>4. \A k \in ExchangeKeys :
        /\ gone[k] \in Nat /\ changed[k] \in Nat /\ gone[k] <= now /\ changed[k] <= now
        /\ given[k] \in Nat /\ taken[k] \in Nat /\ given2[k] \in Nat /\ taken2[k] \in Nat
        /\ given2[k] >= given[k] /\ taken2[k] >= taken[k]
  BY <1>1 DEF IsHistory
<1>5. ASSUME NEW k \in ExchangeKeys
      PROVE  taken2[k] >= gone[k] \/ IsDue(k, gone[k], way2, promised2, cut2)
  <2>1. taken[k] >= gone[k] \/ IsDue(k, gone[k], way, promised, cut)
    BY DEF NothingIsLost
  <2>2. CASE taken[k] >= gone[k]
    BY <1>4, <2>2
  <2>3. CASE IsDue(k, gone[k], way, promised, cut)
    <3>1. CASE \E b \in way : Tells(b, k, gone[k]) /\ IsSettled(b, given2, taken2, gone, changed)
      BY <3>1 DEF IsSettled
    <3> QED
      BY <1>3, <1>4, <2>3, <3>1
  <2> QED
    BY <2>1, <2>2, <2>3
<1>6. ASSUME NEW k \in ExchangeKeys, gone[k] < changed[k]
      PROVE  given2[k] >= changed[k] \/ IsDue(k, changed[k], way2, promised2, cut2)
  <2>1. given[k] >= changed[k] \/ IsDue(k, changed[k], way, promised, cut)
    BY <1>6 DEF NothingIsLost
  <2>2. CASE given[k] >= changed[k]
    BY <1>4, <2>2
  <2>3. CASE IsDue(k, changed[k], way, promised, cut)
    <3>1. CASE \E b \in way : Tells(b, k, changed[k]) /\ IsSettled(b, given2, taken2, gone, changed)
      BY <1>6, <3>1 DEF IsSettled
    <3> QED
      BY <1>3, <1>4, <2>3, <3>1
  <2> QED
    BY <2>1, <2>2, <2>3
<1> QED
  BY <1>5, <1>6 DEF NothingIsLost

(* What changed as the hub moved on will be told, or the window notes it.   *)
IsToldOn(way, promised, cut, given, taken, gone, changed, gone2, changed2) ==
  \A k \in ExchangeKeys :
    /\ gone2[k] # gone[k] => IsDue(k, gone2[k], way, promised, cut) \/ taken[k] >= gone2[k]
    /\ changed2[k] = changed[k] => gone2[k] = gone[k]
    /\ changed2[k] # changed[k] => IsDue(k, changed2[k], way, promised, cut) \/ given[k] >= changed2[k]

(* Nothing is lost when the hub moves on and its changes are told.          *)
LEMMA ChangesTold ==
  ASSUME NEW held, NEW now, NEW gone, NEW changed, IsHistory(held, now, gone, changed),
         NEW held2, NEW now2, NEW gone2, NEW changed2, IsHistory(held2, now2, gone2, changed2),
         NEW given, NEW taken, NEW doubts, AreNotes(given, taken, doubts, now),
         NEW given2, NEW taken2, NEW doubts2, AreNotes(given2, taken2, doubts2, now2),
         NEW way, NEW promised, NEW cut,
         NothingIsLost(way, promised, cut, given, taken, gone, changed),
         NEW way2, way \subseteq way2,
         \A k \in ExchangeKeys : given2[k] >= given[k] /\ taken2[k] >= taken[k],
         IsToldOn(way2, promised, cut, given2, taken2, gone, changed, gone2, changed2)
  PROVE  NothingIsLost(way2, promised, cut, given2, taken2, gone2, changed2)
<1> SUFFICES ASSUME NEW k \in ExchangeKeys
             PROVE  /\ taken2[k] >= gone2[k] \/ IsDue(k, gone2[k], way2, promised, cut)
                    /\ gone2[k] < changed2[k] =>
                         given2[k] >= changed2[k] \/ IsDue(k, changed2[k], way2, promised, cut)
  BY DEF NothingIsLost
<1>1. /\ given[k] \in Nat /\ taken[k] \in Nat /\ given2[k] \in Nat /\ taken2[k] \in Nat
      /\ given2[k] >= given[k] /\ taken2[k] >= taken[k]
      /\ gone[k] \in Nat /\ changed[k] \in Nat /\ gone2[k] \in Nat /\ changed2[k] \in Nat
  BY DEF AreNotes, IsHistory
<1>2. \A c : IsDue(k, c, way, promised, cut) => IsDue(k, c, way2, promised, cut)
  BY DEF IsDue
<1>3. /\ taken[k] >= gone[k] \/ IsDue(k, gone[k], way, promised, cut)
      /\ gone[k] < changed[k] => given[k] >= changed[k] \/ IsDue(k, changed[k], way, promised, cut)
  BY DEF NothingIsLost
<1>4. taken2[k] >= gone2[k] \/ IsDue(k, gone2[k], way2, promised, cut)
  BY <1>1, <1>2, <1>3 DEF IsToldOn
<1>5. gone2[k] < changed2[k] => given2[k] >= changed2[k] \/ IsDue(k, changed2[k], way2, promised, cut)
  BY <1>1, <1>2, <1>3 DEF IsToldOn
<1> QED
  BY <1>4, <1>5

---------------------------------------------------------------------------------------
(* The rows of a window and their order.                                    *)

ViewType == [rows : [ExchangeKeys -> Exchange \cup {None}], order : Seq(ExchangeKeys)]

IsView(v) == v \in ViewType /\ Listing!Lists(v.order, Retained(v.rows))

(* No row stands before one that arrived earlier.                           *)
IsAscending(v) ==
  \A i, j \in 1 .. Len(v.order) : i < j => v.rows[v.order[i]].arrival <= v.rows[v.order[j]].arrival

LEMMA ViewParts ==
  ASSUME NEW v, IsView(v)
  PROVE  /\ v.rows \in [ExchangeKeys -> Exchange \cup {None}]
         /\ v.order \in Seq(ExchangeKeys) /\ Len(v.order) \in Nat
         /\ DOMAIN v.order = 1 .. Len(v.order)
         /\ Retained(v.rows) = {k \in ExchangeKeys : IsExchange(v.rows[k])}
         /\ \A i \in 1 .. Len(v.order) :
              /\ v.order[i] \in Retained(v.rows) /\ v.order[i] \in ExchangeKeys
              /\ v.rows[v.order[i]] \in Exchange /\ v.rows[v.order[i]].arrival \in Nat
<1>1. v.rows \in [ExchangeKeys -> Exchange \cup {None}] /\ v.order \in Seq(ExchangeKeys)
  BY DEF IsView, ViewType
<1>2. Len(v.order) \in Nat /\ DOMAIN v.order = 1 .. Len(v.order)
  BY <1>1
<1>3. Retained(v.rows) = {k \in ExchangeKeys : IsExchange(v.rows[k])}
  BY <1>1 DEF Retained
<1>4. \A i \in 1 .. Len(v.order) : v.order[i] \in Retained(v.rows)
  <2>1. v.order \in Seq(Retained(v.rows))
    BY DEF IsView, Listing!Lists
  <2> QED
    BY <2>1
<1>5. \A k \in Retained(v.rows) : v.rows[k] \in Exchange /\ v.rows[k].arrival \in Nat
  <2> SUFFICES ASSUME NEW k \in Retained(v.rows)
               PROVE  v.rows[k] \in Exchange /\ v.rows[k].arrival \in Nat
    OBVIOUS
  <2>1. v.rows[k] \in Exchange \cup {None} /\ v.rows[k] # None
    BY <1>1, <1>3 DEF IsExchange
  <2> QED
    BY <2>1 DEF Exchange
<1> QED
  BY <1>1, <1>2, <1>3, <1>4, <1>5

(* Where insertArrival puts a row.                                          *)
LEMMA InsertArrivalIs ==
  ASSUME NEW v, IsView(v), NEW k, NEW e, e.arrival \in Nat
  PROVE  \/ /\ InsertArrival(v, k, e) = Append(v.order, k)
            /\ \A i \in 1 .. Len(v.order) : v.rows[v.order[i]].arrival <= e.arrival
         \/ \E first \in 1 .. Len(v.order) :
              /\ InsertArrival(v, k, e) = Listing!Inserted(v.order, first, k)
              /\ \A i \in 1 .. first - 1 : v.rows[v.order[i]].arrival <= e.arrival
              /\ e.arrival <= v.rows[v.order[first]].arrival
<1> DEFINE I == {i \in 1 .. Len(v.order) : ArrivesBefore(v, k, e, v.order[i])}
<1>1. Len(v.order) \in Nat /\ \A i \in 1 .. Len(v.order) : v.rows[v.order[i]].arrival \in Nat
  BY ViewParts
<1>2. \A i \in 1 .. Len(v.order) : i \notin I => v.rows[v.order[i]].arrival <= e.arrival
  BY <1>1 DEF ArrivesBefore
<1>3. \A i \in I : i \in 1 .. Len(v.order) /\ e.arrival <= v.rows[v.order[i]].arrival
  BY <1>1 DEF ArrivesBefore
<1>4. SelectInSeq(v.order, LAMBDA other : ArrivesBefore(v, k, e, other))
        = IF I # {} THEN Min(I) ELSE 0
  BY DEF SelectInSeq
<1> HIDE DEF I
<1>5. CASE I = {}
  <2>1. InsertArrival(v, k, e) = Append(v.order, k)
    BY <1>4, <1>5 DEF InsertArrival
  <2> QED
    BY <1>2, <1>5, <2>1
<1>6. CASE I # {}
  <2>1. Min(I) \in I /\ \A i \in I : Min(I) <= i
    BY <1>3, <1>6, LeastIsMember
  <2> DEFINE first == Min(I)
  <2>2. first \in 1 .. Len(v.order) /\ first # 0
    BY <1>3, <2>1
  <2>3. InsertArrival(v, k, e) = Listing!Inserted(v.order, first, k)
    BY <1>4, <1>6, <2>2 DEF InsertArrival, InsertAt, Listing!Inserted
  <2>4. \A i \in 1 .. first - 1 : i \in 1 .. Len(v.order) /\ i \notin I
    BY <1>1, <1>3, <2>1, <2>2
  <2> QED
    BY <1>2, <1>3, <2>1, <2>2, <2>3, <2>4
<1> QED
  BY <1>5, <1>6

LEMMA RowIsPut ==
  ASSUME NEW v, IsView(v), NEW k \in ExchangeKeys, NEW e \in Exchange
  PROVE  /\ IsView(PutRow(v, k, e))
         /\ PutRow(v, k, e).rows = [v.rows EXCEPT ![k] = e]
         /\ IsAscending(v) /\ (IsExchange(v.rows[k]) => v.rows[k].arrival = e.arrival)
              => IsAscending(PutRow(v, k, e))
<1> DEFINE rows == [v.rows EXCEPT ![k] = e]
           order == IF IsExchange(v.rows[k]) THEN v.order ELSE InsertArrival(v, k, e)
<1>1. PutRow(v, k, e) = [rows |-> rows, order |-> order]
  BY DEF PutRow
<1>2. IsExchange(e) /\ e.arrival \in Nat
  BY NoneAssumption DEF IsExchange, Exchange
<1>3. /\ v.rows \in [ExchangeKeys -> Exchange \cup {None}]
      /\ v.order \in Seq(ExchangeKeys) /\ Len(v.order) \in Nat
      /\ Retained(v.rows) = {j \in ExchangeKeys : IsExchange(v.rows[j])}
      /\ \A i \in 1 .. Len(v.order) :
              /\ v.order[i] \in Retained(v.rows) /\ v.order[i] \in ExchangeKeys
              /\ v.rows[v.order[i]].arrival \in Nat
  BY ViewParts
<1>4. /\ rows \in [ExchangeKeys -> Exchange \cup {None}]
      /\ \A j \in ExchangeKeys : rows[j] = IF j = k THEN e ELSE v.rows[j]
  BY <1>3
<1>5. Retained(rows) = Retained(v.rows) \cup {k}
  BY <1>2, <1>3, <1>4 DEF Retained
<1> HIDE DEF rows, order
<1>6. CASE IsExchange(v.rows[k])
  <2>1. order = v.order /\ Retained(rows) = Retained(v.rows)
    BY <1>3, <1>5, <1>6 DEF order
  <2>2. IsView(PutRow(v, k, e))
    <3>1. Listing!Lists(order, Retained(rows))
      BY <2>1 DEF IsView
    <3>2. PutRow(v, k, e) \in ViewType
      BY <1>1, <1>3, <1>4, <2>1 DEF ViewType
    <3> QED
      BY <1>1, <3>1, <3>2 DEF IsView
  <2>3. ASSUME IsAscending(v), v.rows[k].arrival = e.arrival
        PROVE  IsAscending(PutRow(v, k, e))
    <3>1. \A i \in 1 .. Len(v.order) : rows[v.order[i]].arrival = v.rows[v.order[i]].arrival
      BY <1>3, <1>4, <2>3
    <3> QED
      BY <1>1, <2>1, <2>3, <3>1 DEF IsAscending
  <2> QED
    BY <1>1, <1>6, <2>2, <2>3 DEF rows
<1>7. CASE ~IsExchange(v.rows[k])
  <2>1. /\ order = InsertArrival(v, k, e) /\ k \notin Retained(v.rows)
        /\ Listing!Lists(v.order, Retained(v.rows))
    BY <1>3, <1>7 DEF order, IsView
  <2>2. \A i \in 1 .. Len(v.order) : rows[v.order[i]] = v.rows[v.order[i]]
    BY <1>3, <1>4, <2>1
  <2>3. CASE /\ InsertArrival(v, k, e) = Append(v.order, k)
             /\ \A i \in 1 .. Len(v.order) : v.rows[v.order[i]].arrival <= e.arrival
    <3>1. order = Append(v.order, k) /\ Listing!Lists(order, Retained(rows))
      BY <1>5, <2>1, <2>3, Listing!AppendLists
    <3>2. order \in Seq(ExchangeKeys) /\ Len(order) = Len(v.order) + 1
          /\ order[Len(v.order) + 1] = k /\ \A i \in 1 .. Len(v.order) : order[i] = v.order[i]
      BY <1>3, <3>1
    <3>3. IsView(PutRow(v, k, e))
      BY <1>1, <1>4, <3>1, <3>2 DEF IsView, ViewType
    <3>4. ASSUME IsAscending(v), NEW i \in 1 .. Len(order), NEW j \in 1 .. Len(order), i < j
          PROVE  rows[order[i]].arrival <= rows[order[j]].arrival
      <4>1. i \in 1 .. Len(v.order) /\ order[i] = v.order[i]
        BY <1>3, <3>2, <3>4
      <4>2. CASE j = Len(v.order) + 1
        BY <1>4, <2>2, <2>3, <3>2, <4>1, <4>2
      <4>3. CASE j \in 1 .. Len(v.order)
        BY <2>2, <3>2, <3>4, <4>1, <4>3 DEF IsAscending
      <4> QED
        BY <1>3, <3>2, <4>2, <4>3
    <3> QED
      BY <1>1, <3>3, <3>4 DEF IsAscending, rows
  <2>4. ASSUME NEW first \in 1 .. Len(v.order),
               InsertArrival(v, k, e) = Listing!Inserted(v.order, first, k),
               \A i \in 1 .. first - 1 : v.rows[v.order[i]].arrival <= e.arrival,
               e.arrival <= v.rows[v.order[first]].arrival
        PROVE  /\ IsView(PutRow(v, k, e))
               /\ IsAscending(v) => IsAscending(PutRow(v, k, e))
    <3>1. order = Listing!Inserted(v.order, first, k) /\ Listing!Lists(order, Retained(rows))
      BY <1>5, <2>1, <2>4, Listing!InsertLists
    <3>2. order \in Seq(ExchangeKeys) /\ Listing!IsInserted(order, v.order, first, k)
      BY <1>3, <3>1, Listing!InsertedAtPosition
    <3>3. /\ Len(order) = Len(v.order) + 1
          /\ \A i \in 1 .. Len(v.order) + 1 :
               order[i] = IF i < first THEN v.order[i]
                          ELSE IF i = first THEN k ELSE v.order[i - 1]
      BY <3>2 DEF Listing!IsInserted
    <3>4. IsView(PutRow(v, k, e))
      BY <1>1, <1>4, <3>1, <3>2 DEF IsView, ViewType
    <3>5. ASSUME IsAscending(v), NEW i \in 1 .. Len(order), NEW j \in 1 .. Len(order), i < j
          PROVE  rows[order[i]].arrival <= rows[order[j]].arrival
      <4>1. \A p, q \in 1 .. Len(v.order) :
              p <= q => rows[v.order[p]].arrival <= rows[v.order[q]].arrival
        <5> SUFFICES ASSUME NEW p \in 1 .. Len(v.order), NEW q \in 1 .. Len(v.order), p <= q
                     PROVE  v.rows[v.order[p]].arrival <= v.rows[v.order[q]].arrival
          BY <2>2
        <5>1. CASE p = q
          BY <1>3, <5>1
        <5>2. CASE p < q
          BY <3>5, <5>2 DEF IsAscending
        <5> QED
          BY <5>1, <5>2
      <4>2. rows[k].arrival = e.arrival
        BY <1>4
      <4>3. CASE i < first
        <5>1. i \in 1 .. Len(v.order) /\ i \in 1 .. first - 1 /\ order[i] = v.order[i]
          BY <1>3, <3>3, <4>3
        <5>2. CASE j = first
          <6>1. order[j] = k
            BY <3>3, <5>2
          <6>2. v.rows[v.order[i]].arrival <= e.arrival
            BY <2>4, <5>1
          <6> QED
            BY <2>2, <4>2, <5>1, <6>1, <6>2
        <5>3. CASE j < first
          <6>1. j \in 1 .. Len(v.order) /\ order[j] = v.order[j]
            BY <1>3, <3>3, <5>3
          <6> QED
            BY <3>5, <4>1, <5>1, <6>1
        <5>4. CASE j > first
          <6>1. j - 1 \in 1 .. Len(v.order) /\ order[j] = v.order[j - 1] /\ i <= j - 1
            BY <1>3, <3>3, <3>5, <5>4
          <6> QED
            BY <4>1, <5>1, <6>1
        <5> QED
          BY <3>3, <5>2, <5>3, <5>4
      <4>4. CASE i = first
        <5>1. order[i] = k
          BY <3>3, <4>4
        <5>2. j - 1 \in 1 .. Len(v.order) /\ order[j] = v.order[j - 1] /\ first <= j - 1
          BY <1>3, <3>3, <3>5, <4>4
        <5>3. rows[v.order[first]].arrival <= rows[v.order[j - 1]].arrival
          BY <4>1, <5>2
        <5>4. /\ e.arrival <= rows[v.order[first]].arrival
              /\ rows[v.order[first]].arrival \in Nat /\ rows[v.order[j - 1]].arrival \in Nat
          BY <1>3, <2>2, <2>4, <5>2
        <5>5. e.arrival <= rows[v.order[j - 1]].arrival
          BY <1>2, <5>3, <5>4
        <5> QED
          BY <4>2, <5>1, <5>2, <5>5
      <4>5. CASE i > first
        <5>1. /\ i - 1 \in 1 .. Len(v.order) /\ order[i] = v.order[i - 1]
              /\ j - 1 \in 1 .. Len(v.order) /\ order[j] = v.order[j - 1] /\ i - 1 <= j - 1
          BY <1>3, <3>3, <3>5, <4>5
        <5> QED
          BY <4>1, <5>1
      <4> QED
        BY <1>3, <3>3, <4>3, <4>4, <4>5
    <3> QED
      BY <1>1, <3>4, <3>5 DEF IsAscending
  <2>5. /\ IsView(PutRow(v, k, e))
        /\ IsAscending(v) => IsAscending(PutRow(v, k, e))
    <3>1. \/ /\ InsertArrival(v, k, e) = Append(v.order, k)
             /\ \A i \in 1 .. Len(v.order) : v.rows[v.order[i]].arrival <= e.arrival
          \/ \E first \in 1 .. Len(v.order) :
              /\ InsertArrival(v, k, e) = Listing!Inserted(v.order, first, k)
              /\ \A i \in 1 .. first - 1 : v.rows[v.order[i]].arrival <= e.arrival
              /\ e.arrival <= v.rows[v.order[first]].arrival
      BY <1>2, InsertArrivalIs
    <3> QED
      BY <1>7, <2>3, <2>4, <3>1
  <2> QED
    BY <1>1, <2>5 DEF rows
<1> QED
  BY <1>6, <1>7

LEMMA RowsAreRemoved ==
  ASSUME NEW v, IsView(v), NEW keys
  PROVE  /\ IsView(RemoveRows(v, keys))
         /\ \A k \in keys : k \in ExchangeKeys => RemoveRows(v, keys).rows[k] = None
         /\ \A k \in ExchangeKeys \ keys : RemoveRows(v, keys).rows[k] = v.rows[k]
         /\ IsAscending(v) => IsAscending(RemoveRows(v, keys))
<1> DEFINE rows == [k \in ExchangeKeys |-> IF k \in keys THEN None ELSE v.rows[k]]
           order == Listing!Kept(v.order, ExchangeKeys \ keys)
<1>1. RemoveRows(v, keys) = [rows |-> rows, order |-> order]
  BY DEF RemoveRows
<1>2. /\ v.rows \in [ExchangeKeys -> Exchange \cup {None}]
      /\ v.order \in Seq(ExchangeKeys) /\ Len(v.order) \in Nat
      /\ Retained(v.rows) = {j \in ExchangeKeys : IsExchange(v.rows[j])}
      /\ Listing!Lists(v.order, Retained(v.rows))
  BY ViewParts DEF IsView
<1>3. /\ rows \in [ExchangeKeys -> Exchange \cup {None}]
      /\ \A k \in ExchangeKeys : rows[k] = IF k \in keys THEN None ELSE v.rows[k]
  BY <1>2
<1>4. Retained(rows) = Retained(v.rows) \cap (ExchangeKeys \ keys)
  BY <1>2, <1>3 DEF Retained, IsExchange
<1>5. Listing!Lists(order, Retained(rows))
  <2>1. Listing!Lists(order, Retained(v.rows) \cap (ExchangeKeys \ keys))
    BY <1>2, Listing!KeptLists
  <2> QED
    BY <1>4, <2>1
<1>6. PICK at : order \in Seq(ExchangeKeys)
                /\ Listing!IsKept(order, v.order, ExchangeKeys \ keys, Len(v.order), at)
  BY <1>2, Listing!KeptInOrder
<1> HIDE DEF rows, order
<1>7. IsView(RemoveRows(v, keys))
  <2>1. RemoveRows(v, keys) \in ViewType
    BY <1>1, <1>3, <1>6 DEF ViewType
  <2> QED
    BY <1>1, <1>5, <2>1 DEF IsView
<1>8. ASSUME IsAscending(v), NEW i \in 1 .. Len(order), NEW j \in 1 .. Len(order), i < j
      PROVE  rows[order[i]].arrival <= rows[order[j]].arrival
  <2>1. /\ at[i] \in 1 .. Len(v.order) /\ at[j] \in 1 .. Len(v.order) /\ at[i] < at[j]
        /\ order[i] = v.order[at[i]] /\ order[j] = v.order[at[j]]
        /\ v.order[at[i]] \in ExchangeKeys \ keys /\ v.order[at[j]] \in ExchangeKeys \ keys
    BY <1>6, <1>8 DEF Listing!IsKept
  <2>2. v.rows[v.order[at[i]]].arrival <= v.rows[v.order[at[j]]].arrival
    BY <1>8, <2>1 DEF IsAscending
  <2> QED
    BY <1>3, <2>1, <2>2
<1>9. IsAscending(v) => IsAscending(RemoveRows(v, keys))
  <2>1. RemoveRows(v, keys).rows = rows /\ RemoveRows(v, keys).order = order
    BY <1>1
  <2> QED
    BY <1>8, <2>1 DEF IsAscending
<1> QED
  BY <1>1, <1>3, <1>7, <1>9

(* How far the reduction of a batch has come after n of its upserts.        *)
IsReduced(v, base, b, got, n) ==
  /\ IsView(v)
  /\ \A k \in ExchangeKeys :
       v.rows[k] = IF k \notin {b.upserts[j] : j \in 1 .. n} THEN base.rows[k]
                   ELSE IF k \in Given(b, got) THEN Newer(base.rows[k], got[k]) ELSE None

(* No row changes its arrival where it stands. *)
IsOrderly(base, b, got) ==
  /\ IsAscending(base)
  /\ \A k \in Given(b, got) :
       IsExchange(base.rows[k]) /\ got[k].revision > base.rows[k].revision
         => got[k].arrival = base.rows[k].arrival

LEMMA RowIsReduced ==
  ASSUME NEW base, IsView(base), NEW b \in BatchType,
         NEW got, \A k \in ToSet(b.upserts) : got[k] \in Exchange \cup {None},
         NEW n \in 1 .. Len(b.upserts), NEW v, IsReduced(v, base, b, got, n - 1)
  PROVE  /\ IsReduced(ReduceRow(v, Translated(b, got)[n]), base, b, got, n)
         /\ IsOrderly(base, b, got) /\ IsAscending(v)
              => IsAscending(ReduceRow(v, Translated(b, got)[n]))
<1> DEFINE k == b.upserts[n]
           row == Translated(b, got)[n]
           next == ReduceRow(v, row)
<1>1. /\ b.upserts \in Seq(ExchangeKeys) /\ Len(b.upserts) \in Nat
      /\ k \in ExchangeKeys /\ k \in ToSet(b.upserts)
  <2>1. b.upserts \in Seq(ExchangeKeys)
    BY BatchParts
  <2>2. ToSet(b.upserts) = {b.upserts[i] : i \in 1 .. Len(b.upserts)}
    BY <2>1, ElementsOf
  <2> QED
    BY <2>1, <2>2
<1>2. row = [key |-> k, detail |-> IF k \in Given(b, got) THEN got[k] ELSE None]
  BY DEF Translated
<1>3. \A x : x \in {b.upserts[j] : j \in 1 .. n} <=> x = k \/ x \in {b.upserts[j] : j \in 1 .. n - 1}
  <2>1. \A j : j \in 1 .. n <=> j = n \/ j \in 1 .. n - 1
    BY <1>1
  <2> QED
    BY <2>1
<1>4. /\ IsView(v) /\ IsView(base)
      /\ \A x \in ExchangeKeys :
           v.rows[x] = IF x \notin {b.upserts[j] : j \in 1 .. n - 1} THEN base.rows[x]
                       ELSE IF x \in Given(b, got) THEN Newer(base.rows[x], got[x]) ELSE None
  BY DEF IsReduced
<1>5. /\ v.rows \in [ExchangeKeys -> Exchange \cup {None}]
      /\ base.rows \in [ExchangeKeys -> Exchange \cup {None}]
  BY <1>4, ViewParts
<1> HIDE DEF k, row
<1>6. CASE k \notin Given(b, got)
  <2>1. next = RemoveRows(v, {k})
    BY <1>2, <1>6 DEF ReduceRow
  <2>2. /\ IsView(next)
        /\ \A x \in ExchangeKeys : next.rows[x] = IF x = k THEN None ELSE v.rows[x]
        /\ IsAscending(v) => IsAscending(next)
    <3> HIDE DEF next
    <3>1. PICK keys : keys = {k}
      OBVIOUS
    <3>2. next = RemoveRows(v, keys)
      BY <2>1, <3>1
    <3>3. /\ IsView(next) /\ (IsAscending(v) => IsAscending(next))
          /\ \A x \in keys : x \in ExchangeKeys => next.rows[x] = None
          /\ \A x \in ExchangeKeys \ keys : next.rows[x] = v.rows[x]
      BY <1>4, <3>2, RowsAreRemoved
    <3> QED
      BY <3>1, <3>3
  <2>3. IsReduced(next, base, b, got, n)
    BY <1>3, <1>4, <1>6, <2>2 DEF IsReduced
  <2> QED
    BY <2>2, <2>3 DEF row, k
<1>7. CASE k \in Given(b, got)
  <2>1. got[k] \in Exchange /\ got[k] # None /\ got[k].revision \in Nat
    BY <1>1, <1>7 DEF Given, Exchange
  <2>2. next = UpsertRow(v, k, got[k])
    BY <1>2, <1>7, <2>1 DEF ReduceRow
  <2>3. IsExchange(base.rows[k]) => base.rows[k] \in Exchange /\ base.rows[k].revision \in Nat
    <3>1. base.rows[k] \in Exchange \cup {None}
      BY <1>1, <1>5
    <3> QED
      BY <3>1 DEF IsExchange, Exchange
  <2>4. v.rows[k] = base.rows[k] \/ v.rows[k] = Newer(base.rows[k], got[k])
    BY <1>1, <1>4, <1>7
  <2>5. Newer(v.rows[k], got[k]) = Newer(base.rows[k], got[k])
    BY <2>1, <2>3, <2>4 DEF Newer
  <2>6. CASE IsExchange(v.rows[k]) /\ v.rows[k].revision >= got[k].revision
    <3>1. next = v /\ v.rows[k] = Newer(base.rows[k], got[k])
      BY <2>2, <2>5, <2>6 DEF UpsertRow, Newer
    <3>2. IsReduced(next, base, b, got, n)
      BY <1>3, <1>4, <1>7, <3>1 DEF IsReduced
    <3> QED
      BY <3>1, <3>2 DEF row, k
  <2>7. CASE ~(IsExchange(v.rows[k]) /\ v.rows[k].revision >= got[k].revision)
    <3>1. next = PutRow(v, k, got[k]) /\ got[k] = Newer(base.rows[k], got[k])
      BY <2>2, <2>5, <2>7 DEF UpsertRow, Newer
    <3>2. /\ IsView(next) /\ next.rows = [v.rows EXCEPT ![k] = got[k]]
          /\ IsAscending(v) /\ (IsExchange(v.rows[k]) => v.rows[k].arrival = got[k].arrival)
               => IsAscending(next)
      BY <1>1, <1>4, <2>1, <3>1, RowIsPut
    <3>3. IsReduced(next, base, b, got, n)
      <4>1. \A x \in ExchangeKeys : next.rows[x] = IF x = k THEN got[k] ELSE v.rows[x]
        BY <1>5, <3>2
      <4> QED
        BY <1>3, <1>4, <1>7, <3>1, <3>2, <4>1 DEF IsReduced
    <3>4. ASSUME IsOrderly(base, b, got), IsExchange(v.rows[k])
          PROVE  v.rows[k].arrival = got[k].arrival
      <4>1. CASE v.rows[k] = base.rows[k]
        <5>1. got[k].revision > base.rows[k].revision
          BY <2>1, <2>3, <2>7, <3>4, <4>1
        <5> QED
          BY <1>7, <3>4, <4>1, <5>1 DEF IsOrderly
      <4>2. CASE v.rows[k] = Newer(base.rows[k], got[k])
        BY <3>1, <4>2
      <4> QED
        BY <2>4, <4>1, <4>2
    <3> QED
      BY <3>2, <3>3, <3>4 DEF row, k
  <2> QED
    BY <2>6, <2>7
<1> QED
  BY <1>6, <1>7

LEMMA EmptyIsView == IsView(EmptyView) /\ IsAscending(EmptyView)
<1>1. EmptyView \in ViewType /\ Retained(EmptyView.rows) = {} /\ EmptyView.order = <<>>
  BY DEF EmptyView, ViewType, Retained, IsExchange
<1> QED
  BY <1>1 DEF IsView, IsAscending, Listing!Lists

(* applyDeltas as a whole: what becomes of each row, and of their order.    *)
LEMMA ReduceIs ==
  ASSUME NEW v, IsView(v), NEW b \in BatchType, NEW base,
         base = IF b.kind = "reset" THEN EmptyView ELSE v,
         NEW got, \A k \in ToSet(b.upserts) : got[k] \in Exchange \cup {None}
  PROVE  /\ IsView(Reduce(v, b, got))
         /\ \A k \in ExchangeKeys :
              Reduce(v, b, got).rows[k] =
                IF k \in Given(b, got) THEN Newer(base.rows[k], got[k])
                ELSE IF k \in ToSet(b.upserts) \cup b.removes THEN None ELSE base.rows[k]
         /\ IsOrderly(base, b, got) => IsAscending(Reduce(v, b, got))
<1> DEFINE rows == Translated(b, got)
           last == Len(b.upserts)
           IsFar(x, n) == /\ IsReduced(x, base, b, got, n)
                          /\ IsOrderly(base, b, got) => IsAscending(x)
           I == [n \in 0 .. last |-> {x \in ViewType : IsFar(x, n)}]
<1>1. last \in Nat /\ Len(rows) = last /\ ToSet(b.upserts) = {b.upserts[i] : i \in 1 .. last}
  <2>1. b.upserts \in Seq(ExchangeKeys)
    BY BatchParts
  <2> QED
    BY <2>1, ElementsOf DEF Translated
<1>2. IsView(base) /\ (IsOrderly(base, b, got) => IsAscending(base))
  BY EmptyIsView DEF IsOrderly
<1>3. base \in I[0]
  <2>1. IsReduced(base, base, b, got, 0)
    BY <1>2 DEF IsReduced
  <2>2. base \in ViewType /\ 0 \in 0 .. last
    BY <1>1, <1>2 DEF IsView
  <2> QED
    BY <1>2, <2>1, <2>2
<1>4. ASSUME NEW n \in 1 .. last, NEW x \in I[n - 1]
      PROVE  ReduceRow(x, rows[n]) \in I[n]
  <2>1. n - 1 \in 0 .. last /\ n \in 0 .. last
    BY <1>1
  <2>2. IsReduced(x, base, b, got, n - 1) /\ (IsOrderly(base, b, got) => IsAscending(x))
    BY <2>1
  <2>3. IsFar(ReduceRow(x, rows[n]), n)
    BY <1>2, <2>2, RowIsReduced
  <2>4. ReduceRow(x, rows[n]) \in ViewType
    BY <2>3 DEF IsReduced, IsView
  <2> QED
    BY <2>1, <2>3, <2>4
<1> DEFINE w == Reducing!Fold(base, rows)
<1>5. w \in I[last]
  <2> HIDE DEF I, rows, last
  <2> QED
    BY <1>1, <1>3, <1>4, Reducing!FoldKeeps
<1>6. IsFar(w, last)
  BY <1>1, <1>5
<1>7. Reduce(v, b, got) = RemoveRows(w, b.removes)
  BY DEF Reduce
<1> HIDE DEF w
<1>8. /\ IsView(RemoveRows(w, b.removes))
      /\ \A k \in b.removes : k \in ExchangeKeys => RemoveRows(w, b.removes).rows[k] = None
      /\ \A k \in ExchangeKeys \ b.removes : RemoveRows(w, b.removes).rows[k] = w.rows[k]
      /\ IsAscending(w) => IsAscending(RemoveRows(w, b.removes))
  BY <1>6, RowsAreRemoved DEF IsReduced
<1>9. \A k \in Given(b, got) : k \in ToSet(b.upserts) /\ k \notin b.removes
  BY DEF Given
<1>10. \A k \in ExchangeKeys :
         w.rows[k] = IF k \notin ToSet(b.upserts) THEN base.rows[k]
                     ELSE IF k \in Given(b, got) THEN Newer(base.rows[k], got[k]) ELSE None
  BY <1>1, <1>6 DEF IsReduced
<1> QED
  BY <1>6, <1>7, <1>8, <1>9, <1>10

---------------------------------------------------------------------------------------
(* The invariant.                                                           *)

TranslationType ==
  [batch : BatchType, left : SUBSET ExchangeKeys,
   got : UNION {[S -> Exchange \cup {None}] : S \in SUBSET ExchangeKeys}, attempt : Nat]

(* The batches a window translates, those not yet broadcast, and all that   *)
(* are on their way; the snapshot of a subscription that starts, which only *)
(* a native window has still to be sent; and whether a window is cut off.   *)
Carried == {t.batch : t \in ToSet(translations)}
Waiting == {unpublished[p] : p \in Publishers} \ {None}
Way == Waiting \cup ToSet(channel) \cup Carried
Started == IF stream = "snapshot" THEN {snapshot} ELSE {}
Promised == IF stream = "snapshot" /\ ~hosted THEN {snapshot} ELSE {}
IsCut == stream \in {"off", "ended"} \/ lagged

(* The types of what carries the batches. *)
FormInv ==
  /\ hosted \in BOOLEAN /\ lagged \in BOOLEAN
  /\ unpublished \in [Publishers -> BatchType \cup {None}]
  /\ stream \in {"off", "snapshot", "open", "ended"}
  /\ IF stream = "snapshot" THEN snapshot \in BatchType /\ snapshot.kind = "reset" ELSE snapshot = None
  /\ channel \in Seq(BatchType) /\ Len(channel) <= ChannelCapacity
  /\ channel # <<>> \/ lagged => stream = "open"
  /\ streams \in 0 .. MaxStreams
  /\ loading \in {"start", "busy", "done"}
  /\ mutations \in 0 .. MaxMutations

(* The window's rows, and the notes about them. *)
ViewInv(gone, changed) ==
  /\ IsView(view) /\ displaced \in BOOLEAN /\ (~displaced => IsAscending(view))
  /\ doubtful \in SUBSET ExchangeKeys
  /\ upserted \in [ExchangeKeys -> 0 .. mutations]
  /\ removed \in [ExchangeKeys -> 0 .. mutations]
  /\ RowsFollow(view.rows, upserted, removed, doubtful, exchanges, gone, changed)

IsTranslation(t, held, now, gone, changed) ==
  /\ IsGood(t.batch, now, gone, changed)
  /\ t.left \subseteq ToSet(t.batch.upserts)
  /\ t.got \in [ToSet(t.batch.upserts) -> Exchange \cup {None}]
  /\ IsFetched(t.batch, t.left, t.got, held, gone, changed)

TranslationsInv(gone, changed) ==
  /\ translations \in Seq(TranslationType)
  /\ \A t \in ToSet(translations) :
       t.attempt <= streams /\ IsTranslation(t, exchanges, mutations, gone, changed)

SnapshotComes ==
  hosted /\ stream = "snapshot" =>
    IsCovered(snapshot.at, Carried, {}, FALSE, upserted, removed)

FollowInv(gone, changed) ==
  /\ IsHistory(exchanges, mutations, gone, changed)
  /\ ViewInv(gone, changed)
  /\ TranslationsInv(gone, changed)
  /\ \A b \in Waiting \cup ToSet(channel) \cup Started : IsGood(b, mutations, gone, changed)
  /\ NothingIsLost(Way, Promised, IsCut, upserted, removed, gone, changed)
  /\ SnapshotComes

UiInv == HubInv /\ FormInv /\ \E gone, changed : FollowInv(gone, changed)

(* What the window was told stays told.                                     *)
NotesGrow ==
  \A k \in ExchangeKeys : upserted'[k] >= upserted[k] /\ removed'[k] >= removed[k]

(* A batch that is applied, and one that is missed. *)
LEMMA Applied ==
  ASSUME NEW gone, NEW changed, IsHistory(exchanges, mutations, gone, changed),
         ViewInv(gone, changed), NEW b, IsGood(b, mutations, gone, changed),
         NEW got, \A k \in ToSet(b.upserts) : got[k] \in Exchange \cup {None},
         IsFetched(b, {}, got, exchanges, gone, changed),
         ApplyDeltas(b, got), exchanges' = exchanges, mutations' = mutations
  PROVE  /\ ViewInv(gone, changed)' /\ NotesGrow
         /\ IsSettled(b, upserted', removed', gone, changed)
<1>1. b \in BatchType /\ b.kind \in {"changes", "reset"}
  BY BatchParts DEF IsGood
<1>2. PICK base : base = IF b.kind = "reset" THEN EmptyView ELSE view
  OBVIOUS
<1>3. IsView(view) /\ view.rows \in [ExchangeKeys -> Exchange \cup {None}]
  BY ViewParts DEF ViewInv
<1>4. /\ IsView(view')
      /\ \A k \in ExchangeKeys :
              view'.rows[k] =
                IF k \in Given(b, got) THEN Newer(base.rows[k], got[k])
                ELSE IF k \in ToSet(b.upserts) \cup b.removes THEN None ELSE base.rows[k]
      /\ IsOrderly(base, b, got) => IsAscending(view')
  <2>1. view' = Reduce(view, b, got)
    BY DEF ApplyDeltas
  <2> QED
    BY <1>1, <1>2, <1>3, <2>1, ReduceIs
<1>5. IsApplied(b, got, view.rows, upserted, removed, doubtful,
                view'.rows, upserted', removed', doubtful')
  <2>1. \A k \in ExchangeKeys :
          view'.rows[k] =
            IF k \in Given(b, got)
            THEN Newer((IF b.kind = "reset" THEN EmptyView.rows ELSE view.rows)[k], got[k])
            ELSE IF k \in Touched(b) THEN None ELSE view.rows[k]
    <3>1. CASE b.kind = "reset"
      <4>1. base = EmptyView /\ Touched(b) = ExchangeKeys
        BY <1>2, <3>1 DEF Touched
      <4>2. \A k \in ExchangeKeys : base.rows[k] = None
        BY <4>1 DEF EmptyView
      <4> QED
        BY <1>4, <3>1, <4>1, <4>2
    <3>2. CASE b.kind # "reset"
      <4>1. base = view /\ Touched(b) = ToSet(b.upserts) \cup b.removes
        BY <1>2, <3>2 DEF Touched
      <4> QED
        BY <1>4, <3>2, <4>1
    <3> QED
      BY <3>1, <3>2
  <2>2. /\ doubtful' = IF b.kind = "reset"
                       THEN {k \in ExchangeKeys : removed[k] > b.at \/ upserted[k] > b.at}
                       ELSE doubtful \cup ({k \in Given(b, got) : removed[k] > b.at}
                              \cup {k \in Touched(b) \ Given(b, got) : upserted[k] > b.at})
        /\ upserted' = Raise(upserted, IF b.kind = "reset" THEN ExchangeKeys ELSE Given(b, got), b.at)
        /\ removed' = Raise(removed, IF b.kind = "reset" THEN ExchangeKeys
                                     ELSE Touched(b) \ Given(b, got), b.at)
    BY DEF ApplyDeltas, Note
  <2> QED
    BY <2>1, <2>2 DEF IsApplied
<1>6. /\ RowsFollow(view'.rows, upserted', removed', doubtful', exchanges, gone, changed)
      /\ IsSettled(b, upserted', removed', gone, changed)
      /\ upserted' \in [ExchangeKeys -> 0 .. mutations]
      /\ removed' \in [ExchangeKeys -> 0 .. mutations]
      /\ \A k \in ExchangeKeys : upserted'[k] >= upserted[k] /\ removed'[k] >= removed[k]
      /\ doubtful' \in SUBSET ExchangeKeys
  BY <1>3, <1>5, BatchApplied DEF ViewInv
<1>7. displaced' = (b.kind # "reset" /\ (displaced \/ Displaces(b, got)))
  BY DEF ApplyDeltas, Note
<1>8. ~displaced' => IsAscending(view')
  <2> SUFFICES ASSUME ~displaced' PROVE IsOrderly(base, b, got)
    BY <1>4
  <2>1. CASE b.kind = "reset"
    <3>1. \A k \in Given(b, got) : ~IsExchange(base.rows[k])
      BY <1>1, <1>2, <2>1, BatchParts DEF Given, EmptyView, IsExchange
    <3> QED
      BY <1>2, <2>1, <3>1, EmptyIsView DEF IsOrderly
  <2>2. CASE b.kind # "reset"
    <3>1. ~displaced /\ ~Displaces(b, got)
      BY <1>7, <2>2
    <3>2. base = view /\ IsAscending(view)
      BY <1>2, <2>2, <3>1 DEF ViewInv
    <3> QED
      BY <3>1, <3>2 DEF IsOrderly, Displaces
  <2> QED
    BY <2>1, <2>2
<1>9. displaced' \in BOOLEAN
  BY <1>7
<1> QED
  BY <1>4, <1>6, <1>8, <1>9 DEF ViewInv, NotesGrow

LEMMA Missed ==
  ASSUME NEW gone, NEW changed, NEW b \in BatchType,
         ViewInv(gone, changed), mutations \in Nat, mutations' >= mutations, b.at <= mutations',
         NEW gone2, NEW changed2, IsHistory(exchanges', mutations', gone2, changed2),
         RowsFollow(view.rows, upserted, removed, doubtful, exchanges', gone2, changed2),
         Miss(b), view' = view
  PROVE  /\ ViewInv(gone2, changed2)' /\ NotesGrow
         /\ IsSettled(b, upserted', removed', gone2, changed2)
<1>1. /\ upserted \in [ExchangeKeys -> 0 .. mutations'] /\ removed \in [ExchangeKeys -> 0 .. mutations']
      /\ doubtful \in SUBSET ExchangeKeys
  BY DEF ViewInv, IsHistory
<1>2. /\ IsMissed(b, upserted, removed, doubtful, upserted', removed', doubtful')
      /\ displaced' = displaced
  BY DEF Miss, IsMissed
<1>3. /\ RowsFollow(view.rows, upserted', removed', doubtful', exchanges', gone2, changed2)
      /\ IsSettled(b, upserted', removed', gone2, changed2)
      /\ upserted' \in [ExchangeKeys -> 0 .. mutations']
      /\ removed' \in [ExchangeKeys -> 0 .. mutations']
      /\ \A k \in ExchangeKeys : upserted'[k] >= upserted[k] /\ removed'[k] >= removed[k]
      /\ doubtful' \in SUBSET ExchangeKeys
  <2>1. PICK held, now, given, taken, given2, taken2, doubts2 :
          /\ held = exchanges' /\ now = mutations' /\ given = upserted /\ taken = removed
          /\ given2 = upserted' /\ taken2 = removed' /\ doubts2 = doubtful'
    OBVIOUS
  <2>2. /\ IsHistory(held, now, gone2, changed2) /\ b.at \in 0 .. now
        /\ AreNotes(given, taken, doubtful, now)
        /\ RowsFollow(view.rows, given, taken, doubtful, held, gone2, changed2)
        /\ IsMissed(b, given, taken, doubtful, given2, taken2, doubts2)
    BY <1>1, <1>2, <2>1, BatchParts DEF IsHistory, AreNotes
  <2>3. /\ RowsFollow(view.rows, given2, taken2, doubts2, held, gone2, changed2)
        /\ IsSettled(b, given2, taken2, gone2, changed2)
        /\ AreNotes(given2, taken2, doubts2, now)
        /\ \A k \in ExchangeKeys : given2[k] >= given[k] /\ taken2[k] >= taken[k]
    BY <2>2, BatchMissed
  <2> QED
    BY <2>1, <2>3 DEF AreNotes
<1>4. IsView(view') /\ displaced' \in BOOLEAN /\ (~displaced' => IsAscending(view'))
  BY <1>2 DEF ViewInv
<1> QED
  BY <1>3, <1>4 DEF ViewInv, NotesGrow

LEMMA EmptyElements ==
  ASSUME NEW E, NEW s \in Seq(E), s = <<>>
  PROVE  ToSet(s) = {}
BY DEF ToSet

(* A batch that is received is carried from now on, or it is settled. *)
LEMMA Received ==
  ASSUME NEW gone, NEW changed, IsHistory(exchanges, mutations, gone, changed),
         ViewInv(gone, changed), TranslationsInv(gone, changed),
         NEW b, IsGood(b, mutations, gone, changed), NEW attempt \in Nat,
         Receive(b, attempt), exchanges' = exchanges, mutations' = mutations,
         streams \in Nat, streams' \in Nat, streams <= streams', attempt <= streams'
  PROVE  /\ ViewInv(gone, changed)' /\ TranslationsInv(gone, changed)' /\ NotesGrow
         /\ Carried \subseteq Carried'
         /\ b \in Carried' \/ IsSettled(b, upserted', removed', gone, changed)
<1>1. b \in BatchType /\ b.upserts \in Seq(ExchangeKeys) /\ ToSet(b.upserts) \in SUBSET ExchangeKeys
  BY BatchParts DEF IsGood
<1>2. translations \in Seq(TranslationType)
  BY DEF TranslationsInv
<1>3. ASSUME NEW t \in ToSet(translations)
      PROVE  t.attempt <= streams' /\ IsTranslation(t, exchanges', mutations', gone, changed)
  <2>1. t \in TranslationType
    BY <1>2, ElementsOf
  <2>2. t.attempt \in Nat /\ t.attempt <= streams
    BY <2>1 DEF TranslationType, TranslationsInv
  <2> QED
    BY <2>2 DEF TranslationsInv
<1>4. CASE b.upserts = <<>>
  <2>1. ApplyDeltas(b, <<>>) /\ translations' = translations
    BY <1>4 DEF Receive
  <2>2. ToSet(b.upserts) = {}
    BY <1>1, <1>4, EmptyElements
  <2>3. IsFetched(b, {}, <<>>, exchanges, gone, changed)
    BY <2>2 DEF IsFetched
  <2>4. /\ ViewInv(gone, changed)' /\ NotesGrow
        /\ IsSettled(b, upserted', removed', gone, changed)
    BY <2>1, <2>2, <2>3, Applied
  <2>5. TranslationsInv(gone, changed)'
    BY <1>2, <1>3, <2>1 DEF TranslationsInv
  <2> QED
    BY <2>1, <2>4, <2>5 DEF Carried
<1>5. CASE b.upserts # <<>>
  <2> DEFINE new == [batch |-> b, left |-> ToSet(b.upserts),
                     got |-> [k \in ToSet(b.upserts) |-> None], attempt |-> attempt]
  <2>1. translations' = Append(translations, new) /\ UNCHANGED <<view, doubtVars>>
    BY <1>5 DEF Receive
  <2>2. new \in TranslationType
    <3>1. [k \in ToSet(b.upserts) |-> None] \in [ToSet(b.upserts) -> Exchange \cup {None}]
      OBVIOUS
    <3> QED
      BY <1>1, <3>1 DEF TranslationType
  <2>3. IsTranslation(new, exchanges', mutations', gone, changed) /\ new.attempt <= streams'
    BY DEF IsTranslation, IsFetched
  <2>4. new.batch = b
    OBVIOUS
  <2> HIDE DEF new
  <2>5. /\ translations' \in Seq(TranslationType)
        /\ ToSet(translations') = ToSet(translations) \cup {new}
    BY <1>2, <2>1, <2>2, AppendElements
  <2>6. TranslationsInv(gone, changed)'
    BY <1>3, <2>3, <2>5 DEF TranslationsInv
  <2>7. ViewInv(gone, changed)' /\ NotesGrow
    <3>1. /\ view' = view /\ upserted' = upserted /\ removed' = removed /\ doubtful' = doubtful
          /\ displaced' = displaced
      BY <2>1 DEF doubtVars
    <3>2. ViewInv(gone, changed)'
      BY <3>1 DEF ViewInv
    <3>3. NotesGrow
      BY <3>1 DEF NotesGrow, ViewInv, IsHistory
    <3> QED
      BY <3>2, <3>3
  <2>8. Carried \subseteq Carried' /\ b \in Carried'
    BY <2>4, <2>5 DEF Carried
  <2> QED
    BY <2>6, <2>7, <2>8
<1> QED
  BY <1>4, <1>5

(* What is left of the translations when one of them ends. *)
LEMMA TranslationEnds ==
  ASSUME NEW gone, NEW changed, TranslationsInv(gone, changed), NEW i \in DOMAIN translations,
         translations' = RemoveAt(translations, i),
         exchanges' = exchanges, mutations' = mutations, streams' = streams
  PROVE  /\ TranslationsInv(gone, changed)'
         /\ translations[i] \in ToSet(translations)
         /\ Carried' \subseteq Carried /\ Carried \subseteq Carried' \cup {translations[i].batch}
<1>1. translations \in Seq(TranslationType)
  BY DEF TranslationsInv
<1>2. /\ translations' \in Seq(TranslationType)
      /\ ToSet(translations') \subseteq ToSet(translations)
      /\ ToSet(translations) \subseteq ToSet(translations') \cup {translations[i]}
  BY <1>1, RemoveAtElements
<1>3. translations[i] \in ToSet(translations)
  BY <1>1, ElementsOf
<1>4. TranslationsInv(gone, changed)'
  BY <1>2 DEF TranslationsInv
<1>5. Carried' \subseteq Carried /\ Carried \subseteq Carried' \cup {translations[i].batch}
  BY <1>2 DEF Carried
<1> QED
  BY <1>3, <1>4, <1>5

(* When the hub does not change, the invariant follows from what becomes of *)
(* the batches.                                                             *)
LEMMA WindowStep ==
  ASSUME FormInv, FormInv', NEW gone, NEW changed, FollowInv(gone, changed),
         exchanges' = exchanges, mutations' = mutations,
         ViewInv(gone, changed)', TranslationsInv(gone, changed)', NotesGrow, SnapshotComes',
         \A b \in (Waiting \cup ToSet(channel) \cup Started)' : IsGood(b, mutations, gone, changed),
         IsHandedOn(Way, Promised, IsCut, Way', Promised', IsCut', upserted', removed',
                    mutations, gone, changed)
  PROVE  FollowInv(gone, changed)'
<1>1. \A b \in Carried : b \in BatchType
  BY DEF FollowInv, TranslationsInv, IsTranslation, IsGood, Carried
<1>2. \A b \in Carried' : b \in BatchType
  BY DEF TranslationsInv, IsTranslation, IsGood, Carried
<1>3. (\A b \in Way : b \in BatchType) /\ (\A b \in Way' : b \in BatchType)
  BY <1>1, <1>2 DEF FollowInv, IsGood, Way
<1>4. (\A b \in Promised : b.at \in Nat) /\ (\A b \in Promised' : b.at \in Nat)
  <2>1. \A b \in BatchType : b.at \in Nat
    BY BatchParts
  <2> QED
    BY <2>1 DEF FollowInv, IsGood, Promised, Started
<1>5. /\ upserted \in [ExchangeKeys -> 0 .. mutations] /\ removed \in [ExchangeKeys -> 0 .. mutations]
      /\ upserted' \in [ExchangeKeys -> 0 .. mutations]
      /\ removed' \in [ExchangeKeys -> 0 .. mutations]
  BY DEF FollowInv, ViewInv
<1>6. IsCut \in BOOLEAN /\ IsCut' \in BOOLEAN
  BY DEF IsCut, FormInv
<1>7. NothingIsLost(Way', Promised', IsCut', upserted', removed', gone, changed)
  <2>1. IsHistory(exchanges, mutations, gone, changed)
        /\ NothingIsLost(Way, Promised, IsCut, upserted, removed, gone, changed)
    BY DEF FollowInv
  <2>2. \A k \in ExchangeKeys : upserted'[k] >= upserted[k] /\ removed'[k] >= removed[k]
    BY DEF NotesGrow
  <2>3. /\ AreTold(Way, Promised, IsCut, upserted, removed, mutations)
        /\ AreTold(Way', Promised', IsCut', upserted', removed', mutations)
    BY <1>3, <1>4, <1>5, <1>6 DEF AreTold
  <2> QED
    BY <2>1, <2>2, <2>3, StillTold
<1> QED
  BY <1>7 DEF FollowInv

(* A step that leaves the window's rows and translations alone. *)
LEMMA WindowUnmoved ==
  ASSUME NEW gone, NEW changed, FollowInv(gone, changed),
         exchanges' = exchanges, mutations' = mutations,
         streams \in Nat, streams' \in Nat, streams <= streams',
         view' = view, translations' = translations, UNCHANGED doubtVars
  PROVE  /\ ViewInv(gone, changed)' /\ TranslationsInv(gone, changed)' /\ NotesGrow
         /\ Carried' = Carried
<1>1. /\ upserted' = upserted /\ removed' = removed /\ doubtful' = doubtful
      /\ displaced' = displaced
  BY DEF doubtVars
<1>2. ViewInv(gone, changed)'
  BY <1>1 DEF FollowInv, ViewInv
<1>3. TranslationsInv(gone, changed)'
  <2>1. translations \in Seq(TranslationType)
    BY DEF FollowInv, TranslationsInv
  <2>2. \A t \in ToSet(translations) : t \in TranslationType
    BY <2>1, ElementsOf
  <2>3. \A t \in ToSet(translations) : t.attempt \in Nat /\ t.attempt <= streams
    BY <2>2 DEF FollowInv, TranslationsInv, TranslationType
  <2>4. \A t \in ToSet(translations) :
          t.attempt <= streams' /\ IsTranslation(t, exchanges', mutations', gone, changed)
    BY <2>3 DEF FollowInv, TranslationsInv
  <2> QED
    BY <2>1, <2>4 DEF TranslationsInv
<1>4. NotesGrow
  BY <1>1 DEF FollowInv, NotesGrow, ViewInv, IsHistory
<1> QED
  BY <1>2, <1>3, <1>4 DEF Carried

(* What was covered stays so as more is carried and told. *)
LEMMA CoveredStays ==
  ASSUME NEW at, at \in Nat, NEW carried, NEW carried2, carried \subseteq carried2,
         mutations \in Nat, mutations' \in Nat, NEW gone, NEW changed, ViewInv(gone, changed),
         NEW gone2, NEW changed2, ViewInv(gone2, changed2)', NotesGrow,
         IsCovered(at, carried, {}, FALSE, upserted, removed)
  PROVE  IsCovered(at, carried2, {}, FALSE, upserted', removed')
<1>1. CASE \E r \in carried : r.kind = "reset" /\ r.at >= at
  BY <1>1 DEF IsCovered
<1>2. CASE \A k \in ExchangeKeys : upserted[k] >= at /\ removed[k] >= at
  <2>1. ASSUME NEW k \in ExchangeKeys PROVE upserted'[k] >= at /\ removed'[k] >= at
    <3>1. /\ upserted[k] \in Nat /\ upserted'[k] \in Nat /\ removed[k] \in Nat /\ removed'[k] \in Nat
      BY DEF ViewInv
    <3>2. upserted'[k] >= upserted[k] /\ removed'[k] >= removed[k]
      BY DEF NotesGrow
    <3> QED
      BY <1>2, <3>1, <3>2
  <2> QED
    BY <2>1 DEF IsCovered
<1> QED
  BY <1>1, <1>2 DEF IsCovered

LEMMA CoveredOnTheWay ==
  ASSUME NEW at, NEW carried, NEW way, carried \subseteq way, NEW promised, NEW cut,
         NEW given, NEW taken, IsCovered(at, carried, {}, FALSE, given, taken)
  PROVE  IsCovered(at, way, promised, cut, given, taken)
BY DEF IsCovered

(* What the broadcast channel keeps of a batch and those before it. *)
LEMMA SentIs ==
  ASSUME FormInv, NEW b \in BatchType
  PROVE  /\ Sent(b) \in Seq(BatchType) /\ Len(Sent(b)) <= ChannelCapacity
         /\ ToSet(Sent(b)) \subseteq ToSet(channel) \cup {b}
         /\ ~IsFull => ToSet(channel) \cup {b} \subseteq ToSet(Sent(b))
<1>1. channel \in Seq(BatchType) /\ Len(channel) \in Nat /\ Len(channel) <= ChannelCapacity
      /\ ChannelCapacity \in Nat \ {0}
  BY UiAssumption DEF FormInv
<1>2. CASE IsFull
  <2>1. channel # <<>>
    BY <1>1, <1>2 DEF IsFull
  <2>2. /\ Tail(channel) \in Seq(BatchType) /\ Len(Tail(channel)) = Len(channel) - 1
        /\ ToSet(Tail(channel)) \subseteq ToSet(channel)
    BY <1>1, <2>1, TailElements
  <2>3. Sent(b) = Append(Tail(channel), b)
    BY <1>2 DEF Sent
  <2>4. Sent(b) \in Seq(BatchType) /\ ToSet(Sent(b)) = ToSet(Tail(channel)) \cup {b}
    <3>1. PICK rest \in Seq(BatchType) : rest = Tail(channel)
      BY <2>2
    <3>2. Append(rest, b) \in Seq(BatchType) /\ ToSet(Append(rest, b)) = ToSet(rest) \cup {b}
      BY AppendElements
    <3> QED
      BY <2>3, <3>1, <3>2
  <2>5. Len(Sent(b)) = Len(channel)
    BY <1>1, <2>2, <2>3
  <2> QED
    BY <1>1, <1>2, <2>2, <2>4, <2>5
<1>3. CASE ~IsFull
  <2>1. Sent(b) = Append(channel, b)
    BY <1>3 DEF Sent
  <2>2. Sent(b) \in Seq(BatchType) /\ ToSet(Sent(b)) = ToSet(channel) \cup {b}
    BY <1>1, <2>1, AppendElements
  <2>3. Len(Sent(b)) = Len(channel) + 1 /\ Len(channel) # ChannelCapacity
    BY <1>1, <1>3, <2>1 DEF IsFull
  <2> QED
    BY <1>1, <2>2, <2>3
<1> QED
  BY <1>2, <1>3

(* A broadcast leaves a publisher. *)
LEMMA PublishForm ==
  ASSUME FormInv, NEW p \in Publishers, Publish(p)
  PROVE  /\ FormInv' /\ unpublished[p] \in BatchType
         /\ Waiting' \subseteq Waiting /\ Waiting \subseteq Waiting' \cup {unpublished[p]}
         /\ unpublished[p] \in Waiting
<1> DEFINE b == unpublished[p]
<1>1. /\ b \in BatchType /\ unpublished \in [Publishers -> BatchType \cup {None}]
      /\ unpublished' = [unpublished EXCEPT ![p] = None]
  BY DEF Publish, FormInv
<1>2. /\ unpublished' \in [Publishers -> BatchType \cup {None}]
      /\ \A q \in Publishers : unpublished'[q] = IF q = p THEN None ELSE unpublished[q]
  BY <1>1
<1>3. b # None /\ hosted' = hosted /\ mutations' = mutations /\ stream' = stream
      /\ snapshot' = snapshot /\ streams' = streams /\ loading' = loading
  BY DEF Publish, windowVars
<1>4. CASE stream = "open"
  <2>1. channel' = Sent(b) /\ lagged' = (lagged \/ IsFull)
    BY <1>4 DEF Publish
  <2>2. Sent(b) \in Seq(BatchType) /\ Len(Sent(b)) <= ChannelCapacity
    BY <1>1, SentIs
  <2>3. lagged' \in BOOLEAN
    BY <2>1
  <2> QED
    BY <1>1, <1>2, <1>3, <1>4, <2>1, <2>2, <2>3 DEF FormInv, Waiting
<1>5. CASE stream # "open"
  <2>1. channel' = channel /\ lagged' = lagged
    BY <1>5 DEF Publish
  <2> QED
    BY <1>1, <1>2, <1>3, <2>1 DEF FormInv, Waiting
<1> QED
  BY <1>4, <1>5

LEMMA PublishFollows ==
  ASSUME FormInv, NEW gone, NEW changed, FollowInv(gone, changed), NEW p \in Publishers, Publish(p)
  PROVE  FormInv' /\ FollowInv(gone, changed)'
<1> DEFINE b == unpublished[p]
<1>1. /\ FormInv' /\ b \in BatchType /\ b \in Waiting
      /\ Waiting' \subseteq Waiting /\ Waiting \subseteq Waiting' \cup {b}
  BY PublishForm
<1>2. /\ exchanges' = exchanges /\ mutations' = mutations /\ streams' = streams
      /\ view' = view /\ translations' = translations
      /\ stream' = stream /\ snapshot' = snapshot /\ hosted' = hosted
  BY DEF Publish, hubVars, windowVars
<1>3. IsGood(b, mutations, gone, changed) /\ mutations \in Nat
  BY <1>1 DEF FollowInv, FormInv
<1> HIDE DEF b
<1>4. Carried' = Carried /\ Promised' = Promised /\ Started' = Started
  BY <1>2 DEF Carried, Promised, Started
<1>5. /\ IsHistory(exchanges, mutations, gone, changed) /\ ViewInv(gone, changed) /\ SnapshotComes
      /\ \A x \in Waiting \cup ToSet(channel) \cup Started : IsGood(x, mutations, gone, changed)
  BY DEF FollowInv
<1>8. streams \in Nat /\ streams' \in Nat /\ streams <= streams'
  BY <1>2, UiAssumption DEF FormInv
<1>6. CASE stream = "snapshot" /\ b.at > snapshot.at
  <2>1. Miss(b) /\ channel' = channel /\ lagged' = lagged
    BY <1>6 DEF Publish, b
  <2>2. b.at <= mutations
    BY <1>3 DEF IsGood
  <2>3. RowsFollow(view.rows, upserted, removed, doubtful, exchanges', gone, changed)
    BY <1>2, <1>5 DEF ViewInv
  <2>4. IsHistory(exchanges', mutations', gone, changed) /\ mutations' >= mutations /\ b.at <= mutations'
    BY <1>2, <1>3, <1>5, <2>2
  <2>5. /\ ViewInv(gone, changed)' /\ NotesGrow
        /\ IsSettled(b, upserted', removed', gone, changed)
    BY <1>1, <1>2, <1>3, <1>5, <2>1, <2>3, <2>4, Missed
  <2>6. TranslationsInv(gone, changed)'
    BY <1>2 DEF FollowInv, TranslationsInv
  <2>7. SnapshotComes'
    <3> SUFFICES ASSUME hosted', stream' = "snapshot"
                 PROVE  IsCovered(snapshot'.at, Carried', {}, FALSE, upserted', removed')
      BY DEF SnapshotComes
    <3>1. snapshot.at \in Nat
      BY <1>6, BatchParts DEF FormInv
    <3>2. IsCovered(snapshot.at, Carried, {}, FALSE, upserted, removed)
      BY <1>2, <1>5 DEF SnapshotComes
    <3>3. IsCovered(snapshot.at, Carried, {}, FALSE, upserted', removed')
      BY <1>2, <1>3, <1>5, <2>5, <3>1, <3>2, CoveredStays
    <3> QED
      BY <1>2, <1>4, <3>3
  <2>8. IsHandedOn(Way, Promised, IsCut, Way', Promised', IsCut', upserted', removed',
                   mutations, gone, changed)
    <3>1. Way \subseteq Way' \cup {b}
      BY <1>1, <1>4, <2>1 DEF Way
    <3>2. ~IsCut
      BY <1>6 DEF IsCut, FormInv
    <3>3. \A x \in Promised : IsCovered(x.at, Way', Promised', IsCut', upserted', removed')
      <4>1. \A x \in Promised : x \in Promised' /\ x.at \in Nat
        BY <1>4, BatchParts DEF Promised, FormInv
      <4> QED
        BY <4>1 DEF IsCovered
    <3> QED
      BY <2>5, <3>1, <3>2, <3>3 DEF IsHandedOn
  <2>9. \A x \in (Waiting \cup ToSet(channel) \cup Started)' : IsGood(x, mutations, gone, changed)
    BY <1>1, <1>4, <1>5, <2>1
  <2> QED
    BY <1>1, <1>2, <2>5, <2>6, <2>7, <2>8, <2>9, WindowStep
<1>7. CASE ~(stream = "snapshot" /\ b.at > snapshot.at)
  <2>1. UNCHANGED doubtVars
    BY <1>7 DEF Publish, b
  <2>2. /\ ViewInv(gone, changed)' /\ TranslationsInv(gone, changed)' /\ NotesGrow
    BY <1>2, <1>8, <2>1, WindowUnmoved
  <2>3. upserted' = upserted /\ removed' = removed
    BY <2>1 DEF doubtVars
  <2>4. SnapshotComes'
    BY <1>2, <1>4, <1>5, <2>3 DEF SnapshotComes
  <2>5. /\ stream = "open" => channel' = Sent(b) /\ lagged' = (lagged \/ IsFull)
        /\ stream # "open" => channel' = channel /\ lagged' = lagged
    BY DEF Publish, b
  <2>6. \A x \in (Waiting \cup ToSet(channel) \cup Started)' : IsGood(x, mutations, gone, changed)
    <3>1. ToSet(channel') \subseteq ToSet(channel) \cup {b}
      BY <1>1, <2>5, SentIs
    <3> QED
      BY <1>1, <1>3, <1>4, <1>5, <3>1
  <2>7. IsHandedOn(Way, Promised, IsCut, Way', Promised', IsCut', upserted', removed',
                   mutations, gone, changed)
    <3>1. CASE IsCut'
      BY <3>1 DEF IsHandedOn, IsCovered
    <3>2. CASE ~IsCut'
      <4>1. ~IsCut
        BY <1>2, <2>5, <3>2 DEF IsCut, FormInv
      <4>2. stream \in {"snapshot", "open"}
        BY <1>2, <3>2 DEF IsCut, FormInv
      <4>3. \A x \in Promised : IsCovered(x.at, Way', Promised', IsCut', upserted', removed')
        <5>1. \A x \in Promised : x \in Promised' /\ x.at \in Nat
          BY <1>4, BatchParts DEF Promised, FormInv
        <5> QED
          BY <5>1 DEF IsCovered
      <4>4. CASE stream = "open"
        <5>1. ~IsFull
          BY <2>5, <3>2, <4>4 DEF IsCut
        <5>2. ToSet(channel) \cup {b} \subseteq ToSet(channel')
          BY <1>1, <2>5, <4>4, <5>1, SentIs
        <5>3. Way \subseteq Way'
          BY <1>1, <1>4, <5>2 DEF Way
        <5> QED
          BY <4>1, <4>3, <5>3 DEF IsHandedOn
      <4>5. CASE stream = "snapshot"
        <5>1. Way \subseteq Way' \cup {b}
          BY <1>1, <1>4, <2>5, <4>5 DEF Way
        <5>2. b.at \in Nat /\ snapshot.at \in Nat /\ b.at <= snapshot.at
          BY <1>1, <1>7, <4>5, BatchParts DEF FormInv
        <5>3. IsCovered(b.at, Way', Promised', IsCut', upserted', removed')
          <6>1. CASE ~hosted
            <7>1. snapshot \in Promised'
              BY <1>4, <4>5, <6>1 DEF Promised
            <7> QED
              BY <5>2, <7>1 DEF IsCovered
          <6>2. CASE hosted
            <7>1. IsCovered(snapshot.at, Carried, {}, FALSE, upserted, removed)
              BY <1>5, <4>5, <6>2 DEF SnapshotComes
            <7>2. CASE \E r \in Carried : r.kind = "reset" /\ r.at >= snapshot.at
              <8>1. PICK r \in Carried : r.kind = "reset" /\ r.at >= snapshot.at
                BY <7>2
              <8>2. r.at \in Nat
                BY <8>1, BatchParts DEF Carried, FollowInv, TranslationsInv, IsTranslation, IsGood
              <8>3. r \in Way' /\ r.at >= b.at
                BY <1>4, <5>2, <8>1, <8>2 DEF Way
              <8> QED
                BY <8>1, <8>3 DEF IsCovered
            <7>3. CASE \A k \in ExchangeKeys : upserted[k] >= snapshot.at /\ removed[k] >= snapshot.at
              <8>1. \A k \in ExchangeKeys : upserted[k] \in Nat /\ removed[k] \in Nat
                BY <1>5 DEF ViewInv
              <8>2. \A k \in ExchangeKeys : upserted'[k] >= b.at /\ removed'[k] >= b.at
                BY <2>3, <5>2, <7>3, <8>1
              <8> QED
                BY <8>2 DEF IsCovered
            <7> QED
              BY <7>1, <7>2, <7>3 DEF IsCovered
          <6> QED
            BY <6>1, <6>2 DEF FormInv
        <5> QED
          BY <4>1, <4>3, <5>1, <5>3 DEF IsHandedOn
      <4> QED
        BY <4>2, <4>4, <4>5
    <3> QED
      BY <3>1, <3>2
  <2> QED
    BY <1>1, <1>2, <2>2, <2>4, <2>6, <2>7, WindowStep
<1> QED
  BY <1>6, <1>7

(* The snapshot of the hub tells everything. *)
LEMMA SnapshotIsGood ==
  ASSUME HubInv, FormInv, NEW gone, NEW changed, IsHistory(exchanges, mutations, gone, changed)
  PROVE  /\ IsGood(Snapshot, mutations, gone, changed) /\ Snapshot \in BatchType
         /\ Snapshot.kind = "reset" /\ Snapshot.at = mutations
<1>1. /\ Snapshot.kind = "reset" /\ Snapshot.at = mutations
      /\ Snapshot.upserts = arrivalOrder /\ Snapshot.removes = {}
  BY DEF Snapshot, Batch
<1>2. arrivalOrder \in Seq(ExchangeKeys) /\ mutations \in 0 .. MaxMutations /\ mutations \in Nat
  BY UiAssumption DEF HubInv, HubTypeOK, FormInv
<1>3. Snapshot \in BatchType
  BY <1>2 DEF Snapshot, Batch, BatchType
<1>4. ToSet(arrivalOrder) = Retained(exchanges)
  BY <1>2, ElementsOf DEF HubInv, ArrivalOrderAgrees, OrderListsMap
<1>5. Retained(exchanges) = {k \in ExchangeKeys : IsExchange(exchanges[k])}
  BY DEF Retained, IsHistory
<1>6. \A k \in ExchangeKeys : k \in ToSet(arrivalOrder) <=> gone[k] < changed[k]
  BY <1>4, <1>5 DEF IsHistory
<1>7. \A k \in ExchangeKeys : gone[k] \in Nat /\ changed[k] \in Nat /\ gone[k] <= changed[k]
  BY DEF IsHistory
<1>8. \A k \in ToSet(arrivalOrder) : k \in ExchangeKeys
  BY <1>4, <1>5
<1>9. IsGood(Snapshot, mutations, gone, changed)
  BY <1>1, <1>2, <1>3, <1>6, <1>7, <1>8 DEF IsGood
<1> QED
  BY <1>1, <1>3, <1>9

(* So does a reset that is carried or settled. *)
LEMMA ResetCovers ==
  ASSUME NEW b, b.kind = "reset", b.at \in Nat, NEW carried, NEW given, NEW taken,
         NEW gone, NEW changed, b \in carried \/ IsSettled(b, given, taken, gone, changed),
         NEW way, carried \subseteq way, NEW promised, NEW cut
  PROVE  IsCovered(b.at, way, promised, cut, given, taken)
BY DEF IsCovered, IsSettled

(* The initial snapshot is loaded. *)
LEMMA LoadFollows ==
  ASSUME HubInv, FormInv, NEW gone, NEW changed, FollowInv(gone, changed), Load
  PROVE  FormInv' /\ FollowInv(gone, changed)'
<1>1. /\ exchanges' = exchanges /\ mutations' = mutations /\ streams' = streams
      /\ stream' = stream /\ snapshot' = snapshot /\ hosted' = hosted /\ lagged' = lagged
      /\ channel' = channel /\ unpublished' = unpublished /\ loading' \in {"done", "busy"}
      /\ Receive(Snapshot, 0)
  BY DEF Load, hubVars, streamVars
<1>2. FormInv'
  BY <1>1 DEF FormInv
<1>3. /\ IsHistory(exchanges, mutations, gone, changed) /\ ViewInv(gone, changed)
      /\ TranslationsInv(gone, changed) /\ SnapshotComes
      /\ \A x \in Waiting \cup ToSet(channel) \cup Started : IsGood(x, mutations, gone, changed)
  BY DEF FollowInv
<1>4. streams \in Nat /\ streams' \in Nat /\ streams <= streams' /\ 0 <= streams' /\ mutations \in Nat
  BY <1>1, UiAssumption DEF FormInv
<1>5. IsGood(Snapshot, mutations, gone, changed)
  BY <1>3, SnapshotIsGood
<1>6. /\ ViewInv(gone, changed)' /\ TranslationsInv(gone, changed)' /\ NotesGrow
      /\ Carried \subseteq Carried'
  BY <1>1, <1>3, <1>4, <1>5, Received
<1>7. /\ Promised' = Promised /\ Started' = Started /\ Waiting' = Waiting /\ IsCut' = IsCut
  BY <1>1 DEF Promised, Started, Waiting, IsCut
<1>8. SnapshotComes'
  <2> SUFFICES ASSUME hosted', stream' = "snapshot"
               PROVE  IsCovered(snapshot'.at, Carried', {}, FALSE, upserted', removed')
    BY DEF SnapshotComes
  <2>1. snapshot.at \in Nat
    BY <1>1, BatchParts DEF FormInv
  <2>2. IsCovered(snapshot.at, Carried, {}, FALSE, upserted, removed)
    BY <1>1, <1>3 DEF SnapshotComes
  <2> QED
    BY <1>1, <1>3, <1>4, <1>6, <2>1, <2>2, CoveredStays
<1>9. \A x \in (Waiting \cup ToSet(channel) \cup Started)' : IsGood(x, mutations, gone, changed)
  BY <1>1, <1>3, <1>7
<1>10. Way \subseteq Way'
  BY <1>1, <1>6, <1>7 DEF Way
<1>11. IsHandedOn(Way, Promised, IsCut, Way', Promised', IsCut', upserted', removed',
                  mutations, gone, changed)
  <2>1. \A x \in Promised : x \in Promised' /\ x.at \in Nat
    BY <1>7, BatchParts DEF Promised, FormInv
  <2> QED
    BY <1>7, <1>10, <2>1 DEF IsHandedOn, IsCovered
<1> QED
  BY <1>1, <1>2, <1>6, <1>8, <1>9, <1>11, WindowStep

(* A subscription starts: a hosted window is sent the snapshot, a native    *)
(* one is promised it.                                                      *)
LEMMA TakeSnapshotFollows ==
  ASSUME HubInv, FormInv, NEW gone, NEW changed, FollowInv(gone, changed), TakeSnapshot
  PROVE  FormInv' /\ FollowInv(gone, changed)'
<1>1. /\ exchanges' = exchanges /\ mutations' = mutations /\ streams' = streams + 1
      /\ stream = "off" /\ stream' = "snapshot" /\ snapshot' = Snapshot /\ hosted' = hosted
      /\ lagged' = lagged /\ channel' = channel /\ unpublished' = unpublished /\ loading' = loading
      /\ streams < MaxStreams
  BY DEF TakeSnapshot, hubVars
<1>2. /\ IsHistory(exchanges, mutations, gone, changed) /\ ViewInv(gone, changed)
      /\ TranslationsInv(gone, changed)
      /\ \A x \in Waiting \cup ToSet(channel) \cup Started : IsGood(x, mutations, gone, changed)
  BY DEF FollowInv
<1>3. /\ IsGood(Snapshot, mutations, gone, changed) /\ Snapshot \in BatchType
      /\ Snapshot.kind = "reset" /\ Snapshot.at = mutations
  BY <1>2, SnapshotIsGood
<1>4. /\ streams \in Nat /\ streams' \in Nat /\ streams <= streams' /\ mutations \in Nat
      /\ streams' \in 0 .. MaxStreams
  BY <1>1, UiAssumption DEF FormInv
<1>5. FormInv'
  BY <1>1, <1>3, <1>4 DEF FormInv
<1>6. /\ ViewInv(gone, changed)' /\ TranslationsInv(gone, changed)' /\ NotesGrow
      /\ Carried \subseteq Carried'
      /\ hosted => \/ Snapshot \in Carried'
                   \/ IsSettled(Snapshot, upserted', removed', gone, changed)
  <2>1. CASE hosted
    <3>1. Receive(Snapshot, streams')
      BY <1>1, <2>1 DEF TakeSnapshot
    <3>2. streams' <= streams'
      BY <1>4
    <3> QED
      BY <1>1, <1>2, <1>3, <1>4, <3>1, <3>2, Received
  <2>2. CASE ~hosted
    <3>1. UNCHANGED <<translations, view, doubtVars>>
      BY <2>2 DEF TakeSnapshot
    <3>2. translations' = translations /\ view' = view /\ UNCHANGED doubtVars
      BY <3>1
    <3> QED
      BY <1>1, <1>4, <2>2, <3>2, WindowUnmoved
  <2> QED
    BY <2>1, <2>2 DEF FormInv
<1>7. /\ Promised = {} /\ Started' = {Snapshot} /\ Waiting' = Waiting /\ ~lagged
      /\ ~hosted => Promised' = {Snapshot}
  BY <1>1 DEF Promised, Started, Waiting, FormInv
<1>8. hosted => /\ IsCovered(mutations, Carried', {}, FALSE, upserted', removed')
                /\ IsCovered(mutations, Way', Promised', IsCut', upserted', removed')
  <2> SUFFICES ASSUME hosted
               PROVE  /\ IsCovered(mutations, Carried', {}, FALSE, upserted', removed')
                      /\ IsCovered(mutations, Way', Promised', IsCut', upserted', removed')
    OBVIOUS
  <2>1. Carried' \subseteq Way' /\ Carried' \subseteq Carried'
    BY DEF Way
  <2>2. IsCovered(Snapshot.at, Carried', {}, FALSE, upserted', removed')
    BY <1>3, <1>4, <1>6, <2>1, ResetCovers
  <2>3. IsCovered(mutations, Carried', {}, FALSE, upserted', removed')
    BY <1>3, <2>2
  <2> QED
    BY <2>1, <2>3, CoveredOnTheWay
<1>9. SnapshotComes'
  BY <1>1, <1>3, <1>8 DEF SnapshotComes
<1>10. \A x \in (Waiting \cup ToSet(channel) \cup Started)' : IsGood(x, mutations, gone, changed)
  BY <1>1, <1>2, <1>3, <1>7
<1>11. IsHandedOn(Way, Promised, IsCut, Way', Promised', IsCut', upserted', removed',
                  mutations, gone, changed)
  <2>1. Way \subseteq Way'
    BY <1>1, <1>6, <1>7 DEF Way
  <2>2. ~hosted => IsCovered(mutations, Way', Promised', IsCut', upserted', removed')
    BY <1>3, <1>4, <1>7 DEF IsCovered
  <2> QED
    BY <1>7, <1>8, <2>1, <2>2 DEF IsHandedOn, FormInv
<1> QED
  BY <1>1, <1>5, <1>6, <1>9, <1>10, <1>11, WindowStep

(* A subscription is open: a native window is sent the snapshot. *)
LEMMA SubscribeFollows ==
  ASSUME HubInv, FormInv, NEW gone, NEW changed, FollowInv(gone, changed), Subscribe
  PROVE  FormInv' /\ FollowInv(gone, changed)'
<1>1. /\ exchanges' = exchanges /\ mutations' = mutations /\ streams' = streams
      /\ stream = "snapshot" /\ stream' = "open" /\ snapshot' = None /\ hosted' = hosted
      /\ lagged' = lagged /\ channel' = channel /\ unpublished' = unpublished /\ loading' = loading
  BY DEF Subscribe, hubVars
<1>2. /\ IsHistory(exchanges, mutations, gone, changed) /\ ViewInv(gone, changed)
      /\ TranslationsInv(gone, changed)
      /\ \A x \in Waiting \cup ToSet(channel) \cup Started : IsGood(x, mutations, gone, changed)
  BY DEF FollowInv
<1>3. streams \in Nat /\ streams' \in Nat /\ streams <= streams' /\ mutations \in Nat
  BY <1>1, UiAssumption DEF FormInv
<1>4. FormInv'
  BY <1>1 DEF FormInv
<1>5. /\ Started = {snapshot} /\ Started' = {} /\ Waiting' = Waiting /\ Promised' = {}
      /\ Promised = IF hosted THEN {} ELSE {snapshot}
      /\ IsCut = FALSE /\ IsCut' = FALSE
  BY <1>1 DEF Promised, Started, Waiting, FormInv, IsCut
<1>6. /\ IsGood(snapshot, mutations, gone, changed)
      /\ snapshot.kind = "reset" /\ snapshot.at \in Nat
  <2>1. snapshot \in BatchType /\ snapshot.kind = "reset"
    BY <1>1 DEF FormInv
  <2>2. snapshot.at \in Nat
    BY <2>1, BatchParts
  <2> QED
    BY <1>2, <1>5, <2>1, <2>2
<1>7. /\ ViewInv(gone, changed)' /\ TranslationsInv(gone, changed)' /\ NotesGrow
      /\ Carried \subseteq Carried'
      /\ ~hosted => \/ snapshot \in Carried'
                    \/ IsSettled(snapshot, upserted', removed', gone, changed)
  <2>1. CASE ~hosted
    <3>1. Receive(snapshot, streams)
      BY <2>1 DEF Subscribe
    <3> QED
      BY <1>1, <1>2, <1>3, <1>6, <3>1, Received
  <2>2. CASE hosted
    <3>1. UNCHANGED <<translations, view, doubtVars>>
      BY <2>2 DEF Subscribe
    <3>2. translations' = translations /\ view' = view /\ UNCHANGED doubtVars
      BY <3>1
    <3> QED
      BY <1>1, <1>3, <2>2, <3>2, WindowUnmoved
  <2> QED
    BY <2>1, <2>2 DEF FormInv
<1>8. SnapshotComes'
  BY <1>1 DEF SnapshotComes
<1>9. \A x \in (Waiting \cup ToSet(channel) \cup Started)' : IsGood(x, mutations, gone, changed)
  BY <1>1, <1>2, <1>5
<1>10. IsHandedOn(Way, Promised, IsCut, Way', Promised', IsCut', upserted', removed',
                  mutations, gone, changed)
  <2>1. Way \subseteq Way' /\ Carried' \subseteq Way'
    BY <1>1, <1>5, <1>7 DEF Way
  <2>2. ~hosted => IsCovered(snapshot.at, Way', Promised', IsCut', upserted', removed')
    BY <1>6, <1>7, <2>1, ResetCovers
  <2> QED
    BY <1>5, <2>1, <2>2 DEF IsHandedOn, FormInv
<1> QED
  BY <1>1, <1>4, <1>7, <1>8, <1>9, <1>10, WindowStep

(* A batch is taken from the channel. *)
LEMMA ForwardFollows ==
  ASSUME HubInv, FormInv, NEW gone, NEW changed, FollowInv(gone, changed), Forward
  PROVE  FormInv' /\ FollowInv(gone, changed)'
<1>1. /\ exchanges' = exchanges /\ mutations' = mutations /\ streams' = streams
      /\ stream = "open" /\ stream' = "open" /\ snapshot' = snapshot /\ hosted' = hosted
      /\ lagged' = lagged /\ unpublished' = unpublished /\ loading' = loading
      /\ channel # <<>> /\ channel' = Tail(channel)
      /\ Receive(Head(channel), streams)
  BY DEF Forward, hubVars
<1>2. /\ IsHistory(exchanges, mutations, gone, changed) /\ ViewInv(gone, changed)
      /\ TranslationsInv(gone, changed)
      /\ \A x \in Waiting \cup ToSet(channel) \cup Started : IsGood(x, mutations, gone, changed)
  BY DEF FollowInv
<1>3. /\ streams \in Nat /\ streams' \in Nat /\ streams <= streams' /\ mutations \in Nat
      /\ channel \in Seq(BatchType) /\ Len(channel) \in Nat /\ Len(channel) <= ChannelCapacity
      /\ ChannelCapacity \in Nat
  BY <1>1, UiAssumption DEF FormInv
<1>4. /\ Head(channel) \in BatchType /\ Tail(channel) \in Seq(BatchType)
      /\ Len(Tail(channel)) = Len(channel) - 1
      /\ ToSet(channel) = ToSet(Tail(channel)) \cup {Head(channel)}
  BY <1>1, <1>3, TailElements
<1>5. FormInv'
  <2>1. Len(channel') <= ChannelCapacity /\ channel' \in Seq(BatchType)
    BY <1>1, <1>3, <1>4
  <2> QED
    BY <1>1, <2>1 DEF FormInv
<1>6. PICK b : b = Head(channel)
  OBVIOUS
<1>7. /\ IsGood(b, mutations, gone, changed) /\ ToSet(channel) = ToSet(channel') \cup {b}
      /\ Receive(b, streams)
  BY <1>1, <1>2, <1>4, <1>6
<1>8. /\ ViewInv(gone, changed)' /\ TranslationsInv(gone, changed)' /\ NotesGrow
      /\ Carried \subseteq Carried'
      /\ b \in Carried' \/ IsSettled(b, upserted', removed', gone, changed)
  BY <1>1, <1>2, <1>3, <1>7, Received
<1>9. Promised = {} /\ Promised' = {} /\ Started' = {} /\ Waiting' = Waiting
  BY <1>1 DEF Promised, Started, Waiting
<1>10. SnapshotComes'
  BY <1>1 DEF SnapshotComes
<1>11. \A x \in (Waiting \cup ToSet(channel) \cup Started)' : IsGood(x, mutations, gone, changed)
  BY <1>2, <1>7, <1>9
<1>12. IsHandedOn(Way, Promised, IsCut, Way', Promised', IsCut', upserted', removed',
                  mutations, gone, changed)
  <2>1. Way \subseteq Way' \cup {b} /\ Carried' \subseteq Way'
    BY <1>7, <1>8, <1>9 DEF Way
  <2>2. b \in Way' \/ IsSettled(b, upserted', removed', gone, changed)
    BY <1>8, <2>1
  <2>3. IsCut = FALSE
    BY DEF Forward, IsCut
  <2> QED
    BY <1>9, <2>1, <2>2, <2>3 DEF IsHandedOn
<1> QED
  BY <1>1, <1>5, <1>8, <1>10, <1>11, <1>12, WindowStep

(* A hosted window that lags is reset. *)
LEMMA LagHostedFollows ==
  ASSUME HubInv, FormInv, NEW gone, NEW changed, FollowInv(gone, changed), LagHosted
  PROVE  FormInv' /\ FollowInv(gone, changed)'
<1>1. /\ exchanges' = exchanges /\ mutations' = mutations /\ streams' = streams
      /\ stream = "open" /\ stream' = "open" /\ snapshot' = snapshot /\ hosted' = hosted
      /\ lagged' = FALSE /\ unpublished' = unpublished /\ loading' = loading
      /\ channel' = channel /\ Receive(Snapshot, streams)
  BY DEF LagHosted, hubVars
<1>2. /\ IsHistory(exchanges, mutations, gone, changed) /\ ViewInv(gone, changed)
      /\ TranslationsInv(gone, changed)
      /\ \A x \in Waiting \cup ToSet(channel) \cup Started : IsGood(x, mutations, gone, changed)
  BY DEF FollowInv
<1>3. streams \in Nat /\ streams' \in Nat /\ streams <= streams' /\ mutations \in Nat
  BY <1>1, UiAssumption DEF FormInv
<1>4. /\ IsGood(Snapshot, mutations, gone, changed)
      /\ Snapshot.kind = "reset" /\ Snapshot.at = mutations
  BY <1>2, SnapshotIsGood
<1>5. FormInv'
  BY <1>1 DEF FormInv
<1>6. /\ ViewInv(gone, changed)' /\ TranslationsInv(gone, changed)' /\ NotesGrow
      /\ Carried \subseteq Carried'
      /\ Snapshot \in Carried' \/ IsSettled(Snapshot, upserted', removed', gone, changed)
  BY <1>1, <1>2, <1>3, <1>4, Received
<1>7. Promised = {} /\ Promised' = {} /\ Started' = {} /\ Waiting' = Waiting
  BY <1>1 DEF Promised, Started, Waiting
<1>8. SnapshotComes'
  BY <1>1 DEF SnapshotComes
<1>9. \A x \in (Waiting \cup ToSet(channel) \cup Started)' : IsGood(x, mutations, gone, changed)
  BY <1>1, <1>2, <1>7
<1>10. IsHandedOn(Way, Promised, IsCut, Way', Promised', IsCut', upserted', removed',
                  mutations, gone, changed)
  <2>1. Way \subseteq Way' /\ Carried' \subseteq Way'
    BY <1>1, <1>6, <1>7 DEF Way
  <2>2. IsCovered(Snapshot.at, Way', Promised', IsCut', upserted', removed')
    BY <1>3, <1>4, <1>6, <2>1, ResetCovers
  <2> QED
    BY <1>4, <1>7, <2>1, <2>2 DEF IsHandedOn
<1> QED
  BY <1>1, <1>5, <1>6, <1>8, <1>9, <1>10, WindowStep

(* A window is cut off; what was sent is still translated. *)
LEMMA CutFollows ==
  ASSUME HubInv, FormInv, NEW gone, NEW changed, FollowInv(gone, changed), LagNative \/ Reconnect
  PROVE  FormInv' /\ FollowInv(gone, changed)'
<1>1. /\ exchanges' = exchanges /\ mutations' = mutations /\ streams' = streams
      /\ hosted' = hosted /\ lagged' = FALSE /\ unpublished' = unpublished /\ loading' = loading
      /\ channel' = <<>> /\ view' = view /\ translations' = translations /\ UNCHANGED doubtVars
  BY DEF LagNative, Reconnect, hubVars, windowVars
<1>2. stream' \in {"off", "ended"} /\ snapshot' = None
  BY DEF LagNative, Reconnect, FormInv
<1>3. streams \in Nat /\ streams' \in Nat /\ streams <= streams' /\ ChannelCapacity \in Nat
  BY <1>1, UiAssumption DEF FormInv
<1>4. FormInv'
  <2>1. channel' \in Seq(BatchType) /\ Len(channel') <= ChannelCapacity
    BY <1>1, <1>3
  <2> QED
    BY <1>1, <1>2, <2>1 DEF FormInv
<1>5. /\ ViewInv(gone, changed)' /\ TranslationsInv(gone, changed)' /\ NotesGrow
  BY <1>1, <1>3, WindowUnmoved
<1>6. IsCut' /\ Started' = {} /\ Waiting' = Waiting
  BY <1>1, <1>2 DEF IsCut, Started, Waiting
<1>7. SnapshotComes'
  BY <1>2 DEF SnapshotComes
<1>8. ToSet(channel') = {}
  BY <1>1 DEF ToSet
<1>9. \A x \in (Waiting \cup ToSet(channel) \cup Started)' : IsGood(x, mutations, gone, changed)
  BY <1>6, <1>8 DEF FollowInv
<1>10. IsHandedOn(Way, Promised, IsCut, Way', Promised', IsCut', upserted', removed',
                  mutations, gone, changed)
  BY <1>6 DEF IsHandedOn, IsCovered
<1> QED
  BY <1>1, <1>4, <1>5, <1>7, <1>9, <1>10, WindowStep

(* The detail of a key arrives: what the hub holds of it now. *)
LEMMA FetchFollows ==
  ASSUME HubInv, FormInv, NEW gone, NEW changed, FollowInv(gone, changed),
         NEW i \in DOMAIN translations, NEW k \in ExchangeKeys, Fetch(i, k)
  PROVE  FormInv' /\ FollowInv(gone, changed)'
<1>1. /\ exchanges' = exchanges /\ mutations' = mutations /\ streams' = streams
      /\ stream' = stream /\ snapshot' = snapshot /\ hosted' = hosted /\ lagged' = lagged
      /\ channel' = channel /\ unpublished' = unpublished /\ loading' = loading
      /\ view' = view /\ UNCHANGED doubtVars
  BY DEF Fetch, hubVars, streamVars
<1>2. FormInv'
  BY <1>1 DEF FormInv
<1>3. /\ IsHistory(exchanges, mutations, gone, changed) /\ ViewInv(gone, changed)
      /\ TranslationsInv(gone, changed) /\ SnapshotComes
      /\ \A x \in Waiting \cup ToSet(channel) \cup Started : IsGood(x, mutations, gone, changed)
  BY DEF FollowInv
<1>4. /\ upserted' = upserted /\ removed' = removed /\ doubtful' = doubtful
      /\ displaced' = displaced
  BY <1>1 DEF doubtVars
<1>5. ViewInv(gone, changed)' /\ NotesGrow
  <2>1. ViewInv(gone, changed)'
    BY <1>1, <1>3, <1>4 DEF ViewInv
  <2>2. \A x \in ExchangeKeys : upserted[x] \in Nat /\ removed[x] \in Nat
    BY <1>3 DEF ViewInv
  <2> QED
    BY <1>4, <2>1, <2>2 DEF NotesGrow
<1> DEFINE t == translations[i]
           new == [batch |-> t.batch, left |-> t.left \ {k},
                   got |-> [t.got EXCEPT ![k] = exchanges[k]], attempt |-> t.attempt]
<1>6. /\ translations \in Seq(TranslationType) /\ t \in TranslationType
      /\ t \in ToSet(translations) /\ DOMAIN translations = 1 .. Len(translations)
  BY <1>3, ElementsOf DEF TranslationsInv
<1>7. translations' = [translations EXCEPT ![i] = new]
  <2>1. k \in t.left
    BY DEF Fetch
  <2>2. translations' = [translations EXCEPT ![i] =
                          [t EXCEPT !.left = t.left \ {k}, !.got[k] = exchanges[k]]]
    BY <1>6 DEF Fetch
  <2>3. [t EXCEPT !.left = t.left \ {k}, !.got[k] = exchanges[k]] = new
    <3>1. PICK B, L, G, A : t \in [batch : B, left : L, got : G, attempt : A]
      BY <1>6 DEF TranslationType
    <3>2. PICK u, left, e : u = t /\ left = t.left \ {k} /\ e = exchanges[k]
      OBVIOUS
    <3>3. PICK v : v = [u EXCEPT !.left = left]
      OBVIOUS
    <3>4. PICK details : details = [u.got EXCEPT ![k] = e]
      OBVIOUS
    <3> HIDE DEF t, new
    <3>5. u \in [batch : B, left : L, got : G, attempt : A]
      BY <3>1, <3>2
    <3>6. v = [batch |-> u.batch, left |-> left, got |-> u.got, attempt |-> u.attempt]
      BY <3>3, <3>5
    <3>7. [u EXCEPT !.left = left, !.got[k] = e] = [v EXCEPT !.got = details]
      BY <3>3, <3>4
    <3>8. [v EXCEPT !.got = details]
            = [batch |-> v.batch, left |-> v.left, got |-> details, attempt |-> v.attempt]
      <4>1. v \in [batch : B, left : {left}, got : G, attempt : A]
        BY <3>5, <3>6
      <4> QED
        BY <4>1
    <3>9. [u EXCEPT !.left = left, !.got[k] = e]
            = [batch |-> u.batch, left |-> left, got |-> details, attempt |-> u.attempt]
      BY <3>6, <3>7, <3>8
    <3> QED
      BY <3>2, <3>4, <3>9 DEF new
  <2> QED
    BY <2>2, <2>3
<1>8. /\ t.attempt <= streams /\ IsTranslation(t, exchanges, mutations, gone, changed)
      /\ k \in t.left /\ k \in ToSet(t.batch.upserts)
  BY <1>3, <1>6 DEF TranslationsInv, Fetch, IsTranslation
<1>9. PICK b, got, held : b = t.batch /\ got = new.got /\ held = exchanges
  OBVIOUS
<1>10. /\ got \in [ToSet(b.upserts) -> Exchange \cup {None}]
       /\ got[k] = held[k] /\ \A x \in ToSet(b.upserts) : x # k => got[x] = t.got[x]
  <2>1. t.got \in [ToSet(b.upserts) -> Exchange \cup {None}]
    BY <1>8, <1>9 DEF IsTranslation
  <2>2. exchanges[k] \in Exchange \cup {None}
    BY <1>3 DEF IsHistory
  <2>3. got = [t.got EXCEPT ![k] = exchanges[k]]
    BY <1>9
  <2> HIDE DEF t, new
  <2> QED
    BY <1>8, <1>9, <2>1, <2>2, <2>3
<1>11. new \in TranslationType
  <2>1. ToSet(b.upserts) \in SUBSET ExchangeKeys
    BY <1>8, <1>9, BatchParts DEF IsTranslation, IsGood
  <2>2. got \in UNION {[S -> Exchange \cup {None}] : S \in SUBSET ExchangeKeys}
    BY <1>10, <2>1
  <2> QED
    BY <1>6, <1>9, <2>2 DEF TranslationType
<1>12. IsTranslation(new, exchanges, mutations, gone, changed)
  <2>1. /\ new.batch = b /\ new.left = t.left \ {k} /\ new.got = got
        /\ IsGood(b, mutations, gone, changed)
    BY <1>8, <1>9 DEF IsTranslation
  <2>2. IsFetched(b, t.left, t.got, held, gone, changed)
    BY <1>8, <1>9 DEF IsTranslation
  <2>3. t.left \ {k} \subseteq ToSet(b.upserts)
    BY <1>8, <1>9 DEF IsTranslation
  <2>4. IsSince(held[k], held[k]) \/ ~(gone[k] < changed[k])
    <3>1. held[k] \in Exchange \cup {None} /\ (gone[k] < changed[k] => IsExchange(held[k]))
      BY <1>3, <1>9 DEF IsHistory
    <3> QED
      BY <3>1 DEF IsSince, IsExchange, Exchange
  <2>5. IsFetched(b, t.left \ {k}, got, held, gone, changed)
    <3> SUFFICES ASSUME NEW x \in ToSet(b.upserts) \ (b.removes \cup (t.left \ {k})),
                        b.at >= gone[x]
                 PROVE  IsSince(got[x], held[x]) /\ (b.at >= changed[x] => got[x] = held[x])
      BY DEF IsFetched
    <3>1. CASE x = k
      <4>1. gone[k] < changed[k]
        BY <2>1, <3>1 DEF IsGood
      <4> QED
        BY <1>10, <2>4, <3>1, <4>1
    <3>2. CASE x # k
      <4>1. x \in ToSet(b.upserts) \ (b.removes \cup t.left) /\ got[x] = t.got[x]
        BY <1>10, <3>2
      <4> QED
        BY <2>2, <4>1 DEF IsFetched
    <3> QED
      BY <3>1, <3>2
  <2> QED
    BY <1>9, <1>10, <2>1, <2>3, <2>5 DEF IsTranslation
<1>13. new.attempt <= streams /\ new.batch = t.batch
  BY <1>8
<1> HIDE DEF new
<1>14. /\ translations' \in Seq(TranslationType)
       /\ ToSet(translations') \subseteq ToSet(translations) \cup {new}
       /\ ToSet(translations) \subseteq ToSet(translations') \cup {t}
       /\ new \in ToSet(translations')
  BY <1>6, <1>7, <1>11, ReplaceElements
<1>15. TranslationsInv(gone, changed)'
  BY <1>1, <1>3, <1>12, <1>13, <1>14 DEF TranslationsInv
<1>16. Carried' = Carried
  BY <1>6, <1>13, <1>14 DEF Carried
<1>17. /\ Promised' = Promised /\ Started' = Started /\ Waiting' = Waiting /\ IsCut' = IsCut
       /\ Way' = Way
  BY <1>1, <1>16 DEF Promised, Started, Waiting, IsCut, Way
<1>18. SnapshotComes'
  BY <1>1, <1>3, <1>4, <1>16 DEF SnapshotComes
<1>19. \A x \in (Waiting \cup ToSet(channel) \cup Started)' : IsGood(x, mutations, gone, changed)
  BY <1>1, <1>3, <1>17
<1>20. IsHandedOn(Way, Promised, IsCut, Way', Promised', IsCut', upserted', removed',
                  mutations, gone, changed)
  <2>1. \A x \in Promised : x \in Promised' /\ x.at \in Nat
    BY <1>17, BatchParts DEF Promised, FormInv
  <2> QED
    BY <1>17, <2>1 DEF IsHandedOn, IsCovered
<1> QED
  BY <1>1, <1>2, <1>5, <1>15, <1>18, <1>19, <1>20, WindowStep

(* What was covered stays so as a batch that was carried is settled. *)
LEMMA CoveredAsItEnds ==
  ASSUME NEW at, at \in Nat, NEW carried, NEW carried2, NEW b, b \in BatchType,
         carried \subseteq carried2 \cup {b},
         NEW gone, NEW changed, mutations \in Nat, mutations' = mutations,
         ViewInv(gone, changed), ViewInv(gone, changed)', NotesGrow,
         IsSettled(b, upserted', removed', gone, changed),
         IsCovered(at, carried, {}, FALSE, upserted, removed)
  PROVE  IsCovered(at, carried2, {}, FALSE, upserted', removed')
<1>1. \A k \in ExchangeKeys :
        /\ upserted[k] \in Nat /\ upserted'[k] \in Nat /\ removed[k] \in Nat /\ removed'[k] \in Nat
        /\ upserted'[k] >= upserted[k] /\ removed'[k] >= removed[k]
  BY DEF ViewInv, NotesGrow
<1>2. CASE \E r \in carried : r.kind = "reset" /\ r.at >= at
  <2>1. PICK r \in carried : r.kind = "reset" /\ r.at >= at
    BY <1>2
  <2>2. CASE r \in carried2
    BY <2>1, <2>2 DEF IsCovered
  <2>3. CASE r = b
    <3>1. b.at \in Nat /\ b.at >= at /\ \A k \in ExchangeKeys : upserted'[k] >= b.at /\ removed'[k] >= b.at
      BY <2>1, <2>3, BatchParts DEF IsSettled
    <3>2. \A k \in ExchangeKeys : upserted'[k] >= at /\ removed'[k] >= at
      BY <1>1, <3>1
    <3> QED
      BY <3>2 DEF IsCovered
  <2> QED
    BY <2>1, <2>2, <2>3
<1>3. CASE \A k \in ExchangeKeys : upserted[k] >= at /\ removed[k] >= at
  <2>1. \A k \in ExchangeKeys : upserted'[k] >= at /\ removed'[k] >= at
    BY <1>1, <1>3
  <2> QED
    BY <2>1 DEF IsCovered
<1> QED
  BY <1>2, <1>3 DEF IsCovered

(* A translation ends, and all its batch tells is settled. *)
LEMMA EndFollows ==
  ASSUME FormInv, NEW gone, NEW changed, FollowInv(gone, changed), NEW i \in DOMAIN translations,
         translations' = RemoveAt(translations, i), loading' = Loaded(i),
         exchanges' = exchanges, mutations' = mutations, streams' = streams,
         hosted' = hosted, unpublished' = unpublished,
         \/ stream' = "off" /\ snapshot' = None /\ channel' = <<>> /\ lagged' = FALSE
         \/ stream' = stream /\ snapshot' = snapshot /\ channel' = channel /\ lagged' = lagged,
         ViewInv(gone, changed)', NotesGrow,
         IsSettled(translations[i].batch, upserted', removed', gone, changed)
  PROVE  FormInv' /\ FollowInv(gone, changed)'
<1>1. /\ TranslationsInv(gone, changed)' /\ Carried' \subseteq Carried
      /\ translations[i] \in ToSet(translations)
      /\ Carried \subseteq Carried' \cup {translations[i].batch}
  BY TranslationEnds DEF FollowInv
<1>2. PICK b : b = translations[i].batch
  OBVIOUS
<1>3. b \in BatchType
  BY <1>1, <1>2 DEF FollowInv, TranslationsInv, IsTranslation, IsGood
<1>4. mutations \in Nat /\ ChannelCapacity \in Nat
  BY UiAssumption DEF FormInv
<1>5. FormInv'
  <2>1. loading' \in {"start", "busy", "done"}
    BY DEF FormInv, Loaded
  <2>2. CASE stream' = "off" /\ snapshot' = None /\ channel' = <<>> /\ lagged' = FALSE
    <3>1. channel' \in Seq(BatchType) /\ Len(channel') <= ChannelCapacity
      BY <1>4, <2>2
    <3> QED
      BY <2>1, <2>2, <3>1 DEF FormInv
  <2>3. CASE stream' = stream /\ snapshot' = snapshot /\ channel' = channel /\ lagged' = lagged
    BY <2>1, <2>3 DEF FormInv
  <2> QED
    BY <2>2, <2>3
<1>6. CASE stream' = "off" /\ snapshot' = None /\ channel' = <<>> /\ lagged' = FALSE
  <2>1. IsCut' /\ Started' = {} /\ Waiting' = Waiting /\ ToSet(channel') = {}
    BY <1>6 DEF IsCut, Started, Waiting, ToSet
  <2>2. SnapshotComes'
    BY <1>6 DEF SnapshotComes
  <2>3. \A x \in (Waiting \cup ToSet(channel) \cup Started)' : IsGood(x, mutations, gone, changed)
    BY <2>1 DEF FollowInv
  <2>4. IsHandedOn(Way, Promised, IsCut, Way', Promised', IsCut', upserted', removed',
                   mutations, gone, changed)
    BY <2>1 DEF IsHandedOn, IsCovered
  <2> QED
    BY <1>1, <1>5, <2>2, <2>3, <2>4, WindowStep
<1>7. CASE stream' = stream /\ snapshot' = snapshot /\ channel' = channel /\ lagged' = lagged
  <2>1. /\ Promised' = Promised /\ Started' = Started /\ Waiting' = Waiting /\ IsCut' = IsCut
    BY <1>7 DEF Promised, Started, Waiting, IsCut
  <2>2. SnapshotComes'
    <3> SUFFICES ASSUME hosted', stream' = "snapshot"
                 PROVE  IsCovered(snapshot'.at, Carried', {}, FALSE, upserted', removed')
      BY DEF SnapshotComes
    <3>1. snapshot.at \in Nat
      BY <1>7, BatchParts DEF FormInv
    <3>2. IsCovered(snapshot.at, Carried, {}, FALSE, upserted, removed)
      BY <1>7 DEF FollowInv, SnapshotComes
    <3>3. IsCovered(snapshot.at, Carried', {}, FALSE, upserted', removed')
      BY <1>1, <1>2, <1>3, <1>4, <3>1, <3>2, CoveredAsItEnds DEF FollowInv
    <3> QED
      BY <1>7, <3>3
  <2>3. \A x \in (Waiting \cup ToSet(channel) \cup Started)' : IsGood(x, mutations, gone, changed)
    BY <1>7, <2>1 DEF FollowInv
  <2>4. IsHandedOn(Way, Promised, IsCut, Way', Promised', IsCut', upserted', removed',
                   mutations, gone, changed)
    <3>1. Way \subseteq Way' \cup {b}
      BY <1>1, <1>2, <1>7, <2>1 DEF Way
    <3>2. \A x \in Promised : x \in Promised' /\ x.at \in Nat
      BY <2>1, BatchParts DEF Promised, FormInv
    <3> QED
      BY <1>2, <2>1, <3>1, <3>2 DEF IsHandedOn, IsCovered
  <2> QED
    BY <1>1, <1>5, <2>2, <2>3, <2>4, WindowStep
<1> QED
  BY <1>6, <1>7

(* A translated batch is applied. *)
LEMMA ApplyFollows ==
  ASSUME HubInv, FormInv, NEW gone, NEW changed, FollowInv(gone, changed),
         NEW i \in DOMAIN translations, Apply(i)
  PROVE  FormInv' /\ FollowInv(gone, changed)'
<1>1. /\ exchanges' = exchanges /\ mutations' = mutations /\ streams' = streams
      /\ stream' = stream /\ snapshot' = snapshot /\ hosted' = hosted /\ lagged' = lagged
      /\ channel' = channel /\ unpublished' = unpublished /\ loading' = Loaded(i)
      /\ translations' = RemoveAt(translations, i) /\ translations[i].left = {}
      /\ ApplyDeltas(translations[i].batch, translations[i].got)
  BY DEF Apply, hubVars, streamVars
<1>2. PICK b, got : b = translations[i].batch /\ got = translations[i].got
  OBVIOUS
<1>3. /\ IsHistory(exchanges, mutations, gone, changed) /\ ViewInv(gone, changed)
      /\ IsTranslation(translations[i], exchanges, mutations, gone, changed)
  <2>1. translations \in Seq(TranslationType)
    BY DEF FollowInv, TranslationsInv
  <2>2. translations[i] \in ToSet(translations)
    BY <2>1, ElementsOf
  <2> QED
    BY <2>2 DEF FollowInv, TranslationsInv
<1>4. /\ IsGood(b, mutations, gone, changed)
      /\ got \in [ToSet(b.upserts) -> Exchange \cup {None}]
      /\ IsFetched(b, {}, got, exchanges, gone, changed)
  BY <1>1, <1>2, <1>3 DEF IsTranslation
<1>5. \A k \in ToSet(b.upserts) : got[k] \in Exchange \cup {None}
  BY <1>4
<1>6. /\ ViewInv(gone, changed)' /\ NotesGrow
      /\ IsSettled(b, upserted', removed', gone, changed)
  BY <1>1, <1>2, <1>3, <1>4, <1>5, Applied
<1> QED
  BY <1>1, <1>2, <1>6, EndFollows

(* A translation fails: its batch is missed. *)
LEMMA FailTranslationFollows ==
  ASSUME HubInv, FormInv, NEW gone, NEW changed, FollowInv(gone, changed),
         NEW i \in DOMAIN translations, FailTranslation(i)
  PROVE  FormInv' /\ FollowInv(gone, changed)'
<1>1. /\ exchanges' = exchanges /\ mutations' = mutations /\ streams' = streams
      /\ hosted' = hosted /\ unpublished' = unpublished /\ view' = view
      /\ loading' = Loaded(i) /\ translations' = RemoveAt(translations, i)
      /\ Miss(translations[i].batch)
      /\ \/ stream' = "off" /\ snapshot' = None /\ channel' = <<>> /\ lagged' = FALSE
         \/ stream' = stream /\ snapshot' = snapshot /\ channel' = channel /\ lagged' = lagged
  BY DEF FailTranslation, hubVars
<1>2. PICK b : b = translations[i].batch
  OBVIOUS
<1>3. /\ IsHistory(exchanges, mutations, gone, changed) /\ ViewInv(gone, changed)
      /\ IsGood(b, mutations, gone, changed)
  <2>1. translations \in Seq(TranslationType)
    BY DEF FollowInv, TranslationsInv
  <2>2. translations[i] \in ToSet(translations)
    BY <2>1, ElementsOf
  <2> QED
    BY <1>2, <2>2 DEF FollowInv, TranslationsInv, IsTranslation
<1>4. /\ ViewInv(gone, changed)' /\ NotesGrow
      /\ IsSettled(b, upserted', removed', gone, changed)
  <2>1. b \in BatchType /\ b.at <= mutations' /\ mutations \in Nat /\ mutations' >= mutations
    BY <1>1, <1>3, UiAssumption DEF IsGood, FormInv
  <2>2. /\ IsHistory(exchanges', mutations', gone, changed)
        /\ RowsFollow(view.rows, upserted, removed, doubtful, exchanges', gone, changed)
    BY <1>1, <1>3 DEF ViewInv
  <2> QED
    BY <1>1, <1>2, <1>3, <2>1, <2>2, Missed
<1> QED
  BY <1>1, <1>2, <1>4, EndFollows

---------------------------------------------------------------------------------------
(* The publishers' steps: the hub moves on, and the window does not move.   *)

LEMMA TranslationsStay ==
  ASSUME NEW gone, NEW changed, IsHistory(exchanges, mutations, gone, changed),
         TranslationsInv(gone, changed),
         NEW gone2, NEW changed2, IsHistory(exchanges', mutations', gone2, changed2),
         mutations' >= mutations,
         IsLater(exchanges, mutations, gone, changed, exchanges', gone2, changed2),
         translations' = translations, streams' = streams
  PROVE  TranslationsInv(gone2, changed2)'
<1>1. translations' \in Seq(TranslationType)
  BY DEF TranslationsInv
<1>2. ASSUME NEW t \in ToSet(translations)
      PROVE  t.attempt <= streams' /\ IsTranslation(t, exchanges', mutations', gone2, changed2)
  <2>1. t.attempt <= streams /\ IsTranslation(t, exchanges, mutations, gone, changed)
    BY DEF TranslationsInv
  <2>2. PICK held2, now2 : held2 = exchanges' /\ now2 = mutations'
    OBVIOUS
  <2>3. IsGood(t.batch, now2, gone2, changed2)
    BY <2>1, <2>2, GoodStays DEF IsTranslation
  <2>4. IsFetched(t.batch, t.left, t.got, held2, gone2, changed2)
    BY <2>1, <2>2, FetchedStays DEF IsTranslation
  <2> QED
    BY <2>1, <2>2, <2>3, <2>4 DEF IsTranslation
<1> QED
  BY <1>1, <1>2 DEF TranslationsInv

LEMMA RowsStayRight ==
  ASSUME NEW gone, NEW changed, IsHistory(exchanges, mutations, gone, changed),
         ViewInv(gone, changed),
         NEW gone2, NEW changed2, IsHistory(exchanges', mutations', gone2, changed2),
         IsLater(exchanges, mutations, gone, changed, exchanges', gone2, changed2)
  PROVE  RowsFollow(view.rows, upserted, removed, doubtful, exchanges', gone2, changed2)
<1>1. view.rows \in [ExchangeKeys -> Exchange \cup {None}]
  BY ViewParts DEF ViewInv
<1>2. PICK held2, now2 : held2 = exchanges' /\ now2 = mutations'
  OBVIOUS
<1> QED
  BY <1>1, <1>2, RowsStay DEF ViewInv

(* When the hub moves on, the invariant follows from what it tells of it.   *)
LEMMA HubMoves ==
  ASSUME FormInv, FormInv', NEW gone, NEW changed, FollowInv(gone, changed),
         NEW gone2, NEW changed2, IsHistory(exchanges', mutations', gone2, changed2),
         mutations' >= mutations,
         IsLater(exchanges, mutations, gone, changed, exchanges', gone2, changed2),
         UNCHANGED <<hosted, streamVars, windowVars>>,
         Waiting \subseteq Waiting',
         \A b \in Waiting' : b \in Waiting \/ IsGood(b, mutations', gone2, changed2),
         ViewInv(gone2, changed2)', NotesGrow,
         IsToldOn(Way', Promised, IsCut, upserted', removed', gone, changed, gone2, changed2)
  PROVE  FollowInv(gone2, changed2)'
<1>1. /\ hosted' = hosted /\ stream' = stream /\ snapshot' = snapshot /\ channel' = channel
      /\ lagged' = lagged /\ streams' = streams /\ translations' = translations /\ view' = view
  BY DEF streamVars, windowVars
<1>2. /\ IsHistory(exchanges, mutations, gone, changed) /\ ViewInv(gone, changed)
      /\ TranslationsInv(gone, changed) /\ SnapshotComes
      /\ \A x \in Waiting \cup ToSet(channel) \cup Started : IsGood(x, mutations, gone, changed)
      /\ NothingIsLost(Way, Promised, IsCut, upserted, removed, gone, changed)
  BY DEF FollowInv
<1>3. /\ Carried' = Carried /\ Promised' = Promised /\ Started' = Started /\ IsCut' = IsCut
      /\ Way \subseteq Way'
  BY <1>1 DEF Carried, Promised, Started, IsCut, Way
<1>4. TranslationsInv(gone2, changed2)'
  BY <1>1, <1>2, TranslationsStay
<1>5. mutations \in Nat /\ mutations' \in Nat
  BY UiAssumption DEF FormInv
<1>6. SnapshotComes'
  <2> SUFFICES ASSUME hosted', stream' = "snapshot"
               PROVE  IsCovered(snapshot'.at, Carried', {}, FALSE, upserted', removed')
    BY DEF SnapshotComes
  <2>1. snapshot.at \in Nat
    BY <1>1, BatchParts DEF FormInv
  <2>2. hosted /\ stream = "snapshot" /\ SnapshotComes
    BY <1>1, <1>2
  <2>3. IsCovered(snapshot.at, Carried, {}, FALSE, upserted, removed)
    BY <2>2 DEF SnapshotComes
  <2>4. IsCovered(snapshot.at, Carried', {}, FALSE, upserted', removed')
    BY <1>2, <1>3, <1>5, <2>1, <2>3, CoveredStays
  <2> QED
    BY <1>1, <2>4
<1>7. ASSUME NEW x \in (Waiting \cup ToSet(channel) \cup Started)'
      PROVE  IsGood(x, mutations', gone2, changed2)
  <2>1. CASE x \in Waiting \cup ToSet(channel) \cup Started
    <3>1. IsGood(x, mutations, gone, changed)
      BY <1>2, <2>1
    <3>2. PICK held2, now2 : held2 = exchanges' /\ now2 = mutations'
      OBVIOUS
    <3>3. IsGood(x, now2, gone2, changed2)
      BY <1>2, <3>1, <3>2, GoodStays
    <3> QED
      BY <3>2, <3>3
  <2>2. CASE x \in Waiting' /\ x \notin Waiting
    BY <2>2
  <2> QED
    BY <1>1, <1>3, <2>1, <2>2
<1>8. NothingIsLost(Way', Promised', IsCut', upserted', removed', gone2, changed2)
  <2>1. PICK held2, now2, way2, given2, taken2, doubts2 :
          /\ held2 = exchanges' /\ now2 = mutations' /\ way2 = Way'
          /\ given2 = upserted' /\ taken2 = removed' /\ doubts2 = doubtful'
    OBVIOUS
  <2>2. AreNotes(upserted, removed, doubtful, mutations)
    BY <1>2 DEF ViewInv, AreNotes
  <2>3. AreNotes(given2, taken2, doubts2, now2)
    BY <2>1 DEF ViewInv, AreNotes
  <2>4. \A k \in ExchangeKeys : given2[k] >= upserted[k] /\ taken2[k] >= removed[k]
    BY <2>1 DEF NotesGrow
  <2>5. NothingIsLost(way2, Promised, IsCut, given2, taken2, gone2, changed2)
    BY <1>2, <1>3, <2>1, <2>2, <2>3, <2>4, ChangesTold
  <2> QED
    BY <1>3, <2>1, <2>5
<1> QED
  BY <1>4, <1>6, <1>7, <1>8 DEF FollowInv

(* A publisher takes up a batch, and the batch tells all that changed. *)
TakesUp(p, b) ==
  /\ unpublished[p] = None
  /\ unpublished' = [unpublished EXCEPT ![p] = b]
  /\ mutations < MaxMutations
  /\ mutations' = mutations + 1
  /\ UNCHANGED <<hosted, streamVars, windowVars, doubtVars>>

TellsChange(b, gone, changed, gone2, changed2) ==
  /\ IsHistory(exchanges', mutations', gone2, changed2)
  /\ IsLater(exchanges, mutations, gone, changed, exchanges', gone2, changed2)
  /\ IsGood(b, mutations', gone2, changed2)
  /\ \A k \in ExchangeKeys :
       /\ gone2[k] # gone[k] => Tells(b, k, gone2[k])
       /\ changed2[k] # changed[k] => Tells(b, k, changed2[k])

LEMMA ChangeIsTold ==
  ASSUME FormInv, NEW gone, NEW changed, FollowInv(gone, changed),
         NEW p \in Publishers, NEW b, TakesUp(p, b),
         NEW gone2, NEW changed2, TellsChange(b, gone, changed, gone2, changed2)
  PROVE  FormInv' /\ FollowInv(gone2, changed2)'
<1> USE DEF TakesUp, TellsChange
<1>1. /\ hosted' = hosted /\ stream' = stream /\ snapshot' = snapshot /\ channel' = channel
      /\ lagged' = lagged /\ streams' = streams /\ loading' = loading
      /\ translations' = translations /\ view' = view
      /\ upserted' = upserted /\ removed' = removed /\ doubtful' = doubtful
      /\ displaced' = displaced
  BY DEF streamVars, windowVars, doubtVars
<1>2. /\ IsHistory(exchanges, mutations, gone, changed) /\ ViewInv(gone, changed)
  BY DEF FollowInv
<1>3. /\ mutations \in Nat /\ mutations' \in Nat /\ mutations' >= mutations
      /\ mutations' \in 0 .. MaxMutations
  BY UiAssumption DEF FormInv
<1>4. b \in BatchType /\ b # None
  BY UiAssumption DEF IsGood
<1>5. /\ unpublished' \in [Publishers -> BatchType \cup {None}]
      /\ \A q \in Publishers : unpublished'[q] = IF q = p THEN b ELSE unpublished[q]
  BY <1>4 DEF FormInv
<1>6. FormInv'
  BY <1>1, <1>3, <1>5 DEF FormInv
<1>7. b \in Waiting' /\ Waiting \subseteq Waiting' /\ \A x \in Waiting' : x \in Waiting \/ x = b
  <2>1. /\ Waiting = {x \in {unpublished[q] : q \in Publishers} : x # None}
        /\ Waiting' = {x \in {unpublished'[q] : q \in Publishers} : x # None}
    BY DEF Waiting
  <2> QED
    BY <1>4, <1>5, <2>1
<1>8. RowsFollow(view.rows, upserted, removed, doubtful, exchanges', gone2, changed2)
  BY <1>2, RowsStayRight
<1>9. ViewInv(gone2, changed2)' /\ NotesGrow
  <2>1. upserted \in [ExchangeKeys -> 0 .. mutations] /\ removed \in [ExchangeKeys -> 0 .. mutations]
    BY <1>2 DEF ViewInv
  <2>2. upserted \in [ExchangeKeys -> 0 .. mutations'] /\ removed \in [ExchangeKeys -> 0 .. mutations']
    BY <1>3, <2>1
  <2>3. NotesGrow
    BY <1>1, <1>3, <2>1 DEF NotesGrow
  <2> QED
    BY <1>1, <1>2, <1>8, <2>2, <2>3 DEF ViewInv
<1>10. IsToldOn(Way', Promised, IsCut, upserted', removed', gone, changed, gone2, changed2)
  <2>1. b \in Way'
    BY <1>7 DEF Way
  <2>2. \A k \in ExchangeKeys : changed2[k] = changed[k] => gone2[k] = gone[k]
    BY DEF IsLater
  <2> QED
    BY <2>1, <2>2 DEF IsToldOn, IsDue
<1>11. \A x \in Waiting' : x \in Waiting \/ IsGood(x, mutations', gone2, changed2)
  BY <1>7
<1> QED
  BY <1>3, <1>6, <1>7, <1>9, <1>10, <1>11, HubMoves

(* What a stored message makes of each exchange. *)
LEMMA StoreMoves ==
  ASSUME HubInv, NEW m \in ExchangeMessage, NEW at \in Times,
         StoresExchange(m.key.source, m, at, TRUE), StoreExchange(m, at)
  PROVE  /\ m.key \in ExchangeKeys
         /\ exchanges' \in [ExchangeKeys -> Exchange \cup {None}]
         /\ Retained(exchanges) = {k \in ExchangeKeys : IsExchange(exchanges[k])}
         /\ Retained(exchanges') = {k \in ExchangeKeys : IsExchange(exchanges'[k])}
         /\ \A k \in Retained(exchanges') :
              \/ k = m.key /\ (IsExchange(exchanges[k]) => IsSince(exchanges[k], exchanges'[k]))
              \/ k # m.key /\ k \in Retained(exchanges) /\ exchanges'[k] = exchanges[k]
<1>1. PICK merged : merged = MergeMessage(exchanges[m.key], m, at, ArrivalFor(exchanges[m.key]))
  OBVIOUS
<1>2. /\ m.key \in ExchangeKeys /\ merged \in Exchange /\ merged.revision = m.revision
      /\ IsUpsert(exchanges, arrivalOrder, nextArrival, m.key, merged,
                  exchanges', arrivalOrder', nextArrival')
  BY <1>1, StoreExchangeIsUpsert
<1>3. /\ IsRepository(ExchangeKeys, Exchange, exchanges, arrivalOrder, nextArrival)
      /\ exchanges \in [ExchangeKeys -> Exchange \cup {None}]
      /\ Retained(exchanges) = {k \in ExchangeKeys : IsExchange(exchanges[k])}
  BY HubInvRepositories DEF IsRepository, Retained
<1>4. /\ exchanges' \in [ExchangeKeys -> Exchange \cup {None}]
      /\ Retained(exchanges') = {k \in ExchangeKeys : IsExchange(exchanges'[k])}
  BY StoreExchangeKeepsInv DEF HubInv, HubTypeOK, Retained
<1>5. \A k \in Retained(exchanges') :
        \/ k = m.key /\ exchanges'[k] = merged
        \/ k # m.key /\ k \in Retained(exchanges) /\ exchanges'[k] = exchanges[k]
  BY <1>2, <1>3, UpsertOrigins
<1>6. IsExchange(exchanges[m.key]) => IsSince(exchanges[m.key], merged)
  <2> SUFFICES ASSUME IsExchange(exchanges[m.key]) PROVE IsSince(exchanges[m.key], merged)
    OBVIOUS
  <2>1. exchanges[m.key].revision \in Nat /\ merged.revision \in Nat /\ IsExchange(merged)
    <3>1. exchanges[m.key] \in Exchange
      BY <1>2, <1>3 DEF IsExchange
    <3> QED
      BY <1>2, <3>1, NoneAssumption DEF Exchange, IsExchange
  <2>2. ~(m.revision <= exchanges[m.key].revision)
    BY DEF StoresExchange, Merges, IsStale
  <2> QED
    BY <1>2, <2>1, <2>2 DEF IsSince
<1> QED
  BY <1>2, <1>3, <1>4, <1>5, <1>6

(* The processor stores a message, and tells of its key and of the evicted. *)
LEMMA IngestFollows ==
  ASSUME HubInv, FormInv, NEW gone, NEW changed, FollowInv(gone, changed),
         NEW m \in ExchangeMessage, NEW at \in Times, Ingest(m, at)
  PROVE  FormInv' /\ \E gone2, changed2 : FollowInv(gone2, changed2)'
<1> DEFINE removes == (Retained(exchanges) \cup {m.key}) \ Retained(exchanges')
           b == Batch("changes", mutations + 1, <<m.key>>, removes)
           gone2 == [k \in ExchangeKeys |-> IF k \in removes THEN mutations + 1 ELSE gone[k]]
           changed2 == [k \in ExchangeKeys |-> IF k \in removes \cup {m.key} THEN mutations + 1
                                               ELSE changed[k]]
<1>1. /\ mutations < MaxMutations /\ mutations' = mutations + 1
      /\ unpublished["processor"] = None
      /\ unpublished' = [unpublished EXCEPT !["processor"] = b]
      /\ UNCHANGED <<hosted, streamVars, windowVars, doubtVars>>
      /\ StoresExchange(m.key.source, m, at, TRUE) /\ StoreExchange(m, at)
  BY DEF Ingest, Mutate, IngestExchange
<1>2. /\ m.key \in ExchangeKeys
      /\ exchanges' \in [ExchangeKeys -> Exchange \cup {None}]
      /\ Retained(exchanges) = {k \in ExchangeKeys : IsExchange(exchanges[k])}
      /\ Retained(exchanges') = {k \in ExchangeKeys : IsExchange(exchanges'[k])}
      /\ \A k \in Retained(exchanges') :
           \/ k = m.key /\ (IsExchange(exchanges[k]) => IsSince(exchanges[k], exchanges'[k]))
           \/ k # m.key /\ k \in Retained(exchanges) /\ exchanges'[k] = exchanges[k]
  BY <1>1, StoreMoves
<1>3. IsHistory(exchanges, mutations, gone, changed)
  BY DEF FollowInv
<1>4. mutations \in Nat /\ mutations + 1 \in 0 .. MaxMutations
  BY <1>1, UiAssumption DEF FormInv
<1>5. \A k \in ExchangeKeys :
        /\ gone[k] \in Nat /\ changed[k] \in Nat /\ gone[k] <= changed[k] /\ changed[k] <= mutations
        /\ IsExchange(exchanges[k]) <=> gone[k] < changed[k]
        /\ exchanges[k] \in Exchange \cup {None} /\ exchanges'[k] \in Exchange \cup {None}
  BY <1>2, <1>3 DEF IsHistory
<1>6. removes \in SUBSET ExchangeKeys
  BY <1>2
<1>7. /\ gone2 \in [ExchangeKeys -> Nat] /\ changed2 \in [ExchangeKeys -> Nat]
      /\ \A k \in ExchangeKeys :
           /\ gone2[k] = IF k \in removes THEN mutations + 1 ELSE gone[k]
           /\ changed2[k] = IF k \in removes \/ k = m.key THEN mutations + 1 ELSE changed[k]
  BY <1>4, <1>5
<1>8. ASSUME NEW k \in ExchangeKeys
      PROVE  /\ k \in removes => ~IsExchange(exchanges'[k])
             /\ k = m.key /\ k \notin removes => IsExchange(exchanges'[k])
             /\ k = m.key /\ k \notin removes /\ IsExchange(exchanges[k])
                  => IsSince(exchanges[k], exchanges'[k])
             /\ k # m.key /\ k \notin removes => exchanges'[k] = exchanges[k]
  BY <1>2, <1>5 DEF IsExchange
<1>9. /\ b.kind = "changes" /\ b.at = mutations + 1 /\ b.removes = removes
      /\ b.upserts = <<m.key>> /\ ToSet(b.upserts) = {m.key} /\ b \in BatchType
  <2>1. /\ b.kind = "changes" /\ b.at = mutations + 1 /\ b.removes = removes
        /\ b.upserts = <<m.key>>
    BY DEF Batch
  <2>2. <<m.key>> \in Seq(ExchangeKeys) /\ ToSet(<<m.key>>) = {m.key}
    BY <1>2 DEF ToSet
  <2> QED
    BY <1>4, <1>6, <2>1, <2>2 DEF BatchType, Batch
<1> HIDE DEF removes, b, gone2, changed2
<1>10. IsHistory(exchanges', mutations', gone2, changed2)
  <2>1. ASSUME NEW k \in ExchangeKeys
        PROVE  /\ gone2[k] <= changed2[k] /\ changed2[k] <= mutations + 1
               /\ IsExchange(exchanges'[k]) <=> gone2[k] < changed2[k]
    BY <1>4, <1>5, <1>7, <1>8
  <2> QED
    BY <1>1, <1>2, <1>4, <1>7, <2>1 DEF IsHistory
<1>11. IsLater(exchanges, mutations, gone, changed, exchanges', gone2, changed2)
  <2> SUFFICES ASSUME NEW k \in ExchangeKeys
               PROVE  /\ gone2[k] # gone[k] => gone2[k] > mutations
                      /\ changed2[k] # changed[k] => changed2[k] > mutations
                      /\ changed2[k] = changed[k] => exchanges'[k] = exchanges[k] /\ gone2[k] = gone[k]
                      /\ gone2[k] = gone[k] /\ IsExchange(exchanges[k])
                           => IsSince(exchanges[k], exchanges'[k])
    BY DEF IsLater
  <2>1. /\ gone2[k] # gone[k] => gone2[k] > mutations
        /\ changed2[k] # changed[k] => changed2[k] > mutations
        /\ changed2[k] = changed[k] => k \notin removes /\ k # m.key
        /\ gone2[k] = gone[k] => k \notin removes
    BY <1>4, <1>5, <1>7
  <2>2. changed2[k] = changed[k] => exchanges'[k] = exchanges[k] /\ gone2[k] = gone[k]
    BY <1>7, <1>8, <2>1
  <2>3. ASSUME gone2[k] = gone[k], IsExchange(exchanges[k])
        PROVE  IsSince(exchanges[k], exchanges'[k])
    <3>1. CASE k = m.key
      BY <1>8, <2>1, <2>3, <3>1
    <3>2. CASE k # m.key
      <4>1. exchanges'[k] = exchanges[k] /\ exchanges[k].revision \in Nat
        BY <1>5, <1>8, <2>1, <2>3, <3>2 DEF IsExchange, Exchange
      <4> QED
        BY <2>3, <4>1 DEF IsSince
    <3> QED
      BY <3>1, <3>2
  <2> QED
    BY <2>1, <2>2, <2>3
<1>12. IsGood(b, mutations', gone2, changed2)
  <2>1. \A k \in ToSet(b.upserts) \ b.removes :
          gone2[k] < changed2[k] /\ b.at # gone2[k]
    BY <1>2, <1>4, <1>5, <1>7, <1>9
  <2>2. \A k \in b.removes : b.at <= gone2[k]
    BY <1>4, <1>6, <1>7, <1>9
  <2>3. b.at <= mutations'
    BY <1>1, <1>4, <1>9
  <2> QED
    BY <1>9, <2>1, <2>2, <2>3 DEF IsGood
<1>13. \A k \in ExchangeKeys :
         /\ gone2[k] # gone[k] => Tells(b, k, gone2[k])
         /\ changed2[k] # changed[k] => Tells(b, k, changed2[k])
  <2>1. Touched(b) = {m.key} \cup removes
    BY <1>9, BatchParts
  <2> QED
    BY <1>7, <1>9, <2>1 DEF Tells
<1>14. PICK p, told, gone3, changed3 :
         /\ p = "processor" /\ told = b /\ gone3 = gone2 /\ changed3 = changed2
         /\ p \in Publishers
  BY DEF Publishers
<1>15. TakesUp(p, told) /\ TellsChange(told, gone, changed, gone3, changed3)
  BY <1>1, <1>10, <1>11, <1>12, <1>13, <1>14 DEF TakesUp, TellsChange
<1>16. FormInv' /\ FollowInv(gone3, changed3)'
  BY <1>14, <1>15, ChangeIsTold
<1> QED
  BY <1>16

(* The hub's order lists its exchanges. *)
LEMMA OrderLists ==
  ASSUME HubInv
  PROVE  /\ Listing!Lists(arrivalOrder, Retained(exchanges))
         /\ Retained(exchanges) = {k \in ExchangeKeys : IsExchange(exchanges[k])}
         /\ \A k \in Retained(exchanges) : exchanges[k] \in Exchange /\ exchanges[k].arrival \in Nat
         /\ \A i, j \in 1 .. Len(arrivalOrder) :
              i < j => exchanges[arrivalOrder[i]].arrival < exchanges[arrivalOrder[j]].arrival
<1>1. /\ arrivalOrder \in Seq(ExchangeKeys) /\ exchanges \in [ExchangeKeys -> Exchange \cup {None}]
      /\ OrderListsMap(exchanges, arrivalOrder, nextArrival)
  BY DEF HubInv, HubTypeOK, ArrivalOrderAgrees
<1>2. /\ DOMAIN arrivalOrder = 1 .. Len(arrivalOrder) /\ Len(arrivalOrder) \in Nat
  BY <1>1
<1>3. Retained(exchanges) = {k \in ExchangeKeys : IsExchange(exchanges[k])}
  BY <1>1 DEF Retained
<1>4. \A k \in Retained(exchanges) : exchanges[k] \in Exchange /\ exchanges[k].arrival \in Nat
  <2> SUFFICES ASSUME NEW k \in Retained(exchanges)
               PROVE  exchanges[k] \in Exchange /\ exchanges[k].arrival \in Nat
    OBVIOUS
  <2>1. exchanges[k] \in Exchange
    BY <1>1, <1>3 DEF IsExchange
  <2> QED
    BY <2>1 DEF Exchange
<1>5. /\ Retained(exchanges) = {arrivalOrder[i] : i \in 1 .. Len(arrivalOrder)}
      /\ \A i, j \in 1 .. Len(arrivalOrder) :
           i < j => exchanges[arrivalOrder[i]].arrival < exchanges[arrivalOrder[j]].arrival
  BY <1>1, <1>2 DEF OrderListsMap
<1>6. arrivalOrder \in Seq(Retained(exchanges))
  BY <1>1, <1>2, <1>5
<1>7. \A i \in 1 .. Len(arrivalOrder) : exchanges[arrivalOrder[i]].arrival \in Nat
  BY <1>4, <1>5
<1>8. \A i, j \in 1 .. Len(arrivalOrder) : arrivalOrder[i] = arrivalOrder[j] => i = j
  <2> SUFFICES ASSUME NEW i \in 1 .. Len(arrivalOrder), NEW j \in 1 .. Len(arrivalOrder), i < j
               PROVE  arrivalOrder[i] # arrivalOrder[j]
    BY <1>2
  <2>1. exchanges[arrivalOrder[i]].arrival < exchanges[arrivalOrder[j]].arrival
    BY <1>5
  <2> QED
    BY <1>7, <2>1
<1>9. \A y \in Retained(exchanges) : \E n \in 1 .. Len(arrivalOrder) : arrivalOrder[n] = y
  BY <1>5
<1> QED
  BY <1>3, <1>4, <1>5, <1>6, <1>8, <1>9 DEF Listing!Lists

(* What a closing connection makes of each exchange. *)
LEMMA MarkMoves ==
  ASSUME HubInv, NEW source \in Sources, NEW at \in Times, MarkSourceDisconnected(source, at),
         NEW keys, keys = MarkedExchanges(source, at),
         NEW marked, marked = Listing!Kept(arrivalOrder, keys)
  PROVE  /\ marked \in Seq(ExchangeKeys) /\ ToSet(marked) = keys /\ keys \in SUBSET ExchangeKeys
         /\ exchanges' \in [ExchangeKeys -> Exchange \cup {None}]
         /\ \A k \in keys : /\ IsExchange(exchanges[k]) /\ IsExchange(exchanges'[k])
                            /\ IsSince(exchanges[k], exchanges'[k])
         /\ \A k \in ExchangeKeys \ keys : exchanges'[k] = exchanges[k]
<1>1. \A k \in keys : k \in ExchangeKeys /\ IsExchange(exchanges[k])
  BY MarkedAreInFlight DEF IsInFlight
<1>2. keys \subseteq Retained(exchanges)
  BY <1>1, OrderLists
<1>3. exchanges' = [k \in ExchangeKeys |-> IF k \in keys THEN MarkIncomplete(exchanges[k])
                                            ELSE exchanges[k]]
  BY DEF MarkSourceDisconnected
<1>4. exchanges' \in [ExchangeKeys -> Exchange \cup {None}]
  BY MarkSourceDisconnectedKeepsInv DEF HubInv, HubTypeOK
<1>5. ASSUME NEW k \in keys
      PROVE  IsExchange(exchanges'[k]) /\ IsSince(exchanges[k], exchanges'[k])
  <2>1. exchanges[k] \in Exchange /\ exchanges'[k] = MarkIncomplete(exchanges[k])
    BY <1>1, <1>2, <1>3, OrderLists
  <2>2. /\ exchanges'[k] \in Exchange /\ exchanges[k].revision \in Nat
        /\ exchanges'[k].revision = exchanges[k].revision + 1
    <3>1. exchanges[k].revision \in Nat
      BY <2>1 DEF Exchange
    <3> QED
      BY <2>1, <3>1, MarkType
  <2> QED
    BY <1>1, <2>2, NoneAssumption DEF IsSince, IsExchange
<1>6. marked \in Seq(ExchangeKeys) /\ ToSet(marked) = keys
  <2>1. PICK S : S = Retained(exchanges)
    OBVIOUS
  <2>2. Listing!Lists(arrivalOrder, S) /\ S \cap keys = keys
    BY <1>2, <2>1, OrderLists
  <2>3. Listing!Lists(marked, S \cap keys)
    BY <2>2, Listing!KeptLists
  <2>4. Listing!Lists(marked, keys)
    BY <2>2, <2>3
  <2>5. /\ marked \in Seq(keys)
        /\ \A y \in keys : \E n \in 1 .. Len(marked) : marked[n] = y
    BY <2>4 DEF Listing!Lists
  <2>6. ToSet(marked) = {marked[i] : i \in 1 .. Len(marked)}
    BY <2>5, ElementsOf
  <2>7. \A i \in 1 .. Len(marked) : marked[i] \in keys
    BY <2>5
  <2> QED
    BY <1>1, <2>5, <2>6, <2>7
<1> QED
  BY <1>1, <1>3, <1>4, <1>5, <1>6

(* A connection marks its source's exchanges, and tells of them, or fails   *)
(* and tells of none.                                                       *)
LEMMA DisconnectFollows ==
  ASSUME HubInv, FormInv, NEW gone, NEW changed, FollowInv(gone, changed),
         NEW source \in Sources, NEW at \in Times, Disconnect(source, at)
  PROVE  FormInv' /\ \E gone2, changed2 : FollowInv(gone2, changed2)'
<1>1. PICK keys, marked, b, changed2 :
        /\ keys = MarkedExchanges(source, at)
        /\ marked = Listing!Kept(arrivalOrder, keys)
        /\ b = Batch("changes", mutations + 1, marked, {})
        /\ changed2 = [k \in ExchangeKeys |-> IF k \in keys THEN mutations + 1 ELSE changed[k]]
  OBVIOUS
<1>2. /\ MarkSourceDisconnected(source, at)
      /\ mutations < MaxMutations /\ mutations' = mutations + 1
      /\ UNCHANGED <<hosted, streamVars, windowVars>>
      /\ \/ /\ unpublished["connection"] = None
            /\ unpublished' = [unpublished EXCEPT !["connection"] = b]
            /\ UNCHANGED doubtVars
         \/ Miss(b) /\ unpublished' = unpublished
  BY <1>1 DEF Disconnect, Mutate
<1>3. /\ marked \in Seq(ExchangeKeys) /\ ToSet(marked) = keys /\ keys \in SUBSET ExchangeKeys
      /\ exchanges' \in [ExchangeKeys -> Exchange \cup {None}]
      /\ \A k \in keys : /\ IsExchange(exchanges[k]) /\ IsExchange(exchanges'[k])
                         /\ IsSince(exchanges[k], exchanges'[k])
      /\ \A k \in ExchangeKeys \ keys : exchanges'[k] = exchanges[k]
  BY <1>1, <1>2, MarkMoves
<1>4. IsHistory(exchanges, mutations, gone, changed) /\ ViewInv(gone, changed)
  BY DEF FollowInv
<1>5. mutations \in Nat /\ mutations + 1 \in 0 .. MaxMutations /\ mutations' \in Nat
      /\ mutations' >= mutations
  BY <1>2, UiAssumption DEF FormInv
<1>6. \A k \in ExchangeKeys :
        /\ gone[k] \in Nat /\ changed[k] \in Nat /\ gone[k] <= changed[k] /\ changed[k] <= mutations
        /\ IsExchange(exchanges[k]) <=> gone[k] < changed[k]
        /\ exchanges[k] \in Exchange \cup {None} /\ exchanges'[k] \in Exchange \cup {None}
  BY <1>3, <1>4 DEF IsHistory
<1>7. /\ changed2 \in [ExchangeKeys -> Nat]
      /\ \A k \in ExchangeKeys : changed2[k] = IF k \in keys THEN mutations + 1 ELSE changed[k]
  BY <1>1, <1>5, <1>6
<1>8. /\ b.kind = "changes" /\ b.at = mutations + 1 /\ b.removes = {}
      /\ b.upserts = marked /\ ToSet(b.upserts) = keys /\ b \in BatchType /\ Touched(b) = keys
  <2>1. /\ b.kind = "changes" /\ b.at = mutations + 1 /\ b.removes = {} /\ b.upserts = marked
    BY <1>1 DEF Batch
  <2>2. b \in BatchType
    BY <1>1, <1>3, <1>5 DEF BatchType, Batch
  <2> QED
    BY <1>3, <2>1, <2>2, BatchParts
<1>9. IsHistory(exchanges', mutations', gone, changed2)
  <2>1. ASSUME NEW k \in ExchangeKeys
        PROVE  /\ gone[k] <= changed2[k] /\ changed2[k] <= mutations + 1
               /\ IsExchange(exchanges'[k]) <=> gone[k] < changed2[k]
    <3>1. CASE k \in keys
      BY <1>3, <1>5, <1>6, <1>7, <3>1
    <3>2. CASE k \notin keys
      BY <1>3, <1>5, <1>6, <1>7, <3>2
    <3> QED
      BY <3>1, <3>2
  <2> QED
    BY <1>2, <1>3, <1>4, <1>5, <1>7, <2>1 DEF IsHistory
<1>10. IsLater(exchanges, mutations, gone, changed, exchanges', gone, changed2)
  <2> SUFFICES ASSUME NEW k \in ExchangeKeys
               PROVE  /\ changed2[k] # changed[k] => changed2[k] > mutations
                      /\ changed2[k] = changed[k] => exchanges'[k] = exchanges[k]
                      /\ IsExchange(exchanges[k]) => IsSince(exchanges[k], exchanges'[k])
    BY DEF IsLater
  <2>1. /\ changed2[k] # changed[k] => changed2[k] > mutations
        /\ changed2[k] = changed[k] => k \notin keys
    BY <1>5, <1>6, <1>7
  <2>2. ASSUME IsExchange(exchanges[k]) PROVE IsSince(exchanges[k], exchanges'[k])
    <3>1. CASE k \in keys
      BY <1>3, <3>1
    <3>2. CASE k \notin keys
      <4>1. exchanges'[k] = exchanges[k] /\ exchanges[k].revision \in Nat
        BY <1>3, <1>6, <2>2, <3>2 DEF IsExchange, Exchange
      <4> QED
        BY <2>2, <4>1 DEF IsSince
    <3> QED
      BY <3>1, <3>2
  <2> QED
    BY <1>3, <2>1, <2>2
<1>11. IsGood(b, mutations', gone, changed2)
  <2>1. \A k \in keys : gone[k] < changed2[k] /\ b.at # gone[k]
    BY <1>3, <1>5, <1>6, <1>7, <1>8
  <2>2. b.at <= mutations'
    BY <1>2, <1>5, <1>8
  <2> QED
    BY <1>8, <2>1, <2>2 DEF IsGood
<1>12. \A k \in ExchangeKeys : changed2[k] # changed[k] => Tells(b, k, changed2[k])
  BY <1>7, <1>8 DEF Tells
<1>13. CASE /\ unpublished["connection"] = None
            /\ unpublished' = [unpublished EXCEPT !["connection"] = b]
            /\ UNCHANGED doubtVars
  <2>1. PICK p \in Publishers : p = "connection"
    BY DEF Publishers
  <2>2. UNCHANGED <<hosted, streamVars, windowVars, doubtVars>>
    BY <1>2, <1>13
  <2>3. TakesUp(p, b)
    BY <1>2, <1>13, <2>1, <2>2 DEF TakesUp
  <2>4. TellsChange(b, gone, changed, gone, changed2)
    BY <1>9, <1>10, <1>11, <1>12 DEF TellsChange
  <2>5. FormInv' /\ FollowInv(gone, changed2)'
    BY <2>3, <2>4, ChangeIsTold
  <2> QED
    BY <2>5
<1>14. CASE Miss(b) /\ unpublished' = unpublished
  <2>1. RowsFollow(view.rows, upserted, removed, doubtful, exchanges', gone, changed2)
    BY <1>4, <1>9, <1>10, RowsStayRight
  <2>2. /\ view' = view /\ hosted' = hosted /\ stream' = stream /\ snapshot' = snapshot
        /\ channel' = channel /\ lagged' = lagged /\ streams' = streams /\ loading' = loading
    BY <1>2 DEF windowVars, streamVars
  <2>3. b.at <= mutations' /\ b \in BatchType
    BY <1>2, <1>5, <1>8
  <2>4. /\ ViewInv(gone, changed2)' /\ NotesGrow
        /\ IsSettled(b, upserted', removed', gone, changed2)
    BY <1>4, <1>5, <1>9, <1>14, <2>1, <2>2, <2>3, Missed
  <2>5. FormInv'
    BY <1>2, <1>5, <1>14, <2>2 DEF FormInv
  <2>6. Waiting' = Waiting
    BY <1>14 DEF Waiting
  <2>7. IsToldOn(Way', Promised, IsCut, upserted', removed', gone, changed, gone, changed2)
    <3>1. ASSUME NEW k \in ExchangeKeys, changed2[k] # changed[k]
          PROVE  upserted'[k] >= changed2[k]
      <4>1. gone[k] < changed2[k]
        BY <1>5, <1>6, <1>7, <3>1
      <4> QED
        BY <1>12, <2>4, <3>1, <4>1 DEF IsSettled
    <3> QED
      BY <3>1 DEF IsToldOn
  <2>8. FollowInv(gone, changed2)'
    BY <1>2, <1>5, <1>9, <1>10, <2>4, <2>5, <2>6, <2>7, HubMoves
  <2> QED
    BY <2>5, <2>8
<1> QED
  BY <1>2, <1>13, <1>14

(* The user clears the session. *)
LEMMA ClearFollows ==
  ASSUME HubInv, FormInv, NEW gone, NEW changed, FollowInv(gone, changed), Clear
  PROVE  FormInv' /\ \E gone2, changed2 : FollowInv(gone2, changed2)'
<1>1. PICK b, at2, p :
        /\ b = Batch("reset", mutations + 1, <<>>, {})
        /\ at2 = [k \in ExchangeKeys |-> mutations + 1]
        /\ p = "user" /\ p \in Publishers
  BY DEF Publishers
<1>2. TakesUp(p, b) /\ exchanges' = [k \in ExchangeKeys |-> None]
  BY <1>1 DEF Clear, ClearSession, Mutate, TakesUp
<1>3. mutations \in Nat /\ mutations + 1 \in 0 .. MaxMutations /\ mutations' = mutations + 1
  BY <1>2, UiAssumption DEF FormInv, TakesUp
<1>4. at2 \in [ExchangeKeys -> Nat] /\ \A k \in ExchangeKeys : at2[k] = mutations + 1
  BY <1>1, <1>3
<1>5. \A k \in ExchangeKeys :
        /\ gone[k] \in Nat /\ changed[k] \in Nat /\ gone[k] <= changed[k] /\ changed[k] <= mutations
  BY DEF FollowInv, IsHistory
<1>6. exchanges' \in [ExchangeKeys -> Exchange \cup {None}]
      /\ \A k \in ExchangeKeys : ~IsExchange(exchanges'[k])
  BY <1>2 DEF IsExchange
<1>7. IsHistory(exchanges', mutations', at2, at2)
  BY <1>3, <1>4, <1>6 DEF IsHistory
<1>8. IsLater(exchanges, mutations, gone, changed, exchanges', at2, at2)
  <2>1. \A k \in ExchangeKeys : at2[k] > mutations /\ at2[k] # changed[k] /\ at2[k] # gone[k]
    BY <1>3, <1>4, <1>5
  <2> QED
    BY <2>1 DEF IsLater
<1>9. /\ b.kind = "reset" /\ b.at = mutations + 1 /\ b.upserts = <<>> /\ b.removes = {}
      /\ b \in BatchType
  <2>1. <<>> \in Seq(ExchangeKeys)
    OBVIOUS
  <2> QED
    BY <1>1, <1>3, <2>1 DEF Batch, BatchType
<1>10. ToSet(b.upserts) = {}
  BY <1>9 DEF ToSet
<1>11. IsGood(b, mutations', at2, at2)
  BY <1>3, <1>9, <1>10 DEF IsGood
<1>12. \A k \in ExchangeKeys : Tells(b, k, at2[k])
  BY <1>3, <1>4, <1>9 DEF Tells
<1>13. TellsChange(b, gone, changed, at2, at2)
  BY <1>7, <1>8, <1>11, <1>12 DEF TellsChange
<1>14. FormInv' /\ FollowInv(at2, at2)'
  BY <1>1, <1>2, <1>13, ChangeIsTold
<1> QED
  BY <1>14

---------------------------------------------------------------------------------------
(* The specification. *)

LEMMA UiInvInit == UiInit => UiInv
<1> SUFFICES ASSUME UiInit PROVE UiInv
  OBVIOUS
<1>1. HubInv
  BY HubInvInit DEF UiInit
<1>2. /\ stream = "off" /\ snapshot = None /\ channel = <<>> /\ lagged = FALSE /\ streams = 0
      /\ hosted \in BOOLEAN /\ loading = "start" /\ translations = <<>> /\ view = EmptyView
      /\ mutations = 0 /\ doubtful = {} /\ displaced = FALSE
      /\ unpublished = [p \in Publishers |-> None]
      /\ upserted = [k \in ExchangeKeys |-> 0] /\ removed = [k \in ExchangeKeys |-> 0]
      /\ exchanges = [k \in ExchangeKeys |-> None]
  BY DEF UiInit, HubInit
<1>3. FormInv
  <2>1. <<>> \in Seq(BatchType) /\ Len(<<>>) = 0
    OBVIOUS
  <2>2. /\ 0 \in 0 .. MaxStreams /\ 0 \in 0 .. MaxMutations /\ 0 <= ChannelCapacity
    BY UiAssumption
  <2> QED
    BY <1>2, <2>1, <2>2 DEF FormInv
<1>4. PICK none : none = [k \in ExchangeKeys |-> 0]
  OBVIOUS
<1>5. \A k \in ExchangeKeys : /\ none[k] = 0 /\ upserted[k] = 0 /\ removed[k] = 0
                              /\ ~IsExchange(exchanges[k]) /\ ~IsExchange(view.rows[k])
  BY <1>2, <1>4 DEF IsExchange, EmptyView
<1>6. IsHistory(exchanges, mutations, none, none)
  BY <1>2, <1>4, <1>5 DEF IsHistory
<1>7. ViewInv(none, none)
  <2>1. RowsFollow(view.rows, upserted, removed, doubtful, exchanges, none, none)
    BY <1>5 DEF RowsFollow
  <2>2. IsView(view) /\ IsAscending(view)
    BY <1>2, EmptyIsView
  <2>3. upserted \in [ExchangeKeys -> 0 .. mutations] /\ removed \in [ExchangeKeys -> 0 .. mutations]
    BY <1>2
  <2> QED
    BY <1>2, <2>1, <2>2, <2>3 DEF ViewInv
<1>8. ToSet(translations) = {} /\ ToSet(channel) = {}
  BY <1>2 DEF ToSet
<1>9. TranslationsInv(none, none)
  <2>1. translations \in Seq(TranslationType)
    BY <1>2
  <2> QED
    BY <1>8, <2>1 DEF TranslationsInv
<1>10. Waiting = {} /\ Started = {}
  BY <1>2 DEF Waiting, Started
<1>11. NothingIsLost(Way, Promised, IsCut, upserted, removed, none, none)
  BY <1>5 DEF NothingIsLost
<1>12. SnapshotComes
  BY <1>2 DEF SnapshotComes
<1>13. FollowInv(none, none)
  BY <1>6, <1>7, <1>8, <1>9, <1>10, <1>11, <1>12 DEF FollowInv
<1> QED
  BY <1>1, <1>3, <1>13 DEF UiInv

(* A publisher's step is one of the hub, and a window's changes no hub.     *)
LEMMA UiStepIsHubStep == [UiNext]_uiVars => [HubNext]_hubVars
<1> SUFFICES ASSUME [UiNext]_uiVars PROVE [HubNext]_hubVars
  OBVIOUS
<1>1. ASSUME NEW m \in Messages, NEW at \in Times, Ingest(m, at) PROVE HubNext
  <2>1. m \in ExchangeMessage /\ m.key \in ExchangeKeys
    BY UiAssumption DEF ExchangeMessage, LifecycleMessage, StartedMessage, CompletedMessage,
       FailedMessage, CancelledMessage, SnapshotMessage
  <2>2. PICK source, requireRecording : source = m.key.source /\ requireRecording = TRUE
    OBVIOUS
  <2>3. IngestExchange(source, m, at, requireRecording)
    BY <1>1, <2>2 DEF Ingest
  <2>4. source \in Sources /\ requireRecording \in BOOLEAN
    BY <2>1, <2>2, KeysAssumption
  <2> QED
    BY <2>1, <2>3, <2>4 DEF HubNext
<1>2. ASSUME NEW source \in Sources, NEW at \in Times, Disconnect(source, at) PROVE HubNext
  BY <1>2 DEF Disconnect, HubNext
<1>3. CASE Clear
  BY <1>3 DEF Clear, HubNext
<1>4. ASSUME NEW p \in Publishers, Publish(p) PROVE UNCHANGED hubVars
  BY <1>4 DEF Publish
<1>5. CASE Load \/ TakeSnapshot \/ Subscribe \/ Forward \/ LagHosted \/ LagNative \/ Reconnect
  BY <1>5 DEF Load, TakeSnapshot, Subscribe, Forward, LagHosted, LagNative, Reconnect
<1>6. ASSUME NEW i \in DOMAIN translations, NEW k \in ExchangeKeys, Fetch(i, k)
      PROVE  UNCHANGED hubVars
  BY <1>6 DEF Fetch
<1>7. ASSUME NEW i \in DOMAIN translations, Apply(i) \/ FailTranslation(i) PROVE UNCHANGED hubVars
  BY <1>7 DEF Apply, FailTranslation
<1>8. CASE UNCHANGED uiVars
  BY <1>8 DEF uiVars
<1> QED
  BY <1>1, <1>2, <1>3, <1>4, <1>5, <1>6, <1>7, <1>8 DEF UiNext

LEMMA UiInvNext == UiInv /\ [UiNext]_uiVars => UiInv'
<1> SUFFICES ASSUME UiInv, [UiNext]_uiVars PROVE UiInv'
  OBVIOUS
<1>1. HubInv /\ FormInv /\ HubInv'
  BY UiStepIsHubStep, HubInvNext DEF UiInv
<1>2. PICK gone, changed : FollowInv(gone, changed)
  BY DEF UiInv
<1> SUFFICES FormInv' /\ \E gone2, changed2 : FollowInv(gone2, changed2)'
  BY <1>1 DEF UiInv
<1>3. ASSUME NEW m \in Messages, NEW at \in Times, Ingest(m, at)
      PROVE  FormInv' /\ \E gone2, changed2 : FollowInv(gone2, changed2)'
  <2>1. m \in ExchangeMessage
    BY UiAssumption
  <2> QED
    BY <1>1, <1>2, <1>3, <2>1, IngestFollows
<1>4. ASSUME NEW source \in Sources, NEW at \in Times, Disconnect(source, at)
      PROVE  FormInv' /\ \E gone2, changed2 : FollowInv(gone2, changed2)'
  BY <1>1, <1>2, <1>4, DisconnectFollows
<1>5. CASE Clear
  BY <1>1, <1>2, <1>5, ClearFollows
<1>6. ASSUME NEW p \in Publishers, Publish(p) PROVE FormInv' /\ FollowInv(gone, changed)'
  BY <1>1, <1>2, <1>6, PublishFollows
<1>7. CASE Load
  BY <1>1, <1>2, <1>7, LoadFollows
<1>8. CASE TakeSnapshot
  BY <1>1, <1>2, <1>8, TakeSnapshotFollows
<1>9. CASE Subscribe
  BY <1>1, <1>2, <1>9, SubscribeFollows
<1>10. CASE Forward
  BY <1>1, <1>2, <1>10, ForwardFollows
<1>11. CASE LagHosted
  BY <1>1, <1>2, <1>11, LagHostedFollows
<1>12. CASE LagNative \/ Reconnect
  BY <1>1, <1>2, <1>12, CutFollows
<1>13. ASSUME NEW i \in DOMAIN translations, NEW k \in ExchangeKeys, Fetch(i, k)
       PROVE  FormInv' /\ FollowInv(gone, changed)'
  BY <1>1, <1>2, <1>13, FetchFollows
<1>14. ASSUME NEW i \in DOMAIN translations, Apply(i)
       PROVE  FormInv' /\ FollowInv(gone, changed)'
  BY <1>1, <1>2, <1>14, ApplyFollows
<1>15. ASSUME NEW i \in DOMAIN translations, FailTranslation(i)
       PROVE  FormInv' /\ FollowInv(gone, changed)'
  BY <1>1, <1>2, <1>15, FailTranslationFollows
<1>16. CASE UNCHANGED uiVars
  <2>1. /\ exchanges' = exchanges /\ mutations' = mutations /\ streams' = streams
        /\ hosted' = hosted /\ unpublished' = unpublished /\ stream' = stream
        /\ snapshot' = snapshot /\ channel' = channel /\ lagged' = lagged
        /\ loading' = loading /\ translations' = translations /\ view' = view
        /\ upserted' = upserted /\ removed' = removed /\ doubtful' = doubtful
        /\ displaced' = displaced
    BY <1>16 DEF uiVars, hubVars, streamVars, windowVars, doubtVars
  <2>2. FormInv'
    BY <1>1, <2>1 DEF FormInv
  <2>3. /\ Carried' = Carried /\ Promised' = Promised /\ Started' = Started
        /\ Waiting' = Waiting /\ IsCut' = IsCut
    BY <2>1 DEF Carried, Promised, Started, Waiting, IsCut
  <2>4. Way' = Way /\ ViewInv(gone, changed)' = ViewInv(gone, changed)
        /\ TranslationsInv(gone, changed)' = TranslationsInv(gone, changed)
    BY <2>1, <2>3 DEF Way, ViewInv, TranslationsInv
  <2>5. SnapshotComes'
    BY <1>2, <2>1, <2>3 DEF SnapshotComes, FollowInv
  <2>6. FollowInv(gone, changed)'
    BY <1>2, <2>1, <2>3, <2>4, <2>5 DEF FollowInv
  <2> QED
    BY <2>2, <2>6
<1>17. CASE FormInv' /\ FollowInv(gone, changed)'
  BY <1>17
<1> QED
  BY <1>3, <1>4, <1>5, <1>6, <1>7, <1>8, <1>9, <1>10, <1>11, <1>12, <1>13, <1>14, <1>15, <1>16,
     <1>17 DEF UiNext

LEMMA UiInvAlways == UiSpec => []UiInv
BY UiInvInit, UiInvNext, PTL DEF UiSpec

---------------------------------------------------------------------------------------
(* The theorems. *)

(* The hub behind the windows is the hub of CaptureHub, whatever publishes, *)
(* lags or reconnects: no step of a publisher does more to it than its call *)
(* of the repository, and no step of a window touches it.                   *)
THEOREM UiHubRefines == UiSpec => HubSpec
<1>1. UiInit => HubInit
  BY DEF UiInit
<1> QED
  BY <1>1, UiStepIsHubStep, PTL DEF UiSpec, HubSpec

(* What was fetched belongs to a batch, and a batch to a subscription that  *)
(* was started; the broadcast channel never holds more than its capacity,   *)
(* and only a receiver that is open has batches in it or has lagged.        *)
THEOREM UiTypeCorrect == UiSpec => []UiTypeOK
<1>1. ASSUME UiInv PROVE UiTypeOK
  <2>1. HubTypeOK /\ FormInv
    BY <1>1 DEF UiInv, HubInv
  <2>2. PICK gone, changed : FollowInv(gone, changed)
    BY <1>1 DEF UiInv
  <2>3. /\ hosted \in BOOLEAN
        /\ \A p \in Publishers : unpublished[p] \in BatchType \cup {None}
        /\ stream \in {"off", "snapshot", "open", "ended"}
        /\ streams \in 0 .. MaxStreams
        /\ loading \in {"start", "busy", "done"}
        /\ mutations \in 0 .. MaxMutations
        /\ Len(channel) <= ChannelCapacity
    BY <2>1 DEF FormInv
  <2>4. snapshot \in BatchType \cup {None} /\ ((snapshot # None) <=> (stream = "snapshot"))
    <3>1. CASE stream = "snapshot"
      <4>1. snapshot \in BatchType
        BY <2>1, <3>1 DEF FormInv
      <4>2. snapshot # None
        BY <4>1, UiAssumption
      <4> QED
        BY <3>1, <4>1, <4>2
    <3>2. CASE stream # "snapshot"
      <4>1. snapshot = None
        BY <2>1, <3>2 DEF FormInv
      <4> QED
        BY <3>2, <4>1
    <3> QED
      BY <3>1, <3>2
  <2>5. \A i \in DOMAIN channel : channel[i] \in BatchType
    BY <2>1 DEF FormInv
  <2>6. (channel # <<>> \/ lagged) => stream = "open"
    BY <2>1 DEF FormInv
  <2>7. ASSUME NEW i \in DOMAIN translations
        PROVE  /\ translations[i].batch \in BatchType
               /\ translations[i].left \subseteq DOMAIN translations[i].got
               /\ translations[i].attempt \in 0 .. streams
    <3>1. PICK t : t = translations[i]
      OBVIOUS
    <3>2. t \in ToSet(translations) /\ t \in TranslationType
      BY <2>2, <2>7, <3>1 DEF FollowInv, TranslationsInv, ToSet
    <3>3. t.attempt <= streams /\ IsTranslation(t, exchanges, mutations, gone, changed)
      BY <2>2, <3>2 DEF FollowInv, TranslationsInv
    <3>4. t.attempt \in Nat /\ t.batch \in BatchType
      BY <3>2 DEF TranslationType
    <3>5. t.left \subseteq DOMAIN t.got
      BY <3>3 DEF IsTranslation
    <3>6. t.attempt \in 0 .. streams
      BY <2>3, <3>3, <3>4, UiAssumption
    <3> QED
      BY <3>1, <3>4, <3>5, <3>6
  <2>8. /\ view.rows \in [ExchangeKeys -> Exchange \cup {None}]
        /\ doubtful \subseteq ExchangeKeys
        /\ displaced \in BOOLEAN
    BY <2>2 DEF FollowInv, ViewInv, IsView, ViewType
  <2> QED
    BY <2>1, <2>3, <2>4, <2>5, <2>6, <2>7, <2>8 DEF UiTypeOK
<1> QED
  BY <1>1, UiInvAlways, PTL

(* Nothing is on its way, so nothing is due: what became of a row was told. *)
LEMMA RestIsRight == UiInv => RowsAreRightUnlessDoubtful
<1> SUFFICES ASSUME UiInv, AtRest, NEW k \in ExchangeKeys \ doubtful
             PROVE  view.rows[k] = exchanges[k]
  BY DEF RowsAreRightUnlessDoubtful
<1>1. PICK gone, changed : FollowInv(gone, changed)
  BY DEF UiInv
<1>2. Way = {}
  <2>1. Waiting = {}
    BY DEF Waiting, AtRest
  <2>2. ToSet(channel) = {} /\ ToSet(translations) = {}
    BY DEF AtRest, ToSet
  <2> QED
    BY <2>1, <2>2 DEF Way, Carried
<1>3. Promised = {} /\ ~IsCut
  BY DEF AtRest, Promised, IsCut
<1>4. /\ removed[k] >= gone[k]
      /\ gone[k] < changed[k] => upserted[k] >= changed[k]
  BY <1>1, <1>2, <1>3 DEF FollowInv, NothingIsLost, IsDue
<1>5. /\ IsExchange(view.rows[k]) => IsSince(view.rows[k], exchanges[k])
      /\ gone[k] < changed[k] => view.rows[k] = exchanges[k]
  BY <1>1, <1>4 DEF FollowInv, ViewInv, RowsFollow
<1>6. ASSUME ~(gone[k] < changed[k]) PROVE view.rows[k] = exchanges[k]
  <2>1. ~IsExchange(exchanges[k])
    BY <1>1, <1>6 DEF FollowInv, IsHistory
  <2>2. ~IsExchange(view.rows[k])
    BY <1>5, <2>1 DEF IsSince
  <2> QED
    BY <2>1, <2>2 DEF IsExchange
<1> QED
  BY <1>5, <1>6

(* A window at rest shows what the hub holds, in every row that missed no   *)
(* change and got none late: refetching the details, the reducer's check of *)
(* the revision, the reset after a lag and the snapshot of a reconnected    *)
(* subscription together lose nothing and revive nothing.                   *)
THEOREM RowsCorrect == UiSpec => []RowsAreRightUnlessDoubtful
BY UiInvAlways, RestIsRight, PTL

(* The rows that a window shows rightly are listed as the hub lists them.   *)
LEMMA RestIsOrdered ==
  ASSUME UiInv, AtRest, ~displaced
  PROVE  Listing!Kept(view.order, ExchangeKeys \ doubtful)
           = Listing!Kept(arrivalOrder, ExchangeKeys \ doubtful)
<1> DEFINE T == ExchangeKeys \ doubtful
           S == Retained(exchanges) \cap T
           shown == Listing!Kept(view.order, T)
           held == Listing!Kept(arrivalOrder, T)
           weight == [k \in ExchangeKeys |-> exchanges[k].arrival]
<1>1. PICK gone, changed : FollowInv(gone, changed)
  BY DEF UiInv
<1>2. IsView(view) /\ IsAscending(view)
  BY <1>1 DEF FollowInv, ViewInv
<1>3. \A k \in T : view.rows[k] = exchanges[k]
  BY RestIsRight DEF RowsAreRightUnlessDoubtful
<1>4. /\ Listing!Lists(arrivalOrder, Retained(exchanges))
      /\ Retained(exchanges) = {k \in ExchangeKeys : IsExchange(exchanges[k])}
      /\ \A k \in Retained(exchanges) : exchanges[k].arrival \in Nat
      /\ \A i, j \in 1 .. Len(arrivalOrder) :
           i < j => exchanges[arrivalOrder[i]].arrival < exchanges[arrivalOrder[j]].arrival
  BY OrderLists DEF UiInv
<1>5. /\ Listing!Lists(view.order, Retained(view.rows)) /\ view.order \in Seq(ExchangeKeys)
      /\ Len(view.order) \in Nat
      /\ Retained(view.rows) = {k \in ExchangeKeys : IsExchange(view.rows[k])}
  BY <1>2, ViewParts DEF IsView
<1>6. arrivalOrder \in Seq(ExchangeKeys) /\ Len(arrivalOrder) \in Nat
  BY DEF UiInv, HubInv, HubTypeOK
<1>7. Retained(view.rows) \cap T = S
  BY <1>3, <1>4, <1>5
<1>8. Listing!Lists(held, S)
  BY <1>4, Listing!KeptLists
<1>9. Listing!Lists(shown, S)
  <2>1. Listing!Lists(shown, Retained(view.rows) \cap T)
    BY <1>5, Listing!KeptLists
  <2> QED
    BY <1>7, <2>1
<1>10. PICK at : Listing!IsKept(held, arrivalOrder, T, Len(arrivalOrder), at)
  BY <1>6, Listing!KeptInOrder
<1>11. PICK from : Listing!IsKept(shown, view.order, T, Len(view.order), from)
  BY <1>5, Listing!KeptInOrder
<1>12. \A k \in S : k \in ExchangeKeys /\ weight[k] = exchanges[k].arrival /\ weight[k] \in Nat
  BY <1>4
<1>13. \A i \in 1 .. Len(held) : held[i] \in S
  <2>1. held \in Seq(S)
    BY <1>8 DEF Listing!Lists
  <2> QED
    BY <2>1
<1>14. \A i \in 1 .. Len(shown) : shown[i] \in S
  <2>1. shown \in Seq(S)
    BY <1>9 DEF Listing!Lists
  <2> QED
    BY <2>1
<1>15. \A k, other \in S : exchanges[k].arrival = exchanges[other].arrival => k = other
  <2> SUFFICES ASSUME NEW k \in S, NEW other \in S, k # other
               PROVE  exchanges[k].arrival # exchanges[other].arrival
    OBVIOUS
  <2>1. PICK i \in 1 .. Len(arrivalOrder) : arrivalOrder[i] = k
    BY <1>4 DEF Listing!Lists
  <2>2. PICK j \in 1 .. Len(arrivalOrder) : arrivalOrder[j] = other
    BY <1>4 DEF Listing!Lists
  <2>3. i < j \/ j < i
    BY <1>6, <2>1, <2>2
  <2>4. exchanges[k].arrival \in Nat /\ exchanges[other].arrival \in Nat
    BY <1>4
  <2>5. exchanges[k].arrival < exchanges[other].arrival
        \/ exchanges[other].arrival < exchanges[k].arrival
    BY <1>4, <2>1, <2>2, <2>3
  <2> QED
    BY <2>4, <2>5
<1> HIDE DEF T, S, shown, held, weight
<1>16. ASSUME NEW i \in 1 .. Len(held), NEW j \in 1 .. Len(held), i < j
       PROVE  weight[held[i]] < weight[held[j]]
  <2>1. /\ at[i] \in 1 .. Len(arrivalOrder) /\ at[j] \in 1 .. Len(arrivalOrder) /\ at[i] < at[j]
        /\ held[i] = arrivalOrder[at[i]] /\ held[j] = arrivalOrder[at[j]]
    BY <1>10, <1>16 DEF Listing!IsKept
  <2>2. exchanges[held[i]].arrival < exchanges[held[j]].arrival
    BY <1>4, <2>1
  <2> QED
    BY <1>12, <1>13, <1>16, <2>2
<1>17. ASSUME NEW i \in 1 .. Len(shown), NEW j \in 1 .. Len(shown), i < j
       PROVE  weight[shown[i]] < weight[shown[j]]
  <2>1. /\ from[i] \in 1 .. Len(view.order) /\ from[j] \in 1 .. Len(view.order)
        /\ from[i] < from[j]
        /\ shown[i] = view.order[from[i]] /\ shown[j] = view.order[from[j]]
        /\ shown[i] \in T /\ shown[j] \in T
    BY <1>11, <1>17 DEF Listing!IsKept
  <2>2. view.rows[shown[i]].arrival <= view.rows[shown[j]].arrival
    BY <1>2, <2>1 DEF IsAscending
  <2>3. exchanges[shown[i]].arrival <= exchanges[shown[j]].arrival
    BY <1>3, <2>1, <2>2
  <2>4. shown[i] # shown[j]
    BY <1>9, <1>17 DEF Listing!Lists
  <2>5. shown[i] \in S /\ shown[j] \in S
    BY <1>14, <1>17
  <2>6. exchanges[shown[i]].arrival # exchanges[shown[j]].arrival
    BY <1>15, <2>4, <2>5
  <2>7. /\ weight[shown[i]] = exchanges[shown[i]].arrival
        /\ weight[shown[j]] = exchanges[shown[j]].arrival
        /\ weight[shown[i]] \in Nat /\ weight[shown[j]] \in Nat
    BY <1>12, <2>5
  <2> QED
    BY <2>3, <2>6, <2>7
<1>18. shown = held
  BY <1>8, <1>9, <1>12, <1>16, <1>17, Listing!AscendingListsAgree
<1> QED
  BY <1>18 DEF shown, held, T

(* The store's order lists every row once, at all times, and the rows that  *)
(* are right are listed by arrival like the hub's once nothing is on its    *)
(* way, although insertArrival put them in as their details came back; that *)
(* is so until a row takes in an exchange of another arrival.               *)
THEOREM OrderCorrect == UiSpec => []RowsInArrivalOrder
<1>1. ASSUME UiInv PROVE RowsInArrivalOrder
  <2>1. IsView(view)
    BY <1>1 DEF UiInv, FollowInv, ViewInv
  <2>2. Listing!Lists(view.order, Retained(view.rows)) /\ DOMAIN view.order = 1 .. Len(view.order)
    BY <2>1, ViewParts DEF IsView
  <2>3. IsInjective(view.order)
    BY <2>2 DEF IsInjective, Listing!Lists
  <2>4. ToSet(view.order) = Retained(view.rows)
    <3>1. \A i \in 1 .. Len(view.order) : view.order[i] \in Retained(view.rows)
      BY <2>1, ViewParts
    <3>2. \A k \in Retained(view.rows) : \E i \in 1 .. Len(view.order) : view.order[i] = k
      BY <2>2 DEF Listing!Lists
    <3>3. ToSet(view.order) = {view.order[i] : i \in 1 .. Len(view.order)}
      BY <2>2 DEF ToSet
    <3> QED
      BY <3>1, <3>2, <3>3
  <2> QED
    BY <1>1, <2>3, <2>4, RestIsOrdered DEF RowsInArrivalOrder
<1> QED
  BY <1>1, UiInvAlways, PTL
=======================================================================================
