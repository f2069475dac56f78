------------------------- MODULE MessagePagesProofs -------------------------
(***************************************************************************)
(* Facts about the pages of MessagePages, for lists of any length: what    *)
(* merging two lists, cutting a list at an id and taking its newest        *)
(* messages return.  They are the ground of MessageLogProofs.              *)
(***************************************************************************)
EXTENDS MessagePages, FiniteSetTheorems, SequenceTheorems, TLAPS

(* Records that have numbers for ids, no two of them the same.             *)
Identified(S) ==
    /\ \A m \in S : m.id \in Nat
    /\ \A m, n \in S : m.id = n.id => m = n

(* A list in the order of its ids.                                         *)
Ordered(msgs) ==
    \A i, j \in DOMAIN msgs : i < j => msgs[i].id < msgs[j].id

-----------------------------------------------------------------------------
(* Counting.                                                               *)

(* Of finitely many things with different numbers, some have none below    *)
(* them, some one, and so on up to all but one.                            *)
LEMMA RankOnto ==
    ASSUME NEW S, IsFiniteSet(S), NEW f \in [S -> Int],
           \A x, y \in S : f[x] = f[y] => x = y
    PROVE  /\ \A x \in S :
                 Cardinality({z \in S : f[z] < f[x]})
                     \in 0..(Cardinality(S) - 1)
           /\ \A x, y \in S : f[x] < f[y] =>
                 Cardinality({z \in S : f[z] < f[x]}) <
                     Cardinality({z \in S : f[z] < f[y]})
           /\ \A i \in 1..Cardinality(S) : \E x \in S :
                 Cardinality({z \in S : f[z] < f[x]}) = i - 1
<1> DEFINE Less(x) == {z \in S : f[z] < f[x]}
           n == Cardinality(S)
           rank == [x \in S |-> Cardinality(Less(x)) + 1]
<1>1. n \in Nat
  BY FS_CardinalityType
<1>2. ASSUME NEW x \in S
      PROVE  IsFiniteSet(Less(x)) /\ Cardinality(Less(x)) \in 0..(n - 1)
  <2>1. Less(x) \in SUBSET S /\ x \notin Less(x)
    OBVIOUS
  <2>2. /\ IsFiniteSet(Less(x)) /\ Cardinality(Less(x)) <= n
        /\ n = Cardinality(Less(x)) => S = Less(x)
    BY <2>1, FS_Subset
  <2>3. Cardinality(Less(x)) \in Nat
    BY <2>2, FS_CardinalityType
  <2> HIDE DEF Less, n
  <2> QED
    BY <1>1, <2>1, <2>2, <2>3
<1>3. ASSUME NEW x \in S, NEW y \in S, f[x] < f[y]
      PROVE  Cardinality(Less(x)) < Cardinality(Less(y))
  <2>1. Less(x) \in SUBSET Less(y) /\ x \in Less(y) /\ x \notin Less(x)
    BY <1>3
  <2>2. /\ Cardinality(Less(x)) <= Cardinality(Less(y))
        /\ Cardinality(Less(y)) = Cardinality(Less(x)) => Less(y) = Less(x)
    BY <1>2, <2>1, FS_Subset
  <2>3. Cardinality(Less(x)) \in Nat /\ Cardinality(Less(y)) \in Nat
    BY <1>2, FS_CardinalityType
  <2> HIDE DEF Less
  <2> QED
    BY <2>1, <2>2, <2>3
<1>4. rank \in Injection(S, 1..n)
  <2>1. rank \in [S -> 1..n]
    <3> HIDE DEF Less, n
    <3> QED
      BY <1>1, <1>2
  <2>2. ASSUME NEW x \in S, NEW y \in S, rank[x] = rank[y]
        PROVE  x = y
    <3>1. Cardinality(Less(x)) = Cardinality(Less(y))
      <4> HIDE DEF Less, n
      <4> QED
        BY <1>2, <1>1, <2>2
    <3>2. ~(f[x] < f[y]) /\ ~(f[y] < f[x])
      <4> HIDE DEF Less
      <4>1. Cardinality(Less(x)) \in Int
        BY <1>2, <1>1
      <4> QED
        BY <1>3, <3>1, <4>1
    <3> QED
      BY <3>2
  <2> HIDE DEF rank, n
  <2> QED
    BY <2>1, <2>2 DEF Injection, IsInjective
<1>5. IsFiniteSet(1..n) /\ Cardinality(1..n) = n
  <2> HIDE DEF n
  <2> QED
    BY <1>1, FS_Interval
<1>6. rank \in Surjection(S, 1..n)
  <2> HIDE DEF rank
  <2> QED
    BY <1>4, <1>5, FS_Injection
<1>7. ASSUME NEW i \in 1..n
      PROVE  \E x \in S : Cardinality(Less(x)) = i - 1
  <2>1. PICK x \in S : rank[x] = i
    <3> HIDE DEF rank
    <3> QED
      BY <1>6 DEF Surjection
  <2>2. Cardinality(Less(x)) + 1 = i
    BY <2>1
  <2>3. Cardinality(Less(x)) \in Int
    <3> HIDE DEF Less, n
    <3> QED
      BY <1>1, <1>2
  <2> HIDE DEF Less
  <2> QED
    BY <1>1, <2>2, <2>3
<1> QED
  BY <1>2, <1>3, <1>7

(* A bounded set of numbers has a largest one, and Max is it.              *)
LEMMA MaxIs ==
    ASSUME NEW S \in SUBSET Nat, S # {}, NEW b \in Nat, \A x \in S : x <= b
    PROVE  Max(S) \in S /\ \A x \in S : Max(S) >= x
<1>1. IsFiniteSet(S) /\ Cardinality(S) \in Nat
  BY FS_BoundedSetOfNaturals, FS_CardinalityType
<1> DEFINE f == [x \in S |-> x]
<1>2. f \in [S -> Int] /\ \A x, y \in S : f[x] = f[y] => x = y
  OBVIOUS
<1>3. Cardinality(S) \in 1..Cardinality(S)
  BY <1>1, FS_EmptySet
<1> HIDE DEF f
<1> DEFINE Less(x) == {z \in S : f[z] < f[x]}
<1>4. /\ \A x \in S : Cardinality(Less(x)) \in 0..(Cardinality(S) - 1)
      /\ \A x, y \in S : f[x] < f[y] =>
            Cardinality(Less(x)) < Cardinality(Less(y))
      /\ \A i \in 1..Cardinality(S) : \E x \in S :
            Cardinality(Less(x)) = i - 1
  BY <1>1, <1>2, RankOnto
<1> HIDE DEF Less
<1>5. PICK x \in S : Cardinality(Less(x)) = Cardinality(S) - 1
  BY <1>3, <1>4
<1>6. ASSUME NEW y \in S, y > x
      PROVE  FALSE
  <2>1. f[x] < f[y]
    BY <1>6 DEF f
  <2> QED
    BY <1>1, <1>4, <1>5, <2>1
<1>7. \A y \in S : x >= y
  BY <1>6
<1> QED
  BY <1>7 DEF Max

(* Of the first items of a set, none that comes earlier is left out.       *)
LEMMA FirstItemsAreClosed ==
    ASSUME NEW items, IsFiniteSet(items), \A z \in items : z.id \in Nat,
           NEW limit \in Nat, NEW y \in FirstItems(items, limit),
           NEW x \in items, x.id <= y.id
    PROVE  x \in FirstItems(items, limit)
<1> DEFINE Less(m) == {z \in items : z.id < m.id}
<1>1. y \in items /\ Cardinality(Less(y)) < limit
  BY DEF FirstItems
<1>2. Less(x) \in SUBSET Less(y) /\ Less(y) \in SUBSET items
  BY <1>1
<1>3. /\ IsFiniteSet(Less(y)) /\ IsFiniteSet(Less(x))
      /\ Cardinality(Less(x)) <= Cardinality(Less(y))
  BY <1>2, FS_Subset
<1>4. Cardinality(Less(x)) \in Nat /\ Cardinality(Less(y)) \in Nat
  BY <1>3, FS_CardinalityType
<1>5. Cardinality(Less(x)) < limit
  <2> HIDE DEF Less
  <2> QED
    BY <1>1, <1>3, <1>4
<1> QED
  BY <1>5 DEF FirstItems

-----------------------------------------------------------------------------
(* Lists.                                                                  *)

(* The elements of a list are finitely many.                               *)
LEMMA RangeIsFinite ==
    ASSUME NEW T, NEW q \in Seq(T)
    PROVE  IsFiniteSet(Range(q)) /\ Range(q) \subseteq T
<1>1. Len(q) \in Nat /\ DOMAIN q = 1..Len(q) /\ \A i \in DOMAIN q : q[i] \in T
  OBVIOUS
<1>2. IsFiniteSet(1..Len(q))
  BY <1>1, FS_Interval
<1> DEFINE f == [i \in 1..Len(q) |-> q[i]]
<1>3. f \in Surjection(1..Len(q), Range(q))
  BY <1>1 DEF Surjection, Range
<1>4. IsFiniteSet(Range(q))
  BY <1>2, <1>3, FS_Surjection
<1> QED
  BY <1>1, <1>4 DEF Range

(* Two lists merged are all their messages in the order of their ids.      *)
LEMMA MergedIs ==
    ASSUME NEW T, NEW msgs \in Seq(T), NEW meta \in Seq(T),
           Identified(Range(msgs) \cup Range(meta))
    PROVE  /\ Merged(msgs, meta) \in Seq(Range(msgs) \cup Range(meta))
           /\ Range(Merged(msgs, meta)) = Range(msgs) \cup Range(meta)
           /\ Ordered(Merged(msgs, meta))
<1> DEFINE all == Range(msgs) \cup Range(meta)
           n == Cardinality(all)
           f == [m \in all |-> m.id]
<1>1. IsFiniteSet(all) /\ n \in Nat
  BY RangeIsFinite, FS_Union, FS_CardinalityType
<1>2. f \in [all -> Int] /\ \A x, y \in all : f[x] = f[y] => x = y
  BY DEF Identified
<1>3. \A x \in all : f[x] = x.id
  OBVIOUS
<1> DEFINE Less(x) == {z \in all : f[z] < f[x]}
           Earlier(m) == {x \in all : x.id < m.id}
<1>4. Merged(msgs, meta) =
          [i \in 1..n |-> CHOOSE m \in all : Cardinality(Earlier(m)) = i - 1]
  BY DEF Merged
<1> HIDE DEF all, f, n
<1>5. /\ \A x \in all : Cardinality(Less(x)) \in 0..(n - 1)
      /\ \A x, y \in all : f[x] < f[y] =>
            Cardinality(Less(x)) < Cardinality(Less(y))
      /\ \A i \in 1..n : \E x \in all : Cardinality(Less(x)) = i - 1
  BY <1>1, <1>2, RankOnto DEF n
<1>6. \A x \in all : Less(x) = Earlier(x)
  BY <1>3
<1> HIDE DEF Less, Earlier
<1> DEFINE L == Merged(msgs, meta)
<1>7. /\ DOMAIN L = 1..n
      /\ L = [i \in DOMAIN L |-> L[i]]
      /\ \A i \in 1..n : L[i] \in all /\ Cardinality(Less(L[i])) = i - 1
  <2>1. ASSUME NEW i \in 1..n
        PROVE  \E m \in all : Cardinality(Earlier(m)) = i - 1
    BY <1>5, <1>6
  <2> QED
    BY <1>4, <1>6, <2>1
<1> HIDE DEF L
<1>8. L \in Seq(all) /\ Len(L) = n
  BY <1>1, <1>7
<1>9. ASSUME NEW i \in 1..n, NEW j \in 1..n, i < j
      PROVE  L[i].id < L[j].id
  <2>1. L[i] # L[j] /\ ~(f[L[j]] < f[L[i]])
    BY <1>1, <1>5, <1>7, <1>9
  <2> QED
    BY <1>2, <1>3, <1>7, <2>1
<1>10. ASSUME NEW m \in all
       PROVE  \E i \in 1..n : L[i] = m
  <2> DEFINE i == Cardinality(Less(m)) + 1
  <2>1. i \in 1..n /\ Cardinality(Less(m)) = i - 1
    BY <1>1, <1>5
  <2> HIDE DEF i
  <2>2. Cardinality(Less(L[i])) = Cardinality(Less(m)) /\ L[i] \in all
    BY <1>7, <2>1
  <2>3. ~(f[L[i]] < f[m]) /\ ~(f[m] < f[L[i]])
    BY <1>5, <2>1, <2>2, <1>1
  <2> QED
    BY <1>2, <2>1, <2>2, <2>3
<1>11. Range(L) = all
  BY <1>7, <1>10 DEF Range
<1> QED
  BY <1>7, <1>8, <1>9, <1>11 DEF Ordered, L, all

(* In an ordered list an id has one place, or none.                        *)
LEMMA PlaceIs ==
    ASSUME NEW T, NEW msgs \in Seq(T), NEW id,
           \A m \in T : m.id \in Nat, Ordered(msgs)
    PROVE  /\ Place(msgs, id) \in 0..Len(msgs)
           /\ Place(msgs, id) # 0 => msgs[Place(msgs, id)].id = id
           /\ \A i \in DOMAIN msgs :
                 msgs[i].id = id => Place(msgs, id) = i
<1> DEFINE places == {i \in DOMAIN msgs : msgs[i].id = id}
<1>1. /\ Len(msgs) \in Nat /\ DOMAIN msgs = 1..Len(msgs)
      /\ \A i \in DOMAIN msgs : msgs[i].id \in Nat
  OBVIOUS
<1>2. CASE places = {}
  BY <1>1, <1>2 DEF Place
<1>3. ASSUME NEW p \in places
      PROVE  Place(msgs, id) = p
  <2>1. \A i \in places : i = p
    <3> SUFFICES ASSUME NEW i \in places, i # p
                 PROVE  FALSE
      OBVIOUS
    <3>1. i < p \/ p < i
      BY <1>1
    <3> QED
      BY <1>1, <3>1 DEF Ordered
  <2>2. p \in Nat
    BY <1>1
  <2>3. places = {p}
    BY <2>1
  <2>4. Min({p}) = p
    BY <2>2 DEF Min
  <2> QED
    BY <2>3, <2>4 DEF Place
<1> QED
  BY <1>1, <1>2, <1>3

(* The newest messages of a list, which is what a bounded list keeps.      *)
LEMMA NewestIs ==
    ASSUME NEW T, NEW msgs \in Seq(T), NEW limit \in Nat
    PROVE  LET new == Newest(msgs, limit)
               cut == IF Len(msgs) > limit THEN Len(msgs) - limit ELSE 0
           IN  /\ new \in Seq(T)
               /\ Len(new) = Len(msgs) - cut
               /\ \A i \in 1..(Len(msgs) - cut) : new[i] = msgs[cut + i]
<1> DEFINE cut == IF Len(msgs) > limit THEN Len(msgs) - limit ELSE 0
<1>1. /\ Len(msgs) \in Nat /\ DOMAIN msgs = 1..Len(msgs)
      /\ \A i \in 1..Len(msgs) : msgs[i] \in T
  OBVIOUS
<1>2. cut \in 0..Len(msgs)
  BY <1>1
<1>3. Max({1, Len(msgs) - limit + 1}) = cut + 1
  BY <1>1 DEF Max
<1> HIDE DEF cut
<1>4. Newest(msgs, limit) = SubSeq(msgs, cut + 1, Len(msgs))
  BY <1>3 DEF Newest
<1>5. \A i \in (cut + 1)..Len(msgs) : msgs[i] \in T
  BY <1>1, <1>2
<1>6. /\ SubSeq(msgs, cut + 1, Len(msgs)) \in Seq(T)
      /\ Len(SubSeq(msgs, cut + 1, Len(msgs))) =
            IF cut + 1 <= Len(msgs) THEN Len(msgs) - (cut + 1) + 1 ELSE 0
      /\ \A i \in 1..(Len(msgs) - (cut + 1) + 1) :
            SubSeq(msgs, cut + 1, Len(msgs))[i] = msgs[(cut + 1) + i - 1]
  BY <1>1, <1>2, <1>5, SubSeqProperties
<1>7. /\ Newest(msgs, limit) \in Seq(T)
      /\ Len(Newest(msgs, limit)) = Len(msgs) - cut
      /\ \A i \in 1..(Len(msgs) - cut) :
            Newest(msgs, limit)[i] = msgs[cut + i]
  <2>1. Len(msgs) \in Int /\ cut \in Int
    BY <1>1, <1>2
  <2>2. Len(Newest(msgs, limit)) = Len(msgs) - cut
    BY <1>2, <1>4, <1>6, <2>1
  <2>3. ASSUME NEW i \in 1..(Len(msgs) - cut)
        PROVE  Newest(msgs, limit)[i] = msgs[cut + i]
    <3>1. i \in 1..(Len(msgs) - (cut + 1) + 1) /\ (cut + 1) + i - 1 = cut + i
      BY <2>1
    <3> QED
      BY <1>4, <1>6, <3>1
  <2> QED
    BY <1>4, <1>6, <2>2, <2>3
<1> QED
  BY <1>7 DEF cut

(* The front of a list, and that of an ordered list is ordered.            *)
LEMMA PrefixIs ==
    ASSUME NEW T, NEW q \in Seq(T), NEW hi \in 0..Len(q)
    PROVE  /\ SubSeq(q, 1, hi) \in Seq(T) /\ Len(SubSeq(q, 1, hi)) = hi
           /\ \A i \in 1..hi : SubSeq(q, 1, hi)[i] = q[i]
<1>1. Len(q) \in Nat /\ hi \in Int /\ hi >= 0 /\ \A i \in 1..hi : q[i] \in T
  OBVIOUS
<1>2. /\ SubSeq(q, 1, hi) \in Seq(T)
      /\ Len(SubSeq(q, 1, hi)) = IF 1 <= hi THEN hi - 1 + 1 ELSE 0
      /\ \A i \in 1..(hi - 1 + 1) : SubSeq(q, 1, hi)[i] = q[1 + i - 1]
  BY <1>1, SubSeqProperties
<1>3. Len(SubSeq(q, 1, hi)) = hi
  BY <1>1, <1>2
<1>4. ASSUME NEW i \in 1..hi
      PROVE  SubSeq(q, 1, hi)[i] = q[i]
  <2>1. i \in 1..(hi - 1 + 1) /\ 1 + i - 1 = i
    BY <1>1
  <2> QED
    BY <1>2, <2>1
<1> QED
  BY <1>2, <1>3, <1>4

(* The beginning of a sequence has its first places.                       *)
LEMMA FrontIs ==
    ASSUME NEW T, NEW msgs \in Seq(T), Ordered(msgs), NEW hi \in 0..Len(msgs)
    PROVE  /\ SubSeq(msgs, 1, hi) \in Seq(T) /\ Ordered(SubSeq(msgs, 1, hi))
           /\ Len(SubSeq(msgs, 1, hi)) = hi
           /\ \A i \in 1..hi : SubSeq(msgs, 1, hi)[i] = msgs[i]
<1>1. /\ SubSeq(msgs, 1, hi) \in Seq(T) /\ Len(SubSeq(msgs, 1, hi)) = hi
      /\ \A i \in 1..hi : SubSeq(msgs, 1, hi)[i] = msgs[i]
  BY PrefixIs
<1>2. DOMAIN SubSeq(msgs, 1, hi) = 1..hi /\ 1..hi \subseteq DOMAIN msgs
  BY <1>1
<1>3. Ordered(SubSeq(msgs, 1, hi))
  BY <1>1, <1>2 DEF Ordered
<1> QED
  BY <1>1, <1>3

(* A page is a stretch of the list.  What follows it begins with the id    *)
(* the page is asked before, which is there; when there is no more, what   *)
(* precedes it is not behind the id the page is asked after; and when      *)
(* there is more the page is not empty.                                    *)
IsPage(page, T, msgs, before, after) ==
    \E lo, hi \in 0..Len(msgs) :
        /\ lo <= hi
        /\ page.messages \in Seq(T)
        /\ Len(page.messages) = hi - lo
        /\ \A i \in 1..(hi - lo) : page.messages[i] = msgs[lo + i]
        /\ page.has_more \in BOOLEAN
        /\ page.has_more => lo < hi
        /\ \A i \in (hi + 1)..Len(msgs) :
              /\ msgs[i].id >= before
              /\ \E j \in DOMAIN msgs : msgs[j].id = before
        /\ ~page.has_more => \A i \in 1..lo : msgs[i].id <= after

(* Page returns such a stretch.                                            *)
LEMMA PageIs ==
    ASSUME NEW T, NEW msgs \in Seq(T), \A m \in T : m.id \in Nat,
           Ordered(msgs), NEW limit \in Nat \ {0},
           NEW before \in Nat, NEW after \in Nat
    PROVE  IsPage(Page(msgs, limit, before, after), T, msgs, before, after)
<1> DEFINE front == CutBefore(msgs, before)
           cut == CutAfter(front, after)
           page == Page(msgs, limit, before, after)
<1>1. /\ Len(msgs) \in Nat /\ DOMAIN msgs = 1..Len(msgs)
      /\ \A i \in 1..Len(msgs) : msgs[i] \in T /\ msgs[i].id \in Nat
  OBVIOUS
<1>2. PICK hi \in 0..Len(msgs) :
          /\ front = SubSeq(msgs, 1, hi)
          /\ \A i \in (hi + 1)..Len(msgs) :
                /\ msgs[i].id >= before
                /\ \E j \in DOMAIN msgs : msgs[j].id = before
  <2>1. /\ Place(msgs, before) \in 0..Len(msgs)
        /\ Place(msgs, before) # 0 =>
              msgs[Place(msgs, before)].id = before
    BY PlaceIs
  <2>2. CASE Place(msgs, before) = 0
    <3>1. front = msgs /\ msgs = SubSeq(msgs, 1, Len(msgs))
      BY <2>2, SubSeqFull DEF CutBefore
    <3>2. Len(msgs) \in 0..Len(msgs) /\ (Len(msgs) + 1)..Len(msgs) = {}
      BY <1>1
    <3> HIDE DEF front
    <3> QED
      BY <3>1, <3>2
  <2>3. CASE Place(msgs, before) # 0
    <3> DEFINE p == Place(msgs, before)
    <3>1. front = SubSeq(msgs, 1, p - 1)
      BY <2>3 DEF CutBefore
    <3>2. p \in 1..Len(msgs) /\ msgs[p].id = before
      BY <2>1, <2>3
    <3> HIDE DEF front, p
    <3>3. p - 1 \in 0..Len(msgs)
      BY <1>1, <3>2
    <3>4. \A i \in p..Len(msgs) : msgs[i].id >= before
      <4> SUFFICES ASSUME NEW i \in p..Len(msgs)
                   PROVE  msgs[i].id >= before
        OBVIOUS
      <4>1. i = p \/ p < i
        BY <3>2
      <4> QED
        BY <1>1, <3>2, <4>1 DEF Ordered
    <3>5. (p - 1) + 1 = p
      BY <3>2
    <3>6. \E j \in DOMAIN msgs : msgs[j].id = before
      BY <1>1, <3>2
    <3> QED
      BY <3>1, <3>3, <3>4, <3>5, <3>6
  <2> QED
    BY <2>2, <2>3
<1>3. /\ front \in Seq(T) /\ Ordered(front) /\ Len(front) = hi
      /\ \A i \in 1..hi : front[i] = msgs[i]
  BY <1>2, FrontIs
<1> DEFINE from == Place(front, after)
<1>4. /\ from \in 0..hi
      /\ from # 0 => front[from].id = after
  <2> HIDE DEF front
  <2> QED
    BY <1>3, PlaceIs
<1>5. cut = SubSeq(front, from + 1, Len(front))
  BY DEF CutAfter
<1>6. /\ page.messages = Newest(cut, limit)
      /\ page.has_more = (Len(cut) > limit)
  BY DEF Page
<1> HIDE DEF front, from, cut, page
<1>7. /\ cut \in Seq(T) /\ Len(cut) = hi - from
      /\ \A i \in 1..(hi - from) : cut[i] = msgs[from + i]
  <2>1. /\ hi \in Int /\ from \in Int /\ 0 <= from /\ from <= hi
        /\ \A i \in (from + 1)..hi : front[i] \in T
    BY <1>3, <1>4
  <2>2. /\ SubSeq(front, from + 1, hi) \in Seq(T)
        /\ Len(SubSeq(front, from + 1, hi)) =
              IF from + 1 <= hi THEN hi - (from + 1) + 1 ELSE 0
        /\ \A i \in 1..(hi - (from + 1) + 1) :
              SubSeq(front, from + 1, hi)[i] = front[(from + 1) + i - 1]
    BY <2>1, SubSeqProperties
  <2>3. Len(cut) = hi - from
    BY <1>3, <1>5, <2>1, <2>2
  <2>4. ASSUME NEW i \in 1..(hi - from)
        PROVE  cut[i] = msgs[from + i]
    <3>1. /\ i \in 1..(hi - (from + 1) + 1) /\ (from + 1) + i - 1 = from + i
          /\ from + i \in 1..hi
      BY <2>1
    <3> QED
      BY <1>3, <1>5, <2>2, <3>1
  <2> QED
    BY <1>3, <1>5, <2>2, <2>3, <2>4
<1> DEFINE gone == IF Len(cut) > limit THEN Len(cut) - limit ELSE 0
           lo == from + gone
<1>8. /\ page.messages \in Seq(T)
      /\ Len(page.messages) = Len(cut) - gone
      /\ \A i \in 1..(Len(cut) - gone) : page.messages[i] = cut[gone + i]
  BY <1>6, <1>7, NewestIs
<1>9. /\ from \in Nat /\ gone \in Nat /\ hi \in Nat /\ hi <= Len(msgs)
      /\ from + gone <= hi
      /\ page.has_more \in BOOLEAN
      /\ page.has_more => from + gone < hi
      /\ ~page.has_more => gone = 0
  <2>1. /\ page.has_more \in BOOLEAN
        /\ page.has_more <=> Len(cut) > limit
    <3> DEFINE more == Len(cut) > limit
    <3>1. more \in BOOLEAN
      OBVIOUS
    <3>2. page.has_more = more
      BY <1>6
    <3> HIDE DEF more
    <3>3. page.has_more \in BOOLEAN /\ (page.has_more <=> more)
      BY <3>1, <3>2, Zenon
    <3> QED
      BY <3>3 DEF more
  <2>2. /\ Len(cut) \in Int /\ from \in Nat /\ hi \in Nat /\ hi <= Len(msgs)
        /\ Len(cut) = hi - from /\ from <= hi
    BY <1>1, <1>4, <1>7
  <2> QED
    BY <2>1, <2>2
<1> HIDE DEF gone
<1>10. Len(page.messages) = hi - lo
  BY <1>7, <1>8, <1>9
<1>11. ASSUME NEW i \in 1..(hi - lo)
       PROVE  page.messages[i] = msgs[lo + i]
  <2>1. /\ i \in 1..(Len(cut) - gone) /\ gone + i \in 1..(hi - from)
        /\ from + (gone + i) = lo + i
    BY <1>7, <1>9
  <2> QED
    BY <1>7, <1>8, <2>1
<1>12. ASSUME ~page.has_more, NEW i \in 1..lo
       PROVE  msgs[i].id <= after
  <2>1. lo = from /\ from # 0 /\ i <= from /\ i \in 1..hi /\ from \in 1..hi
    BY <1>9, <1>12
  <2>2. msgs[from].id = after
    BY <1>3, <1>4, <2>1
  <2>3. i = from \/ i < from
    BY <1>9, <2>1
  <2> QED
    BY <1>1, <1>9, <2>1, <2>2, <2>3 DEF Ordered
<1>13. lo \in 0..Len(msgs) /\ lo <= hi /\ (page.has_more => lo < hi)
  BY <1>1, <1>9
<1> HIDE DEF lo
<1>14. \E l, h \in 0..Len(msgs) :
          /\ l <= h
          /\ page.messages \in Seq(T)
          /\ Len(page.messages) = h - l
          /\ \A i \in 1..(h - l) : page.messages[i] = msgs[l + i]
          /\ page.has_more \in BOOLEAN
          /\ page.has_more => l < h
          /\ \A i \in (h + 1)..Len(msgs) :
                /\ msgs[i].id >= before
                /\ \E j \in DOMAIN msgs : msgs[j].id = before
          /\ ~page.has_more => \A i \in 1..l : msgs[i].id <= after
  BY <1>2, <1>8, <1>9, <1>10, <1>11, <1>12, <1>13
<1> QED
  BY <1>14 DEF page, IsPage

(* In an ordered list as many messages are earlier than a message as there *)
(* are places before it, and as many later as there are behind it.         *)
LEMMA PlacesCount ==
    ASSUME NEW T, NEW q \in Seq(T), \A m \in T : m.id \in Nat, Ordered(q),
           NEW j \in DOMAIN q
    PROVE  /\ Cardinality({x \in Range(q) : x.id < q[j].id}) = j - 1
           /\ Cardinality({x \in Range(q) : x.id > q[j].id}) = Len(q) - j
<1>1. /\ Len(q) \in Nat /\ DOMAIN q = 1..Len(q) /\ j \in 1..Len(q)
      /\ \A i \in DOMAIN q : q[i] \in T /\ q[i].id \in Nat
  OBVIOUS
<1>2. ASSUME NEW a \in Int, NEW b \in Int, 1 <= a, b <= Len(q), a <= b + 1,
             NEW S, S = {q[i] : i \in a..b}
      PROVE  Cardinality(S) = b - a + 1
  <2> DEFINE f == [i \in a..b |-> q[i]]
  <2>1. \A i \in a..b : i \in DOMAIN q
    BY <1>1, <1>2
  <2>2. ASSUME NEW i \in a..b, NEW k \in a..b, q[i] = q[k]
        PROVE  i = k
    <3>1. i < k \/ k < i \/ i = k
      BY <1>2
    <3> QED
      BY <1>1, <2>1, <2>2, <3>1 DEF Ordered
  <2>3. f \in Bijection(a..b, S)
    <3>1. f \in [a..b -> S]
      BY <1>2
    <3>2. f \in Injection(a..b, S)
      BY <2>2, <3>1 DEF Injection, IsInjective
    <3>3. f \in Surjection(a..b, S)
      BY <1>2, <3>1 DEF Surjection
    <3> QED
      BY <3>2, <3>3 DEF Bijection
  <2>4. IsFiniteSet(a..b) /\ Cardinality(a..b) = b - a + 1
    BY <1>2, FS_Interval
  <2>5. ExistsBijection(a..b, S)
    BY <2>3 DEF ExistsBijection
  <2>6. Cardinality(S) = Cardinality(a..b)
    BY <2>4, <2>5, FS_Bijection
  <2> QED
    BY <2>4, <2>6
<1>3. \A i \in DOMAIN q : /\ q[i].id < q[j].id <=> i < j
                          /\ q[i].id > q[j].id <=> j < i
  <2> SUFFICES ASSUME NEW i \in DOMAIN q
               PROVE  /\ q[i].id < q[j].id <=> i < j
                      /\ q[i].id > q[j].id <=> j < i
    OBVIOUS
  <2>1. i < j \/ j < i \/ i = j
    BY <1>1
  <2> QED
    BY <1>1, <2>1 DEF Ordered
<1>4. {x \in Range(q) : x.id < q[j].id} = {q[i] : i \in 1..(j - 1)}
  <2>1. \A i \in DOMAIN q : i \in 1..(j - 1) <=> i < j
    BY <1>1
  <2>2. 1..(j - 1) \subseteq DOMAIN q
    BY <1>1
  <2> QED
    BY <1>3, <2>1, <2>2 DEF Range
<1>5. {x \in Range(q) : x.id > q[j].id} = {q[i] : i \in (j + 1)..Len(q)}
  <2>1. \A i \in DOMAIN q : i \in (j + 1)..Len(q) <=> j < i
    BY <1>1
  <2>2. (j + 1)..Len(q) \subseteq DOMAIN q
    BY <1>1
  <2> QED
    BY <1>3, <2>1, <2>2 DEF Range
<1>6. Cardinality({q[i] : i \in 1..(j - 1)}) = j - 1
  <2>1. /\ 1 \in Int /\ j - 1 \in Int /\ j - 1 <= Len(q) /\ 1 <= (j - 1) + 1
        /\ (j - 1) - 1 + 1 = j - 1 /\ 1 <= 1
    BY <1>1
  <2>2. Cardinality({q[i] : i \in 1..(j - 1)}) = (j - 1) - 1 + 1
    BY <1>2, <2>1
  <2> QED
    BY <2>1, <2>2
<1>7. Cardinality({q[i] : i \in (j + 1)..Len(q)}) = Len(q) - j
  <2>1. /\ j + 1 \in Int /\ Len(q) \in Int /\ 1 <= j + 1 /\ Len(q) <= Len(q)
        /\ j + 1 <= Len(q) + 1 /\ Len(q) - (j + 1) + 1 = Len(q) - j
    BY <1>1
  <2>2. Cardinality({q[i] : i \in (j + 1)..Len(q)}) = Len(q) - (j + 1) + 1
    BY <1>2, <2>1
  <2> QED
    BY <2>1, <2>2
<1> QED
  BY <1>4, <1>5, <1>6, <1>7

(* The window around a place holds it, is as long as the limit and the     *)
(* list allow, and leans to one side only at an end of the list.           *)
LEMMA WindowIs ==
    ASSUME NEW len \in Nat, NEW place \in 1..len, NEW limit \in Nat \ {0}
    PROVE  LET w == Window(len, place, limit)
           IN  /\ w.start \in 0..(place - 1) /\ w.end \in place..len
               /\ w.end - w.start = IF limit < len THEN limit ELSE len
               /\ (place - 1) - w.start > (w.end - place) + 1 => w.end = len
               /\ (w.end - place) > (place - 1) - w.start => w.start = 0
<1> DEFINE half == limit \div 2
           first == IF place - 1 - half > 0 THEN place - 1 - half ELSE 0
           rest == IF len - limit > 0 THEN len - limit ELSE 0
<1>1. half \in Nat /\ 2 * half <= limit /\ limit <= 2 * half + 1
  OBVIOUS
<1>2. Max({0, place - 1 - half}) = first /\ Max({0, len - limit}) = rest
  <2>1. \A x \in Int : Max({0, x}) = IF x > 0 THEN x ELSE 0
    BY DEF Max
  <2>2. place - 1 - half \in Int /\ len - limit \in Int
    BY <1>1
  <2> HIDE DEF half
  <2> QED
    BY <2>1, <2>2
<1>3. Window(len, place, limit) =
          IF first + limit > len THEN [start |-> rest, end |-> len]
          ELSE [start |-> first, end |-> first + limit]
  BY <1>2 DEF Window
<1>4. /\ first \in Nat /\ rest \in Nat
      /\ first = IF place - 1 - half > 0 THEN place - 1 - half ELSE 0
      /\ rest = IF len - limit > 0 THEN len - limit ELSE 0
  <2> HIDE DEF half
  <2> QED
    BY <1>1
<1> HIDE DEF half, first, rest
<1>5. CASE first + limit > len
  <2>1. /\ Window(len, place, limit).start = rest
        /\ Window(len, place, limit).end = len
    BY <1>3, <1>5
  <2>2. /\ rest \in 0..(place - 1) /\ len \in place..len
        /\ len - rest = IF limit < len THEN limit ELSE len
        /\ (len - place) > (place - 1) - rest => rest = 0
    BY <1>1, <1>4, <1>5
  <2> QED
    BY <2>1, <2>2
<1>6. CASE ~(first + limit > len)
  <2>1. /\ Window(len, place, limit).start = first
        /\ Window(len, place, limit).end = first + limit
    BY <1>3, <1>6
  <2>2. /\ first \in 0..(place - 1) /\ first + limit \in place..len
        /\ (first + limit) - first = IF limit < len THEN limit ELSE len
        /\ ~((place - 1) - first > ((first + limit) - place) + 1)
        /\ ((first + limit) - place) > (place - 1) - first => first = 0
    BY <1>1, <1>4, <1>6
  <2> QED
    BY <2>1, <2>2
<1> QED
  BY <1>5, <1>6

(* The page around a message of the list is the stretch of that window.    *)
LEMMA PageAroundIs ==
    ASSUME NEW T, NEW msgs \in Seq(T), \A m \in T : m.id \in Nat,
           Ordered(msgs), NEW limit \in Nat \ {0}, NEW m \in Range(msgs)
    PROVE  LET page == PageAround(msgs, limit, 0, 0, m.id).messages
               earlier == Cardinality({x \in Range(page) : x.id < m.id})
               later == Cardinality({x \in Range(page) : x.id > m.id})
           IN  /\ m \in Range(page)
               /\ Len(page) = IF limit < Len(msgs) THEN limit ELSE Len(msgs)
               /\ earlier > later + 1 => Last(page) = Last(msgs)
               /\ later > earlier => Head(page) = Head(msgs)
<1> DEFINE page == PageAround(msgs, limit, 0, 0, m.id).messages
           len == Len(msgs)
<1>1. PICK k \in DOMAIN msgs : m = msgs[k]
  BY DEF Range
<1>2. len \in Nat /\ k \in 1..len /\ \A i \in 1..len : msgs[i] \in T
  OBVIOUS
<1>3. Place(msgs, m.id) = k
  BY <1>1, PlaceIs
<1> DEFINE a == Window(len, k, limit).start
           b == Window(len, k, limit).end
<1>4. /\ a \in 0..(k - 1) /\ b \in k..len
      /\ b - a = IF limit < len THEN limit ELSE len
      /\ (k - 1) - a > (b - k) + 1 => b = len
      /\ (b - k) > (k - 1) - a => a = 0
  BY <1>2, WindowIs
<1>5. page = SubSeq(msgs, a + 1, b)
  <2>1. k # 0
    BY <1>2
  <2>2. PageAround(msgs, limit, 0, 0, m.id) =
            [messages |-> SubSeq(msgs, a + 1, b), has_more |-> a > 0]
    BY <1>3, <2>1 DEF PageAround
  <2> QED
    BY <2>2
<1> HIDE DEF page, a, b
<1>6. a \in Nat /\ b \in Nat /\ a < k /\ k <= b /\ b <= len
  BY <1>2, <1>4
<1>7. /\ page \in Seq(T) /\ Len(page) = b - a
      /\ \A i \in 1..(b - a) : page[i] = msgs[a + i]
  <2>1. \A i \in (a + 1)..b : msgs[i] \in T
    BY <1>2, <1>6
  <2>2. /\ SubSeq(msgs, a + 1, b) \in Seq(T)
        /\ Len(SubSeq(msgs, a + 1, b)) =
              IF a + 1 <= b THEN b - (a + 1) + 1 ELSE 0
        /\ \A i \in 1..(b - (a + 1) + 1) :
              SubSeq(msgs, a + 1, b)[i] = msgs[(a + 1) + i - 1]
    BY <1>6, <2>1, SubSeqProperties
  <2>3. a + 1 <= b /\ b - (a + 1) + 1 = b - a
    BY <1>6
  <2>4. \A i \in 1..(b - a) : (a + 1) + i - 1 = a + i
    BY <1>6
  <2> QED
    BY <1>5, <2>2, <2>3, <2>4
<1>8. DOMAIN page = 1..(b - a) /\ \A i \in 1..(b - a) : a + i \in DOMAIN msgs
  BY <1>2, <1>6, <1>7
<1>9. Ordered(page)
  <2> SUFFICES ASSUME NEW i \in 1..(b - a), NEW j \in 1..(b - a), i < j
               PROVE  page[i].id < page[j].id
    BY <1>8 DEF Ordered
  <2>1. a + i < a + j
    BY <1>6
  <2> QED
    BY <1>7, <1>8, <2>1 DEF Ordered
<1>10. k - a \in DOMAIN page /\ page[k - a] = m /\ m \in Range(page)
  <2>1. k - a \in 1..(b - a) /\ a + (k - a) = k
    BY <1>2, <1>6
  <2> QED
    BY <1>1, <1>7, <1>8, <2>1 DEF Range
<1>11. /\ Cardinality({x \in Range(page) : x.id < m.id}) = (k - a) - 1
       /\ Cardinality({x \in Range(page) : x.id > m.id}) = (b - a) - (k - a)
  <2> DEFINE j == k - a
  <2>1. j \in DOMAIN page /\ page[j] = m
    BY <1>10
  <2> HIDE DEF j
  <2>2. /\ Cardinality({x \in Range(page) : x.id < page[j].id}) = j - 1
        /\ Cardinality({x \in Range(page) : x.id > page[j].id}) = Len(page) - j
    BY <1>7, <1>9, <2>1, PlacesCount
  <2>3. Len(page) = b - a
    BY <1>7
  <2> QED
    BY <2>1, <2>2, <2>3 DEF j
<1>12. Last(page) = msgs[b] /\ Head(page) = msgs[a + 1]
  <2>1. /\ b - a \in 1..(b - a) /\ 1 \in 1..(b - a) /\ a + (b - a) = b
        /\ page # <<>>
    BY <1>6, <1>7
  <2>2. Last(page) = page[b - a] /\ Head(page) = page[1]
    BY <1>7, <2>1 DEF Last
  <2> QED
    BY <1>7, <2>1, <2>2
<1>13. Last(msgs) = msgs[len] /\ Head(msgs) = msgs[1]
  <2>1. msgs # <<>>
    BY <1>2
  <2> QED
    BY <2>1 DEF Last
<1>14. (k - a) - 1 > ((b - a) - (k - a)) + 1 => b = len
  BY <1>2, <1>4, <1>6
<1>15. (b - a) - (k - a) > (k - a) - 1 => a + 1 = 1
  BY <1>2, <1>4, <1>6
<1>16. /\ m \in Range(page)
       /\ Len(page) = IF limit < len THEN limit ELSE len
       /\ (k - a) - 1 > ((b - a) - (k - a)) + 1 => Last(page) = Last(msgs)
       /\ (b - a) - (k - a) > (k - a) - 1 => Head(page) = Head(msgs)
  BY <1>4, <1>7, <1>10, <1>12, <1>13, <1>14, <1>15
<1> QED
  BY <1>11, <1>16 DEF page
-----------------------------------------------------------------------------
(* Searching.                                                              *)

(* found is what is in q at the increasing places at, and every message    *)
(* that matches is at one of them.                                         *)
Picks(at, found, q) ==
    /\ at \in [1..Len(found) -> DOMAIN q]
    /\ \A k \in 1..Len(found) : found[k] = q[at[k]] /\ q[at[k]].hit
    /\ \A k, l \in 1..Len(found) : k < l => at[k] < at[l]
    /\ \A i \in DOMAIN q : q[i].hit => \E k \in 1..Len(found) : at[k] = i

(* rest is what is behind the place p of from.                             *)
Behind(rest, from, p) ==
    /\ Len(rest) = Len(from) - p
    /\ \A k \in DOMAIN rest : rest[k] = from[p + k]

(* The matches of a list are the messages at increasing places, at which   *)
(* all messages that match are.                                            *)
LEMMA MatchingIs ==
    ASSUME NEW T, NEW q \in Seq(T)
    PROVE  /\ Matching(q) \in Seq(T) /\ Len(Matching(q)) <= Len(q)
           /\ \E at : Picks(at, Matching(q), q)
<1> DEFINE hits == {i \in DOMAIN q : q[i].hit}
           n == Cardinality(hits)
           f == [i \in hits |-> i]
           Less(i) == {j \in hits : f[j] < f[i]}
           Earlier(i) == {j \in hits : j < i}
<1>1. /\ Len(q) \in Nat /\ DOMAIN q = 1..Len(q) /\ hits \subseteq 1..Len(q)
      /\ \A i \in 1..Len(q) : q[i] \in T
  OBVIOUS
<1>2. IsFiniteSet(hits) /\ n \in Nat /\ n <= Len(q)
  <2>1. IsFiniteSet(1..Len(q)) /\ Cardinality(1..Len(q)) = Len(q)
    BY <1>1, FS_Interval
  <2> HIDE DEF hits
  <2> DEFINE all == 1..Len(q)
  <2> hits \in SUBSET all
    BY <1>1
  <2> HIDE DEF all
  <2>2. IsFiniteSet(hits) /\ Cardinality(hits) <= Len(q)
    BY <2>1, FS_Subset DEF all
  <2>3. Cardinality(hits) \in Nat
    BY <2>2, FS_CardinalityType
  <2> QED
    BY <2>2, <2>3
<1>3. f \in [hits -> Int] /\ \A x, y \in hits : f[x] = f[y] => x = y
  BY <1>1
<1>4. \A i \in hits : f[i] = i /\ Less(i) = Earlier(i)
  OBVIOUS
<1>5. Matching(q) = [k \in 1..n |->
                        q[CHOOSE i \in hits : Cardinality(Earlier(i)) = k - 1]]
  BY DEF Matching
<1> HIDE DEF f, n, hits
<1>6. /\ \A x \in hits : Cardinality(Less(x)) \in 0..(n - 1)
      /\ \A x, y \in hits : f[x] < f[y] =>
            Cardinality(Less(x)) < Cardinality(Less(y))
      /\ \A i \in 1..n : \E x \in hits : Cardinality(Less(x)) = i - 1
  BY <1>2, <1>3, RankOnto DEF n
<1> HIDE DEF Less, Earlier
<1> DEFINE place(k) == CHOOSE i \in hits : Cardinality(Earlier(i)) = k - 1
           at == [k \in 1..n |-> place(k)]
<1>7. \A k \in 1..n : place(k) \in hits /\ Cardinality(Less(place(k))) = k - 1
  <2> SUFFICES ASSUME NEW k \in 1..n
               PROVE  place(k) \in hits /\ Cardinality(Less(place(k))) = k - 1
    OBVIOUS
  <2>1. \E i \in hits : Cardinality(Earlier(i)) = k - 1
    BY <1>4, <1>6
  <2>2. place(k) \in hits /\ Cardinality(Earlier(place(k))) = k - 1
    BY <2>1
  <2> QED
    BY <1>4, <2>2
<1> HIDE DEF place
<1>8. /\ at \in [1..n -> hits] /\ \A k \in 1..n : at[k] = place(k)
  BY <1>7
<1> HIDE DEF at
<1>9. /\ Matching(q) \in Seq(T) /\ Len(Matching(q)) = n
      /\ \A k \in 1..n : Matching(q)[k] = q[at[k]]
  <2>1. Matching(q) = [k \in 1..n |-> q[place(k)]]
    BY <1>5 DEF place
  <2>2. \A k \in 1..n : q[place(k)] \in T
    BY <1>1, <1>7
  <2> QED
    BY <1>2, <1>8, <2>1, <2>2
<1>10. ASSUME NEW k \in 1..n, NEW l \in 1..n, k < l
       PROVE  at[k] < at[l]
  <2>1. at[k] \in hits /\ at[l] \in hits /\ at[k] \in Int /\ at[l] \in Int
    <3>1. \A i \in hits : i \in Int
      BY <1>1
    <3> QED
      BY <1>8, <3>1
  <2>2. Cardinality(Less(at[k])) = k - 1 /\ Cardinality(Less(at[l])) = l - 1
    BY <1>7, <1>8
  <2>3. at[k] # at[l]
    BY <1>2, <1>10, <2>2
  <2>4. ~(f[at[l]] < f[at[k]])
    BY <1>2, <1>6, <1>10, <2>1, <2>2
  <2> QED
    BY <1>4, <2>1, <2>3, <2>4
<1>11. ASSUME NEW i \in hits
       PROVE  \E k \in 1..n : at[k] = i
  <2>1. PICK c : c = Cardinality(Less(i))
    OBVIOUS
  <2>2. c \in 0..(n - 1)
    BY <1>6, <2>1
  <2>3. PICK k \in 1..n : k - 1 = c
    <3>1. c + 1 \in 1..n /\ (c + 1) - 1 = c
      BY <1>2, <2>2
    <3> QED
      BY <3>1
  <2>4. Cardinality(Less(at[k])) = c /\ at[k] \in hits
    BY <1>7, <1>8, <2>3
  <2>5. ~(f[at[k]] < f[i]) /\ ~(f[i] < f[at[k]])
    BY <1>2, <1>6, <2>1, <2>2, <2>4
  <2>6. at[k] \in Int /\ i \in Int
    <3>1. \A j \in hits : j \in Int
      BY <1>1
    <3> QED
      BY <2>4, <3>1
  <2> QED
    BY <1>4, <2>4, <2>5, <2>6
<1>12. at \in [1..n -> DOMAIN q] /\ \A k \in 1..n : q[at[k]].hit
  BY <1>8 DEF hits
<1>13. \A i \in DOMAIN q : q[i].hit => \E k \in 1..n : at[k] = i
  BY <1>11 DEF hits
<1>14. Picks(at, Matching(q), q)
  BY <1>9, <1>10, <1>12, <1>13 DEF Picks
<1> QED
  BY <1>2, <1>9, <1>14

(* What a search looks at from one of the messages it looks at is what it  *)
(* looks at behind that message.                                           *)
LEMMA GoesOn ==
    ASSUME NEW T, NEW msgs \in Seq(T), \A m \in T : m.id \in Nat,
           Ordered(msgs), NEW anchor, NEW way \in {"backward", "forward"}
    PROVE  LET from == FromNextTo(msgs, anchor, way)
           IN  /\ from \in Seq(T)
               /\ \A p \in DOMAIN from :
                     /\ FromNextTo(msgs, from[p].id, way) \in Seq(T)
                     /\ Behind(FromNextTo(msgs, from[p].id, way), from, p)
<1>1. /\ Len(msgs) \in Nat /\ DOMAIN msgs = 1..Len(msgs)
      /\ \A i \in 1..Len(msgs) : msgs[i] \in T
  OBVIOUS
<1>2. Place(msgs, anchor) \in 0..Len(msgs)
  BY PlaceIs
<1>3. ASSUME NEW i \in 0..Len(msgs)
      PROVE  /\ SubSeq(msgs, i + 1, Len(msgs)) \in Seq(T)
             /\ Len(SubSeq(msgs, i + 1, Len(msgs))) = Len(msgs) - i
             /\ \A k \in 1..(Len(msgs) - i) :
                   SubSeq(msgs, i + 1, Len(msgs))[k] = msgs[i + k]
  <2>1. /\ i \in Int /\ Len(msgs) \in Int /\ i + 1 \in Int /\ 1 <= i + 1
        /\ Len(msgs) - (i + 1) + 1 = Len(msgs) - i /\ i <= Len(msgs)
    BY <1>1
  <2>2. \A j \in (i + 1)..Len(msgs) : msgs[j] \in T
    BY <1>1, <2>1
  <2>3. /\ SubSeq(msgs, i + 1, Len(msgs)) \in Seq(T)
        /\ Len(SubSeq(msgs, i + 1, Len(msgs))) =
              IF i + 1 <= Len(msgs) THEN Len(msgs) - (i + 1) + 1 ELSE 0
        /\ \A k \in 1..(Len(msgs) - (i + 1) + 1) :
              SubSeq(msgs, i + 1, Len(msgs))[k] = msgs[(i + 1) + k - 1]
    BY <2>1, <2>2, SubSeqProperties
  <2>4. \A k \in 1..(Len(msgs) - i) : (i + 1) + k - 1 = i + k
    BY <2>1
  <2> DEFINE len == Len(msgs)
  <2>5. ~(i + 1 <= len) => len - i = 0
    <3>1. i \in Int /\ len \in Int /\ i <= len
      BY <2>1
    <3> HIDE DEF len
    <3> QED
      BY <3>1
  <2>6. Len(SubSeq(msgs, i + 1, Len(msgs))) = Len(msgs) - i
    BY <2>1, <2>3, <2>5
  <2>7. ASSUME NEW k \in 1..(Len(msgs) - i)
        PROVE  SubSeq(msgs, i + 1, Len(msgs))[k] = msgs[i + k]
    <3>1. k \in 1..(Len(msgs) - (i + 1) + 1)
      BY <2>1
    <3> QED
      BY <2>3, <2>4, <3>1
  <2> QED
    BY <2>3, <2>6, <2>7
<1>4. ASSUME NEW hi \in 0..Len(msgs)
      PROVE  /\ Reverse(SubSeq(msgs, 1, hi)) \in Seq(T)
             /\ Len(Reverse(SubSeq(msgs, 1, hi))) = hi
             /\ \A k \in 1..hi :
                   Reverse(SubSeq(msgs, 1, hi))[k] = msgs[hi + 1 - k]
  <2> DEFINE q == SubSeq(msgs, 1, hi)
  <2>1. q \in Seq(T) /\ Len(q) = hi /\ \A k \in 1..hi : q[k] = msgs[k]
    BY FrontIs
  <2> HIDE DEF q
  <2>2. hi \in Nat
    BY <1>1
  <2>3. Reverse(q) = [k \in 1..hi |-> q[(hi - k) + 1]]
    BY <2>1 DEF Reverse
  <2>4. \A k \in 1..hi : (hi - k) + 1 \in 1..hi /\ (hi - k) + 1 = hi + 1 - k
    BY <2>2
  <2>5. \A k \in 1..hi : q[(hi - k) + 1] \in T
    BY <2>1, <2>4
  <2>6. Reverse(q) \in Seq(T) /\ Len(Reverse(q)) = hi
    BY <2>2, <2>3, <2>5
  <2>7. \A k \in 1..hi : Reverse(q)[k] = msgs[hi + 1 - k]
    BY <2>1, <2>3, <2>4
  <2> QED
    BY <2>6, <2>7 DEF q
<1> DEFINE from == FromNextTo(msgs, anchor, way)
           rest(p) == FromNextTo(msgs, from[p].id, way)
<1>5. CASE way = "forward"
  <2>1. PICK i \in 0..Len(msgs) : i = Place(msgs, anchor)
    BY <1>2
  <2>2. from = SubSeq(msgs, i + 1, Len(msgs))
    BY <1>5, <2>1 DEF FromNextTo
  <2> HIDE DEF from
  <2>3. /\ from \in Seq(T) /\ Len(from) = Len(msgs) - i
        /\ \A k \in 1..(Len(msgs) - i) : from[k] = msgs[i + k]
    BY <1>3, <2>2
  <2>4. ASSUME NEW p \in DOMAIN from
        PROVE  rest(p) \in Seq(T) /\ Behind(rest(p), from, p)
    <3>1. /\ p \in 1..(Len(msgs) - i) /\ p \in Int /\ i \in Int
          /\ i + p \in 1..Len(msgs) /\ i + p \in 0..Len(msgs)
      BY <1>1, <2>3
    <3>2. from[p] = msgs[i + p]
      BY <2>3, <3>1
    <3>3. Place(msgs, from[p].id) = i + p
      BY <1>1, <3>1, <3>2, PlaceIs
    <3>4. rest(p) = SubSeq(msgs, (i + p) + 1, Len(msgs))
      BY <1>5, <3>3 DEF FromNextTo
    <3>5. PICK j \in 0..Len(msgs) : j = i + p
      BY <3>1
    <3> HIDE DEF rest
    <3>6. /\ rest(p) \in Seq(T) /\ Len(rest(p)) = Len(msgs) - j
          /\ \A k \in 1..(Len(msgs) - j) : rest(p)[k] = msgs[j + k]
      BY <1>3, <3>4, <3>5
    <3>7. Len(rest(p)) = Len(from) - p
      BY <1>1, <2>3, <3>1, <3>5, <3>6
    <3>8. ASSUME NEW k \in DOMAIN rest(p)
          PROVE  rest(p)[k] = from[p + k]
      <4>1. k \in 1..(Len(msgs) - j)
        BY <3>6
      <4>2. p + k \in 1..(Len(msgs) - i) /\ i + (p + k) = j + k
        BY <1>1, <3>1, <3>5, <4>1
      <4> QED
        BY <2>3, <3>6, <4>1, <4>2
    <3> QED
      BY <3>6, <3>7, <3>8 DEF Behind
  <2> QED
    BY <2>3, <2>4 DEF from
<1>6. CASE way = "backward"
  <2>1. PICK hi \in 0..Len(msgs) :
           hi = IF Place(msgs, anchor) = 0 THEN Len(msgs)
                ELSE Place(msgs, anchor) - 1
    <3>1. (IF Place(msgs, anchor) = 0 THEN Len(msgs)
           ELSE Place(msgs, anchor) - 1) \in 0..Len(msgs)
      BY <1>1, <1>2
    <3> QED
      BY <3>1
  <2>2. from = Reverse(SubSeq(msgs, 1, hi))
    BY <1>6, <2>1 DEF FromNextTo
  <2> HIDE DEF from
  <2>3. /\ from \in Seq(T) /\ Len(from) = hi
        /\ \A k \in 1..hi : from[k] = msgs[hi + 1 - k]
    BY <1>4, <2>2
  <2>4. ASSUME NEW p \in DOMAIN from
        PROVE  rest(p) \in Seq(T) /\ Behind(rest(p), from, p)
    <3>1. /\ p \in 1..hi /\ p \in Int /\ hi \in Int
          /\ hi + 1 - p \in 1..Len(msgs) /\ hi + 1 - p # 0
          /\ (hi + 1 - p) - 1 \in 0..Len(msgs) /\ (hi + 1 - p) - 1 = hi - p
      BY <1>1, <2>3
    <3>2. from[p] = msgs[hi + 1 - p]
      BY <2>3, <3>1
    <3>3. Place(msgs, from[p].id) = hi + 1 - p
      BY <1>1, <3>1, <3>2, PlaceIs
    <3>4. PICK j \in 0..Len(msgs) : j = hi - p
      BY <3>1
    <3>5. rest(p) = Reverse(SubSeq(msgs, 1, j))
      BY <1>6, <3>1, <3>3, <3>4 DEF FromNextTo
    <3> HIDE DEF rest
    <3>6. /\ rest(p) \in Seq(T) /\ Len(rest(p)) = j
          /\ \A k \in 1..j : rest(p)[k] = msgs[j + 1 - k]
      BY <1>4, <3>5
    <3>7. ASSUME NEW k \in DOMAIN rest(p)
          PROVE  rest(p)[k] = from[p + k]
      <4>1. k \in 1..j
        BY <3>6
      <4>2. p + k \in 1..hi /\ hi + 1 - (p + k) = j + 1 - k
        BY <3>1, <3>4, <4>1
      <4> QED
        BY <2>3, <3>6, <4>1, <4>2
    <3> QED
      BY <2>3, <3>4, <3>6, <3>7 DEF Behind
  <2> QED
    BY <2>3, <2>4 DEF from
<1> QED
  BY <1>5, <1>6

(* An answer is the front of the matches of what the search looks at.      *)
LEMMA AnswerIs ==
    ASSUME NEW T, NEW msgs \in Seq(T), \A m \in T : m.id \in Nat,
           Ordered(msgs), NEW anchor, NEW way \in {"backward", "forward"},
           NEW limit \in Nat
    PROVE  LET found == Matching(FromNextTo(msgs, anchor, way))
               answer == Search(msgs, anchor, way, limit)
           IN  /\ answer.has_more <=> limit < Len(found)
               /\ limit < Len(found) =>
                     answer.messages = SubSeq(found, 1, limit)
               /\ ~(limit < Len(found)) => answer.messages = found
<1> DEFINE found == Matching(FromNextTo(msgs, anchor, way))
<1>1. found \in Seq(T) /\ Len(found) \in Nat
  <2>1. FromNextTo(msgs, anchor, way) \in Seq(T)
    BY GoesOn
  <2>2. found \in Seq(T)
    BY <2>1, MatchingIs
  <2> HIDE DEF found
  <2> QED
    BY <2>2
<1>2. /\ Search(msgs, anchor, way, limit).has_more <=> Len(found) > limit
      /\ Search(msgs, anchor, way, limit).messages =
            SubSeq(found, 1, Min({limit, Len(found)}))
  BY DEF Search
<1> HIDE DEF found
<1>3. Min({limit, Len(found)}) =
          IF limit < Len(found) THEN limit ELSE Len(found)
  <2>1. \A x, y \in Int : Min({x, y}) = IF x < y THEN x ELSE y
    BY DEF Min
  <2> QED
    BY <1>1, <2>1
<1>4. SubSeq(found, 1, Len(found)) = found
  BY <1>1, SubSeqFull
<1> QED
  BY <1>1, <1>2, <1>3, <1>4 DEF found

(* A search that is repeated from the last match of an answer goes on      *)
(* where the answer ended.                                                 *)
GoesOnFrom(msgs, anchor, way, limit) ==
    LET answer == Search(msgs, anchor, way, limit).messages
    IN Search(msgs, anchor, way, limit + 1).messages =
           answer \o Search(msgs, Last(answer).id, way, 1).messages

(* It does, in both directions.                                            *)
LEMMA SearchGoesOn ==
    ASSUME NEW T, NEW msgs \in Seq(T), \A m \in T : m.id \in Nat,
           Ordered(msgs), NEW anchor, NEW way \in {"backward", "forward"},
           NEW limit \in Nat \ {0}, Search(msgs, anchor, way, limit).has_more
    PROVE  GoesOnFrom(msgs, anchor, way, limit)
<1> DEFINE from == FromNextTo(msgs, anchor, way)
           found == Matching(from)
           answer == Search(msgs, anchor, way, limit).messages
           last == Last(answer).id
           rest == FromNextTo(msgs, last, way)
           more == Matching(rest)
<1>1. /\ from \in Seq(T)
      /\ \A p \in DOMAIN from :
            /\ FromNextTo(msgs, from[p].id, way) \in Seq(T)
            /\ Behind(FromNextTo(msgs, from[p].id, way), from, p)
  BY GoesOn
<1>2. /\ limit < Len(found) /\ answer = SubSeq(found, 1, limit)
  BY AnswerIs
<1>3. Search(msgs, anchor, way, limit + 1).messages =
          IF limit + 1 < Len(found) THEN SubSeq(found, 1, limit + 1)
          ELSE found
  <2>1. limit + 1 \in Nat
    OBVIOUS
  <2> QED
    BY <2>1, AnswerIs
<1> HIDE DEF last
<1>4. Search(msgs, last, way, 1).messages =
          IF 1 < Len(more) THEN SubSeq(more, 1, 1) ELSE more
  <2>1. 1 \in Nat
    OBVIOUS
  <2> QED
    BY <2>1, AnswerIs
<1> HIDE DEF from
<1>5. /\ found \in Seq(T) /\ Len(found) \in Nat
      /\ \E at : Picks(at, found, from)
  <2>1. found \in Seq(T)
    BY <1>1, MatchingIs
  <2>2. Len(found) \in Nat
    <3> HIDE DEF found
    <3> QED
      BY <2>1
  <2> QED
    BY <1>1, <2>1, <2>2, MatchingIs
<1> HIDE DEF found, answer
<1>6. PICK at : Picks(at, found, from)
  BY <1>5
<1>7. limit \in 1..Len(found) /\ limit + 1 \in 1..Len(found)
  BY <1>2, <1>5
<1>8. PICK p \in DOMAIN from : p = at[limit]
  BY <1>6, <1>7 DEF Picks
<1>9. last = from[p].id
  <2>1. answer \in Seq(T) /\ Len(answer) = limit /\ answer[limit] = found[limit]
    <3>1. limit \in 0..Len(found) /\ limit \in 1..limit
      BY <1>7
    <3> QED
      BY <1>2, <1>5, <3>1, PrefixIs
  <2>2. Last(answer) = answer[limit]
    BY <2>1 DEF Last
  <2> QED
    BY <1>6, <1>7, <1>8, <2>1, <2>2 DEF Picks, last
<1>10. /\ rest \in Seq(T) /\ Len(rest) = Len(from) - p
       /\ \A k \in DOMAIN rest : rest[k] = from[p + k]
  BY <1>1, <1>9 DEF Behind
<1> HIDE DEF rest
<1>11. /\ more \in Seq(T) /\ Len(more) \in Nat
       /\ \E to : Picks(to, more, rest)
  <2>1. more \in Seq(T)
    BY <1>10, MatchingIs
  <2>2. Len(more) \in Nat
    <3> HIDE DEF more
    <3> QED
      BY <2>1
  <2> QED
    BY <1>10, <2>1, <2>2, MatchingIs
<1> HIDE DEF more
<1>12. PICK to : Picks(to, more, rest)
  BY <1>11
<1>13. /\ Len(from) \in Nat /\ DOMAIN from = 1..Len(from) /\ p \in 1..Len(from)
       /\ DOMAIN rest = 1..(Len(from) - p)
  BY <1>1, <1>10
<1>14. PICK next \in DOMAIN from : next = at[limit + 1]
  BY <1>6, <1>7 DEF Picks
<1>15. p < next /\ next - p \in DOMAIN rest /\ p + (next - p) = next
  <2>1. p < next
    BY <1>6, <1>7, <1>8, <1>14 DEF Picks
  <2> QED
    BY <1>13, <2>1
<1>16. rest[next - p].hit
  BY <1>6, <1>7, <1>10, <1>14, <1>15 DEF Picks
<1>17. PICK k \in 1..Len(more) : to[k] = next - p
  BY <1>12, <1>15, <1>16 DEF Picks
<1>18. 1 \in 1..Len(more)
  BY <1>11
<1>19. PICK h \in DOMAIN rest : h = to[1]
  BY <1>12, <1>18 DEF Picks
<1>20. h <= next - p
  <2>1. k = 1 \/ 1 < k
    BY <1>11
  <2> QED
    BY <1>12, <1>13, <1>17, <1>18, <1>19, <2>1 DEF Picks
<1>21. p + h \in DOMAIN from /\ from[p + h].hit /\ p < p + h
  <2>1. p + h \in DOMAIN from /\ p < p + h
    BY <1>13
  <2>2. rest[h].hit
    BY <1>12, <1>18, <1>19 DEF Picks
  <2> QED
    BY <1>10, <2>1, <2>2
<1>22. PICK l \in 1..Len(found) : at[l] = p + h
  BY <1>6, <1>21 DEF Picks
<1>23. limit < l
  <2> SUFFICES ASSUME ~(limit < l)
               PROVE  FALSE
    OBVIOUS
  <2>1. l < limit \/ l = limit
    BY <1>5, <1>7
  <2>2. at[l] <= p
    BY <1>6, <1>7, <1>8, <1>13, <1>21, <1>22, <2>1 DEF Picks
  <2> QED
    BY <1>13, <1>21, <1>22, <2>2
<1>24. next <= p + h
  <2>1. limit + 1 < l \/ l = limit + 1
    BY <1>5, <1>7, <1>23
  <2>2. limit + 1 < l => next < at[l]
    BY <1>6, <1>7, <1>14 DEF Picks
  <2> QED
    BY <1>13, <1>14, <1>21, <1>22, <2>1, <2>2
<1>25. p + h = next
  <2>1. p \in Int /\ next \in Int /\ h \in Int
    BY <1>13, <1>14, <1>19
  <2> QED
    BY <1>20, <1>24, <2>1
<1>26. more[1] = found[limit + 1]
  <2>1. more[1] = rest[h] /\ rest[h] = from[p + h]
    BY <1>10, <1>12, <1>18, <1>19 DEF Picks
  <2>2. found[limit + 1] = from[next]
    BY <1>6, <1>7, <1>14 DEF Picks
  <2> QED
    BY <1>25, <2>1, <2>2
<1>27. Search(msgs, last, way, 1).messages = <<found[limit + 1]>>
  <2>1. SubSeq(more, 1, 1) = <<more[1]>> /\ (Len(more) = 1 => more = <<more[1]>>)
    <3>1. SubSeq(more, 1, 1) = SubSeq(more, 1, 0) \o <<more[1]>>
      <4>1. 1 \in 1..Len(more) /\ 1 - 1 = 0
        BY <1>18
      <4> QED
        BY <1>11, <4>1, SubSeqRecursiveSecond
    <3>2. SubSeq(more, 1, 0) = <<>>
      BY SubSeqEmpty
    <3>3. more[1] \in T
      BY <1>11, <1>18
    <3>4. <<>> \o <<more[1]>> = <<more[1]>>
      BY <3>3, ConcatEmptySeq
    <3>5. SubSeq(more, 1, Len(more)) = more
      BY <1>11, SubSeqFull
    <3>6. SubSeq(more, 1, 1) = <<more[1]>>
      BY <3>1, <3>2, <3>4
    <3>7. Len(more) = 1 => more = SubSeq(more, 1, 1)
      BY <3>5
    <3> QED
      BY <3>6, <3>7
  <2>2. 1 < Len(more) \/ Len(more) = 1
    <3>1. PICK len \in Nat : len = Len(more)
      BY <1>11
    <3>2. 1 <= len
      BY <1>18, <3>1
    <3>3. 1 < len \/ len = 1
      BY <3>2
    <3> QED
      BY <3>1, <3>3
  <2> QED
    BY <1>4, <1>26, <2>1, <2>2
<1>28. Search(msgs, anchor, way, limit + 1).messages =
           SubSeq(found, 1, limit + 1)
  <2>1. limit + 1 < Len(found) \/ Len(found) = limit + 1
    BY <1>5, <1>7
  <2>2. SubSeq(found, 1, Len(found)) = found
    BY <1>5, SubSeqFull
  <2> QED
    BY <1>3, <2>1, <2>2
<1>29. SubSeq(found, 1, limit + 1) = answer \o <<found[limit + 1]>>
  <2>1. /\ 1 \in 1..Len(found) /\ limit + 1 \in 1..Len(found)
        /\ (limit + 1) - 1 = limit
    BY <1>5, <1>7
  <2>2. SubSeq(found, 1, limit + 1) =
            SubSeq(found, 1, (limit + 1) - 1) \o <<found[limit + 1]>>
    BY <1>5, <2>1, SubSeqRecursiveSecond
  <2> QED
    BY <1>2, <2>1, <2>2
<1> QED
  BY <1>27, <1>28, <1>29 DEF answer, last, GoesOnFrom

(* From one message of the list another that matches is found in the       *)
(* direction in which it lies, and in no other.                            *)
LEMMA SearchFinds ==
    ASSUME NEW T, NEW msgs \in Seq(T), \A m \in T : m.id \in Nat,
           Ordered(msgs), NEW j \in DOMAIN msgs, NEW i \in DOMAIN msgs,
           msgs[i].hit, i # j, NEW way \in {"backward", "forward"}
    PROVE  msgs[i] \in
                  Range(Search(msgs, msgs[j].id, way, Len(msgs)).messages)
              <=> way = IF i < j THEN "backward" ELSE "forward"
<1> DEFINE from == FromNextTo(msgs, msgs[j].id, way)
           found == Matching(from)
<1>1. /\ Len(msgs) \in Nat /\ DOMAIN msgs = 1..Len(msgs)
      /\ \A k \in 1..Len(msgs) : msgs[k] \in T
  OBVIOUS
<1>2. Place(msgs, msgs[j].id) = j /\ j # 0
  BY <1>1, PlaceIs
<1>3. Ordered(msgs) => \A k \in DOMAIN msgs : msgs[k] = msgs[i] => k = i
  <2> SUFFICES ASSUME NEW k \in DOMAIN msgs, msgs[k] = msgs[i], k # i
               PROVE  FALSE
    OBVIOUS
  <2>1. k < i \/ i < k
    BY <1>1
  <2> QED
    BY <1>1, <2>1 DEF Ordered
<1>4. /\ from \in Seq(T) /\ Len(from) <= Len(msgs)
      /\ msgs[i] \in Range(from) <=>
            way = IF i < j THEN "backward" ELSE "forward"
  <2>1. CASE way = "forward"
    <3>1. from = SubSeq(msgs, j + 1, Len(msgs))
      BY <1>2, <2>1 DEF FromNextTo
    <3> HIDE DEF from
    <3> DEFINE len == Len(msgs)
    <3>2. /\ len \in Int /\ j \in Int /\ i \in Int /\ j + 1 \in Int /\ 1 <= j
          /\ j <= len /\ 1 <= i /\ i <= len
      BY <1>1
    <3>3. \A k \in (j + 1)..len : msgs[k] \in T
      BY <1>1
    <3>4. /\ from \in Seq(T)
          /\ Len(from) = IF j + 1 <= len THEN len - (j + 1) + 1 ELSE 0
          /\ \A k \in 1..(len - (j + 1) + 1) : from[k] = msgs[(j + 1) + k - 1]
      BY <3>1, <3>2, <3>3, SubSeqProperties
    <3> HIDE DEF len
    <3>5. Len(from) = len - j /\ len - (j + 1) + 1 = len - j
      BY <3>2, <3>4
    <3>6. ASSUME NEW k \in 1..(len - j)
          PROVE  from[k] = msgs[j + k] /\ j + k \in 1..len
      <4>1. (j + 1) + k - 1 = j + k /\ j + k \in 1..len
        BY <3>2
      <4> QED
        BY <3>4, <3>5, <4>1
    <3>7. msgs[i] \in Range(from) <=> \E k \in 1..(len - j) : j + k = i
      <4>1. DOMAIN from = 1..(len - j)
        BY <3>4, <3>5
      <4> QED
        BY <1>1, <1>3, <3>6, <4>1 DEF Range, len
    <3>8. (\E k \in 1..(len - j) : j + k = i) <=> ~(i < j)
      <4>1. ~(i < j) => i - j \in 1..(len - j) /\ j + (i - j) = i
        BY <3>2
      <4> QED
        BY <3>2, <4>1
    <3> QED
      BY <2>1, <3>2, <3>4, <3>5, <3>7, <3>8 DEF len
  <2>2. CASE way = "backward"
    <3>1. from = Reverse(SubSeq(msgs, 1, j - 1))
      BY <1>2, <2>2 DEF FromNextTo
    <3> HIDE DEF from
    <3> DEFINE front == SubSeq(msgs, 1, j - 1)
               hi == j - 1
    <3>2. hi \in 0..Len(msgs) /\ hi \in Nat
      BY <1>1
    <3>3. /\ front \in Seq(T) /\ Len(front) = hi
          /\ \A k \in 1..hi : front[k] = msgs[k]
      BY <3>2, PrefixIs
    <3> HIDE DEF front
    <3>4. from = [k \in 1..hi |-> front[(hi - k) + 1]]
      BY <3>1, <3>3 DEF Reverse, front
    <3> HIDE DEF hi
    <3>5. \A k \in 1..hi : (hi - k) + 1 \in 1..hi
      BY <3>2
    <3>6. \A k \in 1..hi : front[(hi - k) + 1] \in T
      BY <3>3, <3>5
    <3>7. /\ from \in Seq(T) /\ Len(from) = hi /\ DOMAIN from = 1..hi
          /\ \A k \in 1..hi : from[k] = msgs[(hi - k) + 1]
      BY <3>2, <3>3, <3>4, <3>5, <3>6
    <3>8. msgs[i] \in Range(from) <=> i \in 1..hi
      <4>1. 1..hi \subseteq DOMAIN msgs
        BY <1>1, <3>2
      <4>2. i \in 1..hi => (hi - i) + 1 \in 1..hi /\ (hi - ((hi - i) + 1)) + 1 = i
        BY <3>2
      <4>3. msgs[i] \in Range(from) => i \in 1..hi
        BY <1>3, <3>5, <3>7, <4>1 DEF Range
      <4>4. i \in 1..hi => msgs[i] \in Range(from)
        BY <3>7, <4>2 DEF Range
      <4> QED
        BY <4>3, <4>4
    <3>9. i \in 1..hi <=> i < j
      BY <1>1 DEF hi
    <3> QED
      BY <2>2, <3>2, <3>7, <3>8, <3>9
  <2> QED
    BY <2>1, <2>2
<1> HIDE DEF from
<1>5. /\ found \in Seq(T) /\ Len(found) <= Len(from)
      /\ \E at : Picks(at, found, from)
  BY <1>4, MatchingIs
<1>6. Search(msgs, msgs[j].id, way, Len(msgs)).messages =
          IF Len(msgs) < Len(found) THEN SubSeq(found, 1, Len(msgs)) ELSE found
  BY <1>1, AnswerIs DEF from
<1> HIDE DEF found
<1>7. Search(msgs, msgs[j].id, way, Len(msgs)).messages = found
  <2>1. Len(found) \in Nat /\ Len(from) \in Nat
    BY <1>4, <1>5
  <2> QED
    BY <1>1, <1>4, <1>5, <1>6, <2>1
<1>8. msgs[i] \in Range(found) <=> msgs[i] \in Range(from)
  <2>1. DOMAIN found = 1..Len(found)
    BY <1>5
  <2>2. PICK at : Picks(at, found, from)
    BY <1>5
  <2>3. msgs[i] \in Range(found) => msgs[i] \in Range(from)
    BY <2>1, <2>2 DEF Range, Picks
  <2>4. ASSUME NEW k \in DOMAIN from, from[k] = msgs[i]
        PROVE  msgs[i] \in Range(found)
    BY <2>1, <2>2, <2>4 DEF Range, Picks
  <2> QED
    BY <2>3, <2>4 DEF Range
<1> QED
  BY <1>4, <1>7, <1>8
=============================================================================
