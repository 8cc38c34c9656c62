----------------------------- MODULE GridProofs -----------------------------
(***************************************************************************)
(* RunSimulationGrid for every base and every grid: the walk visits each   *)
(* combination once, and, where the labels of options tell them apart, the *)
(* files of each run stay its own.                                         *)
(***************************************************************************)
EXTENDS SimulationGrid, SequenceTheorems, PowerProofs

LEMMA FieldsDiffer ==
  /\ DOMAIN Fields = 1 .. 15
  /\ \A i, j \in 1 .. 15 : Fields[i] = Fields[j] => i = j
  BY DEF Fields

\* The elements of a finite set of numbers are its first, its second and so on.
Rank(P, i) == Cardinality({j \in P : j <= i})

LEMMA RanksFill ==
  ASSUME NEW P \in SUBSET Nat, IsFiniteSet(P)
  PROVE  /\ Cardinality(P) \in Nat
         /\ \A i \in P : Rank(P, i) \in 1 .. Cardinality(P)
         /\ \A i, j \in P : Rank(P, i) = Rank(P, j) => i = j
         /\ \A l \in 1 .. Cardinality(P) : \E i \in P : Rank(P, i) = l
<1> DEFINE UpTo(i) == {j \in P : j <= i}
           n == Cardinality(P)
           f == [i \in P |-> Rank(P, i)]
<1>1. n \in Nat
  BY FS_CardinalityType
<1>2. \A i \in P : /\ UpTo(i) \in SUBSET P /\ IsFiniteSet(UpTo(i)) /\ i \in UpTo(i)
                   /\ Cardinality(UpTo(i)) \in Nat /\ Cardinality(UpTo(i)) <= n
                   /\ Cardinality(UpTo(i)) # 0
  <2> TAKE i \in P
  <2>1. UpTo(i) \in SUBSET P /\ i \in UpTo(i)
    OBVIOUS
  <2>2. IsFiniteSet(UpTo(i)) /\ Cardinality(UpTo(i)) <= n
    BY <2>1, FS_Subset
  <2> QED
    BY <2>1, <2>2, FS_CardinalityType, FS_EmptySet
<1>3. \A i \in P : Rank(P, i) \in 1 .. n
  BY <1>1, <1>2 DEF Rank
<1>4. \A i, j \in P : i < j => Rank(P, i) < Rank(P, j)
  <2> SUFFICES ASSUME NEW i \in P, NEW j \in P, i < j PROVE Rank(P, i) < Rank(P, j)
    OBVIOUS
  <2>1. UpTo(i) \in SUBSET UpTo(j) /\ UpTo(i) # UpTo(j)
    <3>1. \A k \in P : k <= i => k <= j
      OBVIOUS
    <3>2. j \notin UpTo(i) /\ j \in UpTo(j)
      OBVIOUS
    <3> QED
      BY <3>1, <3>2
  <2>2. /\ Cardinality(UpTo(i)) <= Cardinality(UpTo(j))
        /\ Cardinality(UpTo(i)) # Cardinality(UpTo(j))
    BY <1>2, <2>1, FS_Subset
  <2> QED
    BY <1>2, <2>2 DEF Rank
<1>5. \A i, j \in P : Rank(P, i) = Rank(P, j) => i = j
  BY <1>3, <1>4
<1> HIDE DEF UpTo, n
<1>6. f \in Injection(P, 1 .. n)
  BY <1>3, <1>5 DEF Injection, IsInjective
<1>7. IsFiniteSet(1 .. n) /\ Cardinality(1 .. n) = n
  BY <1>1, FS_Interval
<1>8. f \in Surjection(P, 1 .. n)
  BY <1>6, <1>7, FS_Injection DEF n
<1>9. \A l \in 1 .. n : \E i \in P : Rank(P, i) = l
  BY <1>8 DEF Surjection
<1> QED
  BY <1>1, <1>3, <1>5, <1>9 DEF n
-----------------------------------------------------------------------------
Depth == Len(Dimensions)
Options(l) == Len(Grid[Dimensions[l]])

\* There is one level of the walk for each field that is populated.
LEMMA Levels ==
  /\ Depth \in Nat /\ DOMAIN Dimensions = 1 .. Depth
  /\ \A l \in 1 .. Depth : Dimensions[l] \in Populated /\ Options(l) \in Nat
  /\ \A k, l \in 1 .. Depth : Dimensions[k] = Dimensions[l] => k = l
  /\ \A f \in Populated : \E l \in 1 .. Depth : Dimensions[l] = f
<1> DEFINE at == {i \in DOMAIN Fields : Fields[i] \in Populated}
           n == Cardinality(at)
           In(l) == CHOOSE i \in at : Rank(at, i) = l
<1>1. at \in SUBSET (1 .. 15) /\ at \in SUBSET Nat /\ IsFiniteSet(at)
  <2>1. at \in SUBSET (1 .. 15)
    BY FieldsDiffer
  <2>2. \A k \in Nat : IsFiniteSet(1 .. k)
    BY FS_Interval
  <2>3. IsFiniteSet(1 .. 15)
    <3>1. 15 \in Nat
      OBVIOUS
    <3> QED
      BY <2>2, <3>1, Zenon
  <2> QED
    BY <2>1, <2>3, FS_Subset
<1>2. Dimensions = [l \in 1 .. n |-> Fields[In(l)]]
  BY DEF Dimensions, Rank
<1>3. /\ n \in Nat
      /\ \A i \in at : Rank(at, i) \in 1 .. n
      /\ \A i, j \in at : Rank(at, i) = Rank(at, j) => i = j
      /\ \A l \in 1 .. n : \E i \in at : Rank(at, i) = l
  BY <1>1, RanksFill
<1>4. \A f \in Populated : \E i \in at : Fields[i] = f
  BY DEF Populated, Range
<1>5. \A i \in at : Fields[i] \in Populated
  OBVIOUS
<1>6. \A i, j \in at : Fields[i] = Fields[j] => i = j
  BY <1>1, FieldsDiffer
<1> HIDE DEF at, n
<1>7. \A l \in 1 .. n : In(l) \in at /\ Rank(at, In(l)) = l
  BY <1>3
<1> HIDE DEF In
<1>8. Dimensions \in [1 .. n -> Populated]
  BY <1>2, <1>5, <1>7
<1>9. Depth = n /\ DOMAIN Dimensions = 1 .. n
  BY <1>3, <1>8 DEF Depth
<1>10. \A f \in Populated : Len(Grid[f]) \in Nat
  BY GridAssumption DEF Populated
<1>11. \A k, l \in 1 .. n : Dimensions[k] = Dimensions[l] => k = l
  BY <1>2, <1>6, <1>7
<1>12. \A f \in Populated : \E l \in 1 .. n : Dimensions[l] = f
  <2> SUFFICES ASSUME NEW f \in Populated PROVE \E l \in 1 .. n : Dimensions[l] = f
    OBVIOUS
  <2>1. PICK i \in at : Fields[i] = f
    BY <1>4
  <2>2. Rank(at, i) \in 1 .. n /\ In(Rank(at, i)) = i
    BY <1>3, <1>7
  <2> QED
    BY <1>2, <2>1, <2>2
<1> QED
  BY <1>3, <1>8, <1>9, <1>10, <1>11, <1>12 DEF Options
-----------------------------------------------------------------------------
\* One option for each level.
Paths == {p \in [1 .. Depth -> Nat] : \A l \in 1 .. Depth : p[l] \in 1 .. Options(l)}

LEMMA SamePath ==
  ASSUME NEW p \in Paths, NEW q \in Paths, \A l \in 1 .. Depth : p[l] = q[l]
  PROVE  p = q
<1>1. p = [l \in 1 .. Depth |-> p[l]] /\ q = [l \in 1 .. Depth |-> q[l]]
  BY DEF Paths
<1> QED
  BY <1>1

\* The path p turns off to an earlier option than the walk.
Behind(p, c) ==
  \E l \in 1 .. Depth : l <= Len(c) /\ p[l] < c[l] /\ \A k \in 1 .. l - 1 : p[k] = c[k]

\* The paths the walk has been down when it is at c.
Done(c) == {p \in Paths : c = <<>> \/ Behind(p, c)}

\* Where the walk can be: it may have run out of options at the last level only.
OnWalk(c) ==
  /\ c \in Seq(Nat) /\ Len(c) \in 1 .. Depth + 1
  /\ \A l \in 1 .. Len(c) - 1 : c[l] \in 1 .. Options(l)
  /\ Len(c) <= Depth => c[Len(c)] \in 1 .. Options(Len(c)) + 1

LEMMA WalkLength ==
  ASSUME NEW c, OnWalk(c)
  PROVE  /\ c \in Seq(Nat) /\ Len(c) \in 1 .. Depth + 1
         /\ Len(c) > Depth => Len(c) = Depth + 1
         /\ ~(Len(c) > Depth) => Len(c) <= Depth
  BY Levels DEF OnWalk

\* Back at the level above.
Back(c) ==
  LET up == Front(c)
  IN  IF up = <<>> THEN <<>> ELSE [up EXCEPT ![Len(up)] = @ + 1]

LEMMA BackShape ==
  ASSUME NEW c, OnWalk(c)
  PROVE  /\ Front(c) \in Seq(Nat) /\ Len(Front(c)) = Len(c) - 1
         /\ \A l \in 1 .. Len(c) - 1 : Front(c)[l] = c[l]
         /\ Len(c) = 1 => Front(c) = <<>> /\ Back(c) = <<>>
         /\ Len(c) # 1 => /\ Back(c) # <<>> /\ OnWalk(Back(c)) /\ Len(Back(c)) = Len(c) - 1
                          /\ \A l \in 1 .. Len(c) - 2 : Back(c)[l] = c[l]
                          /\ Back(c)[Len(c) - 1] = c[Len(c) - 1] + 1
<1> DEFINE m == Len(c)
           up == SubSeq(c, 1, m - 1)
<1>1. m \in Nat /\ m >= 1 /\ c \in Seq(Nat) /\ m <= Depth + 1 /\ Depth \in Nat
  BY Levels DEF OnWalk
<1>2. \A i \in 1 .. m - 1 : c[i] \in Nat
  BY <1>1, ElementOfSeq
<1>3. up \in Seq(Nat) /\ Len(up) = m - 1 /\ \A l \in 1 .. m - 1 : up[l] = c[l]
  <2>1. /\ up \in Seq(Nat) /\ Len(up) = (IF 1 <= m - 1 THEN (m - 1) - 1 + 1 ELSE 0)
        /\ \A l \in 1 .. (m - 1) - 1 + 1 : up[l] = c[1 + l - 1]
    <3>1. 1 \in Int /\ m - 1 \in Int
      BY <1>1
    <3> HIDE DEF m
    <3> QED
      BY <1>2, <3>1, SubSeqProperties
  <2> HIDE DEF m, up
  <2> QED
    BY <1>1, <2>1
<1>4. Front(c) = up /\ Back(c) = IF up = <<>> THEN <<>> ELSE [up EXCEPT ![Len(up)] = @ + 1]
  BY DEF Front, Back
<1>5. ASSUME m = 1
      PROVE  up = <<>>
  BY <1>3, <1>5, EmptySeq
<1>6. ASSUME m # 1
      PROVE  LET b == [up EXCEPT ![Len(up)] = @ + 1]
             IN  /\ up # <<>> /\ b # <<>> /\ OnWalk(b) /\ Len(b) = m - 1
                 /\ \A l \in 1 .. m - 2 : b[l] = c[l]
                 /\ b[m - 1] = c[m - 1] + 1
  <2> DEFINE b == [up EXCEPT ![m - 1] = up[m - 1] + 1]
  <2>1. m - 1 \in 1 .. m - 1 /\ m - 1 # 0 /\ m - 1 <= Depth
    <3> HIDE DEF m
    <3> QED
      BY <1>1, <1>6
  <2>2. c[m - 1] \in 1 .. Options(m - 1) /\ c[m - 1] + 1 \in Nat
    BY <2>1 DEF OnWalk
  <2>3. /\ b \in Seq(Nat) /\ Len(b) = m - 1
        /\ \A l \in 1 .. m - 1 : b[l] = IF l = m - 1 THEN c[m - 1] + 1 ELSE c[l]
    <3>1. up[m - 1] + 1 \in Nat /\ m - 1 \in 1 .. Len(up)
      BY <1>3, <2>1, <2>2
    <3>2. /\ b \in Seq(Nat) /\ Len(b) = Len(up)
          /\ \A j \in 1 .. Len(up) : b[j] = IF j = m - 1 THEN up[m - 1] + 1 ELSE up[j]
      <4> HIDE DEF m, up
      <4> QED
        BY <1>3, <3>1, ExceptSeq
    <3> QED
      BY <1>3, <2>1, <3>2
  <2>4. up # <<>> /\ b # <<>>
    BY <1>3, <2>1, <2>3, EmptySeq
  <2>5. \A l \in 1 .. m - 2 : b[l] = c[l] /\ c[l] \in 1 .. Options(l)
    <3>1. \A l \in 1 .. m - 2 : l \in 1 .. m - 1 /\ l # m - 1
      BY <1>1
    <3> QED
      BY <2>3, <3>1 DEF OnWalk
  <2>6. b[m - 1] = c[m - 1] + 1
    BY <2>1, <2>3
  <2> HIDE DEF m, b
  <2>7. OnWalk(b)
    <3>1. Len(b) \in 1 .. Depth + 1
      BY <1>1, <2>1, <2>3
    <3>2. \A l \in 1 .. Len(b) - 1 : b[l] \in 1 .. Options(l)
      <4>1. m - 1 - 1 = m - 2
        BY <1>1
      <4> QED
        BY <2>3, <2>5, <4>1
    <3>3. b[Len(b)] \in 1 .. Options(Len(b)) + 1
      <4>1. Options(m - 1) \in Nat
        BY <2>1, <1>1, Levels
      <4> QED
        BY <2>2, <2>3, <2>6, <4>1
    <3> QED
      BY <2>3, <3>1, <3>2, <3>3 DEF OnWalk
  <2> QED
    BY <1>3, <2>3, <2>4, <2>5, <2>6, <2>7 DEF b, m
<1> HIDE DEF m, up
<1> QED
  BY <1>1, <1>3, <1>4, <1>5, <1>6 DEF m

\* On the way down nothing is finished.
LEMMA DescendDone ==
  ASSUME NEW c, OnWalk(c), Len(c) <= Depth, c[Len(c)] <= Options(Len(c))
  PROVE  OnWalk(Append(c, 1)) /\ Done(Append(c, 1)) = Done(c)
<1> DEFINE m == Len(c)
           a == Append(c, 1)
<1>1. m \in Nat /\ m >= 1 /\ c \in Seq(Nat) /\ Depth \in Nat
  BY Levels DEF OnWalk
<1>2. /\ a \in Seq(Nat) /\ a # <<>> /\ Len(a) = m + 1 /\ a[m + 1] = 1
      /\ \A i \in 1 .. m : a[i] = c[i]
  BY <1>1, AppendProperties
<1>3. \A l \in 1 .. Depth : Options(l) \in Nat
  BY Levels
<1>4. c # <<>> /\ m \in 1 .. Depth /\ c[m] \in 1 .. Options(m)
  BY <1>1, <1>3, EmptySeq DEF OnWalk
<1> HIDE DEF m, a
<1>5. OnWalk(a)
  <2>1. \A l \in 1 .. m : a[l] \in 1 .. Options(l)
    <3>1. \A l \in 1 .. m : l # m => l \in 1 .. m - 1
      BY <1>1
    <3> QED
      BY <1>2, <1>4, <3>1 DEF OnWalk, m
  <2>2. Len(a) - 1 = m /\ Len(a) \in 1 .. Depth + 1
    BY <1>1, <1>2, <1>4
  <2>3. Len(a) <= Depth => a[Len(a)] \in 1 .. Options(Len(a)) + 1
    BY <1>1, <1>2, <1>3
  <2> QED
    BY <1>2, <2>1, <2>2, <2>3 DEF OnWalk
<1>6. ASSUME NEW p \in Paths
      PROVE  Behind(p, a) <=> Behind(p, c)
  <2>1. ASSUME NEW l \in 1 .. m
        PROVE  a[l] = c[l] /\ \A k \in 1 .. l - 1 : a[k] = c[k]
    BY <1>1, <1>2
  <2>2. ASSUME NEW l \in 1 .. Depth, l <= m + 1, p[l] < a[l]
        PROVE  l \in 1 .. m
    <3>1. p[l] \in 1 .. Options(l)
      BY DEF Paths
    <3> QED
      BY <1>1, <1>2, <1>3, <2>2, <3>1
  <2>3. Behind(p, a) => Behind(p, c)
    <3> SUFFICES ASSUME Behind(p, a) PROVE Behind(p, c)
      OBVIOUS
    <3>1. PICK l \in 1 .. Depth : l <= m + 1 /\ p[l] < a[l] /\ \A k \in 1 .. l - 1 : p[k] = a[k]
      BY <1>2 DEF Behind
    <3>2. l \in 1 .. m
      BY <2>2, <3>1
    <3> QED
      BY <2>1, <3>1, <3>2 DEF Behind, m
  <2>4. Behind(p, c) => Behind(p, a)
    <3> SUFFICES ASSUME Behind(p, c) PROVE Behind(p, a)
      OBVIOUS
    <3>1. PICK l \in 1 .. Depth : l <= m /\ p[l] < c[l] /\ \A k \in 1 .. l - 1 : p[k] = c[k]
      BY DEF Behind, m
    <3>2. l \in 1 .. m /\ l <= m + 1
      BY <1>1, <3>1
    <3> QED
      BY <1>2, <2>1, <3>1, <3>2 DEF Behind
  <2> QED
    BY <2>3, <2>4
<1> QED
  BY <1>2, <1>4, <1>5, <1>6 DEF Done, a

\* Back at the level above, all that went the way of the walk so far is done.
LEMMA BackDone ==
  ASSUME NEW c, OnWalk(c), NEW p \in Paths
  PROVE  p \in Done(Back(c)) <=>
           \/ \E l \in 1 .. Depth : /\ l <= Len(c) - 1 /\ p[l] < c[l]
                                    /\ \A k \in 1 .. l - 1 : p[k] = c[k]
           \/ \A k \in 1 .. Len(c) - 1 : p[k] = c[k]
<1> DEFINE m == Len(c)
           b == Back(c)
           Earlier == \E l \in 1 .. Depth : /\ l <= m - 1 /\ p[l] < c[l]
                                            /\ \A k \in 1 .. l - 1 : p[k] = c[k]
           Along == \A k \in 1 .. m - 1 : p[k] = c[k]
<1>1. m \in Nat /\ m >= 1 /\ m <= Depth + 1 /\ c \in Seq(Nat) /\ Depth \in Nat
  BY Levels DEF OnWalk
<1>2. /\ m = 1 => b = <<>>
      /\ m # 1 => /\ b # <<>> /\ Len(b) = m - 1 /\ b[m - 1] = c[m - 1] + 1
                  /\ \A l \in 1 .. m - 2 : b[l] = c[l]
  BY BackShape
<1>3. \A l \in 1 .. m - 1 : c[l] \in Nat
  BY <1>1, ElementOfSeq
<1>4. \A l \in 1 .. Depth : p[l] \in Nat
  BY DEF Paths
<1>5. p \in Done(b) <=> b = <<>> \/ Behind(p, b)
  BY DEF Done
<1> SUFFICES p \in Done(b) <=> Earlier \/ Along
  OBVIOUS
<1> HIDE DEF m, b
<1>6. CASE m = 1
  BY <1>2, <1>5, <1>6
<1>7. CASE m # 1
  <2>1. m - 1 \in 1 .. Depth /\ m - 2 \in Nat
    BY <1>1, <1>7
  <2>2. ASSUME Behind(p, b)
        PROVE  Earlier \/ Along
    <3>1. PICK l \in 1 .. Depth : /\ l <= m - 1 /\ p[l] < b[l]
                                  /\ \A k \in 1 .. l - 1 : p[k] = b[k]
      BY <1>2, <1>7, <2>2 DEF Behind
    <3>2. \A k \in 1 .. l - 1 : k \in 1 .. m - 2 /\ p[k] = c[k]
      <4>1. \A k \in 1 .. l - 1 : k \in 1 .. m - 2
        BY <1>1, <3>1
      <4> QED
        BY <1>2, <1>7, <3>1, <4>1
    <3>3. CASE l = m - 1
      <4>1. p[l] < c[l] \/ p[l] = c[l]
        <5>1. p[l] < c[l] + 1 /\ c[l] \in Nat /\ p[l] \in Nat
          BY <1>2, <1>3, <1>4, <1>7, <2>1, <3>1, <3>3
        <5> QED
          BY <5>1
      <4>2. p[l] = c[l] => Along
        <5>1. \A k \in 1 .. m - 1 : k = l \/ k \in 1 .. l - 1
          BY <1>1, <3>3
        <5> QED
          BY <3>2, <5>1
      <4> QED
        BY <3>1, <3>2, <4>1, <4>2
    <3>4. CASE l # m - 1
      <4>1. l \in 1 .. m - 2
        BY <1>1, <3>1, <3>4
      <4> QED
        BY <1>2, <1>7, <3>1, <3>2, <4>1
    <3> QED
      BY <3>3, <3>4
  <2>3. ASSUME NEW l \in 1 .. Depth, l <= m - 1, p[l] < c[l],
               \A k \in 1 .. l - 1 : p[k] = c[k]
        PROVE  Behind(p, b)
    <3>1. \A k \in 1 .. l - 1 : k \in 1 .. m - 2
      BY <1>1, <2>3
    <3>2. p[l] < b[l]
      <4>1. CASE l = m - 1
        BY <1>2, <1>3, <1>4, <1>7, <2>1, <2>3, <4>1
      <4>2. CASE l # m - 1
        <5>1. l \in 1 .. m - 2
          BY <1>1, <2>3, <4>2
        <5> QED
          BY <1>2, <1>7, <2>3, <5>1
      <4> QED
        BY <4>1, <4>2
    <3>3. \A k \in 1 .. l - 1 : p[k] = b[k]
      BY <1>2, <1>7, <2>3, <3>1
    <3> QED
      BY <1>2, <1>7, <2>3, <3>2, <3>3 DEF Behind
  <2>4. ASSUME Along
        PROVE  Behind(p, b)
    <3>1. m - 1 \in 1 .. m - 1 /\ p[m - 1] = c[m - 1] /\ p[m - 1] < b[m - 1]
      <4>1. m - 1 \in 1 .. m - 1
        BY <1>1, <1>7
      <4>2. c[m - 1] \in Nat /\ b[m - 1] = c[m - 1] + 1
        BY <1>2, <1>3, <1>7, <4>1
      <4>3. p[m - 1] = c[m - 1]
        BY <2>4, <4>1
      <4> QED
        BY <4>1, <4>2, <4>3
    <3>2. \A k \in 1 .. m - 1 - 1 : p[k] = b[k]
      <4>1. \A k \in 1 .. m - 1 - 1 : k \in 1 .. m - 1 /\ k \in 1 .. m - 2
        BY <1>1
      <4> QED
        BY <1>2, <1>7, <2>4, <4>1
    <3> QED
      BY <1>2, <1>7, <2>1, <3>1, <3>2 DEF Behind
  <2> QED
    BY <1>2, <1>5, <1>7, <2>2, <2>3, <2>4
<1> QED
  BY <1>6, <1>7

\* A level without further options adds nothing to what is done.
LEMMA BacktrackDone ==
  ASSUME NEW c, OnWalk(c), Len(c) <= Depth, c[Len(c)] > Options(Len(c))
  PROVE  Done(Back(c)) = Done(c)
<1> DEFINE m == Len(c)
<1>1. m \in Nat /\ m >= 1 /\ m <= Depth /\ c \in Seq(Nat) /\ Depth \in Nat
  BY Levels DEF OnWalk
<1>2. c # <<>> /\ m \in 1 .. Depth
  BY <1>1, EmptySeq
<1>3. c[m] \in Nat /\ Options(m) \in Nat /\ c[m] > Options(m)
  BY <1>1, <1>2, ElementOfSeq, Levels
<1>4. \A p \in Paths : p[m] < c[m]
  BY <1>2, <1>3 DEF Paths
<1> HIDE DEF m
<1>5. ASSUME NEW p \in Paths
      PROVE  p \in Done(Back(c)) <=> Behind(p, c)
  <2>1. ASSUME NEW l \in 1 .. Depth, l <= m, \A k \in 1 .. l - 1 : p[k] = c[k]
        PROVE  l <= m - 1 \/ \A k \in 1 .. m - 1 : p[k] = c[k]
    <3>1. l <= m - 1 \/ l = m
      BY <1>1, <2>1
    <3> QED
      BY <2>1, <3>1
  <2>2. \A l \in 1 .. Depth : l <= m - 1 => l <= m
    BY <1>1
  <2>3. p[m] < c[m] /\ m <= m
    BY <1>1, <1>4
  <2>4. p \in Done(Back(c)) <=>
           \/ \E l \in 1 .. Depth : /\ l <= m - 1 /\ p[l] < c[l]
                                    /\ \A k \in 1 .. l - 1 : p[k] = c[k]
           \/ \A k \in 1 .. m - 1 : p[k] = c[k]
    BY BackDone DEF m
  <2>5. Behind(p, c) <=> \E l \in 1 .. Depth : /\ l <= m /\ p[l] < c[l]
                                               /\ \A k \in 1 .. l - 1 : p[k] = c[k]
    BY DEF Behind, m
  <2> QED
    BY <1>2, <2>1, <2>2, <2>3, <2>4, <2>5
<1> QED
  BY <1>2, <1>5 DEF Done

\* A run adds the path that the walk has come.
LEMMA RunDone ==
  ASSUME NEW c, OnWalk(c), Len(c) = Depth + 1
  PROVE  /\ Front(c) \in Paths /\ Front(c) \notin Done(c)
         /\ Done(Back(c)) = Done(c) \cup {Front(c)}
<1> DEFINE q == Front(c)
<1>1. c \in Seq(Nat) /\ Depth \in Nat /\ Len(c) # 0 /\ Len(c) - 1 = Depth
  BY Levels DEF OnWalk
<1>2. c # <<>>
  BY <1>1, EmptySeq
<1>3. q \in Seq(Nat) /\ Len(q) = Depth /\ \A l \in 1 .. Depth : q[l] = c[l]
  BY <1>1, BackShape
<1>4. q \in [1 .. Depth -> Nat]
  BY <1>3, LenProperties
<1> HIDE DEF q
<1>5. \A l \in 1 .. Depth : c[l] \in 1 .. Options(l)
  BY <1>1 DEF OnWalk
<1>6. q \in Paths
  BY <1>3, <1>4, <1>5 DEF Paths
<1>7. ASSUME NEW p \in Paths
      PROVE  Behind(p, c) <=> \E l \in 1 .. Depth : /\ p[l] < c[l]
                                                    /\ \A k \in 1 .. l - 1 : p[k] = c[k]
  <2>1. \A l \in 1 .. Depth : l <= Len(c)
    BY <1>1
  <2> QED
    BY <2>1 DEF Behind
<1>8. ~Behind(q, c)
  <2>1. \A l \in 1 .. Depth : ~(q[l] < c[l])
    BY <1>3, <1>4
  <2> QED
    BY <1>6, <1>7, <2>1
<1>9. ASSUME NEW p \in Paths
      PROVE  p = q <=> \A k \in 1 .. Depth : p[k] = c[k]
  <2>1. p \in [1 .. Depth -> Nat]
    BY DEF Paths
  <2> QED
    BY <1>3, <1>4, <2>1
<1>10. ASSUME NEW p \in Paths
       PROVE  p \in Done(Back(c)) <=> Behind(p, c) \/ p = q
  <2>1. p \in Done(Back(c)) <=>
           \/ \E l \in 1 .. Depth : /\ l <= Depth /\ p[l] < c[l]
                                    /\ \A k \in 1 .. l - 1 : p[k] = c[k]
           \/ \A k \in 1 .. Depth : p[k] = c[k]
    BY <1>1, BackDone
  <2>2. \A l \in 1 .. Depth : l <= Depth
    BY <1>1
  <2> QED
    BY <1>7, <1>9, <2>1, <2>2
<1> QED
  BY <1>2, <1>6, <1>8, <1>10 DEF Done, q
-----------------------------------------------------------------------------
Configs == {ConfigAt(p) : p \in Paths}

\* What runs are carried out with.
Carried == UNION {{Effective(cfg, now) : now \in Nat} : cfg \in Configs}

Artifacts == [Config : Configs, Summary : Nat \X {cfg["Label"] : cfg \in Configs}]

\* The paths of the results so far are those the walk has been down, each once.
Visited(paths, res, c) ==
  /\ paths \in [1 .. Len(res) -> Paths]
  /\ \A i, j \in 1 .. Len(res) : paths[i] = paths[j] => i = j
  /\ {paths[i] : i \in 1 .. Len(res)} = Done(c)
  /\ \A i \in 1 .. Len(res) : res[i].Config = ConfigAt(paths[i])

WalkInv ==
  /\ ended \in {"", "done", "error"}
  /\ ended = "" => OnWalk(chosen)
  /\ ended = "done" => chosen = <<>>
  /\ ended = "error" => results = <<>>
  /\ results \in Seq(Artifacts)
  /\ used \in Seq(Carried)
  /\ Len(used) = Len(results)
  /\ second \in Nat
  /\ ended # "error" => \E paths : Visited(paths, results, chosen)

LEMMA WalkInit == Init => WalkInv
<1> SUFFICES ASSUME Init PROVE WalkInv
  OBVIOUS
<1>1. Depth \in Nat /\ \A l \in 1 .. Depth : Options(l) \in Nat
  BY Levels
<1>0. /\ chosen = <<1>> /\ results = <<>> /\ used = <<>> /\ ended = ""
      /\ second \in 1 .. MaxSecond
  BY DEF Init
<1>2. chosen = <<1>> /\ Len(<<1>>) = 1 /\ <<1>> \in Seq(Nat) /\ <<1>> # <<>>
  <2>1. Len(<<1>>) = 1 /\ <<1>> \in Seq(Nat) /\ <<1>> # <<>>
    OBVIOUS
  <2> QED
    BY <1>0, <2>1, Zenon
<1>3. chosen[1] = 1 /\ Len(chosen) = 1
  BY <1>2
<1>4. OnWalk(chosen)
  <2>1. Depth >= 1 => 1 \in 1 .. Options(1) + 1
    BY <1>1
  <2> QED
    BY <1>1, <1>2, <1>3, <2>1 DEF OnWalk
<1>5. Done(chosen) = {}
  <2> SUFFICES ASSUME NEW p \in Paths, Behind(p, chosen) PROVE FALSE
    BY <1>2 DEF Done
  <2>1. PICK l \in 1 .. Depth : l <= 1 /\ p[l] < chosen[l]
    BY <1>3 DEF Behind
  <2>2. l = 1 /\ p[l] \in Nat /\ p[l] >= 1
    BY <1>1, <2>1 DEF Paths
  <2> QED
    BY <1>3, <2>1, <2>2
<1>6. results = <<>> /\ used = <<>> /\ ended = "" /\ second \in Nat
  <2>1. MaxSecond \in Nat
    BY GridAssumption
  <2>2. second \in 1 .. MaxSecond
    BY <1>0, Zenon
  <2>3. second \in Nat
    BY <2>1, <2>2
  <2> QED
    BY <1>0, <2>3, Zenon
<1>7. Visited(<<>>, results, chosen)
  <2>1. Len(<<>>) = 0 /\ 1 .. 0 = {}
    OBVIOUS
  <2>2. <<>> \in [1 .. 0 -> Paths]
    BY <2>1
  <2> QED
    BY <1>5, <1>6, <2>1, <2>2 DEF Visited
<1>8. /\ results \in Seq(Artifacts) /\ Len(used) = Len(results)
      /\ used \in Seq(Carried)
  BY <1>6, EmptySeq
<1> QED
  BY <1>4, <1>6, <1>7, <1>8 DEF WalkInv

\* What a run leaves behind.
Leaves(cfg, name, n) ==
  /\ cfg = ConfigAt(Front(chosen)) /\ name = <<second', cfg["Label"]>> /\ n = Len(results)
  /\ ended = "" /\ OnWalk(chosen) /\ Len(chosen) = Depth + 1
  /\ Front(chosen) \in Paths /\ second' \in Nat /\ second \in Nat /\ n \in Nat
  /\ chosen' = Back(chosen) /\ ended' = IF chosen' = <<>> THEN "done" ELSE ""
  /\ results' \in Seq(Artifacts) /\ Len(results') = n + 1
  /\ \A i \in 1 .. n : results'[i] = results[i] /\ used'[i] = used[i]
  /\ results'[n + 1].Config = cfg /\ results'[n + 1].Summary = name
  /\ used' \in Seq(Carried)
  /\ Len(used') = n + 1 /\ used'[n + 1] = Effective(cfg, second)
  /\ DOMAIN files' = DOMAIN files \cup {name}
  /\ \A x \in DOMAIN files \ {name} : files'[x] = files[x]
  /\ files'[name].run = n + 1
  /\ \E jitter \in Hundredths(cfg["GossipJitter"]) :
       files'[name].Config = Metadata(cfg, second, jitter)

LEMMA RunLeaves ==
  ASSUME WalkInv, RunSimulation
  PROVE  \E cfg, name, n : Leaves(cfg, name, n)
<1>0. PICK cfg, name, n : /\ cfg = ConfigAt(Front(chosen)) /\ n = Len(results)
                          /\ name = <<second', cfg["Label"]>>
  OBVIOUS
<1> DEFINE r == [Config |-> cfg, Summary |-> name]
<1>1. /\ ended = "" /\ OnWalk(chosen) /\ Len(chosen) > Depth
      /\ chosen' = Back(chosen) /\ ended' = IF chosen' = <<>> THEN "done" ELSE ""
  BY DEF WalkInv, RunSimulation, AtLeaf, Depth, Backtracked, Back
<1>2. Len(chosen) = Depth + 1
  BY <1>1, WalkLength
<1>3. Front(chosen) \in Paths
  BY <1>1, <1>2, RunDone
<1>4. second' \in Nat /\ second \in Nat
  <2>1. second \in Nat /\ MaxSecond \in Nat /\ second' \in second .. MaxSecond
    BY GridAssumption DEF RunSimulation, WalkInv
  <2> QED
    BY <2>1
<1>5. cfg \in Configs /\ Effective(cfg, second) \in Carried
  <2>1. cfg \in Configs
    BY <1>0, <1>3 DEF Configs
  <2> QED
    BY <1>4, <2>1 DEF Carried
<1>6. name \in Nat \X {c["Label"] : c \in Configs} /\ r \in Artifacts
  BY <1>0, <1>4, <1>5 DEF Artifacts
<1>7. results' = Append(results, r) /\ used' = Append(used, Effective(cfg, second))
  BY <1>0 DEF RunSimulation
<1>8. PICK jitter \in Hundredths(cfg["GossipJitter"]) :
        files' = [x \in DOMAIN files \cup {name} |->
                    IF x = name THEN [Config |-> Metadata(cfg, second, jitter), run |-> n + 1]
                    ELSE files[x]]
  BY <1>0 DEF RunSimulation
<1>9. results \in Seq(Artifacts) /\ used \in Seq(Carried) /\ Len(used) = n /\ n \in Nat
  BY <1>0, LenProperties DEF WalkInv
<1>10. /\ results' \in Seq(Artifacts) /\ Len(results') = n + 1 /\ results'[n + 1] = r
       /\ \A i \in 1 .. n : results'[i] = results[i]
  <2> HIDE DEF r
  <2> QED
    BY <1>0, <1>6, <1>7, <1>9, AppendProperties
<1>10a. r.Config = cfg /\ r.Summary = name
  OBVIOUS
<1> HIDE DEF r
<1>11. /\ used' \in Seq(Carried) /\ Len(used') = n + 1 /\ used'[n + 1] = Effective(cfg, second)
       /\ \A i \in 1 .. n : used'[i] = used[i]
  BY <1>5, <1>7, <1>9, AppendProperties
<1>12. /\ DOMAIN files' = DOMAIN files \cup {name}
       /\ \A x \in DOMAIN files \ {name} : files'[x] = files[x]
       /\ files'[name].run = n + 1 /\ files'[name].Config = Metadata(cfg, second, jitter)
  BY <1>8
<1> QED
  BY <1>0, <1>1, <1>2, <1>3, <1>4, <1>9, <1>10, <1>10a, <1>11, <1>12 DEF Leaves

LEMMA WalkNext == WalkInv /\ [Next]_vars => WalkInv'
<1> SUFFICES ASSUME WalkInv, [Next]_vars PROVE WalkInv'
  OBVIOUS
<1>1. ASSUME NEW c, UNCHANGED <<results, used, second>>, chosen' = c, Done(c) = Done(chosen),
             ended = "", ended' = IF c = <<>> THEN "done" ELSE "", c # <<>> => OnWalk(c)
      PROVE  WalkInv'
  <2>1. PICK paths : Visited(paths, results, chosen)
    BY <1>1 DEF WalkInv
  <2>2. Visited(paths, results', chosen')
    BY <1>1, <2>1 DEF Visited
  <2>3. (ended' = "done" <=> c = <<>>) /\ ended' \in {"", "done"}
    BY <1>1
  <2> QED
    BY <1>1, <2>2, <2>3 DEF WalkInv
<1>2. CASE Descend
  <2>1. /\ OnWalk(chosen) /\ ended = "" /\ ~(Len(chosen) > Depth)
        /\ chosen[Len(chosen)] <= Options(Len(chosen)) /\ chosen' = Append(chosen, 1)
    BY <1>2 DEF Descend, WalkInv, AtLeaf, Depth, Options
  <2>2. Len(chosen) <= Depth /\ Append(chosen, 1) # <<>>
    <3>1. chosen \in Seq(Nat) /\ Len(chosen) <= Depth
      BY <2>1, WalkLength
    <3>2. Append(chosen, 1) # <<>>
      BY <3>1
    <3> QED
      BY <3>1, <3>2
  <2>3. OnWalk(Append(chosen, 1)) /\ Done(Append(chosen, 1)) = Done(chosen)
    BY <2>1, <2>2, DescendDone
  <2>4. UNCHANGED <<results, used, second, ended>>
    BY <1>2 DEF Descend
  <2> QED
    BY <1>1, <2>1, <2>2, <2>3, <2>4
<1>3. CASE Backtrack
  <2>1. /\ OnWalk(chosen) /\ ended = "" /\ ~(Len(chosen) > Depth)
        /\ chosen[Len(chosen)] > Options(Len(chosen)) /\ chosen' = Back(chosen)
        /\ ended' = IF chosen' = <<>> THEN "done" ELSE ""
    BY <1>3 DEF Backtrack, WalkInv, AtLeaf, Depth, Options, Backtracked, Back
  <2>2. Len(chosen) <= Depth
    BY <2>1, WalkLength
  <2>3. Done(Back(chosen)) = Done(chosen) /\ (Back(chosen) # <<>> => OnWalk(Back(chosen)))
    BY <2>1, <2>2, BacktrackDone, BackShape
  <2>4. UNCHANGED <<results, used, second>>
    BY <1>3 DEF Backtrack
  <2> QED
    BY <1>1, <2>1, <2>3, <2>4
<1>4. CASE RunSimulation
  <2>a. PICK cfg, name, n : Leaves(cfg, name, n)
    BY <1>4, RunLeaves
  <2> DEFINE q == Front(chosen)
  <2>1. /\ ended = "" /\ OnWalk(chosen) /\ Len(chosen) = Depth + 1
        /\ q \in Paths /\ second' \in Nat /\ n \in Nat /\ n = Len(results)
        /\ chosen' = Back(chosen) /\ ended' = IF chosen' = <<>> THEN "done" ELSE ""
        /\ results' \in Seq(Artifacts) /\ Len(results') = n + 1
        /\ \A i \in 1 .. n : results'[i] = results[i]
        /\ results'[n + 1].Config = ConfigAt(q)
        /\ used' \in Seq(Carried)
        /\ Len(used') = n + 1
    BY <2>a DEF Leaves
  <2>2. q \notin Done(chosen) /\ Done(Back(chosen)) = Done(chosen) \cup {q}
    BY <2>1, RunDone
  <2>3. PICK paths : Visited(paths, results, chosen)
    BY <2>1 DEF WalkInv
  <2> DEFINE longer == [i \in 1 .. n + 1 |-> IF i = n + 1 THEN q ELSE paths[i]]
  <2>4. /\ paths \in [1 .. n -> Paths] /\ \A i, j \in 1 .. n : paths[i] = paths[j] => i = j
        /\ {paths[i] : i \in 1 .. n} = Done(chosen)
        /\ \A i \in 1 .. n : results[i].Config = ConfigAt(paths[i])
    BY <2>1, <2>3 DEF Visited
  <2>0. n \in Nat
    BY <2>1
  <2> HIDE DEF q
  <2>5. \A i \in 1 .. n + 1 : i = n + 1 \/ i \in 1 .. n
    BY <2>0
  <2>6. \A i \in 1 .. n : longer[i] = paths[i] /\ i # n + 1 /\ i \in 1 .. n + 1
    BY <2>0
  <2>7. longer[n + 1] = q /\ n + 1 \in 1 .. n + 1
    BY <2>0
  <2>8. longer \in [1 .. n + 1 -> Paths]
    BY <2>1, <2>4, <2>5
  <2> HIDE DEF longer
  <2>9. {longer[i] : i \in 1 .. n + 1} = Done(chosen')
    <3>1. \A i \in 1 .. n + 1 : longer[i] \in Done(chosen) \cup {q}
      BY <2>4, <2>5, <2>6, <2>7
    <3>2. \A p \in Done(chosen) \cup {q} : \E i \in 1 .. n + 1 : longer[i] = p
      BY <2>4, <2>6, <2>7
    <3>3. Done(chosen') = Done(chosen) \cup {q}
      BY <2>1, <2>2
    <3> QED
      BY <3>1, <3>2, <3>3
  <2>10. \A i, j \in 1 .. n + 1 : longer[i] = longer[j] => i = j
    <3>1. \A i \in 1 .. n : longer[i] \in Done(chosen)
      BY <2>4, <2>6
    <3> QED
      BY <2>2, <2>4, <2>5, <2>6, <2>7, <3>1
  <2>11. \A i \in 1 .. n + 1 : results'[i].Config = ConfigAt(longer[i])
    BY <2>1, <2>4, <2>5, <2>6, <2>7
  <2>12. Visited(longer, results', chosen')
    BY <2>1, <2>8, <2>9, <2>10, <2>11 DEF Visited
  <2>13. /\ ended' = "done" => chosen' = <<>>
         /\ ended' = "" => OnWalk(chosen')
         /\ ended' \in {"", "done"}
    BY <2>1, BackShape
  <2> QED
    BY <2>1, <2>12, <2>13 DEF WalkInv
<1>5. CASE Fail
  <2>1. results' = <<>> /\ used' = <<>> /\ ended' = "error" /\ second' = second
    BY <1>5 DEF Fail
  <2>2. /\ results' \in Seq(Artifacts) /\ Len(used') = Len(results')
        /\ used' \in Seq(Carried)
    BY <2>1
  <2> QED
    BY <2>1, <2>2 DEF WalkInv
<1>6. CASE UNCHANGED vars
  BY <1>6 DEF WalkInv, vars
<1> QED
  BY <1>2, <1>3, <1>4, <1>5, <1>6 DEF Next
-----------------------------------------------------------------------------
\* Combinations are the paths, by the names of the fields instead of levels.
LEMMA CombinationsArePaths ==
  \A c : c \in Combinations <=>
           c \in [Populated -> Nat] /\ \A f \in Populated : c[f] \in 1 .. Len(Grid[f])
<1> DEFINE lengths == {Len(Grid[f]) : f \in Populated}
           S == lengths \cup {1}
           longest == Max(S)
           g == [l \in 1 .. Depth |-> Options(l)]
<1>1. \A f \in Populated : Len(Grid[f]) \in Nat
  BY Levels DEF Options
<1>2. S \in SUBSET Nat /\ S # {}
  BY <1>1
<1>3. g \in Surjection(1 .. Depth, lengths)
  <2>1. g \in [1 .. Depth -> lengths]
    BY Levels DEF Options
  <2>2. \A x \in lengths : \E l \in 1 .. Depth : g[l] = x
    BY Levels DEF Options
  <2> QED
    BY <2>1, <2>2 DEF Surjection
<1>4. IsFiniteSet(S)
  <2>1. IsFiniteSet(1 .. Depth)
    BY Levels, FS_Interval
  <2> HIDE DEF lengths, g
  <2>2. IsFiniteSet(lengths)
    BY <1>3, <2>1, FS_Surjection
  <2> QED
    BY <2>2, FS_AddElement
<1> HIDE DEF S
<1>5. longest \in S /\ \A x \in S : x <= longest
  <2>1. PICK m \in S : \A x \in S : x <= m
    BY <1>2, <1>4, GreatestExists
  <2>2. \A x \in S : m >= x
    BY <1>2, <2>1
  <2>3. longest \in S /\ \A x \in S : longest >= x
    BY <2>2, Zenon DEF Max
  <2> QED
    BY <1>2, <2>3
<1>6. longest \in Nat /\ \A f \in Populated : Len(Grid[f]) <= longest
  BY <1>2, <1>5 DEF S
<1>7. Combinations = {c \in [Populated -> 1 .. longest] : \A f \in Populated : c[f] <= Len(Grid[f])}
  BY DEF Combinations, S
<1> HIDE DEF longest
<1>8. ASSUME NEW c, c \in [Populated -> Nat], \A f \in Populated : c[f] \in 1 .. Len(Grid[f])
      PROVE  c \in Combinations
  <2>1. \A f \in Populated : c[f] \in 1 .. longest /\ c[f] <= Len(Grid[f])
    BY <1>1, <1>6, <1>8
  <2>2. c \in [Populated -> 1 .. longest]
    BY <1>8, <2>1
  <2> QED
    BY <1>7, <2>1, <2>2
<1>9. ASSUME NEW c, c \in Combinations
      PROVE  c \in [Populated -> Nat] /\ \A f \in Populated : c[f] \in 1 .. Len(Grid[f])
  BY <1>1, <1>6, <1>7, <1>9
<1> QED
  BY <1>8, <1>9

LEMMA ConfigOf ==
  ASSUME NEW p, NEW f \in Range(Fields) \ {"Label"}
  PROVE  /\ f \notin Populated => ConfigAt(p)[f] = Base[f]
         /\ \A l \in 1 .. Depth : Dimensions[l] = f => ConfigAt(p)[f] = Grid[f][p[l]]
<1>1. ConfigAt(p)[f] =
        IF \E l \in 1 .. Depth : Dimensions[l] = f
        THEN OptionAt(CHOOSE l \in 1 .. Depth : Dimensions[l] = f, p)
        ELSE Base[f]
  BY Levels DEF ConfigAt
<1>2. ASSUME NEW l \in 1 .. Depth, Dimensions[l] = f
      PROVE  (CHOOSE k \in 1 .. Depth : Dimensions[k] = f) = l
  BY <1>2, Levels
<1>3. \A l \in 1 .. Depth : Dimensions[l] \in Populated
  BY Levels
<1>4. ASSUME NEW l \in 1 .. Depth, Dimensions[l] = f
      PROVE  ConfigAt(p)[f] = OptionAt(l, p)
  BY <1>1, <1>2, <1>4, Zenon
<1>5. f \notin Populated => ConfigAt(p)[f] = Base[f]
  BY <1>1, <1>3, Zenon
<1> QED
  BY <1>4, <1>5 DEF OptionAt

\* Whatever the base and the grid are, the walk of RunSimulationGrid returns one artifact
\* for each combination of the populated dimensions, each once, or, after an error, none.
THEOREM EachCombinationOnce == Spec => []ProductCovered
<1>1. WalkInv => ProductCovered
  <2> SUFFICES ASSUME WalkInv, ended = "done"
               PROVE  /\ Len(results) = Cardinality(Combinations)
                      /\ \A c \in Combinations :
                           \E i \in DOMAIN results : Realizes(results[i].Config, c)
    BY DEF WalkInv, ProductCovered
  <2> DEFINE n == Len(results)
             Level(f) == CHOOSE l \in 1 .. Depth : Dimensions[l] = f
             PathOf(c) == [l \in 1 .. Depth |-> c[Dimensions[l]]]
             Named(p) == [f \in Populated |-> p[Level(f)]]
  <2>1. chosen = <<>>
    BY DEF WalkInv
  <2>2. n \in Nat /\ DOMAIN results = 1 .. n
    BY LenProperties DEF WalkInv
  <2>3. PICK paths : Visited(paths, results, chosen)
    BY DEF WalkInv
  <2> DEFINE G == [i \in 1 .. n |-> Named(paths[i])]
  <2>4. /\ paths \in [1 .. n -> Paths] /\ \A i, j \in 1 .. n : paths[i] = paths[j] => i = j
        /\ \A p \in Paths : \E i \in 1 .. n : paths[i] = p
        /\ \A i \in 1 .. n : results[i].Config = ConfigAt(paths[i])
    <3>1. Done(chosen) = Paths
      BY <2>1 DEF Done
    <3> QED
      BY <2>3, <3>1 DEF Visited
  <2>5. \A f \in Populated : Level(f) \in 1 .. Depth /\ Dimensions[Level(f)] = f
    BY Levels
  <2>6. \A l \in 1 .. Depth : Dimensions[l] \in Populated /\ Level(Dimensions[l]) = l
    BY <2>5, Levels
  <2> HIDE DEF n, Level
  <2>7. ASSUME NEW c \in Combinations
        PROVE  PathOf(c) \in Paths /\ Named(PathOf(c)) = c
    <3>1. c \in [Populated -> Nat] /\ \A f \in Populated : c[f] \in 1 .. Len(Grid[f])
      BY CombinationsArePaths
    <3>2. PathOf(c) \in Paths
      BY <2>6, <3>1 DEF Paths, Options
    <3>3. \A f \in Populated : PathOf(c)[Level(f)] = c[f]
      BY <2>5
    <3> HIDE DEF PathOf
    <3>4. Named(PathOf(c)) = c
      BY <3>1, <3>3
    <3> QED
      BY <3>2, <3>4
  <2>8. ASSUME NEW p \in Paths
        PROVE  Named(p) \in Combinations /\ \A l \in 1 .. Depth : p[l] = Named(p)[Dimensions[l]]
    <3>1. \A f \in Populated : p[Level(f)] \in Nat /\ p[Level(f)] \in 1 .. Len(Grid[f])
      BY <2>5 DEF Paths, Options
    <3>2. \A f \in Populated : Named(p)[f] = p[Level(f)]
      OBVIOUS
    <3>3. Named(p) \in [Populated -> Nat]
      BY <3>1
    <3>4. \A l \in 1 .. Depth : p[l] = Named(p)[Dimensions[l]]
      BY <2>6, <3>2
    <3> HIDE DEF Named
    <3>5. Named(p) \in Combinations
      BY <3>1, <3>2, <3>3, CombinationsArePaths
    <3> QED
      BY <3>4, <3>5
  <2> HIDE DEF Named, PathOf
  <2>9. G \in Bijection(1 .. n, Combinations)
    <3>1. G \in [1 .. n -> Combinations]
      BY <2>4, <2>8
    <3>2. ASSUME NEW i \in 1 .. n, NEW j \in 1 .. n, G[i] = G[j]
          PROVE  i = j
      <4>1. paths[i] \in Paths /\ paths[j] \in Paths
        BY <2>4
      <4>2. Named(paths[i]) = Named(paths[j])
        BY <3>2
      <4>3. \A l \in 1 .. Depth : paths[i][l] = paths[j][l]
        BY <2>8, <4>1, <4>2
      <4>4. paths[i] = paths[j]
        BY <4>1, <4>3, SamePath
      <4> QED
        BY <2>4, <4>4
    <3>3. ASSUME NEW c \in Combinations
          PROVE  \E i \in 1 .. n : G[i] = c
      <4>1. PICK i \in 1 .. n : paths[i] = PathOf(c)
        BY <2>4, <2>7
      <4> QED
        BY <2>7, <4>1
    <3> HIDE DEF G
    <3> QED
      BY <3>1, <3>2, <3>3 DEF Bijection, Injection, Surjection, IsInjective
  <2>10. n = Cardinality(Combinations)
    <3>1. IsFiniteSet(1 .. n) /\ Cardinality(1 .. n) = n
      BY <2>2, FS_Interval
    <3> QED
      BY <2>9, <3>1, FS_Bijection DEF ExistsBijection
  <2>11. ASSUME NEW c \in Combinations
         PROVE  \E i \in DOMAIN results : Realizes(results[i].Config, c)
    <3>1. PICK i \in 1 .. n : paths[i] = PathOf(c)
      BY <2>4, <2>7
    <3>2. results[i].Config = ConfigAt(PathOf(c))
      BY <2>4, <3>1
    <3>3. \A f \in Populated : PathOf(c)[Level(f)] = c[f]
      BY <2>5 DEF PathOf
    <3>4. ASSUME NEW f \in Range(Fields) \ {"Label"}
          PROVE  ConfigAt(PathOf(c))[f] = IF f \in Populated THEN Grid[f][c[f]] ELSE Base[f]
      BY <2>5, <3>3, ConfigOf
    <3>5. Realizes(results[i].Config, c)
      BY <3>2, <3>4 DEF Realizes
    <3> QED
      BY <2>2, <3>5
  <2> QED
    BY <2>10, <2>11 DEF n
<1> QED
  BY <1>1, WalkInit, WalkNext, PTL DEF Spec
-----------------------------------------------------------------------------
\* The labels of a dimension tell its options apart.
LabelsTell ==
  \A f \in Populated : \A i, j \in DOMAIN Grid[f] :
    OptionLabel(f, Grid[f][i]) = OptionLabel(f, Grid[f][j]) => i = j

\* Joining leaves the segments of one path distinct from those of another.
JoinTells ==
  \A p, q \in Paths :
    LET Of(path) == Segments(Base["Label"], LabelParts(path))
    IN  Joined(Of(p)) = Joined(Of(q)) => Of(p) = Of(q)

LEMMA SequenceOf ==
  ASSUME NEW S, NEW n \in Nat, NEW s \in [1 .. n -> S]
  PROVE  s \in Seq(S) /\ Len(s) = n
  OBVIOUS

LEMMA LabelsDiffer ==
  ASSUME LabelsTell, JoinTells, NEW p \in Paths, NEW q \in Paths, p # q
  PROVE  ConfigAt(p)["Label"] # ConfigAt(q)["Label"]
<1> DEFINE base == Base["Label"]
           front == IF base = "" THEN <<>> ELSE <<<<"Label", Sanitized[base]>>>>
           Label(t) == IF front \o t = <<>> THEN <<<<"Label", "run">>>> ELSE front \o t
           All == {LabelParts(p)[l] : l \in 1 .. Depth} \cup {LabelParts(q)[l] : l \in 1 .. Depth}
                    \cup {<<"Label", Sanitized[base]>>}
<1>1. /\ ConfigAt(p)["Label"] = Joined(Label(LabelParts(p)))
      /\ ConfigAt(q)["Label"] = Joined(Label(LabelParts(q)))
      /\ Joined(Label(LabelParts(p))) = Joined(Label(LabelParts(q)))
           => Label(LabelParts(p)) = Label(LabelParts(q))
  <2>1. "Label" \in Range(Fields)
    <3>1. Fields[1] = "Label" /\ 1 \in DOMAIN Fields
      BY DEF Fields
    <3> QED
      BY <3>1 DEF Range
  <2>2. \A t : ConfigAt(t)["Label"] = Joined(Segments(base, LabelParts(t)))
    BY <2>1 DEF ConfigAt, CombineLabel
  <2>3. \A t : Segments(base, t) = Label(t)
    BY DEF Segments
  <2>4. Joined(Segments(base, LabelParts(p))) = Joined(Segments(base, LabelParts(q)))
          => Segments(base, LabelParts(p)) = Segments(base, LabelParts(q))
    BY DEF JoinTells
  <2> HIDE DEF Label, base
  <2> QED
    BY <2>2, <2>3, <2>4, Zenon
<1>2. PICK l \in 1 .. Depth : p[l] # q[l]
  BY SamePath
<1>3. LabelParts(p)[l] # LabelParts(q)[l]
  <2>1. /\ LabelParts(p)[l] = OptionLabel(Dimensions[l], Grid[Dimensions[l]][p[l]])
        /\ LabelParts(q)[l] = OptionLabel(Dimensions[l], Grid[Dimensions[l]][q[l]])
    BY <1>2, Levels DEF LabelParts, OptionAt
  <2>2. Dimensions[l] \in Populated
    BY Levels
  <2>3. p[l] \in DOMAIN Grid[Dimensions[l]] /\ q[l] \in DOMAIN Grid[Dimensions[l]]
    <3>1. p[l] \in 1 .. Options(l) /\ q[l] \in 1 .. Options(l)
      BY DEF Paths
    <3>2. DOMAIN Grid[Dimensions[l]] = 1 .. Options(l)
      BY <2>2, GridAssumption, LenProperties DEF Populated, Options
    <3> QED
      BY <3>1, <3>2
  <2> QED
    BY <1>2, <2>1, <2>2, <2>3 DEF LabelsTell
<1>4. LabelParts(p) # LabelParts(q)
  BY <1>3
<1>5. /\ LabelParts(p) \in Seq(All) /\ Len(LabelParts(p)) = Depth
      /\ LabelParts(q) \in Seq(All) /\ Len(LabelParts(q)) = Depth
  <2>1. DOMAIN LabelParts(p) = 1 .. Depth /\ DOMAIN LabelParts(q) = 1 .. Depth
    BY Levels DEF LabelParts
  <2>2. LabelParts(p) \in [1 .. Depth -> All] /\ LabelParts(q) \in [1 .. Depth -> All]
    <3>1. \A k \in 1 .. Depth : LabelParts(p)[k] \in All /\ LabelParts(q)[k] \in All
      OBVIOUS
    <3> HIDE DEF All
    <3> QED
      BY <2>1, <3>1 DEF LabelParts
  <2>3. Depth \in Nat
    BY Levels
  <2> HIDE DEF All
  <2> QED
    BY <2>2, <2>3, SequenceOf
<1>6. front \in Seq(All)
  <2>1. <<"Label", Sanitized[base]>> \in All
    OBVIOUS
  <2>2. \A S : <<>> \in Seq(S) /\ \A x \in S : <<x>> \in Seq(S)
    OBVIOUS
  <2> HIDE DEF All
  <2> QED
    BY <2>1, <2>2
<1> HIDE DEF front, All
<1>7. front \o LabelParts(p) # front \o LabelParts(q)
  BY <1>4, <1>5, <1>6, ConcatSimplifications
<1>8. front \o LabelParts(p) # <<>> /\ front \o LabelParts(q) # <<>>
  <2>1. Depth # 0 /\ Depth \in Nat
    BY <1>2, Levels
  <2>2. LabelParts(p) # <<>> /\ LabelParts(q) # <<>>
    BY <1>5, <2>1, EmptySeq
  <2> QED
    BY <1>5, <1>6, <2>2, ConcatSimplifications
<1> QED
  BY <1>1, <1>7, <1>8

\* Each result has its files, and no file is of a run that is yet to come.
FilesInv ==
  /\ \A i \in DOMAIN results : results[i].Summary \in DOMAIN files
  /\ ended # "error" => \A name \in DOMAIN files : files[name].run \in DOMAIN results

\* The files of a result are named by its label and are still its own.
KeptInv ==
  \A i \in DOMAIN results : /\ results[i].Summary[2] = results[i].Config["Label"]
                            /\ files[results[i].Summary].run = i

\* Files say what their run was carried out with.
ExactInv ==
  \A i \in DOMAIN results : \A name \in DOMAIN files :
    files[name].run = i => files[name].Config = used[i]

\* The walk does nothing to results and files but through a run, or by an error.
LEMMA StepsToFiles ==
  ASSUME WalkInv, [Next]_vars
  PROVE  \/ RunSimulation
         \/ results' = <<>> /\ used' = <<>> /\ ended' = "error"
         \/ UNCHANGED <<results, files, used>> /\ (ended = "error" => ended' = "error")
<1>1. Descend \/ Backtrack \/ UNCHANGED vars =>
        UNCHANGED <<results, files, used>> /\ (ended = "error" => ended' = "error")
  BY DEF Descend, Backtrack, vars
<1>2. Fail => results' = <<>> /\ used' = <<>> /\ ended' = "error"
  BY DEF Fail
<1> QED
  BY <1>1, <1>2 DEF Next

LEMMA FilesNext == WalkInv /\ FilesInv /\ [Next]_vars => FilesInv'
<1> SUFFICES ASSUME WalkInv, FilesInv, [Next]_vars PROVE FilesInv'
  OBVIOUS
<1>1. CASE RunSimulation
  <2>0. PICK cfg, name, n : Leaves(cfg, name, n)
    BY <1>1, RunLeaves
  <2>1. /\ ended = "" /\ n \in Nat /\ n = Len(results)
        /\ results' \in Seq(Artifacts) /\ Len(results') = n + 1
        /\ \A i \in 1 .. n : results'[i] = results[i]
        /\ results'[n + 1].Summary = name
    BY <2>0 DEF Leaves
  <2>2. /\ DOMAIN files' = DOMAIN files \cup {name}
        /\ \A x \in DOMAIN files \ {name} : files'[x] = files[x]
        /\ files'[name].run = n + 1
    BY <2>0 DEF Leaves
  <2>3. DOMAIN results = 1 .. n /\ DOMAIN results' = 1 .. n + 1
    BY <2>1, LenProperties DEF WalkInv
  <2>4. n \in Nat /\ n + 1 \in 1 .. n + 1 /\ \A i \in 1 .. n + 1 : i = n + 1 \/ i \in 1 .. n
    <3>1. n \in Nat
      BY <2>1
    <3> QED
      BY <3>1
  <2>5. \A i \in DOMAIN results' : results'[i].Summary \in DOMAIN files'
    BY <2>1, <2>2, <2>3, <2>4 DEF FilesInv
  <2>6. \A x \in DOMAIN files' : files'[x].run \in DOMAIN results'
    <3>1. \A x \in DOMAIN files : files[x].run \in 1 .. n
      BY <2>1, <2>3 DEF FilesInv
    <3>2. \A x \in DOMAIN files' : x = name \/ x \in DOMAIN files \ {name}
      BY <2>2
    <3>3. \A i \in 1 .. n : i \in 1 .. n + 1
      BY <2>4
    <3> QED
      BY <2>2, <2>3, <2>4, <3>1, <3>2, <3>3
  <2> QED
    BY <2>5, <2>6 DEF FilesInv
<1>2. CASE results' = <<>> /\ ended' = "error"
  BY <1>2 DEF FilesInv
<1>3. CASE UNCHANGED <<results, files, used>> /\ (ended = "error" => ended' = "error")
  BY <1>3 DEF FilesInv
<1> QED
  BY <1>1, <1>2, <1>3, StepsToFiles

LEMMA KeptNext ==
  LabelsTell /\ JoinTells /\ WalkInv /\ FilesInv /\ KeptInv /\ [Next]_vars => KeptInv'
<1> SUFFICES ASSUME LabelsTell, JoinTells, WalkInv, FilesInv, KeptInv, [Next]_vars
             PROVE  KeptInv'
  OBVIOUS
<1>1. CASE RunSimulation
  <2>0. PICK cfg, name, n : Leaves(cfg, name, n)
    BY <1>1, RunLeaves
  <2>1. /\ ended = "" /\ n \in Nat /\ n = Len(results)
        /\ results' \in Seq(Artifacts) /\ Len(results') = n + 1
        /\ \A i \in 1 .. n : results'[i] = results[i]
        /\ results'[n + 1].Summary = name /\ results'[n + 1].Config = cfg
    BY <2>0 DEF Leaves
  <2>2. /\ \A x \in DOMAIN files \ {name} : files'[x] = files[x]
        /\ files'[name].run = n + 1
        /\ cfg = ConfigAt(Front(chosen)) /\ name[2] = cfg["Label"]
    <3>1. name = <<second', cfg["Label"]>>
      BY <2>0 DEF Leaves
    <3>2. name[2] = cfg["Label"]
      BY <3>1
    <3> QED
      BY <2>0, <3>2 DEF Leaves
  <2>3. /\ OnWalk(chosen) /\ Len(chosen) = Depth + 1 /\ Front(chosen) \in Paths
    BY <2>0 DEF Leaves
  <2>4. DOMAIN results = 1 .. n /\ DOMAIN results' = 1 .. n + 1
    BY <2>1, LenProperties DEF WalkInv
  <2>5. \A i \in 1 .. n + 1 : i = n + 1 \/ i \in 1 .. n
    <3>1. n \in Nat
      BY <2>1
    <3> QED
      BY <3>1
  <2>6. PICK paths : Visited(paths, results, chosen)
    BY <2>1 DEF WalkInv
  <2>7. ASSUME NEW i \in 1 .. n
        PROVE  /\ results'[i].Summary[2] = results'[i].Config["Label"]
               /\ files'[results'[i].Summary].run = i
    <3>1. paths[i] \in Paths /\ paths[i] \in Done(chosen) /\ results[i].Config = ConfigAt(paths[i])
      BY <2>1, <2>6 DEF Visited
    <3>2. paths[i] # Front(chosen)
      BY <2>3, <3>1, RunDone
    <3>3. results[i].Config["Label"] # cfg["Label"]
      BY <2>2, <2>3, <3>1, <3>2, LabelsDiffer
    <3>4. /\ results[i].Summary[2] = results[i].Config["Label"]
          /\ files[results[i].Summary].run = i /\ results[i].Summary \in DOMAIN files
      BY <2>4 DEF KeptInv, FilesInv
    <3>5. results[i].Summary # name
      BY <2>2, <3>3, <3>4
    <3> QED
      BY <2>1, <2>2, <3>4, <3>5
  <2>8. /\ results'[n + 1].Summary[2] = results'[n + 1].Config["Label"]
        /\ files'[results'[n + 1].Summary].run = n + 1
    BY <2>1, <2>2
  <2> QED
    BY <2>4, <2>5, <2>7, <2>8 DEF KeptInv
<1>2. CASE results' = <<>>
  BY <1>2 DEF KeptInv
<1>3. CASE UNCHANGED <<results, files, used>>
  BY <1>3 DEF KeptInv
<1> QED
  BY <1>1, <1>2, <1>3, StepsToFiles

LEMMA FilesInit == Init => FilesInv /\ KeptInv /\ ExactInv
<1> SUFFICES ASSUME Init PROVE FilesInv /\ KeptInv /\ ExactInv
  OBVIOUS
<1>1. results = <<>> /\ files = <<>>
  BY DEF Init
<1>2. DOMAIN results = {} /\ DOMAIN files = {}
  BY <1>1
<1> QED
  BY <1>2 DEF FilesInv, KeptInv, ExactInv

\* Where the labels of each dimension, as sanitizeLabel leaves them, tell its options apart,
\* and joining them keeps them apart, every artifact leads to the files of its own run: none
\* of a later run has their name, though base names have a resolution of a second only
\* (RunSimulation, combineLabel).
THEOREM FilesStayApart == ASSUME LabelsTell, JoinTells PROVE Spec => []ArtifactsKept
<1>1. Init => WalkInv /\ FilesInv /\ KeptInv
  BY WalkInit, FilesInit
<1>2. WalkInv /\ FilesInv /\ KeptInv /\ [Next]_vars => (WalkInv /\ FilesInv /\ KeptInv)'
  BY WalkNext, FilesNext, KeptNext
<1>3. KeptInv => ArtifactsKept
  BY DEF KeptInv, ArtifactsKept
<1> QED
  BY <1>1, <1>2, <1>3, PTL DEF Spec
-----------------------------------------------------------------------------
\* What a field may be in the configurations of the grid.
ValuesOf(f) == IF f \in Populated THEN Range(Grid[f]) ELSE {Base[f]}

\* Timeouts are positive, and no largest delay is below a least one: then RunSimulation
\* has nothing to mend but what it writes down.
NothingToMend ==
  /\ \A f \in StageTimeouts : ValuesOf(f) \subseteq Nat \ {0}
  /\ ValuesOf("DelayMinMs") \subseteq Nat /\ ValuesOf("DelayMaxMs") \subseteq Nat
  /\ \A least \in ValuesOf("DelayMinMs"), largest \in ValuesOf("DelayMaxMs") : least <= largest

\* Durations are what writeMetadataFile can write: whole milliseconds and, of the jitter,
\* whole hundredths of them.
WholeDurations ==
  /\ \A f \in StageTimeouts \cup {"MaxTimeout"} : \A d \in ValuesOf(f) :
       d \in Nat /\ d % Millisecond = 0
  /\ \A d \in ValuesOf("GossipJitter") : d \in Int /\ d % Hundredth = 0

LEMMA WholeMilliseconds ==
  ASSUME NEW d \in Nat, d % Millisecond = 0
  PROVE  Millisecond * Milliseconds(d) = d
<1>1. d = Millisecond * (d \div Millisecond) + (d % Millisecond)
  BY SMT DEF Millisecond
<1> QED
  BY <1>1, SMT DEF Millisecond, Milliseconds

LEMMA WholeHundredths ==
  ASSUME NEW d \in Int, d % Hundredth = 0, NEW h \in Hundredths(d)
  PROVE  h = d
<1>1. d = Hundredth * (d \div Hundredth)
  BY SMT DEF Hundredth
<1>2. h \in {d, d + Hundredth} /\ 2 * (d - h) \in -Hundredth .. Hundredth
  BY <1>1, Zenon DEF Hundredths
<1> QED
  BY <1>2, SMT DEF Hundredth

LEMMA OptionTaken ==
  ASSUME NEW p \in Paths, NEW f \in Range(Fields) \ {"Label"}
  PROVE  ConfigAt(p)[f] \in ValuesOf(f)
<1>1. CASE f \notin Populated
  BY <1>1, ConfigOf DEF ValuesOf
<1>2. CASE f \in Populated
  <2>1. PICK l \in 1 .. Depth : Dimensions[l] = f
    BY <1>2, Levels
  <2>2. ConfigAt(p)[f] = Grid[f][p[l]]
    BY <2>1, ConfigOf
  <2>3. p[l] \in 1 .. Options(l) /\ Options(l) = Len(Grid[f])
    BY <2>1 DEF Paths, Options
  <2>4. p[l] \in DOMAIN Grid[f]
    BY <2>3, GridAssumption, LenProperties
  <2> QED
    BY <1>2, <2>2, <2>4 DEF ValuesOf, Range
<1> QED
  BY <1>1, <1>2

LEMMA NothingMended ==
  ASSUME NothingToMend, WholeDurations, NEW p \in Paths, NEW now,
         NEW jitter \in Hundredths(ConfigAt(p)["GossipJitter"])
  PROVE  Metadata(ConfigAt(p), now, jitter) = Effective(ConfigAt(p), now)
<1> DEFINE cfg == ConfigAt(p)
           full == WithDefaults(cfg)
           seed == SeedOf(cfg, now)
           F == Range(Fields)
<1>1. /\ Durations \subseteq F \ {"Label", "Seed", "Heights", "NetworkWorkers"}
      /\ {"DelayMinMs", "DelayMaxMs"} \subseteq F \ {"Label", "Seed", "Heights", "NetworkWorkers"}
      /\ "Seed" \in F /\ StageTimeouts \cup {"MaxTimeout", "GossipJitter"} = Durations
  <2>1. \A i \in 1 .. 15 : Fields[i] \in F
    BY FieldsDiffer DEF Range
  <2>2. /\ Fields[4] = "Seed" /\ Fields[5] = "DelayMinMs" /\ Fields[6] = "DelayMaxMs"
        /\ Fields[7] = "GossipJitter" /\ Fields[8] = "ProposalTimeout"
        /\ Fields[9] = "PrevoteTimeout" /\ Fields[10] = "PrecommitTimeout"
        /\ Fields[11] = "MaxTimeout"
    BY DEF Fields
  <2> QED
    BY <2>1, <2>2 DEF StageTimeouts, Durations
<1>2. \A f \in StageTimeouts : cfg[f] \in Nat /\ ~(cfg[f] <= 0)
  BY <1>1, OptionTaken DEF NothingToMend
<1>3. ~(cfg["DelayMaxMs"] < cfg["DelayMinMs"])
  BY <1>1, OptionTaken DEF NothingToMend
<1>4. DOMAIN cfg = F
  BY DEF ConfigAt
<1> HIDE DEF cfg, seed, F
<1>5. DOMAIN full = F /\ \A f \in F \ {"Heights", "NetworkWorkers"} : full[f] = cfg[f]
  BY <1>4 DEF WithDefaults
<1>6. Metadata(cfg, now, jitter) = [f \in F |-> IF f = "Seed" THEN seed ELSE full[f]]
  <2>1. Metadata(cfg, now, jitter) =
          [f \in F |->
             CASE f \in Durations \ {"GossipJitter"} -> Millisecond * Milliseconds(cfg[f])
               [] f = "GossipJitter"                 -> jitter
               [] f = "Seed"                         -> seed
               [] OTHER                              -> full[f]]
    BY <1>4 DEF Metadata, seed
  <2>2. ASSUME NEW f \in Durations \ {"GossipJitter"}
        PROVE  Millisecond * Milliseconds(cfg[f]) = full[f] /\ f # "Seed" /\ f \in F
    <3>1. f \in F \ {"Label", "Seed", "Heights", "NetworkWorkers"}
      BY <1>1
    <3>2. cfg[f] \in Nat /\ cfg[f] % Millisecond = 0
      BY <1>1, <2>2, <3>1, OptionTaken DEF WholeDurations, cfg, F
    <3> QED
      BY <1>5, <3>1, <3>2, WholeMilliseconds
  <2>3. jitter = full["GossipJitter"]
    <3>1. "GossipJitter" \in F \ {"Label", "Seed", "Heights", "NetworkWorkers"}
      BY <1>1
    <3>2. cfg["GossipJitter"] \in Int /\ cfg["GossipJitter"] % Hundredth = 0
      BY <3>1, OptionTaken DEF WholeDurations, cfg, F
    <3> QED
      BY <1>5, <3>1, <3>2, WholeHundredths DEF cfg
  <2> HIDE DEF full
  <2>4. ASSUME NEW f \in F
        PROVE  (CASE f \in Durations \ {"GossipJitter"} -> Millisecond * Milliseconds(cfg[f])
                  [] f = "GossipJitter"                 -> jitter
                  [] f = "Seed"                         -> seed
                  [] OTHER                              -> full[f])
               = IF f = "Seed" THEN seed ELSE full[f]
    <3>1. CASE f \in Durations \ {"GossipJitter"}
      BY <2>2, <3>1
    <3>2. CASE f = "GossipJitter"
      BY <2>3, <3>2
    <3>3. CASE f = "Seed"
      BY <1>1, <3>3
    <3>4. CASE f \notin Durations /\ f # "GossipJitter" /\ f # "Seed"
      BY <3>4
    <3> QED
      BY <3>1, <3>2, <3>3, <3>4
  <2> QED
    BY <2>1, <2>4
<1>7. Effective(cfg, now) =
        [f \in DOMAIN full |->
           CASE f \in StageTimeouts -> IF full[f] <= 0 THEN DefaultTimeout ELSE full[f]
             [] f = "DelayMaxMs"    -> IF full[f] < full["DelayMinMs"]
                                       THEN full["DelayMinMs"] ELSE full[f]
             [] f = "Seed"          -> seed
             [] OTHER               -> full[f]]
  BY DEF Effective, seed
<1> HIDE DEF full
<1>8. ASSUME NEW f \in F
      PROVE  (CASE f \in StageTimeouts -> IF full[f] <= 0 THEN DefaultTimeout ELSE full[f]
                [] f = "DelayMaxMs"    -> IF full[f] < full["DelayMinMs"]
                                          THEN full["DelayMinMs"] ELSE full[f]
                [] f = "Seed"          -> seed
                [] OTHER               -> full[f])
             = IF f = "Seed" THEN seed ELSE full[f]
  <2>1. CASE f \in StageTimeouts
    <3>1. f # "Seed" /\ ~(full[f] <= 0) /\ f # "DelayMaxMs"
      BY <1>1, <1>2, <1>5, <2>1 DEF StageTimeouts
    <3> QED
      BY <2>1, <3>1
  <2>2. CASE f = "DelayMaxMs"
    <3>1. f # "Seed" /\ ~(full["DelayMaxMs"] < full["DelayMinMs"]) /\ f \notin StageTimeouts
      BY <1>1, <1>3, <1>5, <2>2 DEF StageTimeouts
    <3> QED
      BY <2>2, <3>1
  <2>3. CASE f = "Seed"
    <3>1. f \notin StageTimeouts /\ f # "DelayMaxMs"
      BY <2>3 DEF StageTimeouts
    <3> QED
      BY <2>3, <3>1
  <2>4. CASE f \notin StageTimeouts /\ f # "DelayMaxMs" /\ f # "Seed"
    BY <2>4
  <2> QED
    BY <2>1, <2>2, <2>3, <2>4
<1>9. Effective(cfg, now) = [f \in F |-> IF f = "Seed" THEN seed ELSE full[f]]
  BY <1>5, <1>7, <1>8
<1> QED
  BY <1>6, <1>9 DEF cfg

LEMMA ExactNext ==
  /\ NothingToMend /\ WholeDurations
  /\ WalkInv /\ FilesInv /\ ExactInv /\ [Next]_vars
  => ExactInv'
<1> SUFFICES ASSUME NothingToMend, WholeDurations, WalkInv, FilesInv, ExactInv, [Next]_vars
             PROVE  ExactInv'
  OBVIOUS
<1>1. CASE RunSimulation
  <2>0. PICK cfg, name, n : Leaves(cfg, name, n)
    BY <1>1, RunLeaves
  <2>1. /\ ended = "" /\ n \in Nat /\ n = Len(results)
        /\ results' \in Seq(Artifacts) /\ Len(results') = n + 1
        /\ \A i \in 1 .. n : used'[i] = used[i]
        /\ used'[n + 1] = Effective(cfg, second)
    BY <2>0 DEF Leaves
  <2>2. /\ DOMAIN files' = DOMAIN files \cup {name}
        /\ \A x \in DOMAIN files \ {name} : files'[x] = files[x]
        /\ files'[name].run = n + 1
    BY <2>0 DEF Leaves
  <2>3. files'[name].Config = Effective(cfg, second)
    <3>1. Front(chosen) \in Paths /\ cfg = ConfigAt(Front(chosen))
      BY <2>0 DEF Leaves
    <3>2. PICK jitter \in Hundredths(cfg["GossipJitter"]) :
            files'[name].Config = Metadata(cfg, second, jitter)
      BY <2>0 DEF Leaves
    <3> QED
      BY <3>1, <3>2, NothingMended
  <2>4. DOMAIN results = 1 .. n /\ DOMAIN results' = 1 .. n + 1
    BY <2>1, LenProperties DEF WalkInv
  <2>5. \A x \in DOMAIN files : files[x].run \in 1 .. n
    BY <2>1, <2>4 DEF FilesInv
  <2>6. \A x \in DOMAIN files' : x = name \/ x \in DOMAIN files \ {name}
    BY <2>2
  <2>7. \A x \in DOMAIN files : files[x].Config = used[files[x].run]
    BY <2>4, <2>5 DEF ExactInv
  <2>8. \A x \in DOMAIN files' : files'[x].Config = used'[files'[x].run]
    BY <2>1, <2>2, <2>3, <2>5, <2>6, <2>7
  <2> QED
    BY <2>8 DEF ExactInv
<1>2. CASE results' = <<>>
  BY <1>2 DEF ExactInv
<1>3. CASE UNCHANGED <<results, files, used>>
  BY <1>3 DEF ExactInv
<1> QED
  BY <1>1, <1>2, <1>3, StepsToFiles

\* Where the timeouts are positive whole milliseconds, the jitters whole hundredths of them,
\* and no largest delay is below a least one, the metadata of a run are the parameters it was
\* carried out with: what writeMetadataFile rounds loses nothing, and defaults that
\* RunSimulation fills in and the seed that it draws are written down as well.
THEOREM MetadataIsTrue == ASSUME NothingToMend, WholeDurations PROVE Spec => []MetadataExact
<1>1. Init => WalkInv /\ FilesInv /\ ExactInv
  BY WalkInit, FilesInit
<1>2. WalkInv /\ FilesInv /\ ExactInv /\ [Next]_vars => (WalkInv /\ FilesInv /\ ExactInv)'
  BY WalkNext, FilesNext, ExactNext
<1>3. FilesInv /\ ExactInv => MetadataExact
  BY DEF FilesInv, ExactInv, MetadataExact
<1> QED
  BY <1>1, <1>2, <1>3, PTL DEF Spec
=============================================================================
