----------------------------- MODULE PowerProofs -----------------------------
(***************************************************************************)
(* Counting units of voting power: what a set of validators holds, what    *)
(* two sets share, and what follows when both reach two thirds.  The       *)
(* powers are an arbitrary function here.                                  *)
(***************************************************************************)
EXTENDS Integers, FiniteSetTheorems, WellFoundedInduction, TLAPS

\* As UnitsOf and PowerOf of VotingPower, for the powers p.
Units(p, S) == UNION {{v} \X (1 .. p[v]) : v \in S}
Held(p, S) == Cardinality(Units(p, S))

LEMMA UnitsFinite ==
  ASSUME NEW S, IsFiniteSet(S), NEW p \in [S -> Nat], NEW T \in SUBSET S
  PROVE  IsFiniteSet(Units(p, T))
  <1> DEFINE f == [v \in T |-> {v} \X (1 .. p[v])]
             All == {{v} \X (1 .. p[v]) : v \in T}
  <1>1. IsFiniteSet(T)
    BY FS_Subset
  <1>2. f \in Surjection(T, All)
    BY DEF Surjection
  <1>3. IsFiniteSet(All)
    BY <1>1, <1>2, FS_Surjection DEF ExistsSurjection
  <1>4. ASSUME NEW v \in T
        PROVE  IsFiniteSet({v} \X (1 .. p[v]))
    <2>1. p[v] \in Int
      OBVIOUS
    <2>2. IsFiniteSet(1 .. p[v])
      BY <2>1, FS_Interval
    <2>3. IsFiniteSet({v})
      BY FS_Singleton
    <2> QED BY <2>2, <2>3, FS_Product
  <1>5. \A U \in All : IsFiniteSet(U)
    BY <1>4
  <1>6. IsFiniteSet(UNION All)
    BY <1>3, <1>5, FS_UNION
  <1> QED BY <1>6 DEF Units

\* Whoever holds power owns units of his own, so sharing units is sharing validators.
LEMMA UnitsShared ==
  ASSUME NEW S, NEW p \in [S -> Nat], NEW P \in SUBSET S, NEW Q \in SUBSET S
  PROVE  /\ Units(p, P) \cap Units(p, Q) = Units(p, P \cap Q)
         /\ Units(p, P) \cup Units(p, Q) = Units(p, P \cup Q)
         /\ P \subseteq Q => Units(p, P) \subseteq Units(p, Q)
  BY DEF Units

LEMMA HeldGrows ==
  ASSUME NEW S, IsFiniteSet(S), NEW p \in [S -> Nat], NEW Q \in SUBSET S, NEW P \in SUBSET Q
  PROVE  Held(p, P) \in Nat /\ Held(p, Q) \in Nat /\ Held(p, P) <= Held(p, Q)
  <1>1. IsFiniteSet(Units(p, Q)) /\ Units(p, P) \subseteq Units(p, Q)
    BY UnitsFinite, UnitsShared
  <1> QED BY <1>1, FS_Subset, FS_CardinalityType DEF Held

\* What two sets hold together and in common.
LEMMA HeldShared ==
  ASSUME NEW S, IsFiniteSet(S), NEW p \in [S -> Nat], NEW P \in SUBSET S, NEW Q \in SUBSET S
  PROVE  /\ Held(p, P \cup Q) = Held(p, P) + Held(p, Q) - Held(p, P \cap Q)
         /\ Held(p, P) + Held(p, Q) - Held(p, P \cap Q) <= Held(p, S)
  <1>1. IsFiniteSet(Units(p, P)) /\ IsFiniteSet(Units(p, Q))
    BY UnitsFinite
  <1>2. Held(p, P \cup Q) = Held(p, P) + Held(p, Q) - Held(p, P \cap Q)
    BY <1>1, UnitsShared, FS_Union DEF Held
  <1>3. Held(p, P \cup Q) <= Held(p, S)
    BY HeldGrows
  <1> QED BY <1>2, <1>3
-----------------------------------------------------------------------------
\* Sets of validators have a first and a last: ids are numbers.
LEMMA LeastExists ==
  ASSUME NEW S \in SUBSET Nat, S # {}
  PROVE  \E x \in S : \A y \in S : x <= y
<1> DEFINE R == OpToRel(<, Nat)
<1>1. IsWellFoundedOn(R, Nat)
  BY NatLessThanWellFounded
<1>2. \A x, y \in Nat : y < x => <<y, x>> \in R
  BY DEF OpToRel
<1> HIDE DEF R
<1>3. PICK x \in S : \A y \in S : <<y, x>> \notin R
  BY <1>1, WFMin
<1>4. x \in Nat /\ \A y \in S : y \in Nat
  OBVIOUS
<1>5. \A y \in S : ~(y < x)
  BY <1>2, <1>3, <1>4
<1> QED
  BY <1>4, <1>5

LEMMA GreatestExists ==
  ASSUME NEW S \in SUBSET Nat, IsFiniteSet(S), S # {}
  PROVE  \E x \in S : \A y \in S : y <= x
<1> DEFINE Above(x) == {y \in S : y > x}
           Counts == {Cardinality(Above(x)) : x \in S}
<1>1. \A x \in S : IsFiniteSet(Above(x)) /\ Cardinality(Above(x)) \in Nat
  BY FS_Subset, FS_CardinalityType
<1>2. PICK x \in S : \A z \in S : Cardinality(Above(x)) <= Cardinality(Above(z))
  <2>1. Counts \in SUBSET Nat /\ Counts # {}
    BY <1>1
  <2>2. PICK c \in Counts : \A d \in Counts : c <= d
    BY <2>1, LeastExists
  <2> QED
    BY <2>2
<1>3. ASSUME NEW y \in S, ~(y <= x)
      PROVE  FALSE
  <2>1. x \in Nat /\ y \in Nat /\ \A z \in S : z \in Nat
    BY <1>3
  <2>2. y > x
    BY <1>3, <2>1
  <2>3. Above(y) \in SUBSET Above(x)
    <3>1. \A z \in S : z > y => z > x
      BY <2>1, <2>2
    <3> QED
      BY <3>1
  <2>4. y \in Above(x) /\ y \notin Above(y)
    BY <1>3, <2>1, <2>2
  <2> HIDE DEF Above
  <2>5. Cardinality(Above(y)) <= Cardinality(Above(x))
        /\ Cardinality(Above(x)) # Cardinality(Above(y))
    BY <1>1, <2>3, <2>4, FS_Subset
  <2>6. Cardinality(Above(x)) <= Cardinality(Above(y))
    BY <1>2, <1>3
  <2> QED
    BY <1>1, <1>3, <2>5, <2>6
<1> QED
  BY <1>3
-----------------------------------------------------------------------------
(***************************************************************************)
(* The validators of A in the order of their ids, each with a share of as  *)
(* many units as it has power, laid end to end: who owns the unit o.       *)
(***************************************************************************)
HeldBelow(p, A, v) == Held(p, {w \in A : w < v})

Owns(p, A, v, o) == HeldBelow(p, A, v) <= o /\ o < HeldBelow(p, A, v) + p[v]

LEMMA HeldByOne ==
  ASSUME NEW p, NEW v, p[v] \in Nat
  PROVE  Held(p, {v}) = p[v]
<1>1. Units(p, {v}) = {v} \X (1 .. p[v])
  BY DEF Units
<1>2. IsFiniteSet(1 .. p[v]) /\ Cardinality(1 .. p[v]) = p[v]
  BY FS_Interval
<1>3. IsFiniteSet({v}) /\ Cardinality({v}) = 1
  BY FS_Singleton
<1>4. Cardinality({v} \X (1 .. p[v])) = 1 * p[v]
  BY <1>2, <1>3, FS_Product, ZenonT(30)
<1>5. 1 * p[v] = p[v]
  OBVIOUS
<1> QED
  BY <1>1, <1>4, <1>5 DEF Held

LEMMA HeldByNone == \A p : Held(p, {}) = 0
  BY FS_EmptySet DEF Held, Units

\* The share of v ends where that of the next validator begins.
LEMMA SharesAdjoin ==
  ASSUME NEW S, IsFiniteSet(S), NEW p \in [S -> Nat], NEW A \in SUBSET S,
         NEW v \in S, v \notin A
  PROVE  Held(p, A \cup {v}) = Held(p, A) + p[v]
<1>1. {v} \in SUBSET S /\ A \cap {v} = {}
  OBVIOUS
<1>2. Held(p, A \cup {v}) = Held(p, A) + Held(p, {v}) - Held(p, A \cap {v})
  BY <1>1, HeldShared
<1>3. Held(p, A) \in Nat /\ p[v] \in Nat
  BY HeldGrows
<1>4. Held(p, A \cup {v}) = Held(p, A) + Held(p, {v}) - 0
  BY <1>1, <1>2, HeldByNone
<1> QED
  BY <1>3, <1>4, HeldByOne

\* Nobody's share reaches into that of a later validator, or beyond what all hold.
LEMMA SharesApart ==
  ASSUME NEW S \in SUBSET Nat, IsFiniteSet(S), NEW p \in [S -> Nat], NEW A \in SUBSET S,
         NEW v \in A
  PROVE  /\ HeldBelow(p, A, v) \in Nat
         /\ HeldBelow(p, A, v) + p[v] <= Held(p, A)
         /\ \A w \in A : v < w => HeldBelow(p, A, v) + p[v] <= HeldBelow(p, A, w)
<1> DEFINE Below(x) == {w \in A : w < x}
<1>1. v \in Nat /\ v \in S /\ ~(v < v)
  OBVIOUS
<1>2. v \in S /\ v \notin Below(v) /\ Below(v) \in SUBSET S
  BY <1>1
<1> HIDE DEF Below
<1>3. Held(p, Below(v) \cup {v}) = Held(p, Below(v)) + p[v]
  <2>1. \A C \in SUBSET S : \A x \in S :
          x \notin C => Held(p, C \cup {x}) = Held(p, C) + p[x]
    BY SharesAdjoin
  <2> QED
    BY <1>2, <2>1
<1>4. ASSUME NEW B \in SUBSET A, Below(v) \cup {v} \subseteq B
      PROVE  Held(p, Below(v) \cup {v}) <= Held(p, B)
  BY <1>4, HeldGrows
<1>5. Below(v) \cup {v} \subseteq A
  BY DEF Below
<1>6. \A w \in A : v < w => Below(v) \cup {v} \subseteq Below(w) /\ Below(w) \in SUBSET A
  <2> SUFFICES ASSUME NEW w \in A, v < w, NEW x \in A, x < v PROVE x < w
    BY DEF Below
  <2> QED
    OBVIOUS
<1>7. Held(p, Below(v)) \in Nat
  BY <1>2, HeldGrows
<1>8. \A w \in A : HeldBelow(p, A, w) = Held(p, Below(w))
  BY DEF HeldBelow, Below
<1> QED
  BY <1>3, <1>4, <1>5, <1>6, <1>7, <1>8

\* The shares cover all there is.
LEMMA SharesCover ==
  ASSUME NEW S \in SUBSET Nat, IsFiniteSet(S), NEW p \in [S -> Nat], NEW A \in SUBSET S,
         NEW o \in Nat, o < Held(p, A)
  PROVE  \E v \in A : Owns(p, A, v, o)
<1>1. A \in SUBSET Nat /\ IsFiniteSet(A) /\ \A v \in A : p[v] \in Nat
  BY FS_Subset
<1>2. \A v \in A : HeldBelow(p, A, v) \in Nat
  BY SharesApart
<1>3. ASSUME NEW B \in SUBSET A, Held(p, B) > o
      PROVE  \E u \in B : Held(p, {w \in B : w < u}) + p[u] = Held(p, B)
  <2>1. B \in SUBSET Nat /\ IsFiniteSet(B)
    BY <1>1, FS_Subset
  <2>2. B # {}
    BY <1>3, HeldByNone
  <2>3. PICK u \in B : \A w \in B : w <= u
    BY <2>1, <2>2, GreatestExists
  <2>4. \A w \in B : (w < u \/ w = u) /\ ~(u < u)
    BY <2>1, <2>3
  <2>5. {w \in B : w < u} \cup {u} = B /\ u \notin {w \in B : w < u}
    BY <2>4
  <2>6. {w \in B : w < u} \in SUBSET S /\ u \in S
    OBVIOUS
  <2>7. Held(p, {w \in B : w < u} \cup {u}) = Held(p, {w \in B : w < u}) + p[u]
    <3>1. \A C \in SUBSET S : \A x \in S :
            x \notin C => Held(p, C \cup {x}) = Held(p, C) + p[x]
      BY SharesAdjoin
    <3> QED
      BY <2>5, <2>6, <3>1
  <2> QED
    BY <2>5, <2>7
<1> DEFINE Reaches(v) == HeldBelow(p, A, v) + p[v] > o
<1>4. PICK v \in {w \in A : Reaches(w)} : \A w \in {x \in A : Reaches(x)} : v <= w
  <2>1. PICK u \in A : Held(p, {w \in A : w < u}) + p[u] = Held(p, A)
    BY <1>3
  <2>2. u \in {w \in A : Reaches(w)}
    BY <2>1 DEF HeldBelow
  <2>3. {w \in A : Reaches(w)} \in SUBSET Nat
    BY <1>1
  <2> QED
    BY <2>2, <2>3, LeastExists
<1>5. HeldBelow(p, A, v) <= o
  <2> SUFFICES ASSUME HeldBelow(p, A, v) > o PROVE FALSE
    BY <1>2
  <2> DEFINE B == {w \in A : w < v}
  <2>1. PICK u \in B : Held(p, {w \in B : w < u}) + p[u] = Held(p, B)
    BY <1>3 DEF HeldBelow
  <2>2. {w \in B : w < u} = {w \in A : w < u}
    <3>1. \A w \in A : w < u => w < v
      BY <1>1, <2>1
    <3> QED
      BY <3>1
  <2>3. Reaches(u) /\ u \in A /\ u < v
    BY <2>1, <2>2 DEF HeldBelow
  <2> QED
    BY <1>1, <1>4, <2>3
<1> QED
  BY <1>4, <1>5 DEF Owns

\* Nobody else owns it.
LEMMA OneOwner ==
  ASSUME NEW S \in SUBSET Nat, IsFiniteSet(S), NEW p \in [S -> Nat], NEW A \in SUBSET S,
         NEW o \in Nat, NEW v \in A, NEW w \in A, Owns(p, A, v, o), Owns(p, A, w, o)
  PROVE  v = w
<1>1. v \in Nat /\ w \in Nat /\ p[v] \in Nat /\ p[w] \in Nat
  OBVIOUS
<1>2. /\ HeldBelow(p, A, v) \in Nat /\ HeldBelow(p, A, w) \in Nat
      /\ v < w => HeldBelow(p, A, v) + p[v] <= HeldBelow(p, A, w)
      /\ w < v => HeldBelow(p, A, w) + p[w] <= HeldBelow(p, A, v)
  BY SharesApart
<1>3. ~(v < w) /\ ~(w < v)
  BY <1>1, <1>2 DEF Owns
<1> QED
  BY <1>1, <1>3

LEMMA OneQuotient ==
  ASSUME NEW t \in Nat, NEW a \in Int, NEW b \in Int, NEW y \in 0 .. t - 1, NEW z \in 0 .. t - 1,
         t * a + y = t * b + z
  PROVE  y = z
<1>1. \A c, d \in Int : c < d => t * c + t <= t * d
  <2> SUFFICES ASSUME NEW c \in Int, NEW d \in Int, c < d PROVE t * c + t <= t * d
    OBVIOUS
  <2>1. d - c - 1 \in Nat
    OBVIOUS
  <2>2. t * (d - c - 1) \in Nat
    BY <2>1
  <2>3. t * (d - c - 1) = t * d - t * c - t
    OBVIOUS
  <2>4. t * d \in Int /\ t * c \in Int
    OBVIOUS
  <2> QED
    BY <2>2, <2>3, <2>4
<1>2. t * a \in Int /\ t * b \in Int
  OBVIOUS
<1>3. ~(a < b) /\ ~(b < a)
  BY <1>1, <1>2
<1> QED
  BY <1>2, <1>3

LEMMA Remainder ==
  ASSUME NEW t \in Nat, t > 0, NEW x \in Nat
  PROVE  /\ x % t \in Nat /\ x % t < t
         /\ x < t => x % t = x
         /\ x >= t => x % t = (x - t) % t
<1>1. \A y \in Nat : /\ y % t \in 0 .. t - 1 /\ y \div t \in Int
                     /\ y = t * (y \div t) + (y % t)
  OBVIOUS
<1>2. x < t => x % t = x
  OBVIOUS
<1>3. ASSUME x >= t
      PROVE  x % t = (x - t) % t
  <2> DEFINE a == x \div t
             b == (x - t) \div t
             y == x % t
             z == (x - t) % t
  <2>1. x - t \in Nat
    BY <1>3
  <2>2. x = t * a + y /\ x - t = t * b + z
    BY <1>1, <2>1
  <2>3. a \in Int /\ b \in Int /\ y \in 0 .. t - 1 /\ z \in 0 .. t - 1
    BY <1>1, <2>1
  <2> HIDE DEF a, b, y, z
  <2>4. t * (b + 1) = t * b + t /\ t * a \in Int /\ t * b \in Int
    BY <2>3
  <2>5. t * a + y = t * (b + 1) + z /\ b + 1 \in Int
    BY <2>2, <2>3, <2>4
  <2>6. y = z
    BY <2>3, <2>5, OneQuotient
  <2> QED
    BY <2>6 DEF y, z
<1> QED
  BY <1>1, <1>2, <1>3

\* Among t numbers in a row, each remainder below t occurs once.
LEMMA RemaindersOnce ==
  ASSUME NEW t \in Nat, t > 0, NEW h \in Nat, NEW b \in Nat, NEW p \in Nat, b + p <= t
  PROVE  Cardinality({r \in 1 .. t : b <= (h + r) % t /\ (h + r) % t < b + p}) = p
<1> DEFINE c == h % t
           a == h \div t
           f(r) == (h + r) % t
           R == {r \in 1 .. t : b <= f(r) /\ f(r) < b + p}
           O == b .. b + p - 1
           g(o) == IF c < o THEN o - c ELSE o - c + t
           G == [o \in O |-> g(o)]
<1>1. \A y \in Nat : y % t \in 0 .. t - 1 /\ y \div t \in Int /\ y = t * (y \div t) + (y % t)
  OBVIOUS
<1>2. c \in 0 .. t - 1 /\ a \in Int /\ h = t * a + c /\ t * a \in Int
  BY <1>1
<1>3. ASSUME NEW r \in 1 .. t
      PROVE  f(r) = IF c + r < t THEN c + r ELSE c + r - t
  <2> DEFINE d == (h + r) \div t
             y == f(r)
  <2>1. d \in Int /\ y \in 0 .. t - 1 /\ h + r = t * d + y
    BY <1>1
  <2> HIDE DEF c, a, d, y
  <2>2. t * a + (c + r) = t * d + y
    BY <1>2, <2>1
  <2>3. CASE c + r < t
    <3>1. c + r \in 0 .. t - 1
      BY <1>2, <2>3
    <3>2. c + r = y
      BY <1>2, <2>1, <2>2, <3>1, OneQuotient
    <3> QED
      BY <2>3, <3>2 DEF y
  <2>4. CASE ~(c + r < t)
    <3>1. c + r - t \in 0 .. t - 1 /\ a + 1 \in Int
      BY <1>2, <2>4
    <3>2. t * (a + 1) + (c + r - t) = t * d + y
      <4>1. t * (a + 1) = t * a + t /\ t * d \in Int
        BY <1>2, <2>1
      <4> QED
        BY <1>2, <2>1, <2>2, <4>1
    <3>3. c + r - t = y
      BY <2>1, <3>1, <3>2, OneQuotient
    <3> QED
      BY <2>4, <3>3 DEF y
  <2> QED
    BY <2>3, <2>4
<1> HIDE DEF c, a, f
<1>4. \A r \in R : r \in 1 .. t /\ f(r) \in O /\ g(f(r)) = r
  BY <1>2, <1>3
<1>5. \A o \in O : g(o) \in R /\ f(g(o)) = o
  <2> SUFFICES ASSUME NEW o \in O PROVE g(o) \in R /\ f(g(o)) = o
    OBVIOUS
  <2>1. g(o) \in 1 .. t
    BY <1>2
  <2>2. f(g(o)) = o
    BY <1>2, <1>3, <2>1
  <2> QED
    BY <2>1, <2>2
<1>6. IsFiniteSet(O) /\ Cardinality(O) = p
  BY FS_Interval
<1> HIDE DEF R, O, g
<1>7. G \in Bijection(O, R)
  <2>1. G \in [O -> R] /\ \A o \in O : G[o] = g(o)
    BY <1>5
  <2>2. \A x, y \in O : G[x] = G[y] => x = y
    BY <1>5, <2>1
  <2>3. \A r \in R : \E o \in O : G[o] = r
    BY <1>4, <2>1
  <2> QED
    BY <2>1, <2>2, <2>3 DEF Bijection, Injection, Surjection, IsInjective
<1>8. Cardinality(R) = p
  BY <1>6, <1>7, FS_Bijection DEF ExistsBijection
<1> QED
  BY <1>8 DEF R, f
=============================================================================
