--------------------------- MODULE MetadataProofs ---------------------------
(***************************************************************************)
(* The bytes of the blocks of a metadata map, for maps of any size: how    *)
(* many there are, where in them a block begins, and that what is read of  *)
(* a memory and then filled into another is what was there.  A sum over a  *)
(* set is a fold; what is proved of it rests on a smallest counterexample. *)
(***************************************************************************)
EXTENDS MachineState, FiniteSetTheorems, WellFoundedInduction, TLAPS

\* A set of addresses has a least and a greatest.
LEMMA MinOf ==
  ASSUME NEW S, S \subseteq Nat, S # {}
  PROVE  Min(S) \in S /\ \A x \in S : Min(S) <= x
<1>1. PICK m \in S : ~ \E y \in S : <<y, m>> \in OpToRel(<, Nat)
  BY NatLessThanWellFounded, WFMin
<1>2. \A x \in S : m <= x
  BY <1>1 DEF OpToRel
<1> QED
  BY <1>2 DEF Min

\* A set of addresses has a greatest one.
LEMMA MaxOf ==
  ASSUME NEW S, S \subseteq 0..Top, S # {}
  PROVE  Max(S) \in S /\ \A x \in S : x <= Max(S)
<1> DEFINE T == {Top - x : x \in S}
<1>1. T \subseteq Nat /\ T # {}
  BY TopAssumption
<1>2. PICK m \in T : \A y \in T : m <= y
  BY <1>1, MinOf
<1>3. PICK x \in S : m = Top - x
  BY <1>2
<1>4. \A y \in S : Top - x <= Top - y
  BY <1>2, <1>3
<1>5. \A y \in S : y <= x
  BY <1>4, TopAssumption
<1> QED
  BY <1>5 DEF Max

-----------------------------------------------------------------------------
(* Sums over finite sets.                                                  *)

\* A family of finite sets has a smallest member.
LEMMA SmallestOf ==
  ASSUME NEW F, F # {}, \A s \in F : IsFiniteSet(s)
  PROVE  \E s \in F : \A t \in F : Cardinality(s) <= Cardinality(t)
<1> DEFINE C == {Cardinality(s) : s \in F}
<1>1. C \subseteq Nat /\ C # {}
  BY FS_CardinalityType
<1>2. PICK c \in C : \A d \in C : c <= d
  <2> HIDE DEF C
  <2> QED
    BY <1>1, MinOf
<1> QED
  BY <1>2

\* A finite set without one of its members is smaller by one.
LEMMA SmallerWithout ==
  ASSUME NEW S, IsFiniteSet(S), NEW x \in S
  PROVE  /\ IsFiniteSet(S \ {x})
         /\ Cardinality(S) \in Nat /\ Cardinality(S \ {x}) \in Nat
         /\ Cardinality(S \ {x}) = Cardinality(S) - 1
         /\ Cardinality(S \ {x}) < Cardinality(S)
         /\ ~(Cardinality(S) <= Cardinality(S \ {x}))
<1>1. IsFiniteSet(S \ {x}) /\ Cardinality(S \ {x}) = Cardinality(S) - 1
  BY FS_RemoveElement
<1>2. Cardinality(S) \in Nat /\ Cardinality(S \ {x}) \in Nat
  BY <1>1, FS_CardinalityType
<1> QED
  BY <1>1, <1>2

Sum(map, S) == MapThenSumSet(LAMBDA o : map[o], S)

\* The function by which the sums over U and its subsets are defined.
Chosen(s) == CHOOSE x \in s : TRUE

IsFold(map, U, f) ==
  f = [s \in SUBSET U |-> IF s = {} THEN 0 ELSE map[Chosen(s)] + f[s \ {Chosen(s)}]]

\* There is a function that sums a map over the subsets of a finite set.
LEMMA FoldExists ==
  ASSUME NEW map, NEW U, IsFiniteSet(U)
  PROVE  \E f : IsFold(map, U, f)
<1> DEFINE Upto(n) == {s \in SUBSET U : Cardinality(s) <= n}
           IsPart(n, f) ==
             f = [s \in Upto(n) |->
                    IF s = {} THEN 0 ELSE map[Chosen(s)] + f[s \ {Chosen(s)}]]
           bad == {n \in Nat : ~ \E f : IsPart(n, f)}
<1>0. \A s \in SUBSET U : IsFiniteSet(s) /\ Cardinality(s) \in Nat
  BY FS_Subset, FS_CardinalityType
<1>1. bad = {}
  <2> SUFFICES ASSUME bad # {} PROVE FALSE
    OBVIOUS
  <2>1. PICK n \in bad : \A m \in bad : n <= m
    <3>1. bad \subseteq Nat
      OBVIOUS
    <3> HIDE DEF bad
    <3> QED
      BY <3>1, MinOf
  <2>2. CASE n = 0
    <3> DEFINE f == [s \in Upto(0) |-> 0]
    <3>1. \A s \in Upto(0) : s = {}
      BY <1>0, FS_EmptySet
    <3>2. IsPart(0, f)
      BY <3>1
    <3> QED
      BY <2>1, <2>2, <3>2
  <2>3. CASE n # 0
    <3>1. n - 1 \in Nat /\ n - 1 \notin bad
      <4>1. n \in Nat
        BY <2>1
      <4> HIDE DEF bad
      <4> QED
        BY <2>1, <2>3, <4>1
    <3>2. PICK f : IsPart(n - 1, f)
      BY <3>1
    <3> DEFINE g == [s \in Upto(n) |->
                       IF s = {} THEN 0 ELSE map[Chosen(s)] + f[s \ {Chosen(s)}]]
    <3>3. ASSUME NEW s \in Upto(n), s # {}
          PROVE  s \ {Chosen(s)} \in Upto(n - 1)
      <4>1. Chosen(s) \in s
        BY <3>3 DEF Chosen
      <4>2. Cardinality(s \ {Chosen(s)}) = Cardinality(s) - 1
        BY <1>0, <4>1, FS_RemoveElement
      <4> QED
        BY <1>0, <2>1, <4>2
    <3>4. ASSUME NEW t \in Upto(n - 1) PROVE g[t] = f[t]
      <4>1. t \in Upto(n)
        BY <1>0, <2>1
      <4> QED
        BY <3>2, <4>1
    <3>5. IsPart(n, g)
      BY <3>3, <3>4
    <3> QED
      BY <2>1, <3>5
  <2> QED
    BY <2>2, <2>3
<1>2. PICK f : IsPart(Cardinality(U), f)
  <2>1. Cardinality(U) \in Nat
    BY FS_CardinalityType
  <2> QED
    BY <1>1, <2>1
<1>3. Upto(Cardinality(U)) = SUBSET U
  BY FS_Subset
<1> QED
  BY <1>2, <1>3 DEF IsFold

\* A sum is such a fold; it does not matter over which larger set.
LEMMA SumIsFold ==
  ASSUME NEW map, NEW S, IsFiniteSet(S)
  PROVE  \E f : IsFold(map, S, f) /\ Sum(map, S) = f[S]
<1> DEFINE f == CHOOSE f : IsFold(map, S, f)
<1>1. IsFold(map, S, f)
  BY FoldExists
<1>2. Sum(map, S) = f[S]
  BY DEF Sum, MapThenSumSet, MapThenFoldSet, IsFold, Chosen
<1> QED
  BY <1>1, <1>2

\* Two such functions agree where both are defined.
LEMMA FoldsAgree ==
  ASSUME NEW map, NEW U, IsFiniteSet(U), NEW V, NEW f, NEW g,
         IsFold(map, U, f), IsFold(map, V, g), NEW S \in SUBSET U, S \subseteq V
  PROVE  f[S] = g[S]
<1> DEFINE differ == {s \in SUBSET S : f[s] # g[s]}
<1>1. ASSUME differ # {} PROVE FALSE
  <2>1. \A s \in differ : IsFiniteSet(s)
    BY FS_Subset
  <2>2. PICK s \in differ : \A t \in differ : Cardinality(s) <= Cardinality(t)
    <3> HIDE DEF differ
    <3> QED
      BY <1>1, <2>1, SmallestOf
  <2>3. s \in SUBSET U /\ s \in SUBSET V
    OBVIOUS
  <2>4. s # {}
    BY <2>3 DEF IsFold
  <2> DEFINE t == s \ {Chosen(s)}
  <2>5. Chosen(s) \in s
    BY <2>4 DEF Chosen
  <2>6. ~(Cardinality(s) <= Cardinality(t))
    BY <2>1, <2>5, SmallerWithout
  <2>7. f[t] = g[t]
    BY <2>2, <2>6
  <2>8. f[s] = map[Chosen(s)] + f[t] /\ g[s] = map[Chosen(s)] + g[t]
    BY <2>3, <2>4 DEF IsFold
  <2> QED
    BY <2>7, <2>8
<1> QED
  BY <1>1

\* The empty sum.
LEMMA SumOfNone ==
  ASSUME NEW map
  PROVE  Sum(map, {}) = 0
<1>1. PICK f : IsFold(map, {}, f) /\ Sum(map, {}) = f[{}]
  BY SumIsFold, FS_EmptySet
<1> QED
  BY <1>1 DEF IsFold

\* A sum is its chosen term and the sum of the others.
LEMMA SumStep ==
  ASSUME NEW map, NEW S, IsFiniteSet(S), S # {}
  PROVE  Sum(map, S) = map[Chosen(S)] + Sum(map, S \ {Chosen(S)})
<1> DEFINE T == S \ {Chosen(S)}
<1>1. IsFiniteSet(T)
  BY FS_Subset
<1>2. PICK f : IsFold(map, S, f) /\ Sum(map, S) = f[S]
  BY SumIsFold
<1>3. PICK g : IsFold(map, T, g) /\ Sum(map, T) = g[T]
  BY <1>1, SumIsFold
<1>4. f[T] = g[T]
  BY <1>2, <1>3, FoldsAgree
<1>5. f[S] = map[Chosen(S)] + f[T]
  BY <1>2 DEF IsFold
<1> QED
  BY <1>2, <1>3, <1>4, <1>5

\* A sum of natural numbers is one.
LEMMA SumIsNat ==
  ASSUME NEW map, NEW S, IsFiniteSet(S), \A o \in S : map[o] \in Nat
  PROVE  Sum(map, S) \in Nat
<1> DEFINE bad == {s \in SUBSET S : Sum(map, s) \notin Nat}
<1>1. ASSUME bad # {} PROVE FALSE
  <2>1. \A s \in bad : IsFiniteSet(s)
    BY FS_Subset
  <2>2. PICK s \in bad : \A t \in bad : Cardinality(s) <= Cardinality(t)
    <3> HIDE DEF bad
    <3> QED
      BY <1>1, <2>1, SmallestOf
  <2>3. s # {}
    BY <2>2, SumOfNone
  <2> DEFINE t == s \ {Chosen(s)}
  <2>4. Chosen(s) \in s
    BY <2>3 DEF Chosen
  <2>5. ~(Cardinality(s) <= Cardinality(t))
    BY <2>1, <2>4, SmallerWithout
  <2>6. Sum(map, t) \in Nat
    BY <2>2, <2>5
  <2>7. Sum(map, s) = map[Chosen(s)] + Sum(map, t)
    BY <2>1, <2>3, SumStep
  <2> QED
    BY <2>4, <2>6, <2>7
<1> QED
  BY <1>1

\* Any element may be taken off a sum, whichever the fold chose first.
LEMMA SumWithout ==
  ASSUME NEW map, NEW S, IsFiniteSet(S), \A o \in S : map[o] \in Nat, NEW x \in S
  PROVE  Sum(map, S) = map[x] + Sum(map, S \ {x})
<1> DEFINE bad == {s \in SUBSET S : \E y \in s : Sum(map, s) # map[y] + Sum(map, s \ {y})}
<1>1. ASSUME bad # {} PROVE FALSE
  <2>1. \A s \in bad : IsFiniteSet(s)
    BY FS_Subset
  <2>2. PICK s \in bad : \A t \in bad : Cardinality(s) <= Cardinality(t)
    <3> HIDE DEF bad
    <3> QED
      BY <1>1, <2>1, SmallestOf
  <2>3. PICK y \in s : Sum(map, s) # map[y] + Sum(map, s \ {y})
    OBVIOUS
  <2> DEFINE c == Chosen(s)
             t == s \ {c}
             u == s \ {y}
             v == s \ {c, y}
  <2>4. c \in s
    BY DEF Chosen
  <2>5. Sum(map, s) = map[c] + Sum(map, t)
    BY <2>1, <2>4, SumStep
  <2>6. c # y
    BY <2>3, <2>5
  <2>7. /\ t \in SUBSET S /\ u \in SUBSET S
        /\ ~(Cardinality(s) <= Cardinality(t)) /\ ~(Cardinality(s) <= Cardinality(u))
    BY <2>1, <2>4, SmallerWithout
  <2>8. t \notin bad /\ u \notin bad
    <3> HIDE DEF bad
    <3> QED
      BY <2>2, <2>7
  <2>9. Sum(map, t) = map[y] + Sum(map, v)
    <3>1. y \in t /\ t \ {y} = v
      BY <2>6
    <3> QED
      BY <2>7, <2>8, <3>1
  <2>10. Sum(map, u) = map[c] + Sum(map, v)
    <3>1. c \in u /\ u \ {c} = v
      BY <2>4, <2>6
    <3> QED
      BY <2>7, <2>8, <3>1
  <2>11. map[c] \in Nat /\ map[y] \in Nat /\ Sum(map, v) \in Nat
    <3>1. v \in SUBSET S /\ IsFiniteSet(v)
      BY FS_Subset
    <3> QED
      BY <2>4, <3>1, SumIsNat
  <2> HIDE DEF c, t, u, v
  <2> QED
    BY <2>3, <2>5, <2>9, <2>10, <2>11 DEF u
<1> QED
  BY <1>1

-----------------------------------------------------------------------------
(* Where the blocks of a map are among the bytes.                          *)

\* A cell is covered by a map when it lies in one of its blocks.
LEMMA InBlock ==
  ASSUME NEW map, NEW c
  PROVE  c \in Covered(map) <=> \E o \in DOMAIN map : c \in o..(o + map[o] - 1)
BY DEF Covered

\* A map in range, in numbers.
LEMMA InRange ==
  ASSUME NEW map, IsMetadata(map)
  PROVE  /\ IsFiniteSet(DOMAIN map)
         /\ \A o \in DOMAIN map : o \in Nat /\ o <= Top /\ map[o] \in Nat /\ o + map[o] <= Top
<1>1. DOMAIN map \subseteq 0..Top /\ \A o \in DOMAIN map : map[o] \in 0..(Top - o)
  BY DEF IsMetadata, Address
<1>2. IsFiniteSet(0..Top)
  BY TopAssumption, FS_Interval
<1>3. IsFiniteSet(DOMAIN map)
  BY <1>1, <1>2, FS_Subset
<1> QED
  BY <1>1, <1>3, TopAssumption

\* What a block adds to the bytes before it.
LEMMA BeforeStep ==
  ASSUME NEW map, IsMetadata(map), NEW a \in Nat
  PROVE  /\ Before(map, 0) = 0 /\ Before(map, a) \in Nat
         /\ a \in DOMAIN map => Before(map, a + 1) = Before(map, a) + map[a]
         /\ a \notin DOMAIN map => Before(map, a + 1) = Before(map, a)
         /\ a > Top => Before(map, a) = Size(map)
<1> DEFINE below(n) == {o \in DOMAIN map : o < n}
<1>1. /\ IsFiniteSet(DOMAIN map)
      /\ \A o \in DOMAIN map : o \in Nat /\ o <= Top /\ map[o] \in Nat
  BY InRange
<1>2. \A n : Before(map, n) = Sum(map, below(n))
  BY DEF Before, Sum
<1>3. \A n : IsFiniteSet(below(n))
  BY <1>1, FS_Subset
<1>4. \A n \in Nat : Before(map, n) \in Nat
  BY <1>1, <1>2, <1>3, SumIsNat
<1>5. Before(map, 0) = 0
  <2>1. below(0) = {}
    BY <1>1
  <2> QED
    BY <1>2, <2>1, SumOfNone
<1>6. ASSUME a \in DOMAIN map PROVE Before(map, a + 1) = Before(map, a) + map[a]
  <2>1. a \in below(a + 1) /\ below(a + 1) \ {a} = below(a)
    BY <1>1, <1>6
  <2>2. \A o \in below(a + 1) : map[o] \in Nat
    BY <1>1
  <2>3. Sum(map, below(a + 1)) = map[a] + Sum(map, below(a))
    <3> HIDE DEF below
    <3>1. Sum(map, below(a + 1)) = map[a] + Sum(map, below(a + 1) \ {a})
      BY <1>3, <2>1, <2>2, SumWithout
    <3> QED
      BY <2>1, <3>1
  <2>4. Before(map, a) \in Nat /\ map[a] \in Nat
    BY <1>1, <1>4, <1>6
  <2> QED
    BY <1>2, <2>3, <2>4
<1>7. ASSUME a \notin DOMAIN map PROVE Before(map, a + 1) = Before(map, a)
  <2>1. below(a + 1) = below(a)
    BY <1>1, <1>7
  <2> QED
    BY <1>2, <2>1
<1>8. ASSUME a > Top PROVE Before(map, a) = Size(map)
  <2>1. below(a) = DOMAIN map
    BY <1>1, <1>8, TopAssumption
  <2>2. Size(map) = Sum(map, DOMAIN map)
    BY DEF Size, Sum
  <2> QED
    BY <1>2, <2>1, <2>2
<1> QED
  BY <1>4, <1>5, <1>6, <1>7, <1>8

\* There are never fewer bytes before a later address.
LEMMA BeforeGrows ==
  ASSUME NEW map, IsMetadata(map), NEW a \in Nat, NEW b \in Nat, a <= b
  PROVE  Before(map, a) <= Before(map, b)
<1> DEFINE bad == {n \in Nat : a <= n /\ ~(Before(map, a) <= Before(map, n))}
<1>1. ASSUME bad # {} PROVE FALSE
  <2>1. PICK n \in bad : \A m \in bad : n <= m
    <3>1. bad \subseteq Nat
      OBVIOUS
    <3> HIDE DEF bad
    <3> QED
      BY <1>1, <3>1, MinOf
  <2>2. n \in Nat /\ a <= n /\ ~(Before(map, a) <= Before(map, n))
    OBVIOUS
  <2>3. n # a
    BY <2>2, BeforeStep
  <2>4. n - 1 \in Nat /\ a <= n - 1
    BY <2>2, <2>3
  <2>5. Before(map, a) <= Before(map, n - 1)
    <3>1. n - 1 \notin bad
      <4> HIDE DEF bad
      <4> QED
        BY <2>1, <2>2, <2>4
    <3> QED
      BY <2>4, <3>1
  <2>6. Before(map, n - 1) <= Before(map, n)
    <3>1. (n - 1) + 1 = n
      BY <2>2
    <3>2. /\ Before(map, n - 1) \in Nat
          /\ n - 1 \in DOMAIN map => Before(map, n) = Before(map, n - 1) + map[n - 1]
          /\ n - 1 \notin DOMAIN map => Before(map, n) = Before(map, n - 1)
      BY <2>4, <3>1, BeforeStep
    <3>3. n - 1 \in DOMAIN map => map[n - 1] \in Nat
      BY InRange
    <3> QED
      BY <3>2, <3>3
  <2>7. Before(map, a) \in Nat /\ Before(map, n - 1) \in Nat /\ Before(map, n) \in Nat
    BY <2>2, <2>4, BeforeStep
  <2> QED
    BY <2>2, <2>5, <2>6, <2>7
<1> QED
  BY <1>1

\* The bytes of a block are all of them among the bytes, in front of those of
\* every later block.
LEMMA BlockBytes ==
  ASSUME NEW map, IsMetadata(map), NEW o \in DOMAIN map
  PROVE  /\ Before(map, o) \in Nat /\ Size(map) \in Nat
         /\ Before(map, o) + map[o] <= Size(map)
         /\ \A p \in DOMAIN map : o < p => Before(map, o) + map[o] <= Before(map, p)
<1>1. o \in Nat /\ map[o] \in Nat /\ o + 1 \in Nat /\ o < Top + 1 /\ Top + 1 \in Nat /\ Top + 1 > Top
  BY InRange, TopAssumption
<1>2. Before(map, o + 1) = Before(map, o) + map[o] /\ Before(map, o) \in Nat
  BY <1>1, BeforeStep
<1>3. Size(map) = Before(map, Top + 1) /\ Size(map) \in Nat
  BY <1>1, BeforeStep
<1>4. Before(map, o + 1) <= Size(map)
  BY <1>1, <1>3, BeforeGrows
<1>5. ASSUME NEW p \in DOMAIN map, o < p PROVE Before(map, o + 1) <= Before(map, p)
  <2>1. p \in Nat /\ o + 1 <= p
    BY <1>1, <1>5, InRange
  <2> QED
    BY <1>1, <2>1, BeforeGrows
<1> QED
  BY <1>2, <1>3, <1>4, <1>5

\* The bytes that a map covers can be counted.
LEMMA SizeIsNat ==
  ASSUME NEW map, IsMetadata(map)
  PROVE  Size(map) \in Nat
<1>1. Top + 1 \in Nat /\ Top + 1 > Top
  BY TopAssumption
<1> QED
  BY <1>1, BeforeStep

\* Each byte is one of exactly one block.
LEMMA ByteOfBlock ==
  ASSUME NEW map, IsMetadata(map), NEW i \in 1..Size(map)
  PROVE  \E o \in DOMAIN map : i - Before(map, o) \in 1..map[o]
<1> DEFINE ends == {n \in Nat : i <= Before(map, n)}
<1>1. PICK n \in ends : \A m \in ends : n <= m
  <2>1. Top + 1 \in Nat /\ Before(map, Top + 1) = Size(map) /\ Size(map) \in Nat
    BY TopAssumption, BeforeStep, SizeIsNat
  <2>2. Top + 1 \in ends /\ ends \subseteq Nat
    BY <2>1
  <2> HIDE DEF ends
  <2> QED
    BY <2>2, MinOf
<1>2. n \in Nat /\ i <= Before(map, n) /\ i \in Nat /\ i >= 1
  BY SizeIsNat
<1>3. n - 1 \in Nat
  BY <1>2, BeforeStep
<1>4. Before(map, n - 1) < i
  <2>1. n - 1 \notin ends
    <3> HIDE DEF ends
    <3> QED
      BY <1>1, <1>2, <1>3
  <2>2. Before(map, n - 1) \in Nat
    BY <1>3, BeforeStep
  <2> QED
    BY <1>2, <1>3, <2>1, <2>2
<1>5. /\ Before(map, n - 1) \in Nat
      /\ n - 1 \in DOMAIN map => Before(map, n) = Before(map, n - 1) + map[n - 1]
      /\ n - 1 \notin DOMAIN map => Before(map, n) = Before(map, n - 1)
  <2>1. (n - 1) + 1 = n
    BY <1>2
  <2> QED
    BY <1>3, <2>1, BeforeStep
<1>6. n - 1 \in DOMAIN map /\ Before(map, n) = Before(map, n - 1) + map[n - 1]
  BY <1>2, <1>4, <1>5
<1>7. map[n - 1] \in Nat
  BY <1>6, InRange
<1> QED
  BY <1>2, <1>4, <1>5, <1>6, <1>7

\* A byte of a block is counted after those of the blocks before it.
LEMMA BlockOfByte ==
  ASSUME NEW map, IsMetadata(map), NEW o \in DOMAIN map, NEW k \in 1..map[o]
  PROVE  Before(map, o) + k \in 1..Size(map) /\ BlockOf(map, Before(map, o) + k) = o
<1> DEFINE i == Before(map, o) + k
<1>1. /\ Before(map, o) \in Nat /\ map[o] \in Nat /\ Size(map) \in Nat
      /\ Before(map, o) + map[o] <= Size(map)
  BY BlockBytes, InRange
<1>2. i \in 1..Size(map) /\ i - Before(map, o) \in 1..map[o]
  BY <1>1
<1>3. ASSUME NEW p \in DOMAIN map, i - Before(map, p) \in 1..map[p]
      PROVE  p = o
  <2>1. /\ p \in Nat /\ o \in Nat /\ Before(map, p) \in Nat /\ map[p] \in Nat
        /\ o < p => Before(map, o) + map[o] <= Before(map, p)
        /\ p < o => Before(map, p) + map[p] <= Before(map, o)
    BY BlockBytes, InRange
  <2> QED
    BY <1>1, <1>3, <2>1
<1>4. BlockOf(map, i) = o
  <2> HIDE DEF i
  <2> QED
    BY <1>2, <1>3 DEF BlockOf
<1> QED
  BY <1>2, <1>4

-----------------------------------------------------------------------------
(* Reading and filling.                                                    *)

\* What is read, by block and by cell.
LEMMA ReadCell ==
  ASSUME NEW mem, NEW map, IsMetadata(map), NEW o \in DOMAIN map, NEW k \in 1..map[o]
  PROVE  Read(mem, map)[Before(map, o) + k] = mem[o + k - 1]
<1>1. Before(map, o) + k \in 1..Size(map) /\ BlockOf(map, Before(map, o) + k) = o
  BY BlockOfByte
<1>2. Before(map, o) \in Nat /\ o \in Nat
  BY BlockBytes, InRange
<1>3. o + (Before(map, o) + k) - Before(map, o) - 1 = o + k - 1
  BY <1>2
<1> QED
  BY <1>1, <1>3 DEF Read

\* What is read is as many bytes as the blocks have.
LEMMA ReadBytes ==
  ASSUME NEW mem \in [Address -> Bytes], NEW map, IsMetadata(map)
  PROVE  /\ Read(mem, map) \in Seq(Bytes) /\ Len(Read(mem, map)) = Size(map)
         /\ DOMAIN Read(mem, map) = 1..Size(map)
<1>1. ASSUME NEW i \in 1..Size(map)
      PROVE  mem[BlockOf(map, i) + i - Before(map, BlockOf(map, i)) - 1] \in Bytes
  <2>1. PICK o \in DOMAIN map : i - Before(map, o) \in 1..map[o]
    BY ByteOfBlock
  <2>2. /\ Before(map, o) \in Nat /\ o \in Nat /\ map[o] \in Nat /\ o + map[o] <= Top
    BY BlockBytes, InRange
  <2>3. Before(map, o) + (i - Before(map, o)) = i
    BY <2>2
  <2>4. BlockOf(map, i) = o
    BY <2>1, <2>3, BlockOfByte
  <2>5. o + i - Before(map, o) - 1 \in Address
    BY <2>1, <2>2, TopAssumption DEF Address
  <2> QED
    BY <2>4, <2>5
<1>2. Size(map) \in Nat
  BY SizeIsNat
<1>3. Read(mem, map) \in [1..Size(map) -> Bytes]
  BY <1>1 DEF Read
<1> QED
  BY <1>2, <1>3

\* Two memories of which the same was read agree on every cell of the blocks.
LEMMA SameRead ==
  ASSUME NEW mem, NEW other, NEW map, IsMetadata(map), Read(mem, map) = Read(other, map),
         NEW a \in Covered(map)
  PROVE  mem[a] = other[a]
<1>1. PICK o \in DOMAIN map : a \in o..(o + map[o] - 1)
  BY InBlock
<1>2. o \in Nat /\ map[o] \in Nat
  BY InRange
<1>3. a - o + 1 \in 1..map[o] /\ o + (a - o + 1) - 1 = a
  BY <1>1, <1>2
<1> QED
  BY <1>3, ReadCell

\* What is read depends on the cells of the blocks only.
LEMMA ReadSame ==
  ASSUME NEW mem, NEW other, NEW map, IsMetadata(map),
         \A a \in Covered(map) : mem[a] = other[a]
  PROVE  Read(mem, map) = Read(other, map)
<1>1. ASSUME NEW i \in 1..Size(map)
      PROVE  BlockOf(map, i) + i - Before(map, BlockOf(map, i)) - 1 \in Covered(map)
  <2>1. PICK o \in DOMAIN map : i - Before(map, o) \in 1..map[o]
    BY ByteOfBlock
  <2>2. Before(map, o) \in Nat /\ o \in Nat /\ map[o] \in Nat
    BY BlockBytes, InRange
  <2>3. Before(map, o) + (i - Before(map, o)) = i
    BY <2>2
  <2>4. BlockOf(map, i) = o
    BY <2>1, <2>3, BlockOfByte
  <2>5. o + i - Before(map, o) - 1 \in o..(o + map[o] - 1)
    BY <2>1, <2>2
  <2> QED
    BY <2>4, <2>5, InBlock
<1> QED
  BY <1>1 DEF Read

\* Each covered cell gets a byte of those it is filled with, one below no other.
LEMMA FillCell ==
  ASSUME NEW mem, NEW map, IsMetadata(map), NEW bytes, NEW a \in Covered(map)
  PROVE  \E o \in DOMAIN map : \E k \in 1..map[o] :
           /\ a = o + k - 1 /\ a \in Address
           /\ Before(map, o) + k \in 1..Size(map)
           /\ Fill(mem, map, bytes)[a] = bytes[Before(map, o) + k]
<1> DEFINE o == BlockAround(map, a)
           k == a - o + 1
<1>1. o \in DOMAIN map /\ a \in o..(o + map[o] - 1)
  <2>1. \E p \in DOMAIN map : a \in p..(p + map[p] - 1)
    BY InBlock
  <2> QED
    BY <2>1 DEF BlockAround
<1>2. o \in Nat /\ map[o] \in Nat /\ o + map[o] <= Top /\ Before(map, o) \in Nat
  BY <1>1, InRange, BlockBytes
<1> HIDE DEF o
<1>3. k \in 1..map[o] /\ a = o + k - 1 /\ a \in Address
  BY <1>1, <1>2, TopAssumption DEF Address
<1>4. Before(map, o) + k \in 1..Size(map)
  BY <1>1, <1>3, BlockOfByte
<1>5. Fill(mem, map, bytes)[a] = bytes[Before(map, o) + a - o + 1]
  BY <1>3 DEF Fill, o
<1>6. Before(map, o) + a - o + 1 = Before(map, o) + k
  BY <1>1, <1>2
<1> QED
  BY <1>1, <1>3, <1>4, <1>5, <1>6

\* A covered address is filled with one of the bytes.
LEMMA FillByte ==
  ASSUME NEW mem, NEW map, IsMetadata(map), NEW bytes, NEW a \in Covered(map)
  PROVE  \E n \in 1..Size(map) : Fill(mem, map, bytes)[a] = bytes[n]
<1>1. PICK o \in DOMAIN map :
        \E k \in 1..map[o] :
          /\ Before(map, o) + k \in 1..Size(map)
          /\ Fill(mem, map, bytes)[a] = bytes[Before(map, o) + k]
  BY FillCell
<1>2. PICK k \in 1..map[o] :
        /\ Before(map, o) + k \in 1..Size(map)
        /\ Fill(mem, map, bytes)[a] = bytes[Before(map, o) + k]
  BY <1>1
<1> QED
  BY <1>2

\* A memory of bytes is filled with bytes.
LEMMA FillBytes ==
  ASSUME NEW mem, \A a \in Address : mem[a] \in Bytes, NEW map, IsMetadata(map),
         NEW bytes, \A n \in 1..Size(map) : bytes[n] \in Bytes
  PROVE  Fill(mem, map, bytes) \in [Address -> Bytes]
<1>1. ASSUME NEW a \in Address PROVE Fill(mem, map, bytes)[a] \in Bytes
  <2>1. CASE a \in Covered(map)
    <3>1. PICK n \in 1..Size(map) : Fill(mem, map, bytes)[a] = bytes[n]
      BY <2>1, FillByte
    <3> QED
      BY <3>1
  <2>2. CASE a \notin Covered(map)
    BY <2>2 DEF Fill
  <2> QED
    BY <2>1, <2>2
<1>2. Fill(mem, map, bytes) = [a \in Address |-> Fill(mem, map, bytes)[a]]
  BY DEF Fill
<1> QED
  BY <1>1, <1>2

\* What was read of one memory and is filled into another is what the one had in
\* each cell of the blocks, whichever block a cell that is in several is taken for.
THEOREM FillRestores ==
  ASSUME NEW mem, NEW other, NEW map, IsMetadata(map), NEW a \in Covered(map)
  PROVE  Fill(mem, map, Read(other, map))[a] = other[a]
<1>1. PICK o \in DOMAIN map :
        \E k \in 1..map[o] :
          /\ a = o + k - 1
          /\ Fill(mem, map, Read(other, map))[a] = Read(other, map)[Before(map, o) + k]
  BY FillCell
<1> QED
  BY <1>1, ReadCell
=============================================================================
