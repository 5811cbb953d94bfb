-------------------------- MODULE MCPcTools_proofs ---------------------------
(***************************************************************************)
(* The safety properties of MCPcTools for every value of its constants:    *)
(* the viewer with any events, queries with any lists of requests,         *)
(* get_socket with any number of addresses, the packet counter with any    *)
(* number of packets and losses, the waveform file with any events, the    *)
(* preparation with any number of stars and settings of the clock tree.    *)
(***************************************************************************)
EXTENDS MCPcTools, FiniteSetTheorems, SequenceTheorems, WellFoundedInduction, TLAPS
-----------------------------------------------------------------------------
(* Products and quotients of natural numbers.                              *)
LEMMA Product ==
  ASSUME NEW a \in Nat, NEW b \in Nat, NEW n \in Nat, a < b
  PROVE  a * n \in Nat /\ b * n \in Nat /\ a * n + n <= b * n
<1>1. PICK d \in Nat : b = a + 1 + d
  <2>1. b - a - 1 \in Nat /\ b = a + 1 + (b - a - 1)
    BY SMT
  <2> QED BY <2>1
<1>2. b * n = a * n + n + d * n
  BY <1>1, SMT
<1>3. d * n \in Nat /\ a * n \in Nat
  BY SMT
<1> QED BY <1>2, <1>3, SMT

LEMMA Quotient ==
  ASSUME NEW e \in Nat, NEW l \in Nat \ {0}
  PROVE  e \div l \in Nat /\ e % l \in 0 .. l - 1 /\ e = l * (e \div l) + (e % l)
BY SMT

LEMMA NumbersFinite ==
  ASSUME NEW n \in Nat
  PROVE  IsFiniteSet(0 .. n - 1)
<1>1. 0 \in Int /\ n - 1 \in Int
  BY SMT
<1> QED BY <1>1, FS_Interval, Zenon

(* The viewer.  A set of numbers has a least one, and a finite set of      *)
(* integers a least and a greatest one.                                    *)
LEMMA LeastNumber ==
  ASSUME NEW F \in SUBSET Nat, F # {}
  PROVE  \E x \in F : \A y \in F : x <= y
<1> DEFINE R == {ss \in Nat \X Nat : ss[1] < ss[2]}
<1>1. IsWellFoundedOn(R, Nat)
  BY NatLessThanWellFounded, Zenon DEF OpToRel
<1>2. \A x, y \in Nat : <<x, y>> \in R <=> x < y
  BY SMT
<1> HIDE DEF R
<1>3. PICK x \in F : \A y \in F : ~(<<y, x>> \in R)
  BY <1>1, WFMin
<1>4. \A y \in F : x <= y
  <2> SUFFICES ASSUME NEW y \in F PROVE x <= y
    OBVIOUS
  <2>1. x \in Nat /\ y \in Nat /\ ~(y < x)
    BY <1>2, <1>3
  <2> QED BY <2>1, SMT
<1> QED BY <1>4

LEMMA SetHasLeast ==
  ASSUME NEW S \in SUBSET Int, IsFiniteSet(S), S # {}
  PROVE  \E x \in S : \A y \in S : x <= y
<1> DEFINE Has(T) == \E x \in T : \A y \in T : x <= y
           F == {n \in Nat : \E T \in SUBSET S : T # {} /\ Cardinality(T) = n /\ ~Has(T)}
<1>1. SUFFICES ASSUME ~Has(S) PROVE FALSE
  OBVIOUS
<1>2. F # {}
  <2>1. Cardinality(S) \in Nat /\ S \in SUBSET S
    BY FS_CardinalityType
  <2> QED BY <1>1, <2>1
<1>3. PICK n \in F : \A m \in F : n <= m
  BY <1>2, LeastNumber
<1>4. PICK T \in SUBSET S : T # {} /\ Cardinality(T) = n /\ ~Has(T)
  OBVIOUS
<1>5. PICK a \in T : TRUE
  BY <1>4
<1> DEFINE U == T \ {a}
<1>6. U \in SUBSET S /\ Cardinality(U) = n - 1 /\ n \in Nat /\ n - 1 \in Nat
  <2>1. IsFiniteSet(T)
    BY FS_Subset
  <2>2. IsFiniteSet(U) /\ Cardinality(U) = n - 1
    BY <1>4, <1>5, <2>1, FS_RemoveElement
  <2>3. n - 1 \in Nat
    BY <2>2, FS_CardinalityType
  <2> QED BY <2>2, <2>3
<1>7. U = {} \/ Has(U)
  <2>1. n - 1 \notin F
    BY <1>3, <1>6
  <2> QED BY <1>6, <2>1
<1>8. a \in Int /\ \A y \in T : y \in Int /\ (y = a \/ y \in U)
  OBVIOUS
<1>9. CASE U = {}
  <2>1. \A y \in T : a <= y
    BY <1>8, <1>9
  <2> QED BY <1>4, <2>1
<1>10. CASE Has(U)
  <2>1. PICK x \in U : \A y \in U : x <= y
    BY <1>10
  <2>2. x \in Int /\ x \in T
    BY <1>8
  <2>3. CASE x <= a
    <3>1. \A y \in T : x <= y
      BY <1>8, <2>1, <2>3
    <3> QED BY <1>4, <2>2, <3>1
  <2>4. CASE ~(x <= a)
    <3>1. \A y \in T : a <= y
      <4> SUFFICES ASSUME NEW y \in T PROVE a <= y
        OBVIOUS
      <4>1. y = a \/ x <= y
        BY <1>8, <2>1
      <4> QED BY <1>8, <2>2, <2>4, <4>1
    <3> QED BY <1>4, <1>5, <3>1
  <2> QED BY <2>3, <2>4
<1> QED BY <1>7, <1>9, <1>10

LEMMA SetHasGreatest ==
  ASSUME NEW S \in SUBSET Int, IsFiniteSet(S), S # {}
  PROVE  \E x \in S : \A y \in S : x >= y
<1> DEFINE Has(T) == \E x \in T : \A y \in T : x >= y
           F == {n \in Nat : \E T \in SUBSET S : T # {} /\ Cardinality(T) = n /\ ~Has(T)}
<1>1. SUFFICES ASSUME ~Has(S) PROVE FALSE
  OBVIOUS
<1>2. F # {}
  <2>1. Cardinality(S) \in Nat /\ S \in SUBSET S
    BY FS_CardinalityType
  <2> QED BY <1>1, <2>1
<1>3. PICK n \in F : \A m \in F : n <= m
  BY <1>2, LeastNumber
<1>4. PICK T \in SUBSET S : T # {} /\ Cardinality(T) = n /\ ~Has(T)
  OBVIOUS
<1>5. PICK a \in T : TRUE
  BY <1>4
<1> DEFINE U == T \ {a}
<1>6. U \in SUBSET S /\ Cardinality(U) = n - 1 /\ n \in Nat /\ n - 1 \in Nat
  <2>1. IsFiniteSet(T)
    BY FS_Subset
  <2>2. IsFiniteSet(U) /\ Cardinality(U) = n - 1
    BY <1>4, <1>5, <2>1, FS_RemoveElement
  <2>3. n - 1 \in Nat
    BY <2>2, FS_CardinalityType
  <2> QED BY <2>2, <2>3
<1>7. U = {} \/ Has(U)
  <2>1. n - 1 \notin F
    BY <1>3, <1>6
  <2> QED BY <1>6, <2>1
<1>8. a \in Int /\ \A y \in T : y \in Int /\ (y = a \/ y \in U)
  OBVIOUS
<1>9. CASE U = {}
  <2>1. \A y \in T : a >= y
    BY <1>8, <1>9
  <2> QED BY <1>4, <2>1
<1>10. CASE Has(U)
  <2>1. PICK x \in U : \A y \in U : x >= y
    BY <1>10
  <2>2. x \in Int /\ x \in T
    BY <1>8
  <2>3. CASE x >= a
    <3>1. \A y \in T : x >= y
      BY <1>8, <2>1, <2>3
    <3> QED BY <1>4, <2>2, <3>1
  <2>4. CASE ~(x >= a)
    <3>1. \A y \in T : a >= y
      <4> SUFFICES ASSUME NEW y \in T PROVE a >= y
        OBVIOUS
      <4>1. y = a \/ x >= y
        BY <1>8, <2>1
      <4> QED BY <1>8, <2>2, <2>4, <4>1
    <3> QED BY <1>4, <1>5, <3>1
  <2> QED BY <2>3, <2>4
<1> QED BY <1>7, <1>9, <1>10

LEMMA MinIs ==
  ASSUME NEW S \in SUBSET Int, IsFiniteSet(S), S # {}
  PROVE  View!Min(S) \in S /\ \A y \in S : View!Min(S) <= y
  BY SetHasLeast, Zenon DEF View!Min

LEMMA MaxIs ==
  ASSUME NEW S \in SUBSET Int, IsFiniteSet(S), S # {}
  PROVE  View!Max(S) \in S /\ \A y \in S : View!Max(S) >= y
  BY SetHasGreatest, Zenon DEF View!Max

(* A total is taken one element after the other; Sums is what the fold is. *)
Taken(s) == CHOOSE x \in s : TRUE
Sums(g, f, S) == g = [s \in SUBSET S |-> IF s = {} THEN 0 ELSE f[Taken(s)] + g[s \ {Taken(s)}]]

LEMMA TotalIs ==
  ASSUME NEW f, NEW S
  PROVE  View!Total(f, S) = (CHOOSE g : Sums(g, f, S))[S]
  BY DEF View!Total, View!FoldSet, View!MapThenFoldSet, Sums, Taken

LEMMA OneTaken ==
  ASSUME NEW S, IsFiniteSet(S), NEW s \in SUBSET S, s # {}
  PROVE  /\ Taken(s) \in s /\ s \ {Taken(s)} \in SUBSET S
         /\ Cardinality(s) \in Nat \ {0} /\ Cardinality(s \ {Taken(s)}) = Cardinality(s) - 1
<1>1. Taken(s) \in s
  BY DEF Taken
<1>2. IsFiniteSet(s)
  BY FS_Subset
<1>3. Cardinality(s) \in Nat /\ Cardinality(s) # 0
  BY <1>2, FS_CardinalityType, FS_EmptySet
<1>4. Cardinality(s \ {Taken(s)}) = Cardinality(s) - 1
  BY <1>1, <1>2, FS_RemoveElement
<1> QED BY <1>1, <1>3, <1>4

(* There is such a function, for sets of n elements after those of n - 1.  *)
LEMMA SumsExist ==
  ASSUME NEW f, NEW S, IsFiniteSet(S)
  PROVE  \E g : Sums(g, f, S)
<1> DEFINE At(g, s) == g[s] = IF s = {} THEN 0 ELSE f[Taken(s)] + g[s \ {Taken(s)}]
           UpTo(n) == \E g : g = [s \in SUBSET S |-> g[s]] /\ \A s \in SUBSET S : Cardinality(s) <= n => At(g, s)
           F == {n \in Nat : ~UpTo(n)}
<1>1. \A s \in SUBSET S : Cardinality(s) \in Nat /\ Cardinality(s) <= Cardinality(S)
  BY FS_Subset, FS_CardinalityType
<1>2. UpTo(0)
  <2> DEFINE g == [s \in SUBSET S |-> 0]
  <2>1. ASSUME NEW s \in SUBSET S, Cardinality(s) <= 0 PROVE At(g, s)
    <3>1. Cardinality(s) = 0
      BY <1>1, <2>1
    <3>2. s = {}
      BY <3>1, FS_Subset, FS_EmptySet
    <3> QED BY <3>2
  <2>2. g = [s \in SUBSET S |-> g[s]]
    OBVIOUS
  <2> QED BY <2>1, <2>2
<1>3. ASSUME NEW n \in Nat, UpTo(n) PROVE UpTo(n + 1)
  <2>1. PICK g : \A s \in SUBSET S : Cardinality(s) <= n => At(g, s)
    BY <1>3
  <2> DEFINE h == [s \in SUBSET S |-> IF s = {} THEN 0
                                      ELSE IF Cardinality(s) <= n THEN g[s] ELSE f[Taken(s)] + g[s \ {Taken(s)}]]
  <2>2. ASSUME NEW s \in SUBSET S, Cardinality(s) <= n PROVE h[s] = g[s]
    BY <2>1, <2>2
  <2>3. ASSUME NEW s \in SUBSET S, Cardinality(s) <= n + 1 PROVE At(h, s)
    <3>1. CASE s = {}
      BY <3>1
    <3>2. CASE s # {}
      <4>1. s \ {Taken(s)} \in SUBSET S /\ Cardinality(s \ {Taken(s)}) <= n
        BY <2>3, <3>2, OneTaken
      <4>2. h[s \ {Taken(s)}] = g[s \ {Taken(s)}]
        BY <2>2, <4>1
      <4>3. h[s] = f[Taken(s)] + g[s \ {Taken(s)}]
        BY <2>1, <3>2
      <4> QED BY <3>2, <4>2, <4>3
    <3> QED BY <3>1, <3>2
  <2>4. h = [s \in SUBSET S |-> h[s]]
    OBVIOUS
  <2> QED BY <2>3, <2>4
<1> HIDE DEF UpTo
<1>4. F = {}
  <2>1. SUFFICES ASSUME F # {} PROVE FALSE
    OBVIOUS
  <2>2. PICK n \in F : \A m \in F : n <= m
    BY <2>1, LeastNumber
  <2>3. n # 0 /\ n \in Nat /\ ~UpTo(n)
    BY <1>2
  <2>4. n - 1 \in Nat /\ (n - 1) + 1 = n
    BY <2>3
  <2>5. UpTo(n - 1)
    BY <2>2, <2>4
  <2> QED BY <1>3, <2>3, <2>4, <2>5
<1>5. UpTo(Cardinality(S))
  BY <1>4, FS_CardinalityType
<1>6. PICK g : g = [s \in SUBSET S |-> g[s]] /\ \A s \in SUBSET S : At(g, s)
  BY <1>1, <1>5 DEF UpTo
<1>7. Sums(g, f, S)
  <2>1. [s \in SUBSET S |-> g[s]] = [s \in SUBSET S |-> IF s = {} THEN 0 ELSE f[Taken(s)] + g[s \ {Taken(s)}]]
    BY <1>6
  <2> QED BY <1>6, <2>1 DEF Sums
<1> QED BY <1>7

LEMMA OneMore ==
  ASSUME NEW l \in Int, NEW n \in Int
  PROVE  l * n = l * (n - 1) + l /\ l * n \in Int
  BY SMT

(* A total lies between as many times the least and the greatest value.    *)
LEMMA TotalBetween ==
  ASSUME NEW S, IsFiniteSet(S), NEW f, NEW l \in Int, NEW h \in Int,
         \A x \in S : f[x] \in Int /\ l <= f[x] /\ f[x] <= h
  PROVE  /\ View!Total(f, S) \in Int /\ l * Cardinality(S) <= View!Total(f, S)
         /\ View!Total(f, S) <= h * Cardinality(S)
<1> DEFINE g == CHOOSE z : Sums(z, f, S)
           Good(s) == g[s] \in Int /\ l * Cardinality(s) <= g[s] /\ g[s] <= h * Cardinality(s)
           F == {n \in Nat : \E s \in SUBSET S : Cardinality(s) = n /\ ~Good(s)}
<1>1. Sums(g, f, S)
  BY SumsExist, Zenon
<1> HIDE DEF g
<1>2. \A s \in SUBSET S : g[s] = IF s = {} THEN 0 ELSE f[Taken(s)] + g[s \ {Taken(s)}]
  BY <1>1 DEF Sums
<1>3. F = {}
  <2>1. SUFFICES ASSUME F # {} PROVE FALSE
    OBVIOUS
  <2>2. PICK n \in F : \A m \in F : n <= m
    BY <2>1, LeastNumber
  <2>3. PICK s \in SUBSET S : Cardinality(s) = n /\ ~Good(s)
    OBVIOUS
  <2>4. CASE s = {}
    <3>1. Cardinality(s) = 0
      BY <2>4, FS_EmptySet, Zenon
    <3>2. g[s] = 0
      BY <1>2, <2>4, Zenon
    <3>3. l * 0 = 0 /\ h * 0 = 0
      BY SMT
    <3> QED BY <2>3, <3>1, <3>2, <3>3
  <2>5. CASE s # {}
    <3> DEFINE u == s \ {Taken(s)}
    <3>1. Taken(s) \in s /\ u \in SUBSET S /\ n \in Nat \ {0} /\ Cardinality(u) = n - 1
      BY <2>3, <2>5, OneTaken
    <3>2. g[s] = f[Taken(s)] + g[u]
      BY <1>2, <2>5
    <3> HIDE DEF u
    <3>3. Good(u)
      <4>1. n - 1 \in Nat /\ ~(n <= n - 1)
        BY <3>1
      <4>2. n - 1 \notin F
        BY <2>2, <4>1
      <4> QED BY <3>1, <4>1, <4>2
    <3>4. f[Taken(s)] \in Int /\ l <= f[Taken(s)] /\ f[Taken(s)] <= h
      BY <3>1
    <3>5. l * n = l * (n - 1) + l /\ l * n \in Int /\ h * n = h * (n - 1) + h /\ h * n \in Int
      BY <3>1, OneMore
    <3>6. l * (n - 1) \in Int /\ h * (n - 1) \in Int
      BY <3>1, OneMore
    <3>7. g[u] \in Int /\ l * (n - 1) <= g[u] /\ g[u] <= h * (n - 1)
      BY <3>1, <3>3
    <3>8. g[s] \in Int /\ l * n <= g[s] /\ g[s] <= h * n
      BY <3>2, <3>4, <3>5, <3>6, <3>7
    <3> QED BY <2>3, <3>8
  <2> QED BY <2>4, <2>5
<1>4. Good(S)
  <2>1. Cardinality(S) \in Nat /\ S \in SUBSET S
    BY FS_CardinalityType
  <2> QED BY <1>3, <2>1
<1>5. View!Total(f, S) = g[S]
  BY TotalIs DEF g
<1> QED BY <1>4, <1>5

(* The whole part, of either sign, of a quotient that lies between two     *)
(* integers lies between them.                                             *)
LEMMA Between ==
  ASSUME NEW l \in Int, NEW h \in Int, NEW n \in Nat \ {0}, NEW a \in Int, l * n <= a, a <= h * n
  PROVE  View!Trunc(a, n) \in Int /\ l <= View!Trunc(a, n) /\ View!Trunc(a, n) <= h
<1>1. \A x, y \in Int : x * n < y * n + n => x <= y
  <2> SUFFICES ASSUME NEW x \in Int, NEW y \in Int, ~(x <= y) PROVE ~(x * n < y * n + n)
    OBVIOUS
  <2>1. PICK d \in Nat : x = y + 1 + d
    <3>1. x - y - 1 \in Nat /\ x = y + 1 + (x - y - 1)
      BY SMT
    <3> QED BY <3>1
  <2>2. x * n = y * n + n + d * n /\ d * n \in Nat /\ y * n \in Int
    BY <2>1, SMT
  <2> QED BY <2>2, SMT
<1>2. l * n \in Int /\ h * n \in Int /\ -l \in Int /\ -h \in Int /\ (-l) * n = -(l * n) /\ (-h) * n = -(h * n)
  BY SMT
<1>3. CASE a >= 0
  <2>1. a \in Nat
    BY <1>3
  <2> DEFINE q == a \div n
  <2>2. q \in Nat /\ a % n \in 0 .. n - 1 /\ a = n * q + (a % n)
    BY <2>1, Quotient
  <2> HIDE DEF q
  <2>3. q * n = n * q /\ q * n \in Int /\ q \in Int
    BY <2>2, SMT
  <2>4. l * n < q * n + n /\ q * n < h * n + n
    BY <1>2, <2>2, <2>3, SMT
  <2>5. l <= q /\ q <= h
    BY <1>1, <2>3, <2>4
  <2> QED BY <1>3, <2>3, <2>5 DEF View!Trunc, q
<1>4. CASE ~(a >= 0)
  <2>1. -a \in Nat
    BY <1>4
  <2> DEFINE q == (-a) \div n
  <2>2. q \in Nat /\ (-a) % n \in 0 .. n - 1 /\ -a = n * q + ((-a) % n)
    BY <2>1, Quotient
  <2> HIDE DEF q
  <2>3. q * n = n * q /\ q * n \in Int /\ q \in Int
    BY <2>2, SMT
  <2>4. (-h) * n < q * n + n /\ q * n < (-l) * n + n
    <3>1. \E r \in 0 .. n - 1 : -a = q * n + r
      BY <2>2, <2>3
    <3> QED BY <1>2, <2>3, <3>1, SMT
  <2>5. -h <= q /\ q <= -l
    BY <1>1, <1>2, <2>3, <2>4
  <2>6. -q \in Int /\ l <= -q /\ -q <= h
    BY <2>3, <2>5, SMT
  <2>7. View!Trunc(a, n) = -q
    BY <1>4 DEF View!Trunc, q
  <2> QED BY <2>6, <2>7
<1> QED BY <1>3, <1>4

(* A column is not empty and lies in the event, and the columns leave no   *)
(* sample out.                                                             *)
LEMMA Cancel ==
  ASSUME NEW a \in Nat, NEW b \in Nat, NEW l \in Nat \ {0}
  PROVE  (a * l < b * l => a < b) /\ (a * l <= b * l => a <= b)
<1>1. CASE a < b
  BY <1>1
<1>2. CASE a = b
  <2>1. a * l \in Nat
    BY SMT
  <2> QED BY <1>2, <2>1, SMT
<1>3. CASE b < a
  <2>1. a * l \in Nat /\ b * l \in Nat /\ b * l + l <= a * l
    BY <1>3, Product
  <2> QED BY <2>1, SMT
<1> QED BY <1>1, <1>2, <1>3

LEMMA CeilIs ==
  ASSUME NEW a \in Nat \ {0}, NEW l \in Nat \ {0}
  PROVE  View!Ceil(a, l) \in Nat /\ a <= View!Ceil(a, l) * l /\ View!Ceil(a, l) * l < a + l
<1> DEFINE c == (a + l - 1) \div l
<1>1. a + l - 1 \in Nat
  OBVIOUS
<1>2. c \in Nat /\ (a + l - 1) % l \in 0 .. l - 1 /\ a + l - 1 = l * c + ((a + l - 1) % l)
  BY <1>1, Quotient
<1> HIDE DEF c
<1>3. c * l = l * c /\ c * l \in Nat
  BY <1>2, SMT
<1>4. \E r \in 0 .. l - 1 : a + l - 1 = c * l + r
  BY <1>2, <1>3
<1>5. a <= c * l /\ c * l < a + l
  BY <1>3, <1>4, SMT
<1> QED BY <1>2, <1>5 DEF View!Ceil, c

(* Cardinalities in Waveview are those of the theorems about finite sets.  *)
LEMMA SameSizes ==
  ASSUME NEW S
  PROVE  View!Cardinality(S) = Cardinality(S) /\ View!IsFiniteSet(S) = IsFiniteSet(S)
<1>1. View!Cardinality(S) = Cardinality(S)
  BY Zenon DEF View!Cardinality, Cardinality
<1>2. View!IsFiniteSet(S) = IsFiniteSet(S)
  BY Zenon DEF View!IsFiniteSet, IsFiniteSet
<1> QED BY <1>1, <1>2

LEMMA Positive ==
  ASSUME NEW a \in Nat \ {0}, NEW b \in Nat \ {0}
  PROVE  a * b \in Nat \ {0}
<1>1. 0 * b + b <= a * b /\ a * b \in Nat /\ 0 * b = 0
  <2>1. 0 < a
    OBVIOUS
  <2>2. 0 * b + b <= a * b /\ a * b \in Nat
    BY <2>1, Product
  <2> QED BY <2>2, SMT
<1> QED BY <1>1

(* The double that Round takes for a / b is off by less than the share     *)
(* 1 / Mantissa of it.                                                     *)
LEMMA Factor ==
  ASSUME NEW a \in Nat, NEW b \in Nat, NEW l \in Nat, a <= b
  PROVE  a * l \in Nat /\ b * l \in Nat /\ l * a = a * l /\ a * l <= b * l
<1>1. a * l \in Nat /\ b * l \in Nat /\ l * a = a * l
  BY SMT
<1>2. PICK d \in Nat : b = a + d
  <2>1. b - a \in Nat /\ b = a + (b - a)
    OBVIOUS
  <2> QED BY <2>1
<1>3. b * l = a * l + d * l /\ d * l \in Nat
  BY <1>2, SMT
<1> QED BY <1>1, <1>3

LEMMA SpacingIs ==
  ASSUME View!DoublesAssumption, NEW a \in Nat, NEW b \in Nat \ {0}, Mantissa * b <= 2 * a \/ a = 0
  PROVE  \E q \in Nat \ {0} :
           /\ a = 0 \/ Mantissa * (q * b) <= 2 * a
           /\ View!Round(a, b) = q * (IF 2 * (a % (q * b)) > q * b \/ (2 * (a % (q * b)) = q * b /\ (a \div (q * b)) % 2 = 1)
                                      THEN (a \div (q * b)) + 1 ELSE a \div (q * b))
<1> DEFINE Q == {1} \cup {x \in Spacings : Mantissa * x * b <= 2 * a}
           q == View!Max(Q)
<1>1. Q \in SUBSET Int /\ IsFiniteSet(Q) /\ Q # {} /\ Q \subseteq Nat \ {0}
  <2>1. IsFiniteSet(Spacings) /\ Spacings \subseteq Nat \ {0}
    BY SameSizes, Zenon DEF View!DoublesAssumption
  <2>2. IsFiniteSet({x \in Spacings : Mantissa * x * b <= 2 * a})
    BY <2>1, FS_Subset
  <2>3. Q = {x \in Spacings : Mantissa * x * b <= 2 * a} \cup {1}
    OBVIOUS
  <2>4. IsFiniteSet(Q)
    BY <2>2, <2>3, FS_AddElement, Zenon
  <2>5. {x \in Spacings : Mantissa * x * b <= 2 * a} \subseteq Nat \ {0} /\ 1 \in Nat \ {0} /\ 1 \in Q
    <3>1. {x \in Spacings : Mantissa * x * b <= 2 * a} \subseteq Nat \ {0}
      BY <2>1, Zenon
    <3>2. 1 \in Nat \ {0} /\ 1 \in {1}
      OBVIOUS
    <3> QED BY <3>1, <3>2, Zenon
  <2>6. Q \subseteq Nat \ {0}
    BY <2>5, Zenon
  <2>7. Q \in SUBSET Int /\ Q # {}
    <3> HIDE DEF Q
    <3> QED BY <2>5, <2>6
  <2> QED BY <2>4, <2>6, <2>7
<1>2. q \in Q
  BY <1>1, MaxIs
<1>3. q \in Nat \ {0} /\ (a = 0 \/ Mantissa * (q * b) <= 2 * a)
  <2>1. Mantissa \in Nat
    BY DEF View!DoublesAssumption
  <2>2. q = 1 \/ Mantissa * q * b <= 2 * a
    BY <1>2
  <2> HIDE DEF q
  <2>3. q \in Nat \ {0}
    BY <1>1, <1>2
  <2>4. Mantissa * q * b = Mantissa * (q * b) /\ 1 * b = b
    BY <2>1, <2>3, SMT
  <2> QED BY <2>2, <2>3, <2>4
<1>4. View!Round(a, b) = q * (IF 2 * (a % (q * b)) > q * b \/ (2 * (a % (q * b)) = q * b /\ (a \div (q * b)) % 2 = 1)
                              THEN (a \div (q * b)) + 1 ELSE a \div (q * b))
  BY DEF View!Round
<1> HIDE DEF q
<1> QED BY <1>3, <1>4

LEMMA RoundIs ==
  ASSUME View!DoublesAssumption, NEW a \in Nat, NEW b \in Nat \ {0}, Mantissa * b <= 2 * a
  PROVE  /\ View!Round(a, b) \in Nat
         /\ Mantissa * (View!Round(a, b) * b) <= Mantissa * a + a
         /\ Mantissa * a <= Mantissa * (View!Round(a, b) * b) + a
<1> DEFINE m == Mantissa
<1>1. m \in Nat
  BY DEF View!DoublesAssumption
<1>2. PICK q \in Nat \ {0} :
        /\ a = 0 \/ m * (q * b) <= 2 * a
        /\ View!Round(a, b) = q * (IF 2 * (a % (q * b)) > q * b \/ (2 * (a % (q * b)) = q * b /\ (a \div (q * b)) % 2 = 1)
                                   THEN (a \div (q * b)) + 1 ELSE a \div (q * b))
  BY SpacingIs
<1> m * b <= 2 * a
  OBVIOUS
<1> HIDE DEF m
<1> DEFINE D == q * b
           d == a \div D
           rem == a % D
           k == IF 2 * rem > D \/ (2 * rem = D /\ d % 2 = 1) THEN d + 1 ELSE d
<1>3. D \in Nat \ {0}
  BY Positive
<1>4. m * D <= 2 * a
  <2>1. CASE a = 0
    <3>1. m * b <= 0 /\ m * b \in Nat /\ m * b = 0
      BY <1>1, <2>1, SMT
    <3>2. m = 0
      BY <1>1, <3>1, Positive
    <3> QED BY <2>1, <3>2, <1>3, SMT
  <2> QED BY <1>2, <2>1
<1>5. View!Round(a, b) = q * k
  BY <1>2
<1> HIDE DEF D
<1>6. d \in Nat /\ rem \in 0 .. D - 1 /\ a = D * d + rem
  BY <1>3, Quotient
<1> HIDE DEF d, rem
<1>7. (k = d /\ 2 * rem <= D) \/ (k = d + 1 /\ 2 * rem >= D)
  <2>1. 2 * rem \in Int
    BY <1>3, <1>6
  <2> QED BY <1>3, <2>1
<1>8. k \in Nat
  BY <1>6, <1>7
<1> HIDE DEF k
<1> DEFINE R == D * k
<1>9. q * k \in Nat /\ (q * k) * b = R /\ R \in Nat
  BY <1>3, <1>8, SMT DEF D
<1>10. 2 * R <= 2 * a + D /\ 2 * a <= 2 * R + D
  <2>1. D * (d + 1) = D * d + D /\ D * d \in Nat
    BY <1>3, <1>6, SMT
  <2> QED BY <1>3, <1>6, <1>7, <2>1
<1> HIDE DEF R
<1>11. m * R \in Nat /\ m * a \in Nat /\ m * D \in Nat
  BY <1>1, <1>3, <1>9, SMT
<1>12. 2 * (m * R) <= 2 * (m * a) + m * D
  <2>1. (2 * R) * m <= (2 * a + D) * m
    BY <1>1, <1>3, <1>9, <1>10, Factor
  <2>2. (2 * R) * m = 2 * (m * R) /\ (2 * a + D) * m = 2 * (m * a) + m * D
    BY <1>1, <1>3, <1>9, SMT
  <2> QED BY <2>1, <2>2
<1>13. 2 * (m * a) <= 2 * (m * R) + m * D
  <2>1. (2 * a) * m <= (2 * R + D) * m
    BY <1>1, <1>3, <1>9, <1>10, Factor
  <2>2. (2 * a) * m = 2 * (m * a) /\ (2 * R + D) * m = 2 * (m * R) + m * D
    BY <1>1, <1>3, <1>9, SMT
  <2> QED BY <2>1, <2>2
<1> QED BY <1>4, <1>5, <1>9, <1>11, <1>12, <1>13 DEF m

(* The step, and its multiples up to the last.                             *)
Fits(n) == n \in Nat \ {0} /\ 3 * n <= Mantissa /\ Mantissa * wavDigestLen <= n * Unit

LEMMA StepIs ==
  ASSUME View!LengthsAssumption, View!DoublesAssumption, NEW n, Fits(n)
  PROVE  /\ View!Step(n) \in Nat \ {0} /\ Mantissa <= 2 * View!Step(n)
         /\ Mantissa * (View!Step(n) * wavDigestLen) <= Mantissa * (n * Unit) + n * Unit
         /\ Mantissa * (n * Unit) <= Mantissa * (View!Step(n) * wavDigestLen) + n * Unit
<1> DEFINE m == Mantissa
           l == wavDigestLen
           N == n * Unit
           S == View!Step(n)
           T == S * l
<1>1. m \in Nat /\ l \in Nat \ {0} /\ Unit \in Nat \ {0} /\ n \in Nat \ {0} /\ m * l <= N /\ 3 <= m
  BY DEF View!LengthsAssumption, View!DoublesAssumption, Fits
<1>2. N \in Nat \ {0}
  BY <1>1, Positive
<1>3. S \in Nat /\ m * T <= m * N + N /\ m * N <= m * T + N
  <2>1. m * l <= 2 * N
    BY <1>1, <1>2
  <2>2. S = View!Round(N, l)
    BY DEF View!Step
  <2> HIDE DEF S, N, l
  <2> QED BY <1>1, <1>2, <2>1, <2>2, RoundIs DEF m
<1> HIDE DEF m, l, N, S
<1>4. ~(S <= m - 2)
  <2> SUFFICES ASSUME S <= m - 2 PROVE FALSE
    OBVIOUS
  <2>1. T <= (m - 2) * l /\ T \in Nat /\ (m - 2) * l \in Nat
    BY <1>1, <1>3, Factor
  <2>2. T * m <= ((m - 2) * l) * m
    BY <1>1, <2>1, Factor
  <2>3. T * m = m * T /\ ((m - 2) * l) * m = (m * l) * (m - 2) /\ m * l \in Nat
    BY <1>1, <2>1, SMT
  <2>4. (m * l) * (m - 2) <= N * (m - 2)
    BY <1>1, <1>2, <2>3, Factor
  <2>5. N * (m - 2) = m * N - 2 * N /\ m * N \in Nat /\ m * T \in Nat
    BY <1>1, <1>2, <2>1, SMT
  <2> HIDE DEF T
  <2>6. m * T <= N * (m - 2)
    <3>1. (m * l) * (m - 2) \in Int /\ N * (m - 2) \in Int /\ T * m \in Int
      BY <1>1, <1>2, <2>1, <2>3, SMT
    <3> QED BY <2>2, <2>3, <2>4, <3>1
  <2> QED BY <1>2, <1>3, <2>5, <2>6
<1>5. S \in Nat \ {0} /\ m <= 2 * S
  BY <1>1, <1>3, <1>4
<1> QED BY <1>3, <1>5 DEF m, l, N, S

LEMMA EdgeIs ==
  ASSUME View!LengthsAssumption, View!DoublesAssumption, NEW n, Fits(n), NEW j \in Nat
  PROVE  /\ View!Edge(j, n) \in Nat
         /\ Mantissa * View!Edge(j, n) <= Mantissa * (j * View!Step(n)) + j * View!Step(n)
         /\ Mantissa * (j * View!Step(n)) <= Mantissa * View!Edge(j, n) + j * View!Step(n)
         /\ j = 0 => View!Edge(j, n) = 0
<1> DEFINE m == Mantissa
           S == View!Step(n)
           a == j * S
<1>1. m \in Nat /\ S \in Nat \ {0} /\ m <= 2 * S
  BY StepIs DEF View!DoublesAssumption
<1>2. View!Edge(j, n) = View!Round(a, 1)
  BY DEF View!Edge
<1> HIDE DEF m, S
<1>3. a \in Nat
  BY <1>1, SMT
<1>4. CASE j = 0
  <2>1. a = 0
    BY <1>1, <1>4, SMT
  <2> HIDE DEF a
  <2>2. PICK q \in Nat \ {0} : View!Round(0, 1) = q * (IF 2 * (0 % (q * 1)) > q * 1 \/ (2 * (0 % (q * 1)) = q * 1 /\ (0 \div (q * 1)) % 2 = 1)
                                      THEN (0 \div (q * 1)) + 1 ELSE 0 \div (q * 1))
    BY SpacingIs
  <2>3. q * 1 = q /\ 0 % q = 0 /\ 0 \div q = 0
    <3>1. q * 1 = q
      BY SMT
    <3>2. 0 \div q \in Nat /\ 0 % q \in 0 .. q - 1 /\ 0 = q * (0 \div q) + (0 % q)
      BY Quotient
    <3>3. q * (0 \div q) \in Nat
      BY <3>2, SMT
    <3>4. q * (0 \div q) = 0 /\ 0 % q = 0
      BY <3>2, <3>3
    <3>5. 0 \div q = 0
      <4> DEFINE z == 0 \div q
      <4> HIDE DEF z
      <4>1. z \in Nat /\ q * z = 0
        BY <3>2, <3>4 DEF z
      <4>2. z # 0 => q * z \in Nat \ {0}
        BY <4>1, Positive
      <4>3. z = 0
        BY <4>1, <4>2
      <4> QED BY <4>3 DEF z
    <3> QED BY <3>1, <3>4, <3>5
  <2>4. View!Round(0, 1) = 0
    <3>1. 2 * 0 = 0 /\ ~(0 > q) /\ 0 # q /\ q * 0 = 0
      BY SMT
    <3> QED BY <2>2, <2>3, <3>1
  <2>5. m * 0 = 0
    BY <1>1, SMT
  <2> QED BY <1>2, <1>4, <2>1, <2>4, <2>5 DEF m, S, a
<1>5. CASE j # 0
  <2>1. S <= a
    <3>1. 1 * S <= j * S
      BY <1>1, <1>5, Factor
    <3> QED BY <1>1, <3>1
  <2>2. m * 1 <= 2 * a /\ m * 1 = m
    BY <1>1, <1>3, <2>1
  <2> HIDE DEF a
  <2> DEFINE e == View!Round(a, 1)
  <2>3. e \in Nat /\ m * (e * 1) <= m * a + a /\ m * a <= m * (e * 1) + a
    BY <1>3, <2>2, RoundIs DEF m
  <2> HIDE DEF e
  <2>4. e * 1 = e
    BY <2>3
  <2> QED BY <1>2, <1>5, <2>3, <2>4 DEF m, S, a, e
<1> QED BY <1>4, <1>5

(* The edges rise; all but the last are inside the event, and that one is  *)
(* less than a sample from its end.                                        *)
LEMMA EdgesRise ==
  ASSUME View!LengthsAssumption, View!DoublesAssumption, NEW n, Fits(n), NEW j \in 0 .. wavDigestLen - 1
  PROVE  View!Edge(j, n) < View!Edge(j + 1, n)
<1> DEFINE m == Mantissa
           S == View!Step(n)
           x == View!Edge(j, n)
           y == View!Edge(j + 1, n)
<1>1. m \in Nat /\ S \in Nat \ {0} /\ j \in Nat /\ 2 * j + 1 < m
  BY StepIs DEF View!LengthsAssumption, View!DoublesAssumption
<1>2. x \in Nat /\ m * x <= m * (j * S) + j * S
  BY <1>1, EdgeIs
<1>3. y \in Nat /\ m * ((j + 1) * S) <= m * y + (j + 1) * S
  <2>1. j + 1 \in Nat
    BY <1>1
  <2> QED BY <2>1, EdgeIs
<1> HIDE DEF m, S, x, y
<1>4. j * S \in Nat /\ (j + 1) * S = j * S + S
  BY <1>1, SMT
<1>5. (2 * j + 2) * S <= m * S /\ (2 * j + 2) * S = 2 * (j * S) + 2 * S /\ m * S \in Nat
  <2>1. (2 * j + 2) * S <= m * S /\ m * S \in Nat
    BY <1>1, Factor
  <2>2. (2 * j + 2) * S = 2 * (j * S) + 2 * S
    BY <1>1, SMT
  <2> QED BY <2>1, <2>2
<1>6. m * ((j + 1) * S) = m * (j * S) + m * S /\ m * (j * S) \in Nat
  BY <1>1, <1>4, SMT
<1>7. m * x \in Nat /\ m * y \in Nat
  BY <1>1, <1>2, <1>3, SMT
<1>8. m * x < m * y
  BY <1>1, <1>2, <1>3, <1>4, <1>5, <1>6, <1>7
<1>9. x < y
  <2>1. y <= x => y * m <= x * m /\ m * y = y * m /\ m * x = x * m
    BY <1>1, <1>2, <1>3, Factor, SMT
  <2> QED BY <1>2, <1>3, <1>7, <1>8, <2>1
<1> QED BY <1>9 DEF x, y

LEMMA EdgeAbove ==
  ASSUME View!LengthsAssumption, View!DoublesAssumption, NEW n, Fits(n), NEW k \in 1 .. wavDigestLen
  PROVE  /\ View!Edge(k, n) <= n * Unit + Unit
         /\ k < wavDigestLen => View!Edge(k, n) <= n * Unit
<1> DEFINE m == Mantissa
           l == wavDigestLen
           N == n * Unit
           S == View!Step(n)
           T == S * l
           e == View!Edge(k, n)
<1>1. m \in Nat /\ l \in Nat \ {0} /\ Unit \in Nat \ {0} /\ n \in Nat \ {0} /\ 3 <= m /\ k \in Nat \ {0} /\ k <= l /\ 3 * l <= m /\ 3 * n <= m
  BY DEF View!LengthsAssumption, View!DoublesAssumption, Fits
<1>2. N \in Nat \ {0}
  BY <1>1, Positive
<1>3. S \in Nat /\ m * T <= m * N + N
  BY StepIs
<1>4. e \in Nat /\ m * e <= m * (k * S) + k * S
  BY <1>1, EdgeIs
<1> HIDE DEF m, l, N, S, e
(* The error of the step and that of the multiple, one upon the other.     *)
<1>5. (m * m) * (e * l) <= k * ((m * m) * N + 2 * (m * N) + N)
  <2>1. (m * e) * l <= (m * (k * S) + k * S) * l
    <3>1. m * e \in Nat /\ m * (k * S) + k * S \in Nat
      BY <1>1, <1>3, <1>4, SMT
    <3> QED BY <1>1, <1>4, <3>1, Factor
  <2>2. (m * e) * l = m * (e * l) /\ (m * (k * S) + k * S) * l = k * (m * T + T) /\ T \in Nat /\ e * l \in Nat /\ m * (e * l) \in Nat
    <3>1. T \in Nat /\ e * l \in Nat
      BY <1>1, <1>3, <1>4, SMT
    <3>2. (m * e) * l = m * (e * l) /\ m * (e * l) \in Nat
      BY <1>1, <1>4, <3>1, SMT
    <3>3. (k * S) * l = k * T /\ k * S \in Nat /\ k * T \in Nat
      BY <1>1, <1>3, SMT
    <3>4. (m * (k * S)) * l = m * ((k * S) * l)
      BY <1>1, <3>3, SMT
    <3>5. (m * (k * S) + k * S) * l = (m * (k * S)) * l + (k * S) * l
      BY <1>1, <3>3, SMT
    <3>6. m * (k * T) = k * (m * T) /\ k * (m * T + T) = k * (m * T) + k * T
      <4> HIDE DEF T
      <4> QED BY <1>1, <3>1, SMT
    <3> QED BY <3>1, <3>2, <3>3, <3>4, <3>5, <3>6
  <2> HIDE DEF T
  <2>3. (m * (e * l)) * m <= (k * (m * T + T)) * m
    <3>1. k * (m * T + T) \in Nat
      BY <1>1, <2>2, SMT
    <3> QED BY <1>1, <2>1, <2>2, <3>1, Factor
  <2>4. (k * (m * T + T)) * m = (m * (m * T) + m * T) * k
    BY <1>1, <2>2, SMT
  <2>5. m * (m * T) + m * T <= (m * m) * N + 2 * (m * N) + N
    <3>1. m * T \in Nat /\ m * N \in Nat
      BY <1>1, <1>2, <2>2, SMT
    <3>2. (m * T) * m <= (m * N + N) * m
      BY <1>1, <1>2, <1>3, <3>1, Factor
    <3>3. (m * T) * m = m * (m * T) /\ (m * N + N) * m = (m * m) * N + m * N
      BY <1>1, <1>2, <2>2, SMT
    <3>4. m * (m * T) \in Nat /\ (m * m) * N \in Nat
      BY <1>1, <1>2, <2>2, SMT
    <3> QED BY <1>2, <1>3, <3>1, <3>2, <3>3, <3>4
  <2>6. (m * (m * T) + m * T) * k <= ((m * m) * N + 2 * (m * N) + N) * k
    <3>1. m * (m * T) + m * T \in Nat /\ (m * m) * N + 2 * (m * N) + N \in Nat
      BY <1>1, <1>2, <2>2, SMT
    <3> QED BY <1>1, <2>5, <3>1, Factor
  <2>7. ((m * m) * N + 2 * (m * N) + N) * k = k * ((m * m) * N + 2 * (m * N) + N)
    <3> DEFINE z == (m * m) * N + 2 * (m * N) + N
    <3>1. z \in Nat
      BY <1>1, <1>2, SMT
    <3> HIDE DEF z
    <3>2. z * k = k * z
      BY <1>1, <3>1, SMT
    <3> QED BY <3>2 DEF z
  <2>8. (m * (e * l)) * m = (m * m) * (e * l)
    BY <1>1, <2>2, SMT
  <2>9. (m * m) * (e * l) <= (m * (m * T) + m * T) * k
    BY <2>3, <2>4, <2>8
  <2>10. (m * m) * (e * l) \in Int /\ (m * (m * T) + m * T) * k \in Int /\ k * ((m * m) * N + 2 * (m * N) + N) \in Int
    <3>1. (m * m) * (e * l) \in Int
      BY <1>1, <2>2, SMT
    <3>2. m * (m * T) + m * T \in Int /\ (m * m) * N + 2 * (m * N) + N \in Int
      BY <1>1, <1>2, <2>2, SMT
    <3> QED BY <1>1, <3>1, <3>2, SMT
  <2> QED BY <2>6, <2>7, <2>9, <2>10
<1> HIDE DEF T
<1> DEFINE M == m * m
           z == 2 * (m * N) + N
<1>6. M \in Nat /\ 3 * m <= M /\ m * N \in Nat /\ z \in Nat /\ z <= 3 * (m * N)
  <2>1. 3 * m <= m * m /\ m * m \in Nat
    BY <1>1, Factor
  <2>2. m * N \in Nat /\ N <= m * N
    <3>1. 1 * N <= m * N /\ m * N \in Nat
      BY <1>1, <1>2, Factor
    <3> QED BY <1>2, <3>1
  <2> QED BY <1>2, <2>1, <2>2
<1>7. M * (e * l) <= k * (M * N + z)
  <2>1. (m * m) * N \in Nat
    BY <1>1, <1>2, SMT
  <2>2. (m * m) * N + 2 * (m * N) + N = (m * m) * N + (2 * (m * N) + N)
    BY <1>2, <1>6, <2>1
  <2> QED BY <1>5, <2>2, Zenon
<1>8. M # 0 /\ M * N \in Nat /\ e * l \in Nat
  BY <1>1, <1>2, <1>4, <1>6, SMT
<1>9. z <= M * Unit
  <2>1. N * 3 <= m * Unit
    <3>1. (3 * n) * Unit <= m * Unit
      BY <1>1, Factor
    <3>2. (3 * n) * Unit = 3 * (n * Unit)
      BY <1>1, SMT
    <3> QED BY <1>2, <3>1, <3>2 DEF N
  <2>2. (N * 3) * m <= (m * Unit) * m
    <3>1. m * Unit \in Nat
      BY <1>1, SMT
    <3> QED BY <1>1, <1>2, <2>1, <3>1, Factor
  <2>3. (N * 3) * m = 3 * (m * N) /\ (m * Unit) * m = M * Unit /\ M * Unit \in Nat
    BY <1>1, <1>2, SMT
  <2> QED BY <1>6, <2>2, <2>3
<1>10. e <= N + Unit
  <2>1. k * (M * N + z) <= l * (M * N + z)
    <3>1. M * N + z \in Nat
      BY <1>6, <1>8
    <3>2. k * (M * N + z) <= l * (M * N + z)
      BY <1>1, <3>1, Factor
    <3> QED BY <3>2
  <2>2. l * (M * N + z) <= l * (M * (N + Unit))
    <3>1. M * (N + Unit) = M * N + M * Unit /\ M * Unit \in Nat
      BY <1>1, <1>2, <1>6, SMT
    <3>2. M * N + z <= M * (N + Unit) /\ M * N + z \in Nat /\ M * (N + Unit) \in Nat
      BY <1>6, <1>8, <1>9, <3>1
    <3> HIDE DEF M, z
    <3>3. (M * N + z) * l <= (M * (N + Unit)) * l /\ l * (M * N + z) = (M * N + z) * l
      BY <1>1, <3>2, Factor
    <3>4. l * (M * (N + Unit)) = (M * (N + Unit)) * l
      BY <1>1, <3>2, Factor
    <3> QED BY <3>3, <3>4
  <2> HIDE DEF M, z
  <2>3. M * (e * l) = e * (M * l) /\ l * (M * (N + Unit)) = (N + Unit) * (M * l) /\ M * l \in Nat \ {0}
    <3>1. M * (e * l) = e * (M * l)
      BY <1>1, <1>4, <1>6, SMT
    <3>2. l * (M * (N + Unit)) = (N + Unit) * (M * l)
      <4> DEFINE w == N + Unit
      <4>1. w \in Nat
        BY <1>1, <1>2
      <4> HIDE DEF w
      <4>2. l * (M * w) = w * (M * l)
        BY <1>1, <1>6, <4>1, SMT
      <4> QED BY <4>2 DEF w
    <3>3. M * l \in Nat \ {0}
      BY <1>1, <1>6, <1>8, Positive
    <3> QED BY <3>1, <3>2, <3>3
  <2>4. e * (M * l) <= (N + Unit) * (M * l)
    <3>1. e * (M * l) \in Int /\ (N + Unit) * (M * l) \in Int /\ k * (M * N + z) \in Int /\ l * (M * N + z) \in Int
      <4>1. M * N + z \in Int
        BY <1>6, <1>8
      <4> QED BY <1>1, <1>2, <1>4, <2>3, <4>1, SMT
    <3> QED BY <1>7, <2>1, <2>2, <2>3, <3>1
  <2> QED BY <1>1, <1>2, <1>4, <2>3, <2>4, Cancel
<1>11. ASSUME k < l PROVE e <= N
  <2>1. k * (M * N + z) <= l * (M * N)
    <3>1. k * z <= M * N
      <4>1. k * z <= k * (3 * (m * N)) /\ k * z \in Nat
        <5>1. z * k <= (3 * (m * N)) * k /\ k * z = z * k /\ z * k \in Nat
          BY <1>1, <1>6, Factor
        <5>2. (3 * (m * N)) * k = k * (3 * (m * N))
          BY <1>1, <1>6, SMT
        <5> QED BY <5>1, <5>2
      <4>2. (3 * k) * (m * N) <= m * (m * N)
        <5>1. 3 * k <= m
          BY <1>1
        <5> QED BY <1>1, <1>6, <5>1, Factor
      <4>3. k * (3 * (m * N)) = (3 * k) * (m * N) /\ m * (m * N) = M * N
        BY <1>1, <1>2, <1>6, SMT
      <4>4. k * (3 * (m * N)) \in Int
        BY <1>1, <1>6, SMT
      <4> QED BY <1>8, <4>1, <4>2, <4>3, <4>4
    <3> HIDE DEF M, z
    <3>2. k * (M * N + z) = k * (M * N) + k * z
      BY <1>1, <1>6, <1>8, SMT
    <3>3. (k + 1) * (M * N) <= l * (M * N) /\ (k + 1) * (M * N) = k * (M * N) + M * N
      <4>1. (k + 1) * (M * N) <= l * (M * N)
        BY <1>1, <1>8, <1>11, Factor
      <4>2. (k + 1) * (M * N) = k * (M * N) + M * N
        BY <1>1, <1>8, SMT
      <4> QED BY <4>1, <4>2
    <3>4. k * (M * N) \in Int /\ k * z \in Int /\ l * (M * N) \in Int
      BY <1>1, <1>6, <1>8, SMT
    <3> QED BY <1>8, <3>1, <3>2, <3>3, <3>4
  <2> HIDE DEF M, z
  <2>2. M * (e * l) = e * (M * l) /\ l * (M * N) = N * (M * l) /\ M * l \in Nat \ {0}
    <3>1. M * (e * l) = e * (M * l) /\ l * (M * N) = N * (M * l)
      BY <1>1, <1>2, <1>4, <1>6, SMT
    <3>2. M * l \in Nat \ {0}
      BY <1>1, <1>6, <1>8, Positive
    <3> QED BY <3>1, <3>2
  <2>3. e * (M * l) <= N * (M * l)
    <3>1. e * (M * l) \in Int /\ N * (M * l) \in Int /\ k * (M * N + z) \in Int
      <4>1. M * N + z \in Int
        BY <1>6, <1>8
      <4> QED BY <1>1, <1>2, <1>4, <2>2, <4>1, SMT
    <3> QED BY <1>7, <2>1, <2>2, <3>1
  <2> QED BY <1>1, <1>2, <1>4, <2>2, <2>3, Cancel
<1> QED BY <1>10, <1>11 DEF e, N, l

LEMMA LastEdge ==
  ASSUME View!LengthsAssumption, View!DoublesAssumption, NEW n, Fits(n)
  PROVE  n * Unit < View!Edge(wavDigestLen, n) + Unit
<1> DEFINE m == Mantissa
           l == wavDigestLen
           N == n * Unit
           S == View!Step(n)
           T == l * S
           e == View!Edge(l, n)
<1>1. m \in Nat /\ l \in Nat \ {0} /\ Unit \in Nat \ {0} /\ n \in Nat \ {0} /\ 3 <= m /\ 3 * n <= m
  BY DEF View!LengthsAssumption, View!DoublesAssumption, Fits
<1>2. N \in Nat \ {0}
  BY <1>1, Positive
<1>3. S \in Nat /\ m * N <= m * T + N
  <2>1. S \in Nat /\ m * N <= m * (S * l) + N
    BY StepIs
  <2> HIDE DEF S
  <2>2. S * l = l * S
    BY <1>1, <2>1, SMT
  <2> QED BY <2>1, <2>2
<1>4. e \in Nat /\ m * T <= m * e + T
  BY <1>1, EdgeIs
<1> HIDE DEF m, l, N, S, e
<1>5. T \in Nat
  BY <1>1, <1>3, SMT
<1> HIDE DEF T
<1>6. m * N \in Nat /\ m * T \in Nat /\ m * e \in Nat
  BY <1>1, <1>2, <1>4, <1>5, SMT
<1>7. (m - 1) * (m * N) <= (m - 1) * (m * T) + (m - 1) * N
  <2>1. (m * N) * (m - 1) <= (m * T + N) * (m - 1)
    BY <1>1, <1>2, <1>3, <1>6, Factor
  <2>2. (m * N) * (m - 1) = (m - 1) * (m * N)
    BY <1>1, <1>6, SMT
  <2>3. (m * T + N) * (m - 1) = (m - 1) * (m * T) + (m - 1) * N
    BY <1>1, <1>2, <1>6, SMT
  <2> QED BY <2>1, <2>2, <2>3
<1>8. (m - 1) * (m * T) <= m * (m * e)
  <2>1. m * T - T <= m * e
    BY <1>4, <1>5, <1>6
  <2>2. m * T - T = (m - 1) * T /\ (m - 1) * T \in Nat
    BY <1>1, <1>5, SMT
  <2>3. ((m - 1) * T) * m <= (m * e) * m
    BY <1>1, <1>6, <2>1, <2>2, Factor
  <2>4. ((m - 1) * T) * m = (m - 1) * (m * T) /\ (m * e) * m = m * (m * e)
    BY <1>1, <1>5, <1>6, SMT
  <2> QED BY <2>3, <2>4
<1>9. (m - 1) * (m * N) = m * (m * N) - m * N /\ (m - 1) * N = m * N - N /\ m * (m * N) \in Nat /\ m * (m * e) \in Nat
  BY <1>1, <1>2, <1>6, SMT
<1>10. m * (m * N) < m * (m * e) + m * (m * Unit)
  <2>1. 2 * (m * N) <= m * (m * Unit) /\ m * (m * Unit) \in Nat
    <3>1. (3 * n) * Unit <= m * Unit /\ m * Unit \in Nat
      BY <1>1, Factor
    <3>2. (3 * n) * Unit = 3 * (n * Unit)
      BY <1>1, SMT
    <3>3. (3 * N) * m <= (m * Unit) * m
      BY <1>1, <1>2, <3>1, <3>2, Factor DEF N
    <3>4. (3 * N) * m = 3 * (m * N) /\ (m * Unit) * m = m * (m * Unit) /\ m * (m * Unit) \in Nat
      BY <1>1, <1>2, <3>1, SMT
    <3> QED BY <1>6, <3>3, <3>4
  <2>2. (m - 1) * (m * T) \in Int
    BY <1>1, <1>6, SMT
  <2> QED BY <1>2, <1>6, <1>7, <1>8, <1>9, <2>1, <2>2
<1>11. m * (m * N) = N * (m * m) /\ m * (m * e) + m * (m * Unit) = (e + Unit) * (m * m)
  <2>1. m * (m * N) = N * (m * m) /\ m * (m * e) = e * (m * m) /\ m * (m * Unit) = Unit * (m * m)
    BY <1>1, <1>2, <1>4, SMT
  <2>2. (e + Unit) * (m * m) = e * (m * m) + Unit * (m * m)
    BY <1>1, <1>4, SMT
  <2> QED BY <2>1, <2>2
<1>12. m * m \in Nat \ {0}
  BY <1>1, Positive
<1>13. N < e + Unit
  BY <1>1, <1>2, <1>4, <1>10, <1>11, <1>12, Cancel
<1> QED BY <1>13 DEF N, e, l

(* The samples of a column begin at the one that holds its first edge and  *)
(* end before the next edge.                                               *)
LEMMA ColumnIs ==
  ASSUME View!LengthsAssumption, View!DoublesAssumption, NEW n, Fits(n), NEW j \in 0 .. wavDigestLen - 1
  PROVE  \E a, b \in Nat : /\ View!Column(j, n) = a .. b - 1
                            /\ a * Unit <= View!Edge(j, n) /\ View!Edge(j, n) < a * Unit + Unit
                            /\ View!Edge(j + 1, n) <= b * Unit /\ b * Unit < View!Edge(j + 1, n) + Unit
<1> DEFINE u == Unit
           x == View!Edge(j, n)
           y == View!Edge(j + 1, n)
           a == x \div u
           b == View!Ceil(y, u)
<1>1. u \in Nat \ {0} /\ x \in Nat /\ y \in Nat \ {0}
  <2>1. x < y
    BY EdgesRise
  <2>2. x \in Nat /\ y \in Nat
    BY EdgeIs DEF View!LengthsAssumption
  <2>3. u \in Nat \ {0}
    BY DEF View!DoublesAssumption
  <2> HIDE DEF x, y, u
  <2> QED BY <2>1, <2>2, <2>3
<1>2. View!Column(j, n) = a .. b - 1
  BY DEF View!Column
<1> HIDE DEF u, x, y
<1>3. a \in Nat /\ a * u <= x /\ x < a * u + u
  <2>1. a \in Nat /\ x % u \in 0 .. u - 1 /\ x = u * a + (x % u)
    BY <1>1, Quotient
  <2> HIDE DEF a
  <2>2. a * u = u * a /\ a * u \in Nat
    BY <1>1, <2>1, SMT
  <2>3. \E r \in 0 .. u - 1 : x = a * u + r
    BY <2>1, <2>2
  <2> QED BY <1>1, <2>1, <2>2, <2>3, SMT
<1>4. b \in Nat /\ y <= b * u /\ b * u < y + u
  BY <1>1, CeilIs
<1> HIDE DEF a, b
<1> QED BY <1>2, <1>3, <1>4 DEF u, x, y

LEMMA ColumnInside ==
  ASSUME View!LengthsAssumption, View!DoublesAssumption, NEW n, Fits(n), NEW j \in 0 .. wavDigestLen - 1
  PROVE  View!Column(j, n) # {} /\ View!Column(j, n) \subseteq 0 .. IF j = wavDigestLen - 1 THEN n ELSE n - 1
<1> DEFINE u == Unit
           x == View!Edge(j, n)
           y == View!Edge(j + 1, n)
<1>1. u \in Nat \ {0} /\ x \in Nat /\ y \in Nat /\ n \in Nat
  <2>1. j \in Nat /\ j + 1 \in Nat
    BY DEF View!LengthsAssumption
  <2>2. x \in Nat /\ y \in Nat
    BY <2>1, EdgeIs
  <2> QED BY <2>2 DEF View!DoublesAssumption, Fits
<1>2. PICK a, b \in Nat : /\ View!Column(j, n) = a .. b - 1
                          /\ a * u <= x /\ x < a * u + u
                          /\ y <= b * u /\ b * u < y + u
  BY ColumnIs
<1>3. x < y
  BY EdgesRise
<1>4. y <= n * u + u /\ (j # wavDigestLen - 1 => y <= n * u)
  <2>1. j + 1 \in 1 .. wavDigestLen /\ (j # wavDigestLen - 1 => j + 1 < wavDigestLen)
    BY DEF View!LengthsAssumption
  <2> QED BY <2>1, EdgeAbove
<1> HIDE DEF u, x, y
<1>5. a * u \in Nat /\ b * u \in Nat /\ n * u \in Nat
  BY <1>1, SMT
<1>6. a < b
  <2>1. a * u < b * u
    BY <1>2, <1>3, <1>5, <1>1
  <2> QED BY <1>1, <2>1, Cancel
<1>7. b <= n + 1 /\ (j # wavDigestLen - 1 => b <= n)
  <2>1. (n + 1) * u = n * u + u /\ (n + 2) * u = n * u + u + u
    BY <1>1, SMT
  <2>2. b * u < (n + 2) * u /\ (j # wavDigestLen - 1 => b * u < (n + 1) * u)
    BY <1>1, <1>2, <1>4, <1>5, <2>1
  <2>3. b < n + 2
    BY <1>1, <2>2, Cancel
  <2>4. j # wavDigestLen - 1 => b < n + 1
    BY <1>1, <2>2, Cancel
  <2> QED BY <1>1, <2>3, <2>4
<1>8. a \in a .. b - 1
  BY <1>6
<1>9. CASE j = wavDigestLen - 1
  <2>1. a .. b - 1 \subseteq 0 .. n
    BY <1>1, <1>7
  <2> QED BY <1>2, <1>8, <1>9, <2>1
<1>10. CASE j # wavDigestLen - 1
  <2>1. a .. b - 1 \subseteq 0 .. n - 1
    BY <1>1, <1>7, <1>10
  <2> QED BY <1>2, <1>8, <1>10, <2>1
<1> QED BY <1>9, <1>10

(* A sample is in the last column that begins at or before it.             *)
LEMMA ColumnsCover ==
  ASSUME View!LengthsAssumption, View!DoublesAssumption, NEW n, Fits(n), NEW x \in 0 .. n - 1
  PROVE  \E j \in 0 .. wavDigestLen - 1 : x \in View!Column(j, n)
<1> DEFINE u == Unit
           l == wavDigestLen
           E(j) == View!Edge(j, n)
           J == {j \in 0 .. l - 1 : E(j) < x * u + u}
           j == View!Max(J)
<1>1. u \in Nat \ {0} /\ l \in Nat \ {0} /\ n \in Nat \ {0} /\ x \in Nat /\ x < n
  BY DEF View!LengthsAssumption, View!DoublesAssumption, Fits
<1>2. x * u \in Nat /\ x * u + u <= n * u /\ n * u \in Nat
  BY <1>1, Product
<1>3. j \in J /\ \A h \in J : j >= h
  <2>1. E(0) = 0
    BY EdgeIs
  <2>2. 0 \in 0 .. l - 1
    BY <1>1
  <2>3. 0 < x * u + u
    BY <1>1, <1>2
  <2>4. J # {}
    BY <2>1, <2>2, <2>3
  <2>5. IsFiniteSet(0 .. l - 1)
    BY <1>1, NumbersFinite
  <2>6. J \in SUBSET (0 .. l - 1)
    OBVIOUS
  <2>7. IsFiniteSet(J)
    BY <2>5, <2>6, FS_Subset
  <2>8. J \in SUBSET Int
    <3> HIDE DEF J
    <3> QED BY <1>1, <2>6
  <2> HIDE DEF J
  <2> QED BY <2>4, <2>7, <2>8, MaxIs
<1> HIDE DEF j
<1>4. j \in 0 .. l - 1 /\ E(j) < x * u + u
  BY <1>3
<1>5. x * u < E(j + 1)
  <2>1. CASE j = l - 1
    <3>1. n * u < E(l) + u
      BY LastEdge
    <3>2. j + 1 = l
      BY <1>1, <2>1
    <3>3. E(l) \in Nat
      BY <1>1, EdgeIs
    <3> HIDE DEF E
    <3> QED BY <1>1, <1>2, <3>1, <3>2, <3>3
  <2>2. CASE j # l - 1
    <3>1. j + 1 \in 0 .. l - 1 /\ ~(j >= j + 1)
      BY <1>1, <1>4, <2>2
    <3>2. ~(E(j + 1) < x * u + u)
      BY <1>3, <3>1
    <3>3. E(j + 1) \in Nat
      BY <3>1, EdgeIs
    <3> HIDE DEF E
    <3> QED BY <1>1, <1>2, <3>2, <3>3
  <2> QED BY <2>1, <2>2
<1>6. PICK a, b \in Nat : /\ View!Column(j, n) = a .. b - 1
                          /\ a * u <= E(j) /\ E(j) < a * u + u
                          /\ E(j + 1) <= b * u /\ b * u < E(j + 1) + u
  BY <1>4, ColumnIs
<1>7. E(j) \in Nat /\ E(j + 1) \in Nat
  BY <1>1, <1>4, EdgeIs
<1> HIDE DEF E
<1>8. a * u \in Nat /\ b * u \in Nat /\ (x + 1) * u = x * u + u
  BY <1>1, SMT
<1>9. a < x + 1
  <2>1. a * u < (x + 1) * u
    BY <1>4, <1>6, <1>7, <1>8, <1>2, <1>1, SMTT(30)
  <2> QED BY <1>1, <2>1, Cancel
<1>10. x < b
  <2>1. x * u < b * u
    BY <1>2, <1>5, <1>6, <1>7, <1>8
  <2> QED BY <1>1, <2>1, Cancel
<1>11. x \in a .. b - 1
  BY <1>1, <1>9, <1>10
<1> QED BY <1>4, <1>6, <1>11

LEMMA WavesAre ==
  ASSUME View!WavesAssumption, NEW w \in Waves
  PROVE  /\ 0 \in DOMAIN w /\ IsFiniteSet(DOMAIN w) /\ Cardinality(DOMAIN w[0]) \in Nat \ {0}
         /\ \A c \in DOMAIN w : w[c] \in [0 .. Cardinality(DOMAIN w[0]) - 1 -> Int]
<1>1. View!IsFiniteSet(DOMAIN w) = IsFiniteSet(DOMAIN w) /\ View!Cardinality(DOMAIN w[0]) = Cardinality(DOMAIN w[0])
  BY SameSizes, Zenon
<1> QED BY <1>1, Zenon DEF View!WavesAssumption

(* Every sample lies between the least and the greatest of all of them.    *)
LEMMA SamplesBetween ==
  ASSUME View!WavesAssumption, NEW w \in Waves
  PROVE  /\ View!Low(w) \in Int /\ View!High(w) \in Int
         /\ \A c \in DOMAIN w : \A x \in DOMAIN w[c] : w[c][x] \in Int /\ View!Low(w) <= w[c][x] /\ w[c][x] <= View!High(w)
<1> DEFINE n == Cardinality(DOMAIN w[0])
<1>1. 0 \in DOMAIN w /\ IsFiniteSet(DOMAIN w) /\ n \in Nat \ {0} /\ \A c \in DOMAIN w : w[c] \in [0 .. n - 1 -> Int]
  BY WavesAre
<1> HIDE DEF n
<1>2. ASSUME NEW c \in DOMAIN w
      PROVE  View!Values(w, c) \in SUBSET Int /\ IsFiniteSet(View!Values(w, c)) /\ View!Values(w, c) # {}
  <2>1. w[c] \in [0 .. n - 1 -> Int] /\ DOMAIN w[c] = 0 .. n - 1
    BY <1>1
  <2>2. IsFiniteSet(0 .. n - 1)
    BY <1>1, NumbersFinite
  <2>3. w[c] \in Surjection(0 .. n - 1, View!Values(w, c))
    BY <2>1 DEF Surjection, View!Values
  <2>4. IsFiniteSet(View!Values(w, c)) /\ View!Values(w, c) = {w[c][x] : x \in 0 .. n - 1}
    BY <2>1, <2>2, <2>3, FS_Surjection DEF View!Values
  <2>5. 0 \in 0 .. n - 1
    BY <1>1
  <2> QED BY <2>1, <2>4, <2>5
<1> DEFINE lo(c) == View!Min(View!Values(w, c))
           hi(c) == View!Max(View!Values(w, c))
<1>3. ASSUME NEW c \in DOMAIN w
      PROVE  lo(c) \in Int /\ hi(c) \in Int /\ \A x \in DOMAIN w[c] : w[c][x] \in Int /\ lo(c) <= w[c][x] /\ w[c][x] <= hi(c)
  <2>1. lo(c) \in View!Values(w, c) /\ \A y \in View!Values(w, c) : lo(c) <= y
    BY <1>2, MinIs
  <2>2. hi(c) \in View!Values(w, c) /\ \A y \in View!Values(w, c) : hi(c) >= y
    BY <1>2, MaxIs
  <2>3. \A x \in DOMAIN w[c] : w[c][x] \in View!Values(w, c)
    BY DEF View!Values
  <2>4. lo(c) \in Int /\ hi(c) \in Int /\ \A x \in DOMAIN w[c] : w[c][x] \in Int
    BY <1>2, <2>1, <2>2, <2>3
  <2> HIDE DEF lo, hi
  <2> QED BY <2>1, <2>2, <2>3, <2>4
<1>4. View!Low(w) = View!Min({lo(c) : c \in DOMAIN w}) /\ View!High(w) = View!Max({hi(c) : c \in DOMAIN w})
  <2>1. \A c \in DOMAIN w : View!ChannelRange(w)[c].min = lo(c) /\ View!ChannelRange(w)[c].max = hi(c)
    BY DEF View!ChannelRange
  <2>2. {View!ChannelRange(w)[c].min : c \in DOMAIN w} = {lo(c) : c \in DOMAIN w}
    BY <2>1
  <2>3. {View!ChannelRange(w)[c].max : c \in DOMAIN w} = {hi(c) : c \in DOMAIN w}
    BY <2>1
  <2> QED BY <2>2, <2>3 DEF View!Low, View!High
<1> HIDE DEF lo, hi
<1> DEFINE L == {lo(c) : c \in DOMAIN w}
           H == {hi(c) : c \in DOMAIN w}
<1>5. IsFiniteSet(L) /\ IsFiniteSet(H)
  <2>1. /\ \A y \in L : \E c \in DOMAIN w : lo(c) = y
        /\ \A y \in H : \E c \in DOMAIN w : hi(c) = y
    OBVIOUS
  <2> DEFINE f == [c \in DOMAIN w |-> lo(c)]
             g == [c \in DOMAIN w |-> hi(c)]
  <2>2. f \in Surjection(DOMAIN w, L) /\ g \in Surjection(DOMAIN w, H)
    BY <2>1 DEF Surjection
  <2> QED BY <1>1, <2>2, FS_Surjection
<1>6. L \in SUBSET Int /\ H \in SUBSET Int /\ L # {} /\ H # {}
  BY <1>1, <1>3
<1>7. View!Low(w) \in Int /\ \A y \in L : View!Low(w) <= y
  BY <1>4, <1>5, <1>6, MinIs
<1>8. View!High(w) \in Int /\ \A y \in H : View!High(w) >= y
  BY <1>4, <1>5, <1>6, MaxIs
<1>9. ASSUME NEW c \in DOMAIN w, NEW x \in DOMAIN w[c]
      PROVE  w[c][x] \in Int /\ View!Low(w) <= w[c][x] /\ w[c][x] <= View!High(w)
  <2>1. lo(c) \in L /\ hi(c) \in H
    OBVIOUS
  <2>2. View!Low(w) <= lo(c) /\ hi(c) <= View!High(w)
    BY <1>3, <1>7, <1>8, <2>1
  <2> QED BY <1>3, <1>7, <1>8, <2>2
<1> QED BY <1>7, <1>8, <1>9

LEMMA WavesFit ==
  ASSUME View!WavesAssumption, View!DoublesAssumption, NEW w \in Waves
  PROVE  Fits(Cardinality(DOMAIN w[0]))
<1>1. View!Cardinality(DOMAIN w[0]) = Cardinality(DOMAIN w[0])
  BY SameSizes, Zenon
<1>2. 3 * Cardinality(DOMAIN w[0]) <= Mantissa /\ Mantissa * wavDigestLen <= Cardinality(DOMAIN w[0]) * Unit
  BY <1>1, Zenon DEF View!DoublesAssumption
<1>3. Cardinality(DOMAIN w[0]) \in Nat \ {0}
  BY WavesAre
<1> QED BY <1>2, <1>3, Zenon DEF Fits

(* What a column is made of is of the event, unless it reads one sample    *)
(* too many and there is no next channel.                                  *)
LEMMA DigestBetween ==
  ASSUME View!WavesAssumption, View!LengthsAssumption, View!DoublesAssumption, NEW beyond,
         NEW w \in Waves, NEW c \in DOMAIN w, NEW j \in 0 .. wavDigestLen - 1,
         c + 1 \in DOMAIN w \/ Cardinality(DOMAIN w[0]) \notin View!Column(j, Cardinality(DOMAIN w[0]))
  PROVE  View!Digest(w, Cardinality(DOMAIN w[0]), beyond)[c][j] \in View!Low(w) .. View!High(w)
<1> DEFINE n == Cardinality(DOMAIN w[0])
           S == View!Column(j, n)
           f == [x \in S |-> View!Sample(w, c, x, beyond)]
<1>1. n \in Nat \ {0} /\ \A d \in DOMAIN w : DOMAIN w[d] = 0 .. n - 1
  BY WavesAre
<1>2. Fits(n) /\ (c + 1 \in DOMAIN w \/ n \notin S)
  BY WavesFit
<1> HIDE DEF n
<1>3. View!Digest(w, n, beyond)[c][j] = View!Trunc(View!Total(f, S), Cardinality(S))
  <2>1. View!Cardinality(S) = Cardinality(S)
    BY SameSizes, Zenon
  <2> QED BY <2>1 DEF View!Digest
<1>4. S # {} /\ S \subseteq 0 .. n
  <2>1. S # {} /\ S \subseteq 0 .. IF j = wavDigestLen - 1 THEN n ELSE n - 1
    BY <1>2, ColumnInside
  <2>2. 0 .. n - 1 \subseteq 0 .. n
    BY <1>1
  <2> HIDE DEF S
  <2> QED BY <2>1, <2>2
<1>5. IsFiniteSet(S) /\ Cardinality(S) \in Nat \ {0}
  <2>1. 0 .. n = 0 .. (n + 1) - 1 /\ n + 1 \in Nat \ {0}
    BY <1>1
  <2>2. IsFiniteSet(0 .. n)
    BY <2>1, NumbersFinite
  <2>3. IsFiniteSet(S)
    BY <1>4, <2>2, FS_Subset
  <2>4. Cardinality(S) \in Nat /\ Cardinality(S) # 0
    BY <1>4, <2>3, FS_CardinalityType, FS_EmptySet
  <2> QED BY <2>3, <2>4
<1> HIDE DEF S
<1>6. View!Low(w) \in Int /\ View!High(w) \in Int
  BY SamplesBetween
<1>7. ASSUME NEW x \in S
      PROVE  f[x] \in Int /\ View!Low(w) <= f[x] /\ f[x] <= View!High(w)
  <2>1. f[x] = View!Sample(w, c, x, beyond)
    OBVIOUS
  <2> HIDE DEF f
  <2>2. CASE x \in DOMAIN w[c]
    <3>1. f[x] = w[c][x]
      BY <2>1, <2>2 DEF View!Sample
    <3> QED BY <2>2, <3>1, SamplesBetween
  <2>3. CASE x \notin DOMAIN w[c]
    <3>1. x = n
      BY <1>1, <1>4, <2>3
    <3>2. c + 1 \in DOMAIN w
      BY <1>2, <3>1
    <3>3. 0 \in DOMAIN w[c + 1]
      BY <1>1, <3>2
    <3>4. f[x] = w[c + 1][0]
      BY <2>1, <2>3, <3>2 DEF View!Sample
    <3>5. w[c + 1][0] \in Int /\ View!Low(w) <= w[c + 1][0] /\ w[c + 1][0] <= View!High(w)
      BY <3>2, <3>3, SamplesBetween
    <3> QED BY <3>4, <3>5
  <2> QED BY <2>2, <2>3
<1> HIDE DEF f
<1> DEFINE T == View!Total(f, S)
<1>8. T \in Int /\ View!Low(w) * Cardinality(S) <= T /\ T <= View!High(w) * Cardinality(S)
  BY <1>5, <1>6, <1>7, TotalBetween
<1> HIDE DEF T
<1>9. View!Trunc(T, Cardinality(S)) \in Int /\ View!Low(w) <= View!Trunc(T, Cardinality(S)) /\ View!Trunc(T, Cardinality(S)) <= View!High(w)
  BY <1>5, <1>6, <1>8, Between
<1>10. View!Trunc(T, Cardinality(S)) \in View!Low(w) .. View!High(w)
  BY <1>6, <1>9
<1> QED BY <1>3, <1>10 DEF n, T

(* What is shown is of the event; the window is of integers and, in a long *)
(* event, inside it.                                                       *)
ViewInv ==
  /\ waveviewWavBuf \in Waves /\ \E beyond \in Beyond : wavDigest = View!Digest(waveviewWavBuf, View!nPt, beyond)
  /\ digestL = View!Low(waveviewWavBuf) /\ digestH = View!High(waveviewWavBuf)
  /\ xL \in Int /\ xH \in Int /\ View!WindowInside

LEMMA PointsAre ==
  ASSUME View!WavesAssumption, waveviewWavBuf \in Waves
  PROVE  View!nPt \in Nat \ {0}
  BY DEF View!WavesAssumption, View!nPt

LEMMA LesserOf ==
  ASSUME NEW a \in Int, NEW b \in Int
  PROVE  View!Min({a, b}) = IF b < a THEN b ELSE a
<1>1. {a, b} \in SUBSET Int /\ IsFiniteSet({a, b}) /\ {a, b} # {}
  <2>1. IsFiniteSet({a}) /\ {a, b} = {a} \cup {b}
    BY FS_Singleton
  <2> QED BY <2>1, FS_AddElement
<1>2. View!Min({a, b}) \in {a, b} /\ View!Min({a, b}) <= a /\ View!Min({a, b}) <= b
  BY <1>1, MinIs
<1> QED BY <1>2

LEMMA InitView ==
  ASSUME View!WavesAssumption, View!LengthsAssumption
  PROVE  View!Init => ViewInv
<1> SUFFICES ASSUME View!Init PROVE ViewInv
  OBVIOUS
<1>1. View!nPt \in Nat \ {0}
  BY PointsAre DEF View!Init
<1>2. INIT_WINDOW_WIDTH \in Nat \ {0}
  BY DEF View!LengthsAssumption
<1>3. xH = IF INIT_WINDOW_WIDTH < View!nPt THEN INIT_WINDOW_WIDTH ELSE View!nPt
  BY <1>1, <1>2, LesserOf DEF View!Init
<1>4. xL = 0
  BY DEF View!Init
<1>5. xL \in Int /\ xH \in Int /\ View!WindowInside
  BY <1>1, <1>2, <1>3, <1>4 DEF View!WindowInside, View!Long
<1> QED BY <1>5 DEF View!Init, ViewInv

(* A part of the width is an integer, and none of a window that is turned  *)
(* round by no more than one is negative.                                  *)
LEMMA PartsAre ==
  ASSUME xL \in Int, xH \in Int, xL <= xH + 1
  PROVE  /\ \A d \in {100, 10, 5} : View!xHmL \div d \in Nat
         /\ \A d \in View!Parts, x \in Int : \A y \in View!Less(x, d) : y \in Int /\ y <= x
         /\ \A d \in View!Parts, x \in Int : View!More(x, d) \in Int /\ View!More(x, d) >= x
         /\ \A dx \in View!Steps : dx \in Nat
<1> DEFINE v == View!xHmL
<1>1. v \in Nat
  BY DEF View!xHmL
<1>2. ASSUME NEW d \in {100, 10, 5}
      PROVE  v \div d \in Nat
  <2>1. \A u \in Nat : u \div 100 \in Nat
    BY SMT
  <2>2. \A u \in Nat : u \div 10 \in Nat
    BY SMT
  <2>3. \A u \in Nat : u \div 5 \in Nat
    BY SMT
  <2>4. \A e \in {100, 10, 5} : v \div e \in Nat
    BY <1>1, <2>1, <2>2, <2>3, Zenon
  <2> QED BY <2>4
<1>3. ASSUME NEW d \in View!Parts, NEW x \in Int
      PROVE  \A y \in View!Less(x, d) : y \in Int /\ y <= x
  <2>1. d \in {100, 10, 5}
    BY DEF View!Parts
  <2> DEFINE p == v \div d
  <2>2. p \in Nat
    BY <1>2, <2>1
  <2>3. \A y \in View!Less(x, d) : y = x - p \/ y = x - p - 1
    BY DEF View!Less
  <2> HIDE DEF p
  <2> QED BY <2>2, <2>3
<1>4. ASSUME NEW d \in View!Parts, NEW x \in Int
      PROVE  View!More(x, d) \in Int /\ View!More(x, d) >= x
  <2> HIDE DEF v
  <2>1. \A y \in Int, u \in Nat : View!Trunc(y * 100 + u, 100) \in Int /\ View!Trunc(y * 100 + u, 100) >= y
    BY SMT DEF View!Trunc
  <2>2. \A y \in Int, u \in Nat : View!Trunc(y * 10 + u, 10) \in Int /\ View!Trunc(y * 10 + u, 10) >= y
    BY SMT DEF View!Trunc
  <2>3. d = 100 \/ d = 10
    BY DEF View!Parts
  <2>4. View!Trunc(x * d + v, d) \in Int /\ View!Trunc(x * d + v, d) >= x
    <3>1. View!Trunc(x * 100 + v, 100) \in Int /\ View!Trunc(x * 100 + v, 100) >= x
      BY <1>1, <2>1
    <3>2. View!Trunc(x * 10 + v, 10) \in Int /\ View!Trunc(x * 10 + v, 10) >= x
      BY <1>1, <2>2
    <3> QED BY <2>3, <3>1, <3>2, Zenon
  <2> QED BY <2>4 DEF View!More, v
<1>5. \A dx \in View!Steps : dx \in Nat
  <2>1. \A dx \in View!Steps : dx = 1 \/ \E d \in {100, 10, 5} : dx = v \div d
    BY DEF View!Steps
  <2> QED BY <1>2, <2>1
<1> QED BY <1>2, <1>3, <1>4, <1>5

(* A key moves an edge up to the other or to the end of the event, or both *)
(* edges by as much.                                                       *)
LEMMA StepWindow ==
  ASSUME View!WavesAssumption, ViewInv, View!Next
  PROVE  /\ UNCHANGED View!shown /\ xL' \in Int /\ xH' \in Int
         /\ -1 <= xL' /\ xL' <= View!nPt /\ -1 <= xH' /\ xH' <= View!nPt /\ xL' <= xH' + 1
         /\ View!Long => 0 <= xL' /\ xL' <= xH' /\ xH' < View!nPt
         /\ xL' # xL /\ xH' # xH => xH' - xL' = xH - xL
<1>1. /\ View!nPt \in Nat \ {0} /\ xL \in Int /\ xH \in Int
      /\ -1 <= xL /\ xL <= View!nPt /\ -1 <= xH /\ xH <= View!nPt /\ xL <= xH + 1
      /\ View!Long => 0 <= xL /\ xL <= xH /\ xH < View!nPt
  BY PointsAre DEF ViewInv, View!WindowInside
<1>2. CASE View!LowerLow
  <2>1. PICK x \in {xL - 1} \cup UNION {View!Less(xL, d) : d \in View!Parts} : View!LowTo(View!AtLeast(x, 0))
    BY <1>2 DEF View!LowerLow
  <2>2. x \in Int /\ x <= xL
    BY <1>1, PartsAre
  <2>3. xL' = (IF x < 0 THEN 0 ELSE x) /\ xH' = xH /\ UNCHANGED View!shown
    BY <2>1 DEF View!LowTo, View!AtLeast
  <2> QED BY <1>1, <2>2, <2>3
<1>3. CASE View!RaiseLow
  <2>1. PICK x \in {xL + 1} \cup {View!More(xL, d) : d \in View!Parts} : View!LowTo(IF x > xH THEN xH ELSE x)
    BY <1>3 DEF View!RaiseLow
  <2>2. x \in Int /\ x >= xL
    BY <1>1, PartsAre
  <2>3. xL' = (IF x > xH THEN xH ELSE x) /\ xH' = xH /\ UNCHANGED View!shown
    BY <2>1 DEF View!LowTo
  <2> QED BY <1>1, <2>2, <2>3
<1>4. CASE View!LowerHigh
  <2>1. PICK x \in {xH - 1} \cup UNION {View!Less(xH, d) : d \in View!Parts} : View!HighTo(View!AtLeast(x, xL))
    BY <1>4 DEF View!LowerHigh
  <2>2. x \in Int /\ x <= xH
    BY <1>1, PartsAre
  <2>3. xH' = (IF x < xL THEN xL ELSE x) /\ xL' = xL /\ UNCHANGED View!shown
    BY <2>1 DEF View!HighTo, View!AtLeast
  <2> QED BY <1>1, <2>2, <2>3
<1>5. CASE View!RaiseHigh
  <2>1. PICK x \in {xH + 1} \cup {View!More(xH, d) : d \in View!Parts} : View!HighTo(IF x \in 0 .. View!nPt - 1 THEN x ELSE View!nPt - 1)
    BY <1>5 DEF View!RaiseHigh
  <2>2. x \in Int /\ x >= xH
    BY <1>1, PartsAre
  <2>3. xH' = (IF x \in 0 .. View!nPt - 1 THEN x ELSE View!nPt - 1) /\ xL' = xL /\ UNCHANGED View!shown
    BY <2>1 DEF View!HighTo
  <2> QED BY <1>1, <2>2, <2>3
<1>6. CASE View!Left
  <2>1. PICK dx \in View!Steps : xL - dx >= 0 /\ xL' = xL - dx /\ xH' = xH - dx /\ UNCHANGED View!shown
    BY <1>6 DEF View!Left
  <2>2. dx \in Nat
    BY <1>1, PartsAre
  <2> QED BY <1>1, <2>1, <2>2
<1>7. CASE View!Right
  <2>1. PICK dx \in View!Steps : xH + dx \in 0 .. View!nPt - 1 /\ xL' = xL + dx /\ xH' = xH + dx /\ UNCHANGED View!shown
    BY <1>7 DEF View!Right
  <2>2. dx \in Nat
    BY <1>1, PartsAre
  <2> QED BY <1>1, <2>1, <2>2
<1> QED BY <1>2, <1>3, <1>4, <1>5, <1>6, <1>7 DEF View!Next

LEMMA StepView ==
  ASSUME View!WavesAssumption, ViewInv, [View!Next]_(View!vars)
  PROVE  ViewInv' /\ View!WidthKept
<1>1. /\ UNCHANGED View!shown /\ xL' \in Int /\ xH' \in Int
      /\ -1 <= xL' /\ xL' <= View!nPt /\ -1 <= xH' /\ xH' <= View!nPt /\ xL' <= xH' + 1
      /\ View!Long => 0 <= xL' /\ xL' <= xH' /\ xH' < View!nPt
      /\ xL' # xL /\ xH' # xH => xH' - xL' = xH - xL
  <2>1. CASE View!Next
    BY <2>1, StepWindow
  <2>2. CASE UNCHANGED View!vars
    BY <2>2 DEF View!vars, ViewInv, View!WindowInside
  <2> QED BY <2>1, <2>2
<1>2. waveviewWavBuf' = waveviewWavBuf /\ wavDigest' = wavDigest /\ digestL' = digestL /\ digestH' = digestH
  BY <1>1 DEF View!shown
<1>3. View!nPt' = View!nPt
  BY <1>2 DEF View!nPt
<1>4. View!WindowInside'
  BY <1>1, <1>3 DEF View!WindowInside, View!Long
<1>5. View!WidthKept
  BY <1>1 DEF View!WidthKept
<1> QED BY <1>1, <1>2, <1>3, <1>4, <1>5 DEF ViewInv

LEMMA ViewGives ==
  ASSUME View!WavesAssumption, View!LengthsAssumption, View!DoublesAssumption, ViewInv
  PROVE  View!WindowInside /\ View!DigestCovers /\ View!DigestInScale
<1>1. View!nPt = Cardinality(DOMAIN waveviewWavBuf[0]) /\ waveviewWavBuf \in Waves
  BY SameSizes, Zenon DEF View!nPt, ViewInv
<1>2. Fits(View!nPt)
  BY <1>1, WavesFit
<1>3. View!DigestCovers
  <2> DEFINE J == 0 .. wavDigestLen - 1
  <2>1. \A j \in J : View!Column(j, View!nPt) # {} /\ View!Column(j, View!nPt) \subseteq 0 .. IF j = wavDigestLen - 1 THEN View!nPt ELSE View!nPt - 1
    BY <1>2, ColumnInside
  <2>2. \A x \in 0 .. View!nPt - 1 : \E j \in J : x \in View!Column(j, View!nPt)
    BY <1>2, ColumnsCover
  <2>3. 0 .. View!nPt - 1 \subseteq UNION {View!Column(j, View!nPt) : j \in J}
    BY <2>2, Zenon
  <2> QED BY <2>1, <2>3, Zenon DEF View!DigestCovers
<1>4. View!DigestInScale
  <2> SUFFICES ASSUME NEW c \in DOMAIN wavDigest, NEW j \in 0 .. wavDigestLen - 1,
                      c + 1 \in DOMAIN wavDigest \/ View!nPt \notin View!Column(j, View!nPt)
               PROVE  wavDigest[c][j] \in digestL .. digestH
    BY DEF View!DigestInScale
  <2>1. PICK beyond \in Beyond : wavDigest = View!Digest(waveviewWavBuf, View!nPt, beyond)
    BY DEF ViewInv
  <2>2. DOMAIN wavDigest = DOMAIN waveviewWavBuf
    BY <2>1 DEF View!Digest
  <2>3. View!Digest(waveviewWavBuf, View!nPt, beyond)[c][j] \in View!Low(waveviewWavBuf) .. View!High(waveviewWavBuf)
    BY <1>1, <2>2, DigestBetween
  <2>4. digestL = View!Low(waveviewWavBuf) /\ digestH = View!High(waveviewWavBuf)
    BY DEF ViewInv
  <2> QED BY <2>1, <2>3, <2>4
<1> QED BY <1>3, <1>4 DEF ViewInv
-----------------------------------------------------------------------------
(* Requests and answers.  The board after the commands that it has not     *)
(* executed yet is followed through them, one at a time.                   *)
Halves == 0 .. Query!W16 - 1
Boards == [config : [Query!Regs -> Halves], memCnt : Halves, addr : 0 .. 8, din : Halves,
           mem : [Query!Cells -> Query!Word], taken : Nat]
Now == [config |-> config, memCnt |-> memCnt, addr |-> addr, din |-> din, mem |-> mem, taken |-> taken]

(* A command that makes the board answer, what it does to the board s, and *)
(* the answer.                                                             *)
Answers(c) == Query!IsRead(c) \/ Query!Addr(c) = 25
After(c, s) ==
  IF Query!IsRead(c) THEN IF Query!Addr(c) = 20 THEN [s EXCEPT !.addr = s.addr + s.memCnt] ELSE s
  ELSE [config |-> IF Query!Addr(c) \in Query!Regs THEN [s.config EXCEPT ![Query!Addr(c)] = c.lo] ELSE s.config,
        memCnt |-> IF Query!Addr(c) = 16 THEN c.lo ELSE s.memCnt,
        addr   |-> IF Query!Addr(c) = 17 THEN c.lo ELSE IF Query!Addr(c) = 20 THEN s.addr + 1 ELSE s.addr,
        din    |-> IF Query!Addr(c) = 19 THEN c.lo ELSE s.din,
        mem    |-> IF Query!Addr(c) = 20 THEN [s.mem EXCEPT ![s.addr % 8] = [hi |-> c.lo, lo |-> s.din]] ELSE s.mem,
        taken  |-> IF Query!Addr(c) = 25 THEN s.taken + c.lo + 1 ELSE s.taken]
RegIn(s, a) == CASE a \in Query!Regs -> s.config[a] [] a \in 0 .. 10 -> Query!Status(a) [] a = 16 -> s.memCnt
                 [] a = 17 -> s.addr [] a = 18 -> 0 [] OTHER -> Query!W16 - 1
Answer(c, s) ==
  IF Query!IsRead(c) THEN IF Query!Addr(c) = 20 THEN Query!Burst([g \in 1 .. s.memCnt |-> s.mem[(s.addr + g - 1) % 8]])
                                    ELSE Query!Reply(RegIn(s, Query!Addr(c)))
  ELSE IF Query!Addr(c) = 25 THEN Query!Burst([g \in 1 .. c.lo + 1 |-> Query!DataWord(s.taken + g)]) ELSE <<>>

(* r takes the board from s through the commands q, of which only the last *)
(* may answer.                                                             *)
Run(r, s, q) ==
  /\ r \in [0 .. Len(q) -> Boards] /\ r[0] = s
  /\ \A k \in 1 .. Len(q) : r[k] = After(q[k], r[k - 1])
  /\ \A k \in 1 .. Len(q) - 1 : ~Answers(q[k])
EndsIn(q) == Len(q) > 0 /\ Answers(q[Len(q)])

(* The board is as the requests made it.                                   *)
AsMeant(s) == s.config = conf /\ s.mem = cells /\ s.taken = words

(* While the connection lasts, the commands on their way lead to a board   *)
(* as it is meant to be, and what the program has, what is on its way, and *)
(* what the last command will answer make the whole answer.                *)
OpenInv ==
  \E r : /\ Run(r, Now, queryCmds) /\ AsMeant(r[Len(queryCmds)])
         /\ EndsIn(queryCmds) => /\ queryPc = "select" /\ resp = <<>> /\ queryNet = <<>>
                                 /\ Answer(queryCmds[Len(queryCmds)], r[Len(queryCmds) - 1]) = Query!Expected
         /\ ~EndsIn(queryCmds) => resp \o queryNet = Query!Expected /\ (queryPc = "returned" => queryNet = <<>>)

(* When it is lost, what came of the answer remains.                       *)
Prefix(s, f) == Len(s) <= Len(f) /\ s = SubSeq(f, 1, Len(s))
ClosedInv ==
  /\ queryCmds = <<>> /\ Prefix(resp, Query!Expected)
  /\ queryPc = "select" => Prefix(resp \o queryNet, Query!Expected)
QueryTyped ==
  /\ queryPc \in {"returned", "select"} /\ closed \in BOOLEAN /\ Now \in Boards
  /\ queryCmds \in Seq(Query!Word) /\ queryNet \in Seq(Halves) /\ resp \in Seq(Halves)
  /\ conf \in [Query!Regs -> Halves] /\ cells \in [Query!Cells -> Query!Word] /\ words \in Nat
  /\ \E S : queryTodo \in Seq(S) /\ \A c \in S : Query!Legal(c)
  /\ \/ Query!Legal(call)
     \/ call.op = "none" /\ queryPc = "returned"
QueryInv == QueryTyped /\ (closed => ClosedInv) /\ (~closed => OpenInv)

(* Numbers and records. *)
LEMMA Below ==
  ASSUME NEW w \in Nat \ {0}, NEW h \in Nat
  PROVE  h % w \in 0 .. w - 1 /\ (h < w => h % w = h)
  BY SMT

LEMMA BelowInt ==
  ASSUME NEW w \in Nat \ {0}, NEW h \in Int
  PROVE  h % w \in 0 .. w - 1
  BY SMT

LEMMA HalvesAre ==
  /\ \A h \in 0 .. 110 : h \in Halves
  /\ \A h \in Halves : h \in Nat
  /\ Query!W16 - 1 \in Halves
<1>1. Query!W16 \in Nat \ {0} /\ Query!W16 > 110
  BY SMT DEF Query!W16
<1> QED BY <1>1, SMT DEF Halves

LEMMA Masked ==
  /\ \A h \in Halves : h % Query!W16 = h
  /\ \A l \in Nat : l % Query!W16 \in Halves
<1>1. Query!W16 \in Nat \ {0}
  BY SMT DEF Query!W16
<1>2. \A h \in Halves : h \in Nat /\ h < Query!W16
  BY <1>1, SMT DEF Halves
<1>3. \A h \in Halves : h % Query!W16 = h
  BY <1>1, <1>2, Below, SMT
<1>4. \A l \in Nat : l % Query!W16 \in Halves
  BY <1>1, Below, SMT DEF Halves
<1> QED BY <1>3, <1>4, Zenon

LEMMA WordIs ==
  /\ \A c \in Query!Word : c.hi \in Halves /\ c.lo \in Halves /\ c = [hi |-> c.hi, lo |-> c.lo]
  /\ \A h, l \in Halves : [hi |-> h, lo |-> l] \in Query!Word
  BY SMT DEF Query!Word, Halves

LEMMA BoardIs ==
  ASSUME NEW s \in Boards
  PROVE  /\ s.config \in [Query!Regs -> Halves] /\ s.memCnt \in Halves /\ s.addr \in 0 .. 8 /\ s.din \in Halves
         /\ s.mem \in [Query!Cells -> Query!Word] /\ s.taken \in Nat
  BY SMT DEF Boards

(* Commands. *)
LEMMA CommandIs ==
  ASSUME NEW h \in Halves, NEW l \in Nat
  PROVE  /\ Query!Command(h, l) \in Query!Word /\ Query!Command(h, l).hi = h /\ Query!Command(h, l).lo = l % Query!W16
         /\ l \in Halves => Query!Command(h, l).lo = l
<1>1. Query!Command(h, l) = [hi |-> h, lo |-> l % Query!W16] /\ l % Query!W16 \in Halves
  BY Masked, HalvesAre, Zenon DEF Query!Command
<1>2. Query!Command(h, l) \in Query!Word
  BY <1>1, WordIs, Zenon
<1>3. Query!Command(h, l).hi = h /\ Query!Command(h, l).lo = l % Query!W16
  BY <1>1
<1> QED BY <1>2, <1>3, Masked, Zenon

LEMMA ReadBits ==
  ASSUME NEW a \in 0 .. 63
  PROVE  Query!ReadBit + a \in Halves
<1>1. Query!ReadBit \in Nat /\ Query!W16 \in Nat /\ 63 < Query!W16 - Query!ReadBit
  BY SMT DEF Query!ReadBit, Query!W16
<1> QED BY <1>1, SMT DEF Halves

(* What a command means by its upper half. *)
LEMMA Meanings ==
  ASSUME NEW c
  PROVE  /\ \A a \in 0 .. 63 : c.hi = a => ~Query!IsRead(c) /\ Query!Addr(c) = a
         /\ \A a \in 0 .. 63 : c.hi = Query!ReadBit + a => Query!IsRead(c) /\ Query!Addr(c) = a
<1>1. ASSUME NEW a \in 0 .. 63, c.hi = a PROVE ~Query!IsRead(c) /\ Query!Addr(c) = a
  <2>1. a \in Nat /\ a < 4096 /\ ~(a >= 32768) /\ 4096 \in Nat \ {0}
    BY SMT
  <2>2. a % 4096 = a
    BY <2>1, Below, SMT
  <2> QED BY <1>1, <2>1, <2>2, SMT DEF Query!IsRead, Query!Addr
<1>2. ASSUME NEW a \in 0 .. 63, c.hi = Query!ReadBit + a PROVE Query!IsRead(c) /\ Query!Addr(c) = a
  <2>1. 32768 + a >= 32768 /\ (32768 + a) % 4096 = a
    BY SMT
  <2> QED BY <1>2, <2>1, SMT DEF Query!IsRead, Query!Addr, Query!ReadBit
<1> QED BY <1>1, <1>2, SMT

(* Answers are halves of words, and a burst has two for each word. *)
LEMMA BurstIs ==
  ASSUME NEW ws \in Seq(Query!Word)
  PROVE  Query!Burst(ws) \in Seq(Halves) /\ Len(Query!Burst(ws)) = 2 * Len(ws)
<1>1. Len(ws) \in Nat /\ 2 * Len(ws) \in Nat
  OBVIOUS
<1>2. ASSUME NEW g \in 1 .. 2 * Len(ws)
      PROVE  (LET w == ws[(g + 1) \div 2] IN IF g % 2 = 1 THEN w.hi ELSE w.lo) \in Halves
  <2>1. (g + 1) \div 2 \in 1 .. Len(ws)
    BY <1>1
  <2>2. ws[(g + 1) \div 2] \in Query!Word
    BY <2>1
  <2> QED BY <2>2, WordIs, Zenon
<1> QED BY <1>1, <1>2 DEF Query!Burst

LEMMA AnswerIs ==
  ASSUME NEW c \in Query!Word, NEW s \in Boards
  PROVE  Answer(c, s) \in Seq(Halves)
<1>1. ASSUME Query!IsRead(c), Query!Addr(c) = 20 PROVE Answer(c, s) \in Seq(Halves)
  <2> DEFINE ws == [g \in 1 .. s.memCnt |-> s.mem[(s.addr + g - 1) % 8]]
  <2>1. s.memCnt \in Nat /\ s.addr \in Nat /\ s.mem \in [Query!Cells -> Query!Word]
    BY BoardIs, HalvesAre
  <2>2. \A g \in 1 .. s.memCnt : (s.addr + g - 1) % 8 \in Query!Cells
    BY <2>1 DEF Query!Cells
  <2>3. \A g \in 1 .. s.memCnt : s.mem[(s.addr + g - 1) % 8] \in Query!Word
    BY <2>1, <2>2
  <2>4. ws \in Seq(Query!Word)
    BY <2>1, <2>3
  <2> HIDE DEF ws
  <2>5. Query!Burst(ws) \in Seq(Halves)
    BY <2>4, BurstIs
  <2> QED BY <1>1, <2>5 DEF Answer, ws
<1>2. ASSUME Query!IsRead(c), Query!Addr(c) # 20 PROVE Answer(c, s) \in Seq(Halves)
  <2>1. RegIn(s, Query!Addr(c)) \in Halves
    <3> DEFINE a == Query!Addr(c)
    <3>1. \A k \in 0 .. 10 : Query!Status(k) \in Halves
      BY HalvesAre, SMT DEF Query!Status
    <3>2. Query!W16 - 1 \in Halves
      BY HalvesAre, SMT
    <3>3. s.addr \in Halves /\ 0 \in Halves
      BY BoardIs, HalvesAre, SMT
    <3> HIDE DEF a
    <3>4. RegIn(s, a) \in Halves
      BY BoardIs, <3>1, <3>2, <3>3, SMT DEF RegIn
    <3> QED BY <3>4 DEF a
  <2>2. 0 \in Halves
    BY HalvesAre, SMT
  <2>3. Answer(c, s) = <<0, RegIn(s, Query!Addr(c))>>
    BY <1>2, Zenon DEF Answer, Query!Reply
  <2> QED BY <2>1, <2>2, <2>3
<1>3. ASSUME ~Query!IsRead(c), Query!Addr(c) = 25 PROVE Answer(c, s) \in Seq(Halves)
  <2> DEFINE ws == [g \in 1 .. c.lo + 1 |-> Query!DataWord(s.taken + g)]
  <2>1. c.lo + 1 \in Nat /\ s.taken \in Nat
    BY BoardIs, WordIs, HalvesAre
  <2>2. \A g \in 1 .. c.lo + 1 : Query!DataWord(s.taken + g) \in Query!Word
    <3> SUFFICES ASSUME NEW g \in 1 .. c.lo + 1 PROVE Query!DataWord(s.taken + g) \in Query!Word
      OBVIOUS
    <3>1. 200 + (s.taken + g) \in Nat
      BY <2>1
    <3>2. (200 + (s.taken + g)) % Query!W16 \in Halves /\ 0 \in Halves
      BY <3>1, Masked, HalvesAre, SMT
    <3> QED BY <3>2, WordIs, Zenon DEF Query!DataWord
  <2>3. ws \in Seq(Query!Word)
    BY <2>1, <2>2
  <2> HIDE DEF ws
  <2>4. Query!Burst(ws) \in Seq(Halves)
    BY <2>3, BurstIs
  <2> QED BY <1>3, <2>4 DEF Answer, ws
<1>4. ASSUME ~Query!IsRead(c), Query!Addr(c) # 25 PROVE Answer(c, s) \in Seq(Halves)
  BY <1>4 DEF Answer
<1> QED BY <1>1, <1>2, <1>3, <1>4

(* Prefixes, element by element. *)
LEMMA CatIs ==
  ASSUME NEW S, NEW a \in Seq(S), NEW b \in Seq(S)
  PROVE  /\ a \o b \in Seq(S) /\ Len(a \o b) = Len(a) + Len(b)
         /\ \A g \in 1 .. Len(a) : (a \o b)[g] = a[g]
         /\ \A g \in 1 .. Len(b) : (a \o b)[Len(a) + g] = b[g]
  OBVIOUS

LEMMA PrefixIs ==
  ASSUME NEW S, NEW s \in Seq(S), NEW f \in Seq(S)
  PROVE  Prefix(s, f) <=> Len(s) <= Len(f) /\ \A g \in 1 .. Len(s) : s[g] = f[g]
<1>1. CASE Len(s) <= Len(f)
  <2>1. /\ SubSeq(f, 1, Len(s)) \in Seq(S) /\ Len(SubSeq(f, 1, Len(s))) = Len(s)
        /\ \A g \in 1 .. Len(s) : SubSeq(f, 1, Len(s))[g] = f[g]
    <3>1. Len(s) \in 0 .. Len(f)
      BY <1>1
    <3> QED BY <3>1
  <2>2. s = SubSeq(f, 1, Len(s)) <=> \A g \in 1 .. Len(s) : s[g] = f[g]
    BY <2>1, SeqEqual
  <2> QED BY <1>1, <2>2 DEF Prefix
<1>2. CASE ~(Len(s) <= Len(f))
  BY <1>2 DEF Prefix
<1> QED BY <1>1, <1>2

LEMMA PrefixCut ==
  ASSUME NEW S, NEW a \in Seq(S), NEW b \in Seq(S), NEW e \in Seq(S), Prefix(a \o b, e)
  PROVE  Prefix(a, e) /\ \A n \in 0 .. Len(b) : Prefix(a \o SubSeq(b, 1, n), e)
<1>1. a \o b \in Seq(S) /\ Len(a \o b) = Len(a) + Len(b) /\ \A g \in 1 .. Len(a) : (a \o b)[g] = a[g]
  OBVIOUS
<1>2. Len(a \o b) <= Len(e) /\ \A g \in 1 .. Len(a \o b) : (a \o b)[g] = e[g]
  BY <1>1, PrefixIs, ZenonT(30)
<1>3. Prefix(a, e)
  <2>1. Len(a) <= Len(e) /\ \A g \in 1 .. Len(a) : a[g] = e[g]
    BY <1>1, <1>2
  <2> QED BY <2>1, PrefixIs
<1>4. ASSUME NEW n \in 0 .. Len(b) PROVE Prefix(a \o SubSeq(b, 1, n), e)
  <2> DEFINE d == SubSeq(b, 1, n)
  <2>1. d \in Seq(S) /\ Len(d) = n /\ \A g \in 1 .. n : d[g] = b[g]
    OBVIOUS
  <2> HIDE DEF d
  <2>2. a \o d \in Seq(S) /\ Len(a \o d) = Len(a) + n /\ \A g \in 1 .. Len(a) + n : (a \o d)[g] = (a \o b)[g]
    <3>1. a \o d \in Seq(S) /\ Len(a \o d) = Len(a) + n
      BY <2>1, CatIs
    <3>2. ASSUME NEW g \in 1 .. Len(a) + n PROVE (a \o d)[g] = (a \o b)[g]
      <4>1. CASE g <= Len(a)
        BY <2>1, <4>1
      <4>2. CASE g > Len(a)
        <5>1. g - Len(a) \in 1 .. n /\ g - Len(a) \in 1 .. Len(b) /\ g = Len(a) + (g - Len(a))
          BY <4>2
        <5>2. (a \o d)[Len(a) + (g - Len(a))] = d[g - Len(a)]
          BY <2>1, <5>1, CatIs
        <5>3. (a \o b)[Len(a) + (g - Len(a))] = b[g - Len(a)]
          BY <5>1, CatIs
        <5> QED BY <2>1, <5>1, <5>2, <5>3
      <4>3. g <= Len(a) \/ g > Len(a)
        OBVIOUS
      <4> QED BY <4>1, <4>2, <4>3, Zenon
    <3> QED BY <3>1, <3>2
  <2>3. Len(a \o d) <= Len(e) /\ \A g \in 1 .. Len(a \o d) : (a \o d)[g] = e[g]
    BY <1>1, <1>2, <2>2
  <2>4. Prefix(a \o d, e)
    BY <2>2, <2>3, PrefixIs
  <2> QED BY <2>4 DEF d
<1> QED BY <1>3, <1>4

LEMMA PrefixSelf ==
  ASSUME NEW S, NEW a \in Seq(S)
  PROVE  Prefix(a, a) /\ Prefix(<<>>, a)
<1>1. Prefix(a, a)
  BY PrefixIs
<1>2. ASSUME NEW z \in Seq(S), Len(z) = 0 PROVE Prefix(z, a)
  <2>1. Len(z) <= Len(a) /\ \A g \in 1 .. Len(z) : z[g] = a[g]
    BY <1>2
  <2> QED BY <2>1, PrefixIs
<1>3. <<>> \in Seq(S) /\ Len(<<>>) = 0
  OBVIOUS
<1> QED BY <1>1, <1>2, <1>3, Zenon
-----------------------------------------------------------------------------
(* Runs. *)
LEMMA OneCommand ==
  ASSUME NEW c \in Query!Word, NEW s \in Boards, After(c, s) \in Boards
  PROVE  Run([k \in 0 .. 1 |-> IF k = 0 THEN s ELSE After(c, s)], s, <<c>>)
<1> DEFINE q == <<c>>
           r == [k \in 0 .. 1 |-> IF k = 0 THEN s ELSE After(c, s)]
<1>1. Len(q) = 1 /\ q[1] = c
  OBVIOUS
<1>2. r \in [0 .. Len(q) -> Boards] /\ r[0] = s /\ r[1] = After(q[1], s)
  BY <1>1
<1> HIDE DEF q, r
<1>3. \A k \in 1 .. Len(q) : r[k] = After(q[k], r[k - 1])
  BY <1>1, <1>2
<1>4. \A k \in 1 .. Len(q) - 1 : ~Answers(q[k])
  BY <1>1
<1>5. Run(r, s, q)
  BY <1>2, <1>3, <1>4 DEF Run
<1> QED BY <1>5 DEF q, r

(* One run after the other. *)
LEMMA RunsJoin ==
  ASSUME NEW q \in Seq(Query!Word), NEW p \in Seq(Query!Word), Len(p) > 0, ~EndsIn(q),
         NEW s \in Boards, NEW r, Run(r, s, q), NEW f, Run(f, r[Len(q)], p)
  PROVE  /\ EndsIn(q \o p) <=> EndsIn(p)
         /\ (q \o p)[Len(q \o p)] = p[Len(p)]
         /\ \E u : /\ Run(u, s, q \o p) /\ u[Len(q \o p)] = f[Len(p)]
                   /\ u[Len(q \o p) - 1] = f[Len(p) - 1]
<1> DEFINE n == Len(q)
           m == Len(p)
           w == q \o p
           u == [k \in 0 .. n + m |-> IF k <= n THEN r[k] ELSE f[k - n]]
<1>1. n \in Nat /\ m \in Nat \ {0} /\ w \in Seq(Query!Word) /\ Len(w) = n + m
  OBVIOUS
<1>2. (\A k \in 1 .. n : w[k] = q[k]) /\ (\A k \in 1 .. m : w[n + k] = p[k])
  OBVIOUS
<1>3. /\ r \in [0 .. n -> Boards] /\ r[0] = s /\ (\A k \in 1 .. n : r[k] = After(q[k], r[k - 1]))
      /\ \A k \in 1 .. n : ~Answers(q[k])
  BY DEF Run, EndsIn
<1>4. /\ f \in [0 .. m -> Boards] /\ f[0] = r[n] /\ (\A k \in 1 .. m : f[k] = After(p[k], f[k - 1]))
      /\ \A k \in 1 .. m - 1 : ~Answers(p[k])
  BY DEF Run
<1> HIDE DEF n, m, w
<1>5. u \in [0 .. n + m -> Boards] /\ (\A k \in 0 .. n : u[k] = r[k]) /\ (\A k \in 0 .. m : u[n + k] = f[k])
  <2>1. \A k \in 0 .. n + m : u[k] = IF k <= n THEN r[k] ELSE f[k - n]
    OBVIOUS
  <2>3. ASSUME NEW k \in 0 .. n + m PROVE u[k] \in Boards
    <3>1. k <= n => k \in 0 .. n
      BY <1>1
    <3>2. ~(k <= n) => k - n \in 0 .. m
      BY <1>1
    <3> QED BY <1>3, <1>4, <2>1, <3>1, <3>2
  <2>4. \A k \in 0 .. n : k \in 0 .. n + m /\ k <= n
    BY <1>1
  <2>5. u \in [0 .. n + m -> Boards]
    BY <2>3
  <2> HIDE DEF u
  <2>2. ASSUME NEW k \in 0 .. m PROVE u[n + k] = f[k]
    <3>1. n + k \in 0 .. n + m /\ (n + k <= n => k = 0) /\ (n + k) - n = k
      BY <1>1
    <3>2. u[n + k] = IF n + k <= n THEN r[n + k] ELSE f[(n + k) - n]
      BY <2>1, <3>1, Zenon
    <3>3. CASE k = 0
      BY <1>1, <1>4, <3>2, <3>3
    <3>4. CASE k # 0
      <4>1. ~(n + k <= n) /\ (n + k) - n = k
        BY <3>1, <3>4
      <4> QED BY <3>2, <4>1
    <3> QED BY <3>3, <3>4
  <2> QED BY <2>1, <2>2, <2>4, <2>5
<1> HIDE DEF u
<1>6. ASSUME NEW k \in 1 .. n + m PROVE u[k] = After(w[k], u[k - 1])
  <2>1. CASE k <= n
    BY <1>1, <1>2, <1>3, <1>5, <2>1
  <2>2. CASE k > n
    <3> DEFINE j == k - n
    <3>1. j \in 1 .. m /\ k = n + j /\ k - 1 = n + (j - 1) /\ j - 1 \in 0 .. m /\ j \in 0 .. m
      BY <1>1, <2>2
    <3> HIDE DEF j
    <3>2. u[k] = f[j] /\ u[k - 1] = f[j - 1] /\ w[k] = p[j] /\ f[j] = After(p[j], f[j - 1])
      BY <1>2, <1>4, <1>5, <3>1
    <3> QED BY <3>2
  <2> QED BY <1>1, <2>1, <2>2
<1>7. ASSUME NEW k \in 1 .. n + m - 1 PROVE ~Answers(w[k])
  <2>1. CASE k <= n
    BY <1>1, <1>2, <1>3, <2>1
  <2>2. CASE k > n
    <3>1. k - n \in 1 .. m - 1 /\ k - n \in 1 .. m /\ k = n + (k - n)
      BY <1>1, <2>2
    <3> QED BY <1>2, <1>4, <3>1
  <2> QED BY <1>1, <2>1, <2>2
<1>8. Run(u, s, w)
  BY <1>1, <1>3, <1>5, <1>6, <1>7 DEF Run
<1>9. w[n + m] = p[m] /\ u[n + m] = f[m] /\ u[n + m - 1] = f[m - 1]
  <2>1. m \in 1 .. m /\ m \in 0 .. m /\ m - 1 \in 0 .. m /\ n + m - 1 = n + (m - 1)
    BY <1>1
  <2> QED BY <1>2, <1>5, <2>1
<1>10. EndsIn(w) <=> EndsIn(p)
  BY <1>1, <1>9 DEF EndsIn, m
<1> QED BY <1>1, <1>8, <1>9, <1>10 DEF n, m, w
-----------------------------------------------------------------------------
(* What the commands of a request do, for the board s that is as the       *)
(* requests before it made it.                                             *)
Leads(c, s) ==
  LET q == Query!CommandsOf(c) IN
  /\ q \in Seq(Query!Word) /\ Len(q) > 0
  /\ \E r : /\ Run(r, s, q) /\ AsMeant(r[Len(q)])'
            /\ EndsIn(q) => Query!AnswerLength(c) > 0 /\ Answer(q[Len(q)], r[Len(q) - 1]) = Query!Expected'
            /\ ~EndsIn(q) => Query!Expected' = <<>>

LEMMA WriteIs ==
  ASSUME NEW x \in Query!Word, NEW s \in Boards, ~Query!IsRead(x)
  PROVE  LET b == After(x, s) IN
         /\ b.config = IF Query!Addr(x) \in Query!Regs THEN [s.config EXCEPT ![Query!Addr(x)] = x.lo] ELSE s.config
         /\ b.memCnt = IF Query!Addr(x) = 16 THEN x.lo ELSE s.memCnt
         /\ b.addr = IF Query!Addr(x) = 17 THEN x.lo ELSE IF Query!Addr(x) = 20 THEN s.addr + 1 ELSE s.addr
         /\ b.din = IF Query!Addr(x) = 19 THEN x.lo ELSE s.din
         /\ b.mem = IF Query!Addr(x) = 20 THEN [s.mem EXCEPT ![s.addr % 8] = [hi |-> x.lo, lo |-> s.din]] ELSE s.mem
         /\ b.taken = IF Query!Addr(x) = 25 THEN s.taken + x.lo + 1 ELSE s.taken
         /\ b.addr \in 0 .. 8 => b \in Boards
<1> DEFINE b == After(x, s)
           cfg == IF Query!Addr(x) \in Query!Regs THEN [s.config EXCEPT ![Query!Addr(x)] = x.lo] ELSE s.config
           mct == IF Query!Addr(x) = 16 THEN x.lo ELSE s.memCnt
           adr == IF Query!Addr(x) = 17 THEN x.lo ELSE IF Query!Addr(x) = 20 THEN s.addr + 1 ELSE s.addr
           dn  == IF Query!Addr(x) = 19 THEN x.lo ELSE s.din
           mm  == IF Query!Addr(x) = 20 THEN [s.mem EXCEPT ![s.addr % 8] = [hi |-> x.lo, lo |-> s.din]] ELSE s.mem
           tkn == IF Query!Addr(x) = 25 THEN s.taken + x.lo + 1 ELSE s.taken
<1>1. b = [config |-> cfg, memCnt |-> mct, addr |-> adr, din |-> dn, mem |-> mm, taken |-> tkn]
  BY Zenon DEF After
<1>2. x.lo \in Halves /\ x.lo \in Nat
  BY WordIs, HalvesAre
<1>3. cfg \in [Query!Regs -> Halves] /\ mct \in Halves /\ dn \in Halves
  BY <1>2, BoardIs
<1>4. tkn \in Nat
  BY <1>2, BoardIs
<1>5. mm \in [Query!Cells -> Query!Word]
  BY <1>2, BoardIs, WordIs
<1> HIDE DEF b, cfg, mct, adr, dn, mm, tkn
<1>6. b.config = cfg /\ b.memCnt = mct /\ b.addr = adr /\ b.din = dn /\ b.mem = mm /\ b.taken = tkn
  BY <1>1
<1>7. b.addr \in 0 .. 8 => b \in Boards
  BY <1>1, <1>3, <1>4, <1>5, <1>6 DEF Boards
<1> QED BY <1>6, <1>7, Zenon DEF b, cfg, mct, adr, dn, mm, tkn

(* The memory port of the interpreter: the count, *)
LEMMA CountSet ==
  ASSUME NEW x \in Query!Word, NEW s \in Boards, ~Query!IsRead(x), Query!Addr(x) = 16
  PROVE  LET b == After(x, s) IN
         /\ b.config = s.config /\ b.memCnt = x.lo /\ b.addr = s.addr
         /\ b.din = s.din /\ b.taken = s.taken
         /\ b.mem = s.mem
         /\ b.addr \in 0 .. 8 => b \in Boards
<1>1. 16 \notin Query!Regs
  BY SMT DEF Query!Regs
<1> DEFINE b == After(x, s)
<1>2. /\ b.config = (IF Query!Addr(x) \in Query!Regs THEN [s.config EXCEPT ![Query!Addr(x)] = x.lo] ELSE s.config)
      /\ b.memCnt = (IF Query!Addr(x) = 16 THEN x.lo ELSE s.memCnt)
      /\ b.addr = (IF Query!Addr(x) = 17 THEN x.lo ELSE IF Query!Addr(x) = 20 THEN s.addr + 1 ELSE s.addr)
      /\ b.din = (IF Query!Addr(x) = 19 THEN x.lo ELSE s.din)
      /\ b.mem = (IF Query!Addr(x) = 20 THEN [s.mem EXCEPT ![s.addr % 8] = [hi |-> x.lo, lo |-> s.din]] ELSE s.mem)
      /\ b.taken = (IF Query!Addr(x) = 25 THEN s.taken + x.lo + 1 ELSE s.taken)
      /\ b.addr \in 0 .. 8 => b \in Boards
  BY WriteIs, Zenon
<1> HIDE DEF b
<1>3. /\ b.config = s.config /\ b.memCnt = x.lo /\ b.addr = s.addr
      /\ b.din = s.din /\ b.taken = s.taken
  BY <1>1, <1>2
<1>4. b.mem = s.mem
  BY <1>2
<1> QED BY <1>2, <1>3, <1>4, Zenon DEF b

(* the address, whose upper half is of no use, *)
LEMMA AddressSet ==
  ASSUME NEW x \in Query!Word, NEW s \in Boards, ~Query!IsRead(x), Query!Addr(x) = 17
  PROVE  LET b == After(x, s) IN
         /\ b.config = s.config /\ b.memCnt = s.memCnt /\ b.addr = x.lo
         /\ b.din = s.din /\ b.taken = s.taken
         /\ b.mem = s.mem
         /\ b.addr \in 0 .. 8 => b \in Boards
<1>1. 17 \notin Query!Regs
  BY SMT DEF Query!Regs
<1> DEFINE b == After(x, s)
<1>2. /\ b.config = (IF Query!Addr(x) \in Query!Regs THEN [s.config EXCEPT ![Query!Addr(x)] = x.lo] ELSE s.config)
      /\ b.memCnt = (IF Query!Addr(x) = 16 THEN x.lo ELSE s.memCnt)
      /\ b.addr = (IF Query!Addr(x) = 17 THEN x.lo ELSE IF Query!Addr(x) = 20 THEN s.addr + 1 ELSE s.addr)
      /\ b.din = (IF Query!Addr(x) = 19 THEN x.lo ELSE s.din)
      /\ b.mem = (IF Query!Addr(x) = 20 THEN [s.mem EXCEPT ![s.addr % 8] = [hi |-> x.lo, lo |-> s.din]] ELSE s.mem)
      /\ b.taken = (IF Query!Addr(x) = 25 THEN s.taken + x.lo + 1 ELSE s.taken)
      /\ b.addr \in 0 .. 8 => b \in Boards
  BY WriteIs, Zenon
<1> HIDE DEF b
<1>3. /\ b.config = s.config /\ b.memCnt = s.memCnt /\ b.addr = x.lo
      /\ b.din = s.din /\ b.taken = s.taken
  BY <1>1, <1>2
<1>4. b.mem = s.mem
  BY <1>2
<1> QED BY <1>2, <1>3, <1>4, Zenon DEF b

LEMMA UpperAddressSet ==
  ASSUME NEW x \in Query!Word, NEW s \in Boards, ~Query!IsRead(x), Query!Addr(x) = 18
  PROVE  LET b == After(x, s) IN
         /\ b.config = s.config /\ b.memCnt = s.memCnt /\ b.addr = s.addr
         /\ b.din = s.din /\ b.taken = s.taken
         /\ b.mem = s.mem
         /\ b.addr \in 0 .. 8 => b \in Boards
<1>1. 18 \notin Query!Regs
  BY SMT DEF Query!Regs
<1> DEFINE b == After(x, s)
<1>2. /\ b.config = (IF Query!Addr(x) \in Query!Regs THEN [s.config EXCEPT ![Query!Addr(x)] = x.lo] ELSE s.config)
      /\ b.memCnt = (IF Query!Addr(x) = 16 THEN x.lo ELSE s.memCnt)
      /\ b.addr = (IF Query!Addr(x) = 17 THEN x.lo ELSE IF Query!Addr(x) = 20 THEN s.addr + 1 ELSE s.addr)
      /\ b.din = (IF Query!Addr(x) = 19 THEN x.lo ELSE s.din)
      /\ b.mem = (IF Query!Addr(x) = 20 THEN [s.mem EXCEPT ![s.addr % 8] = [hi |-> x.lo, lo |-> s.din]] ELSE s.mem)
      /\ b.taken = (IF Query!Addr(x) = 25 THEN s.taken + x.lo + 1 ELSE s.taken)
      /\ b.addr \in 0 .. 8 => b \in Boards
  BY WriteIs, Zenon
<1> HIDE DEF b
<1>3. /\ b.config = s.config /\ b.memCnt = s.memCnt /\ b.addr = s.addr
      /\ b.din = s.din /\ b.taken = s.taken
  BY <1>1, <1>2
<1>4. b.mem = s.mem
  BY <1>2
<1> QED BY <1>2, <1>3, <1>4, Zenon DEF b

(* and a word in two halves, the lower one first. *)
LEMMA LowerHalfSet ==
  ASSUME NEW x \in Query!Word, NEW s \in Boards, ~Query!IsRead(x), Query!Addr(x) = 19
  PROVE  LET b == After(x, s) IN
         /\ b.config = s.config /\ b.memCnt = s.memCnt /\ b.addr = s.addr
         /\ b.din = x.lo /\ b.taken = s.taken
         /\ b.mem = s.mem
         /\ b.addr \in 0 .. 8 => b \in Boards
<1>1. 19 \notin Query!Regs
  BY SMT DEF Query!Regs
<1> DEFINE b == After(x, s)
<1>2. /\ b.config = (IF Query!Addr(x) \in Query!Regs THEN [s.config EXCEPT ![Query!Addr(x)] = x.lo] ELSE s.config)
      /\ b.memCnt = (IF Query!Addr(x) = 16 THEN x.lo ELSE s.memCnt)
      /\ b.addr = (IF Query!Addr(x) = 17 THEN x.lo ELSE IF Query!Addr(x) = 20 THEN s.addr + 1 ELSE s.addr)
      /\ b.din = (IF Query!Addr(x) = 19 THEN x.lo ELSE s.din)
      /\ b.mem = (IF Query!Addr(x) = 20 THEN [s.mem EXCEPT ![s.addr % 8] = [hi |-> x.lo, lo |-> s.din]] ELSE s.mem)
      /\ b.taken = (IF Query!Addr(x) = 25 THEN s.taken + x.lo + 1 ELSE s.taken)
      /\ b.addr \in 0 .. 8 => b \in Boards
  BY WriteIs, Zenon
<1> HIDE DEF b
<1>3. /\ b.config = s.config /\ b.memCnt = s.memCnt /\ b.addr = s.addr
      /\ b.din = x.lo /\ b.taken = s.taken
  BY <1>1, <1>2
<1>4. b.mem = s.mem
  BY <1>2
<1> QED BY <1>2, <1>3, <1>4, Zenon DEF b

LEMMA WordStored ==
  ASSUME NEW x \in Query!Word, NEW s \in Boards, ~Query!IsRead(x), Query!Addr(x) = 20
  PROVE  LET b == After(x, s) IN
         /\ b.config = s.config /\ b.memCnt = s.memCnt /\ b.addr = s.addr + 1
         /\ b.din = s.din /\ b.taken = s.taken
         /\ b.mem = [s.mem EXCEPT ![s.addr % 8] = [hi |-> x.lo, lo |-> s.din]]
         /\ b.addr \in 0 .. 8 => b \in Boards
<1>1. 20 \notin Query!Regs
  BY SMT DEF Query!Regs
<1> DEFINE b == After(x, s)
<1>2. /\ b.config = (IF Query!Addr(x) \in Query!Regs THEN [s.config EXCEPT ![Query!Addr(x)] = x.lo] ELSE s.config)
      /\ b.memCnt = (IF Query!Addr(x) = 16 THEN x.lo ELSE s.memCnt)
      /\ b.addr = (IF Query!Addr(x) = 17 THEN x.lo ELSE IF Query!Addr(x) = 20 THEN s.addr + 1 ELSE s.addr)
      /\ b.din = (IF Query!Addr(x) = 19 THEN x.lo ELSE s.din)
      /\ b.mem = (IF Query!Addr(x) = 20 THEN [s.mem EXCEPT ![s.addr % 8] = [hi |-> x.lo, lo |-> s.din]] ELSE s.mem)
      /\ b.taken = (IF Query!Addr(x) = 25 THEN s.taken + x.lo + 1 ELSE s.taken)
      /\ b.addr \in 0 .. 8 => b \in Boards
  BY WriteIs, Zenon
<1> HIDE DEF b
<1>3. /\ b.config = s.config /\ b.memCnt = s.memCnt /\ b.addr = s.addr + 1
      /\ b.din = s.din /\ b.taken = s.taken
  BY <1>1, <1>2
<1>4. b.mem = [s.mem EXCEPT ![s.addr % 8] = [hi |-> x.lo, lo |-> s.din]]
  BY <1>2
<1> QED BY <1>2, <1>3, <1>4, Zenon DEF b

LEMMA OneLeads ==
  ASSUME NEW c, NEW x \in Query!Word, Query!CommandsOf(c) = <<x>>,
         NEW s \in Boards, After(x, s) \in Boards, AsMeant(After(x, s))',
         Answers(x) => Query!AnswerLength(c) > 0 /\ Answer(x, s) = Query!Expected',
         ~Answers(x) => Query!Expected' = <<>>
  PROVE  Leads(c, s)
<1> DEFINE q == <<x>>
           r == [k \in 0 .. 1 |-> IF k = 0 THEN s ELSE After(x, s)]
<1>1. Run(r, s, q)
  BY OneCommand, Zenon
<1>2. q \in Seq(Query!Word) /\ Len(q) = 1 /\ q[1] = x /\ (EndsIn(q) <=> Answers(x))
  BY DEF EndsIn
<1>3. r[1] = After(x, s) /\ r[0] = s
  OBVIOUS
<1>4. Len(q) - 1 = 0 /\ Len(q) > 0
  BY <1>2
<1> HIDE DEF r
<1>5. /\ Run(r, s, q) /\ AsMeant(r[Len(q)])'
      /\ EndsIn(q) => Query!AnswerLength(c) > 0 /\ Answer(q[Len(q)], r[Len(q) - 1]) = Query!Expected'
      /\ ~EndsIn(q) => Query!Expected' = <<>>
  BY <1>1, <1>2, <1>3, <1>4
<1> HIDE DEF q
<1>6. q = Query!CommandsOf(c)
  BY DEF q
<1> QED BY <1>2, <1>4, <1>5, <1>6, Zenon DEF Leads

LEMMA ReadRegisterLeads ==
  ASSUME NEW s \in Boards, AsMeant(s), NEW c, c.op = "read_register", c.a \in 0 .. 31, Query!Meant(c), call' = c
  PROVE  Leads(c, s)
<1> DEFINE h == Query!ReadBit + 32 + c.a
           x == Query!Command(h, 0)
<1>1. h \in Halves /\ h = Query!ReadBit + (32 + c.a) /\ 32 + c.a \in 0 .. 63 /\ 32 + c.a \in Query!Regs /\ 32 + c.a # 20
  <2>1. 32 + c.a \in 0 .. 63 /\ 32 + c.a \in Query!Regs /\ 32 + c.a # 20
    BY SMT DEF Query!Regs
  <2>2. h = Query!ReadBit + (32 + c.a)
    BY SMT DEF Query!ReadBit
  <2> QED BY <2>1, <2>2, ReadBits
<1> HIDE DEF h
<1>2. x \in Query!Word /\ x.hi = h
  BY <1>1, CommandIs
<1>3. Query!IsRead(x) /\ Query!Addr(x) = 32 + c.a
  BY <1>1, <1>2, Meanings
<1>4. Query!CommandsOf(c) = <<x>>
  BY DEF Query!CommandsOf, Query!ReadRegister, h
<1> HIDE DEF x
<1>5. After(x, s) = s /\ Answer(x, s) = <<0, s.config[32 + c.a]>> /\ Answers(x)
  BY <1>1, <1>3 DEF After, Answer, Answers, RegIn, Query!Reply
<1>6. conf' = conf /\ cells' = cells /\ words' = words
  BY DEF Query!Meant
<1>7. Query!Expected' = <<0, s.config[32 + c.a]>>
  BY <1>6 DEF Query!Expected, AsMeant
<1>8. AsMeant(s)' /\ Query!AnswerLength(c) > 0
  BY <1>6 DEF AsMeant, Query!AnswerLength
<1> QED BY <1>2, <1>4, <1>5, <1>7, <1>8, OneLeads

LEMMA ReadStatusLeads ==
  ASSUME NEW s \in Boards, AsMeant(s), NEW c, c.op = "read_status", c.a \in 0 .. 10, Query!Meant(c), call' = c
  PROVE  Leads(c, s)
<1> DEFINE h == Query!ReadBit + c.a
           x == Query!Command(h, 0)
<1>1. h \in Halves /\ c.a \in 0 .. 63 /\ c.a \notin Query!Regs /\ c.a # 20
  BY ReadBits, SMT DEF Query!Regs
<1>2. h = Query!ReadBit + c.a
  OBVIOUS
<1> HIDE DEF h
<1>3. x \in Query!Word /\ x.hi = h
  BY <1>1, CommandIs
<1>4. Query!IsRead(x) /\ Query!Addr(x) = c.a
  BY <1>1, <1>2, <1>3, Meanings
<1>5. Query!CommandsOf(c) = <<x>>
  BY DEF Query!CommandsOf, Query!ReadStatus, h
<1> HIDE DEF x
<1>6. After(x, s) = s /\ Answer(x, s) = <<0, Query!Status(c.a)>> /\ Answers(x)
  BY <1>1, <1>4 DEF After, Answer, Answers, RegIn, Query!Reply
<1>7. conf' = conf /\ cells' = cells /\ words' = words
  BY DEF Query!Meant
<1>8. Query!Expected' = <<0, Query!Status(c.a)>> /\ AsMeant(s)' /\ Query!AnswerLength(c) > 0
  BY <1>7 DEF Query!Expected, AsMeant, Query!AnswerLength, Query!Status
<1> QED BY <1>3, <1>5, <1>6, <1>8, OneLeads

LEMMA WriteRegisterLeads ==
  ASSUME NEW s \in Boards, AsMeant(s), NEW c, c.op = "write_register", c.a \in 0 .. 31, c.v \in Nat,
         Query!Meant(c), call' = c
  PROVE  Leads(c, s)
<1> DEFINE h == 32 + c.a
           x == Query!Command(h, c.v)
<1>1. h \in Halves /\ h \in 0 .. 63 /\ h \in Query!Regs /\ h \notin {16, 17, 19, 20, 25}
  BY HalvesAre, SMT DEF Query!Regs
<1>2. x \in Query!Word /\ x.hi = h /\ x.lo = c.v % Query!W16
  BY <1>1, CommandIs
<1>3. ~Query!IsRead(x) /\ Query!Addr(x) = h
  BY <1>1, <1>2, Meanings
<1>4. Query!CommandsOf(c) = <<x>>
  BY DEF Query!CommandsOf, Query!WriteRegister
<1>5. conf' = [conf EXCEPT ![h] = c.v % Query!W16] /\ cells' = cells /\ words' = words
  BY DEF Query!Meant
<1> HIDE DEF x, h
<1>6. /\ After(x, s).config = [s.config EXCEPT ![h] = x.lo] /\ After(x, s).mem = s.mem
      /\ After(x, s).taken = s.taken /\ After(x, s).addr = s.addr
      /\ After(x, s).addr \in 0 .. 8 => After(x, s) \in Boards
  BY <1>1, <1>2, <1>3, WriteIs, ZenonT(30)
<1>7. After(x, s) \in Boards /\ AsMeant(After(x, s))' /\ ~Answers(x)
  BY <1>1, <1>2, <1>3, <1>5, <1>6, BoardIs DEF AsMeant, Answers
<1>8. Query!Expected' = <<>>
  BY DEF Query!Expected
<1> QED BY <1>2, <1>4, <1>7, <1>8, OneLeads

LEMMA SendPulseLeads ==
  ASSUME NEW s \in Boards, AsMeant(s), NEW c, c.op = "send_pulse", c.v \in Nat, Query!Meant(c), call' = c
  PROVE  Leads(c, s)
<1> DEFINE x == Query!Command(11, c.v)
<1>1. 11 \in Halves /\ 11 \in 0 .. 63 /\ 11 \notin Query!Regs /\ 11 \notin {16, 17, 19, 20, 25}
  BY HalvesAre, SMT DEF Query!Regs
<1>2. x \in Query!Word /\ x.hi = 11
  BY <1>1, CommandIs
<1>3. ~Query!IsRead(x) /\ Query!Addr(x) = 11
  BY <1>1, <1>2, Meanings
<1>4. Query!CommandsOf(c) = <<x>>
  BY DEF Query!CommandsOf, Query!SendPulse
<1>5. conf' = conf /\ cells' = cells /\ words' = words
  BY DEF Query!Meant
<1> HIDE DEF x
<1>6. /\ After(x, s).config = s.config /\ After(x, s).mem = s.mem
      /\ After(x, s).taken = s.taken /\ After(x, s).addr = s.addr
      /\ After(x, s).addr \in 0 .. 8 => After(x, s) \in Boards
  BY <1>1, <1>2, <1>3, WriteIs
<1>7. After(x, s) \in Boards /\ AsMeant(After(x, s))' /\ ~Answers(x)
  BY <1>3, <1>5, <1>6, BoardIs DEF AsMeant, Answers
<1>8. Query!Expected' = <<>>
  BY DEF Query!Expected
<1> QED BY <1>2, <1>4, <1>7, <1>8, OneLeads

LEMMA ReadDataFifoLeads ==
  ASSUME NEW s \in Boards, AsMeant(s), NEW c, c.op = "read_datafifo", c.n \in 0 .. Query!W16 - 1, Query!Meant(c), call' = c
  PROVE  Leads(c, s)
<1> DEFINE x == Query!Command(25, c.n)
<1>1. 25 \in Halves /\ 25 \in 0 .. 63 /\ 25 \notin Query!Regs /\ 25 \notin {16, 17, 19, 20} /\ c.n \in Halves /\ c.n \in Nat
  <2>1. 25 \in Halves /\ 25 \in 0 .. 63 /\ 25 \notin Query!Regs /\ 25 \notin {16, 17, 19, 20}
    BY HalvesAre, SMT DEF Query!Regs
  <2>2. c.n \in Halves
    BY DEF Halves
  <2> QED BY <2>1, <2>2, HalvesAre
<1>2. x \in Query!Word /\ x.hi = 25 /\ x.lo = c.n
  BY <1>1, CommandIs
<1>3. ~Query!IsRead(x) /\ Query!Addr(x) = 25
  BY <1>1, <1>2, Meanings
<1>4. Query!CommandsOf(c) = <<x>>
  BY DEF Query!CommandsOf, Query!ReadDataFifo
<1>5. conf' = conf /\ cells' = cells /\ words' = words + c.n + 1
  BY DEF Query!Meant
<1> HIDE DEF x
<1>6. /\ After(x, s).config = s.config /\ After(x, s).mem = s.mem
      /\ After(x, s).taken = s.taken + c.n + 1 /\ After(x, s).addr = s.addr
      /\ After(x, s).addr \in 0 .. 8 => After(x, s) \in Boards
  <2>1. After(x, s).taken = s.taken + x.lo + 1
    BY <1>2, <1>3, WriteIs
  <2>2. After(x, s).config = s.config /\ After(x, s).mem = s.mem /\ After(x, s).addr = s.addr
    BY <1>1, <1>2, <1>3, WriteIs
  <2>3. After(x, s).addr \in 0 .. 8 => After(x, s) \in Boards
    BY <1>2, <1>3, WriteIs
  <2> QED BY <1>2, <2>1, <2>2, <2>3
<1>7. After(x, s) \in Boards /\ AsMeant(After(x, s))' /\ Answers(x)
  BY <1>3, <1>5, <1>6, BoardIs DEF AsMeant, Answers
<1>8. Query!AnswerLength(c) > 0
  BY <1>1 DEF Query!AnswerLength
<1>9. Answer(x, s) = Query!Burst([g \in 1 .. c.n + 1 |-> Query!DataWord(s.taken + g)])
  BY <1>2, <1>3 DEF Answer
<1>10. Query!Expected' = Query!Burst([g \in 1 .. c.n + 1 |-> Query!DataWord(words' - c.n - 1 + g)])
  BY DEF Query!Expected, Query!LastWord
<1>11. \A g \in 1 .. c.n + 1 : words' - c.n - 1 + g = s.taken + g
  BY <1>1, <1>5, BoardIs DEF AsMeant
<1>12. Answer(x, s) = Query!Expected'
  <2>1. [g \in 1 .. c.n + 1 |-> Query!DataWord(s.taken + g)] = [g \in 1 .. c.n + 1 |-> Query!DataWord(words' - c.n - 1 + g)]
    BY <1>11
  <2> QED BY <1>9, <1>10, <2>1
<1> QED BY <1>2, <1>4, <1>7, <1>8, <1>12, OneLeads

LEMMA SameBoard ==
  ASSUME NEW b \in Boards, NEW d \in Boards,
         b.config = d.config, b.memCnt = d.memCnt, b.addr = d.addr, b.din = d.din,
         b.mem = d.mem, b.taken = d.taken
  PROVE  b = d
<1>1. /\ b = [config |-> b.config, memCnt |-> b.memCnt, addr |-> b.addr, din |-> b.din, mem |-> b.mem,
              taken |-> b.taken]
      /\ d = [config |-> d.config, memCnt |-> d.memCnt, addr |-> d.addr, din |-> d.din, mem |-> d.mem,
              taken |-> d.taken]
  BY DEF Boards
<1> QED BY <1>1, Zenon

LEMMA ReadMemoryLeads ==
  ASSUME NEW s \in Boards, AsMeant(s), NEW c, c.op = "read_memory", c.a \in Query!Cells, c.n \in 1 .. 8 - c.a,
         Query!Meant(c), call' = c
  PROVE  Leads(c, s)
<1> DEFINE x1 == Query!Command(17, c.a)
           x2 == Query!Command(18, 0)
           x3 == Query!Command(16, c.n)
           x4 == Query!Command(Query!ReadBit + 20, 0)
           q == <<x1, x2, x3, x4>>
           s1 == After(x1, s)
           s2 == After(x2, s1)
           s3 == After(x3, s2)
           s4 == After(x4, s3)
           r == [k \in 0 .. 4 |-> IF k = 0 THEN s ELSE IF k = 1 THEN s1 ELSE IF k = 2 THEN s2
                                  ELSE IF k = 3 THEN s3 ELSE s4]
<1>1. /\ {17, 18, 16, 20} \subseteq 0 .. 63 /\ {17, 18, 16} \cap Query!Regs = {}
      /\ {17, 18, 16} \subseteq Halves /\ Query!ReadBit + 20 \in Halves /\ c.a \in Halves /\ c.n \in Halves
      /\ c.a \in Nat /\ c.n \in Nat \ {0} /\ c.a \in 0 .. 8 /\ c.a + c.n \in 0 .. 8
  BY HalvesAre, ReadBits, SMT DEF Query!Cells, Query!Regs
<1>2. /\ x1 \in Query!Word /\ x1.hi = 17 /\ x1.lo = c.a /\ x2 \in Query!Word /\ x2.hi = 18
      /\ x3 \in Query!Word /\ x3.hi = 16 /\ x3.lo = c.n /\ x4 \in Query!Word /\ x4.hi = Query!ReadBit + 20
  BY <1>1, CommandIs, SMT
<1>3. /\ ~Query!IsRead(x1) /\ Query!Addr(x1) = 17 /\ ~Query!IsRead(x2) /\ Query!Addr(x2) = 18
      /\ ~Query!IsRead(x3) /\ Query!Addr(x3) = 16
      /\ Query!IsRead(x4) /\ Query!Addr(x4) = 20
  BY <1>1, <1>2, Meanings
<1>4. Query!CommandsOf(c) = q
  BY Zenon DEF Query!CommandsOf, Query!ReadMemory
<1> HIDE DEF x1, x2, x3, x4
<1>5. s1 \in Boards /\ s1.addr = c.a /\ s1.config = s.config /\ s1.mem = s.mem /\ s1.taken = s.taken
  BY <1>1, <1>2, <1>3, AddressSet
<1> HIDE DEF s1
<1>6. s2 \in Boards /\ s2.addr = c.a /\ s2.config = s.config /\ s2.mem = s.mem /\ s2.taken = s.taken
  BY <1>1, <1>3, <1>2, <1>5, UpperAddressSet
<1> HIDE DEF s2
<1>7. /\ s3 \in Boards /\ s3.addr = c.a /\ s3.config = s.config /\ s3.mem = s.mem /\ s3.taken = s.taken
      /\ s3.memCnt = c.n
  BY <1>1, <1>2, <1>3, <1>6, CountSet
<1> HIDE DEF s3
<1>8. /\ s4 \in Boards /\ s4.config = s.config /\ s4.mem = s.mem /\ s4.taken = s.taken
      /\ Answer(x4, s3) = Query!Burst([g \in 1 .. c.n |-> s3.mem[(c.a + g - 1) % 8]])
  <2>1. s4 = [s3 EXCEPT !.addr = c.a + c.n]
    BY <1>3, <1>7 DEF After
  <2>2. s4 \in Boards
    BY <1>1, <1>7, <2>1 DEF Boards
  <2>3. s4.config = s3.config /\ s4.mem = s3.mem /\ s4.taken = s3.taken
    BY <1>7, <2>1 DEF Boards
  <2>4. Answer(x4, s3) = Query!Burst([g \in 1 .. s3.memCnt |-> s3.mem[(s3.addr + g - 1) % 8]])
    BY <1>3, Zenon DEF Answer
  <2> QED BY <1>7, <2>2, <2>3, <2>4
<1> HIDE DEF s4
<1>9. q \in Seq(Query!Word) /\ Len(q) = 4 /\ q[1] = x1 /\ q[2] = x2 /\ q[3] = x3 /\ q[4] = x4
  BY <1>2
<1> HIDE DEF q
<1>10. r \in [0 .. 4 -> Boards] /\ r[0] = s /\ r[1] = s1 /\ r[2] = s2 /\ r[3] = s3 /\ r[4] = s4
  BY <1>5, <1>6, <1>7, <1>8
<1> HIDE DEF r
<1>11. \A k \in 1 .. 4 : r[k] = After(q[k], r[k - 1])
  <2>1. r[1] = After(q[1], r[0]) /\ r[2] = After(q[2], r[1]) /\ r[3] = After(q[3], r[2]) /\ r[4] = After(q[4], r[3])
    BY <1>9, <1>10 DEF s1, s2, s3, s4
  <2>2. \A k \in 1 .. 4 : (k = 1 /\ k - 1 = 0) \/ (k = 2 /\ k - 1 = 1) \/ (k = 3 /\ k - 1 = 2) \/ (k = 4 /\ k - 1 = 3)
    OBVIOUS
  <2> QED BY <2>1, <2>2
<1>12. \A k \in 1 .. 3 : ~Answers(q[k])
  BY <1>3, <1>9 DEF Answers
<1>13. EndsIn(q) /\ Run(r, s, q)
  <2>1. Answers(x4) /\ Len(q) - 1 = 3
    BY <1>3, <1>9 DEF Answers
  <2> QED BY <1>9, <1>10, <1>11, <1>12, <2>1 DEF EndsIn, Run
<1>14. conf' = conf /\ cells' = cells /\ words' = words
  BY DEF Query!Meant
<1>15. AsMeant(s4)' /\ Query!AnswerLength(c) > 0
  BY <1>1, <1>8, <1>14 DEF AsMeant, Query!AnswerLength
<1>16. Query!Expected' = Query!Burst([g \in 1 .. c.n |-> cells'[c.a + g - 1]])
  BY DEF Query!Expected, Query!CellOut
<1>17. Answer(x4, s3) = Query!Expected'
  <2>1. \A g \in 1 .. c.n : (c.a + g - 1) % 8 = c.a + g - 1
    <3>1. c.a \in Nat /\ c.n \in Nat /\ c.a + c.n <= 8
      BY <1>1
    <3>2. \A g \in 1 .. c.n : c.a + g - 1 \in 0 .. 7
      BY <3>1
    <3>3. \A m \in 0 .. 7 : m % 8 = m
      OBVIOUS
    <3> QED BY <3>2, <3>3, Zenon
  <2>2. [g \in 1 .. c.n |-> s3.mem[(c.a + g - 1) % 8]] = [g \in 1 .. c.n |-> cells'[c.a + g - 1]]
    BY <1>7, <1>14, <2>1 DEF AsMeant
  <2> QED BY <1>8, <1>16, <2>2
<1> QED BY <1>4, <1>9, <1>10, <1>13, <1>15, <1>17 DEF Leads

LEMMA WriteMemoryLeads ==
  ASSUME NEW s \in Boards, AsMeant(s), NEW c, c.op = "write_memory", c.a \in Query!Cells, c.v \in Seq(Query!Word),
         c.a + Len(c.v) <= 8, Query!Meant(c), call' = c
  PROVE  Leads(c, s)
<1> DEFINE a == c.a
           v == c.v
           n == Len(c.v)
           x1 == Query!Command(17, a)
           x2 == Query!Command(18, 0)
           body == [g \in 1 .. 2 * n |-> LET w == v[(g + 1) \div 2] IN
                      IF g % 2 = 1 THEN Query!Command(19, w.lo) ELSE Query!Command(20, w.hi)]
           q == <<x1, x2>> \o body
           stored(j) == [y \in Query!Cells |-> IF y - a + 1 \in 1 .. j THEN v[y - a + 1] ELSE s.mem[y]]
           b(g) == [config |-> s.config, memCnt |-> s.memCnt, addr |-> a + (g \div 2),
                    din |-> IF g = 0 THEN s.din ELSE v[(g + 1) \div 2].lo, mem |-> stored(g \div 2),
                    taken |-> s.taken]
           r == [k \in 0 .. 2 * n + 2 |-> IF k = 0 THEN s ELSE IF k = 1 THEN b(0) ELSE b(k - 2)]
<1>1. n \in Nat /\ a \in 0 .. 7 /\ a + n \in 0 .. 8 /\ a \in Halves /\ a \in Nat /\ v \in Seq(Query!Word)
  <2>1. n \in Nat /\ v \in Seq(Query!Word)
    OBVIOUS
  <2>2. a \in 0 .. 7 /\ a + n <= 8
    BY DEF Query!Cells
  <2> HIDE DEF a, n, v
  <2>3. a + n \in 0 .. 8 /\ a \in 0 .. 110 /\ a \in Nat
    BY <2>1, <2>2
  <2> QED BY <2>1, <2>2, <2>3, HalvesAre
<1>2. Query!CommandsOf(c) = q
  BY Zenon DEF Query!CommandsOf, Query!WriteMemory
<1>3. \A j \in 1 .. n : v[j] \in Query!Word /\ v[j].hi \in Halves /\ v[j].lo \in Halves
  BY <1>1, WordIs
<1> HIDE DEF a, v, n
<1>4. /\ {17, 18, 19, 20} \subseteq 0 .. 63 /\ {17, 18, 19, 20} \cap Query!Regs = {}
      /\ 17 \in Halves /\ 18 \in Halves /\ 19 \in Halves /\ 20 \in Halves
  BY HalvesAre, SMT DEF Query!Regs
<1>5. /\ x1 \in Query!Word /\ x1.lo = a /\ ~Query!IsRead(x1) /\ Query!Addr(x1) = 17
      /\ x2 \in Query!Word /\ ~Query!IsRead(x2) /\ Query!Addr(x2) = 18
  <2>1. x1 \in Query!Word /\ x1.hi = 17 /\ x1.lo = a /\ x2 \in Query!Word /\ x2.hi = 18
    BY <1>1, <1>4, CommandIs, SMT
  <2> QED BY <1>4, <2>1, Meanings
<1>6. ASSUME NEW g \in 1 .. 2 * n
      PROVE  /\ (g + 1) \div 2 \in 1 .. n /\ body[g] \in Query!Word /\ ~Query!IsRead(body[g])
             /\ g % 2 = 1 => Query!Addr(body[g]) = 19 /\ body[g].lo = v[(g + 1) \div 2].lo
             /\ g % 2 # 1 => Query!Addr(body[g]) = 20 /\ body[g].lo = v[(g + 1) \div 2].hi
  <2> DEFINE w == v[(g + 1) \div 2]
  <2>1. (g + 1) \div 2 \in 1 .. n
    BY <1>1
  <2>2. w.lo \in Halves /\ w.hi \in Halves /\ w.lo \in Nat /\ w.hi \in Nat
    BY <1>3, <2>1, HalvesAre
  <2>3. body[g] = IF g % 2 = 1 THEN Query!Command(19, w.lo) ELSE Query!Command(20, w.hi)
    OBVIOUS
  <2> HIDE DEF body
  <2>4. CASE g % 2 = 1
    <3>1. body[g] \in Query!Word /\ body[g].hi = 19 /\ body[g].lo = w.lo
      BY <1>4, <2>2, <2>3, <2>4, CommandIs
    <3> QED BY <1>4, <2>1, <2>4, <3>1, Meanings
  <2>5. CASE g % 2 # 1
    <3>1. body[g] \in Query!Word /\ body[g].hi = 20 /\ body[g].lo = w.hi
      BY <1>4, <2>2, <2>3, <2>5, CommandIs
    <3> QED BY <1>4, <2>1, <2>5, <3>1, Meanings
  <2> QED BY <2>4, <2>5
<1>7. body \in Seq(Query!Word) /\ Len(body) = 2 * n
  <2>1. \A g \in 1 .. 2 * n : body[g] \in Query!Word
    BY <1>6
  <2>2. DOMAIN body = 1 .. 2 * n /\ body = [g \in 1 .. 2 * n |-> body[g]] /\ 2 * n \in Nat
    BY <1>1
  <2> HIDE DEF body
  <2> QED BY <2>1, <2>2
<1> HIDE DEF x1, x2, body
<1>8. q \in Seq(Query!Word) /\ Len(q) = 2 * n + 2 /\ q[1] = x1 /\ q[2] = x2
  <2>1. <<x1, x2>> \in Seq(Query!Word) /\ Len(<<x1, x2>>) = 2 /\ <<x1, x2>>[1] = x1 /\ <<x1, x2>>[2] = x2
    BY <1>5
  <2>2. 1 \in 1 .. 2 /\ 2 \in 1 .. 2
    OBVIOUS
  <2> QED BY <1>1, <1>7, <2>1, <2>2, CatIs
<1>9. \A g \in 1 .. 2 * n : q[2 + g] = body[g]
  <2>1. <<x1, x2>> \in Seq(Query!Word) /\ Len(<<x1, x2>>) = 2
    BY <1>5
  <2> QED BY <1>7, <2>1, CatIs
<1> HIDE DEF q
<1>10. \A j \in 0 .. n : stored(j) \in [Query!Cells -> Query!Word]
  BY <1>1, <1>3, BoardIs DEF Query!Cells
<1>11. stored(0) = s.mem
  <2>1. s.mem \in [Query!Cells -> Query!Word]
    BY BoardIs
  <2>2. \A y \in Query!Cells : y - a + 1 \notin 1 .. 0
    OBVIOUS
  <2> QED BY <2>1, <2>2
<1>12. ASSUME NEW g \in 0 .. 2 * n
       PROVE  /\ b(g) \in Boards /\ b(g).config = s.config /\ b(g).memCnt = s.memCnt
              /\ b(g).addr = a + (g \div 2) /\ b(g).mem = stored(g \div 2) /\ b(g).taken = s.taken
              /\ b(g).din = IF g = 0 THEN s.din ELSE v[(g + 1) \div 2].lo
  <2>1. g \div 2 \in 0 .. n /\ a + (g \div 2) \in 0 .. 8 /\ (g # 0 => (g + 1) \div 2 \in 1 .. n)
    BY <1>1
  <2>2. (IF g = 0 THEN s.din ELSE v[(g + 1) \div 2].lo) \in Halves
    BY <1>3, <2>1, BoardIs
  <2>3. stored(g \div 2) \in [Query!Cells -> Query!Word]
    BY <1>10, <2>1
  <2> HIDE DEF stored
  <2>4. b(g) \in Boards
    BY <2>1, <2>2, <2>3, BoardIs DEF Boards
  <2> QED BY <2>4
<1> HIDE DEF b, stored
<1>13. After(x1, s) = b(0)
  <2>1. 0 \in 0 .. 2 * n /\ 0 \div 2 = 0 /\ a + 0 = a
    BY <1>1
  <2>2. /\ After(x1, s).config = s.config /\ After(x1, s).memCnt = s.memCnt /\ After(x1, s).addr = a
        /\ After(x1, s).din = s.din /\ After(x1, s).mem = s.mem /\ After(x1, s).taken = s.taken
        /\ After(x1, s) \in Boards
    BY <1>1, <1>5, AddressSet
  <2>3. /\ b(0) \in Boards /\ b(0).config = s.config /\ b(0).memCnt = s.memCnt /\ b(0).addr = a
        /\ b(0).mem = s.mem /\ b(0).taken = s.taken /\ b(0).din = s.din
    BY <1>11, <1>12, <2>1
  <2> QED BY <2>2, <2>3, SameBoard
<1>14. After(x2, b(0)) = b(0)
  <2>1. 0 \in 0 .. 2 * n
    BY <1>1
  <2>2. b(0) \in Boards
    BY <1>12, <2>1
  <2>3. LET d == After(x2, b(0)) IN
        /\ d.config = b(0).config /\ d.memCnt = b(0).memCnt /\ d.addr = b(0).addr
        /\ d.din = b(0).din /\ d.mem = b(0).mem /\ d.taken = b(0).taken
        /\ d.addr \in 0 .. 8 => d \in Boards
    BY <1>5, <2>2, UpperAddressSet
  <2>4. b(0).addr \in 0 .. 8
    BY <2>2, BoardIs
  <2> QED BY <2>2, <2>3, <2>4, SameBoard
<1>15. ASSUME NEW g \in 1 .. 2 * n, g % 2 = 1 PROVE After(body[g], b(g - 1)) = b(g)
  <2> DEFINE d == After(body[g], b(g - 1))
  <2>1. g - 1 \in 0 .. 2 * n /\ g \in 0 .. 2 * n /\ g # 0 /\ (g - 1) \div 2 = g \div 2
    BY <1>1, <1>15
  <2>2. b(g - 1) \in Boards /\ b(g) \in Boards
    BY <1>12, <2>1
  <2>3. /\ body[g] \in Query!Word /\ ~Query!IsRead(body[g]) /\ Query!Addr(body[g]) = 19
        /\ body[g].lo = v[(g + 1) \div 2].lo
    BY <1>6, <1>15
  <2>4. /\ d.config = b(g - 1).config /\ d.memCnt = b(g - 1).memCnt /\ d.addr = b(g - 1).addr
        /\ d.din = v[(g + 1) \div 2].lo /\ d.mem = b(g - 1).mem /\ d.taken = b(g - 1).taken
        /\ d.addr \in 0 .. 8 => d \in Boards
    BY <2>2, <2>3, LowerHalfSet
  <2>5. d \in Boards
    BY <2>2, <2>4, BoardIs
  <2> HIDE DEF d
  <2>6. /\ d.config = b(g).config /\ d.memCnt = b(g).memCnt /\ d.addr = b(g).addr
        /\ d.din = b(g).din /\ d.mem = b(g).mem /\ d.taken = b(g).taken
    BY <1>12, <2>1, <2>4
  <2>7. d = b(g)
    BY <2>2, <2>5, <2>6, SameBoard
  <2> QED BY <2>7 DEF d
<1>16. ASSUME NEW g \in 1 .. 2 * n, g % 2 # 1 PROVE After(body[g], b(g - 1)) = b(g)
  <2> DEFINE d == After(body[g], b(g - 1))
             j == g \div 2
  <2>1. /\ g - 1 \in 0 .. 2 * n /\ g \in 0 .. 2 * n /\ g # 0 /\ g - 1 # 0 /\ j \in 1 .. n
        /\ (g - 1) \div 2 = j - 1 /\ (g + 1) \div 2 = j /\ ((g - 1) + 1) \div 2 = j
    BY <1>1, <1>16
  <2> HIDE DEF j
  <2>2. b(g - 1) \in Boards /\ b(g) \in Boards
    BY <1>12, <2>1
  <2>3. body[g] \in Query!Word /\ ~Query!IsRead(body[g]) /\ Query!Addr(body[g]) = 20 /\ body[g].lo = v[j].hi
    BY <1>6, <1>16, <2>1
  <2>4. b(g - 1).addr = a + (j - 1) /\ b(g - 1).din = v[j].lo /\ b(g - 1).mem = stored(j - 1)
    BY <1>12, <2>1
  <2>5. (a + (j - 1)) % 8 = a + (j - 1) /\ a + (j - 1) \in Query!Cells /\ a + (j - 1) + 1 = a + j /\ a + j \in 0 .. 8
    BY <1>1, <2>1 DEF Query!Cells
  <2>6. /\ d.config = b(g - 1).config /\ d.memCnt = b(g - 1).memCnt /\ d.addr = b(g - 1).addr + 1
        /\ d.din = b(g - 1).din /\ d.taken = b(g - 1).taken
        /\ d.mem = [b(g - 1).mem EXCEPT ![b(g - 1).addr % 8] = [hi |-> v[j].hi, lo |-> b(g - 1).din]]
        /\ d.addr \in 0 .. 8 => d \in Boards
    BY <2>2, <2>3, WordStored
  <2>7. d.addr = a + j /\ d \in Boards
    BY <2>4, <2>5, <2>6
  <2> HIDE DEF d
  <2>8. d.mem = stored(j)
    <3>1. v[j] = [hi |-> v[j].hi, lo |-> v[j].lo]
      BY <1>3, <2>1, WordIs
    <3>2. d.mem = [stored(j - 1) EXCEPT ![a + (j - 1)] = v[j]]
      BY <2>4, <2>5, <2>6, <3>1
    <3>3. ASSUME NEW y \in Query!Cells PROVE d.mem[y] = stored(j)[y]
      <4>1. stored(j)[y] = IF y - a + 1 \in 1 .. j THEN v[y - a + 1] ELSE s.mem[y]
        BY DEF stored
      <4>2. stored(j - 1)[y] = IF y - a + 1 \in 1 .. j - 1 THEN v[y - a + 1] ELSE s.mem[y]
        BY DEF stored
      <4>3. j - 1 \in 0 .. n
        BY <1>1, <2>1
      <4>4. stored(j - 1) \in [Query!Cells -> Query!Word]
        BY <1>10, <4>3
      <4>5. CASE y = a + (j - 1)
        <5>1. d.mem[y] = v[j] /\ y - a + 1 = j /\ j \in 1 .. j
          BY <1>1, <2>1, <2>5, <3>2, <4>4, <4>5
        <5> QED BY <4>1, <5>1
      <4>6. CASE y # a + (j - 1)
        <5>1. d.mem[y] = stored(j - 1)[y]
          BY <3>2, <4>4, <4>6
        <5>2. y \in Int /\ (y - a + 1 \in 1 .. j <=> y - a + 1 \in 1 .. j - 1)
          BY <1>1, <2>1, <4>6 DEF Query!Cells
        <5> QED BY <4>1, <4>2, <5>1, <5>2
      <4> QED BY <4>5, <4>6
    <3>4. j \in 0 .. n
      BY <1>1, <2>1
    <3>5. d.mem \in [Query!Cells -> Query!Word] /\ stored(j) \in [Query!Cells -> Query!Word]
      BY <1>10, <2>7, <3>4, BoardIs
    <3> QED BY <3>3, <3>5
  <2>9. /\ d.config = b(g).config /\ d.memCnt = b(g).memCnt /\ d.addr = b(g).addr
        /\ d.din = b(g).din /\ d.mem = b(g).mem /\ d.taken = b(g).taken
    <3>1. /\ b(g).config = s.config /\ b(g).memCnt = s.memCnt /\ b(g).addr = a + j /\ b(g).mem = stored(j)
          /\ b(g).taken = s.taken /\ b(g).din = v[j].lo
      BY <1>12, <2>1 DEF j
    <3>2. b(g - 1).config = s.config /\ b(g - 1).memCnt = s.memCnt /\ b(g - 1).taken = s.taken
      BY <1>12, <2>1
    <3> QED BY <2>4, <2>6, <2>7, <2>8, <3>1, <3>2
  <2>10. d = b(g)
    BY <2>2, <2>7, <2>9, SameBoard
  <2> QED BY <2>10 DEF d
<1>17. /\ r \in [0 .. 2 * n + 2 -> Boards] /\ r[0] = s /\ r[1] = b(0)
       /\ \A g \in 0 .. 2 * n : r[g + 2] = b(g)
  <2>1. \A k \in 0 .. 2 * n + 2 : k # 0 /\ k # 1 => k - 2 \in 0 .. 2 * n
    BY <1>1
  <2>2. 0 \in 0 .. 2 * n /\ 0 \in 0 .. 2 * n + 2 /\ 1 \in 0 .. 2 * n + 2
    BY <1>1
  <2>3. \A k \in 0 .. 2 * n + 2 : r[k] \in Boards
    BY <1>12, <2>1, <2>2
  <2>4. r \in [0 .. 2 * n + 2 -> Boards]
    BY <2>3
  <2>5. \A g \in 0 .. 2 * n : g + 2 \in 0 .. 2 * n + 2 /\ g + 2 # 0 /\ g + 2 # 1 /\ (g + 2) - 2 = g
    BY <1>1
  <2>6. \A g \in 0 .. 2 * n : r[g + 2] = b((g + 2) - 2)
    BY <2>5
  <2> QED BY <2>2, <2>4, <2>5, <2>6
<1> HIDE DEF r
<1>18. ASSUME NEW k \in 1 .. 2 * n + 2 PROVE r[k] = After(q[k], r[k - 1])
  <2>1. CASE k = 1
    BY <1>8, <1>13, <1>17, <2>1
  <2>2. CASE k = 2
    <3>1. 0 \in 0 .. 2 * n /\ 0 + 2 = 2
      BY <1>1
    <3>2. r[2] = b(0)
      BY <1>17, <3>1
    <3> QED BY <1>8, <1>14, <1>17, <2>2, <3>2
  <2>3. CASE k > 2
    <3> DEFINE g == k - 2
    <3>1. g \in 1 .. 2 * n /\ g \in 0 .. 2 * n /\ g - 1 \in 0 .. 2 * n /\ k = g + 2 /\ k = 2 + g /\ k - 1 = (g - 1) + 2
      BY <1>1, <2>3
    <3> HIDE DEF g
    <3>2. r[k] = b(g) /\ r[k - 1] = b(g - 1) /\ q[k] = body[g]
      BY <1>9, <1>17, <3>1
    <3>3. b(g) = After(body[g], b(g - 1))
      BY <1>15, <1>16, <3>1
    <3> QED BY <3>2, <3>3
  <2> QED BY <2>1, <2>2, <2>3
<1>19. ASSUME NEW k \in 1 .. 2 * n + 2 PROVE ~Answers(q[k])
  <2>1. CASE k = 1
    BY <1>5, <1>8, <2>1 DEF Answers
  <2>2. CASE k = 2
    BY <1>5, <1>8, <2>2 DEF Answers
  <2>3. CASE k > 2
    <3>1. k - 2 \in 1 .. 2 * n /\ k = 2 + (k - 2)
      BY <1>1, <2>3
    <3>2. q[k] = body[k - 2]
      BY <1>9, <3>1
    <3>3. ~Query!IsRead(body[k - 2]) /\ Query!Addr(body[k - 2]) \in {19, 20}
      BY <1>6, <3>1
    <3> QED BY <3>2, <3>3 DEF Answers
  <2> QED BY <2>1, <2>2, <2>3
<1>20. Run(r, s, q) /\ ~EndsIn(q) /\ Len(q) > 0
  <2>1. 2 * n + 2 \in 1 .. 2 * n + 2 /\ \A k \in 1 .. 2 * n + 2 - 1 : k \in 1 .. 2 * n + 2
    BY <1>1
  <2> QED BY <1>8, <1>17, <1>18, <1>19, <2>1 DEF Run, EndsIn
<1>21. AsMeant(r[Len(q)])'
  <2>1. 2 * n \in 0 .. 2 * n /\ (2 * n) \div 2 = n
    BY <1>1
  <2>2. r[Len(q)] = b(2 * n)
    BY <1>8, <1>17, <2>1
  <2>3. b(2 * n).config = s.config /\ b(2 * n).mem = stored(n) /\ b(2 * n).taken = s.taken
    BY <1>12, <2>1
  <2>4. conf' = conf /\ words' = words
    BY DEF Query!Meant
  <2>5. DOMAIN v = 1 .. n
    BY <1>1 DEF n, v
  <2>6. cells' = [g \in Query!Cells |-> IF g - a + 1 \in DOMAIN v THEN v[g - a + 1] ELSE cells[g]]
    BY DEF Query!Meant, a, v
  <2>7. cells' = stored(n)
    BY <2>5, <2>6 DEF stored, AsMeant
  <2> QED BY <2>2, <2>3, <2>4, <2>7 DEF AsMeant
<1>22. Query!Expected' = <<>>
  BY DEF Query!Expected
<1> QED BY <1>2, <1>8, <1>20, <1>21, <1>22 DEF Leads

LEMMA RequestLeads ==
  ASSUME NEW s \in Boards, AsMeant(s), NEW c, Query!Legal(c), Query!Meant(c), call' = c
  PROVE  Leads(c, s)
  BY ReadRegisterLeads, ReadStatusLeads, WriteRegisterLeads, SendPulseLeads, ReadDataFifoLeads,
     ReadMemoryLeads, WriteMemoryLeads DEF Query!Legal

(* What is expected is an answer of the length that goes with the request. *)
LEMMA ExpectedIs ==
  ASSUME conf \in [Query!Regs -> Halves], cells \in [Query!Cells -> Query!Word], words \in Nat,
         Query!Legal(call) \/ call.op = "none"
  PROVE  /\ Query!Expected \in Seq(Halves)
         /\ Query!Legal(call) => Len(Query!Expected) = Query!AnswerLength(call)
<1>1. ASSUME call.op = "read_register", call.a \in 0 .. 31
      PROVE  Query!Expected \in Seq(Halves) /\ Len(Query!Expected) = Query!AnswerLength(call)
  <2>1. 32 + call.a \in Query!Regs /\ 0 \in Halves
    BY <1>1, HalvesAre, SMT DEF Query!Regs
  <2>2. Query!Expected = <<0, conf[32 + call.a]>> /\ Query!AnswerLength(call) = 2
    BY <1>1 DEF Query!Expected, Query!AnswerLength
  <2> QED BY <2>1, <2>2
<1>2. ASSUME call.op = "read_status", call.a \in 0 .. 10
      PROVE  Query!Expected \in Seq(Halves) /\ Len(Query!Expected) = Query!AnswerLength(call)
  <2>1. Query!Status(call.a) \in Halves /\ 0 \in Halves
    BY <1>2, HalvesAre, SMT DEF Query!Status
  <2>2. Query!Expected = <<0, Query!Status(call.a)>> /\ Query!AnswerLength(call) = 2
    BY <1>2 DEF Query!Expected, Query!AnswerLength
  <2> QED BY <2>1, <2>2
<1>3. ASSUME call.op = "read_memory", call.a \in Query!Cells, call.n \in 1 .. 8 - call.a
      PROVE  Query!Expected \in Seq(Halves) /\ Len(Query!Expected) = Query!AnswerLength(call)
  <2> DEFINE ws == [g \in 1 .. call.n |-> Query!CellOut(g)]
  <2>1. call.n \in Nat /\ \A g \in 1 .. call.n : call.a + g - 1 \in Query!Cells
    BY <1>3 DEF Query!Cells
  <2>2. \A g \in 1 .. call.n : Query!CellOut(g) \in Query!Word
    BY <2>1 DEF Query!CellOut
  <2>3. ws \in Seq(Query!Word) /\ Len(ws) = call.n
    BY <2>1, <2>2
  <2>4. Query!Expected = Query!Burst(ws) /\ Query!AnswerLength(call) = 2 * call.n
    BY <1>3 DEF Query!Expected, Query!AnswerLength
  <2> HIDE DEF ws
  <2> QED BY <2>3, <2>4, BurstIs
<1>4. ASSUME call.op = "read_datafifo", call.n \in 0 .. Query!W16 - 1
      PROVE  Query!Expected \in Seq(Halves) /\ Len(Query!Expected) = Query!AnswerLength(call)
  <2> DEFINE ws == [g \in 1 .. call.n + 1 |-> Query!LastWord(g)]
  <2>1. call.n \in Nat /\ call.n + 1 \in Nat
    <3>1. call.n \in Halves
      BY <1>4 DEF Halves
    <3>2. call.n \in Nat
      BY <3>1, HalvesAre
    <3> QED BY <3>2
  <2>2. ASSUME NEW g \in 1 .. call.n + 1 PROVE Query!LastWord(g) \in Query!Word
    <3>1. 200 + (words - call.n - 1 + g) \in Int /\ Query!W16 \in Nat \ {0}
      BY <2>1, SMT DEF Query!W16
    <3>2. (200 + (words - call.n - 1 + g)) % Query!W16 \in Halves
      BY <3>1, BelowInt, Zenon DEF Halves
    <3>3. 0 \in Halves
      BY HalvesAre, SMT
    <3> QED BY <3>2, <3>3, WordIs, Zenon DEF Query!LastWord, Query!DataWord
  <2>3. ws \in Seq(Query!Word) /\ Len(ws) = call.n + 1
    BY <2>1, <2>2
  <2>4. Query!Expected = Query!Burst(ws) /\ Query!AnswerLength(call) = 2 * (call.n + 1)
    BY <1>4 DEF Query!Expected, Query!AnswerLength
  <2> HIDE DEF ws
  <2> QED BY <2>3, <2>4, BurstIs
<1>5. ASSUME call.op \in {"write_register", "write_memory", "send_pulse", "none"}
      PROVE  Query!Expected = <<>> /\ Query!AnswerLength(call) = 0
  BY <1>5 DEF Query!Expected, Query!AnswerLength
<1>6. \/ call.op \in {"write_register", "write_memory", "send_pulse", "none"}
      \/ call.op = "read_register" /\ call.a \in 0 .. 31
      \/ call.op = "read_status" /\ call.a \in 0 .. 10
      \/ call.op = "read_memory" /\ call.a \in Query!Cells /\ call.n \in 1 .. 8 - call.a
      \/ call.op = "read_datafifo" /\ call.n \in 0 .. Query!W16 - 1
  BY Zenon DEF Query!Legal
<1>7. <<>> \in Seq(Halves) /\ Len(<<>>) = 0
  OBVIOUS
<1> QED BY <1>1, <1>2, <1>3, <1>4, <1>5, <1>6, <1>7, Zenon

(* The interpreter does to the board what After says, and answers so.      *)
LEMMA ExecuteIs ==
  ASSUME Query!Execute, Now \in Boards, queryNet \in Seq(Halves)
  PROVE  Now' = After(Head(queryCmds), Now) /\ queryNet' = queryNet \o Answer(Head(queryCmds), Now)
<1> DEFINE c == Head(queryCmds)
           s == Now
<1>1. /\ s.config = config /\ s.memCnt = memCnt /\ s.addr = addr /\ s.din = din /\ s.mem = mem /\ s.taken = taken
      /\ s = [config |-> config, memCnt |-> memCnt, addr |-> addr, din |-> din, mem |-> mem, taken |-> taken]
  BY DEF Now
<1>2. CASE Query!ReadCommand(c)
  <2>1. Query!IsRead(c) /\ config' = config /\ memCnt' = memCnt /\ din' = din /\ mem' = mem /\ taken' = taken
    BY <1>2 DEF Query!ReadCommand
  <2>2. CASE Query!Addr(c) = 20
    <3>1. addr' = addr + memCnt /\ queryNet' = queryNet \o Query!Burst([g \in 1 .. memCnt |-> Query!MemOut(g)])
      BY <1>2, <2>2 DEF Query!ReadCommand
    <3>2. Now' = [s EXCEPT !.addr = s.addr + s.memCnt]
      BY <1>1, <2>1, <3>1 DEF Now
    <3>3. Answer(c, s) = Query!Burst([g \in 1 .. s.memCnt |-> s.mem[(s.addr + g - 1) % 8]])
      BY <2>1, <2>2, Zenon DEF Answer
    <3>4. [g \in 1 .. s.memCnt |-> s.mem[(s.addr + g - 1) % 8]] = [g \in 1 .. memCnt |-> Query!MemOut(g)]
      BY <1>1 DEF Query!MemOut
    <3> QED BY <2>1, <2>2, <3>1, <3>2, <3>3, <3>4, Zenon DEF After
  <2>3. CASE Query!Addr(c) # 20
    <3>1. addr' = addr /\ queryNet' = queryNet \o Query!Reply(Query!Reg(Query!Addr(c)))
      BY <1>2, <2>3 DEF Query!ReadCommand
    <3>2. Now' = s
      BY <1>1, <2>1, <3>1 DEF Now
    <3>3. RegIn(s, Query!Addr(c)) = Query!Reg(Query!Addr(c))
      BY <1>1, Zenon DEF RegIn, Query!Reg
    <3> QED BY <2>1, <2>3, <3>1, <3>2, <3>3, Zenon DEF After, Answer
  <2> QED BY <2>2, <2>3
<1>3. CASE Query!WriteCommand(c)
  <2>1. ~Query!IsRead(c)
    BY <1>3 DEF Query!WriteCommand
  <2>2. /\ config' = IF Query!Addr(c) \in Query!Regs THEN [s.config EXCEPT ![Query!Addr(c)] = c.lo] ELSE s.config
        /\ memCnt' = IF Query!Addr(c) = 16 THEN c.lo ELSE s.memCnt
        /\ din' = IF Query!Addr(c) = 19 THEN c.lo ELSE s.din
        /\ mem' = IF Query!Addr(c) = 20 THEN [s.mem EXCEPT ![s.addr % 8] = [hi |-> c.lo, lo |-> s.din]] ELSE s.mem
        /\ taken' = IF Query!Addr(c) = 25 THEN s.taken + c.lo + 1 ELSE s.taken
    BY <1>1, <1>3 DEF Query!WriteCommand
  <2>3. addr' = IF Query!Addr(c) = 17 THEN c.lo ELSE IF Query!Addr(c) = 20 THEN s.addr + 1 ELSE s.addr
    BY <1>1, <1>3 DEF Query!WriteCommand
  <2>4. queryNet' = IF Query!Addr(c) = 25 THEN queryNet \o Query!Burst([g \in 1 .. c.lo + 1 |-> Query!FifoOut(g)]) ELSE queryNet
    BY <1>3 DEF Query!WriteCommand
  <2>5. Now' = After(c, s)
    BY <2>1, <2>2, <2>3, Zenon DEF After, Now
  <2>6. CASE Query!Addr(c) = 25
    <3>1. Answer(c, s) = Query!Burst([g \in 1 .. c.lo + 1 |-> Query!DataWord(s.taken + g)])
      BY <2>1, <2>6, Zenon DEF Answer
    <3>2. \A g \in 1 .. c.lo + 1 : Query!FifoOut(g) = Query!DataWord(s.taken + g)
      BY <1>1, Zenon DEF Query!FifoOut
    <3> QED BY <2>4, <2>5, <2>6, <3>1, <3>2
  <2>7. CASE Query!Addr(c) # 25
    <3>1. Answer(c, s) = <<>> /\ queryNet' = queryNet
      BY <2>1, <2>4, <2>7 DEF Answer
    <3> QED BY <2>5, <3>1
  <2> QED BY <2>6, <2>7
<1> QED BY <1>2, <1>3, Zenon DEF Query!Execute
-----------------------------------------------------------------------------
(* The invariant. *)
LEMMA QueryInitial ==
  ASSUME Query!Init, Query!CallsAssumption
  PROVE  QueryInv
<1>1. /\ queryTodo \in Requests /\ queryPc = "returned" /\ call = [op |-> "none"] /\ resp = <<>>
      /\ queryCmds = <<>> /\ queryNet = <<>> /\ closed = FALSE /\ conf = config /\ cells = mem /\ words = taken
  BY DEF Query!Init
<1>2. Now \in Boards
  <2>1. 0 \in Halves /\ 1 \in Halves
    BY HalvesAre, SMT
  <2>2. Query!Nil \in Query!Word
    BY <2>1, WordIs, Zenon DEF Query!Nil
  <2>3. /\ config \in [Query!Regs -> Halves] /\ memCnt \in Halves /\ addr \in 0 .. 8 /\ din \in Halves
        /\ mem \in [Query!Cells -> Query!Word] /\ taken \in Nat
    BY <2>1, <2>2 DEF Query!Init
  <2> QED BY <2>3 DEF Now, Boards
<1>3. Now.config = config /\ Now.mem = mem /\ Now.taken = taken
  BY DEF Now
<1>4. call.op = "none"
  BY <1>1
<1>5. \E S : queryTodo \in Seq(S) /\ \A c \in S : Query!Legal(c)
  BY <1>1 DEF Query!CallsAssumption
<1>6. conf \in [Query!Regs -> Halves] /\ cells \in [Query!Cells -> Query!Word] /\ words \in Nat
  BY <1>1, <1>2, <1>3, BoardIs
<1>7. <<>> \in Seq(Query!Word) /\ <<>> \in Seq(Halves) /\ Len(<<>>) = 0 /\ <<>> \o <<>> = <<>>
  OBVIOUS
<1>8. QueryTyped
  BY <1>1, <1>2, <1>4, <1>5, <1>6, <1>7, Zenon DEF QueryTyped
<1>9. OpenInv
  <2>1. ~EndsIn(queryCmds)
    BY <1>1, <1>7 DEF EndsIn
  <2>2. Query!Expected = <<>>
    BY <1>4 DEF Query!Expected
  <2>3. PICK s : s = Now
    OBVIOUS
  <2> DEFINE r == [k \in 0 .. 0 |-> s]
  <2>4. r \in [0 .. 0 -> Boards] /\ r[0] = s
    BY <1>2, <2>3
  <2> HIDE DEF r
  <2>5. Run(r, Now, queryCmds)
    BY <1>1, <1>7, <2>3, <2>4 DEF Run
  <2>6. AsMeant(r[Len(queryCmds)])
    BY <1>1, <1>3, <1>7, <2>3, <2>4 DEF AsMeant
  <2>7. resp \o queryNet = Query!Expected /\ (queryPc = "returned" => queryNet = <<>>)
    BY <1>1, <1>7, <2>2
  <2> QED BY <2>1, <2>5, <2>6, <2>7, Zenon DEF OpenInv
<1> QED BY <1>1, <1>8, <1>9, Zenon DEF QueryInv

(* A history of requests is typed. *)
LEMMA MeantTyped ==
  ASSUME NEW c, Query!Legal(c), Query!Meant(c), conf \in [Query!Regs -> Halves], cells \in [Query!Cells -> Query!Word], words \in Nat
  PROVE  (conf \in [Query!Regs -> Halves] /\ cells \in [Query!Cells -> Query!Word] /\ words \in Nat)'
<1>1. conf' \in [Query!Regs -> Halves]
  <2>1. CASE c.op = "write_register"
    <3>1. c.v \in Nat
      BY <2>1 DEF Query!Legal
    <3>2. c.v % Query!W16 \in Halves
      BY <3>1, Masked
    <3> QED BY <2>1, <3>2 DEF Query!Meant
  <2>2. CASE c.op # "write_register"
    BY <2>2 DEF Query!Meant
  <2> QED BY <2>1, <2>2
<1>2. cells' \in [Query!Cells -> Query!Word]
  <2>1. CASE c.op = "write_memory"
    <3>1. c.v \in Seq(Query!Word)
      BY <2>1 DEF Query!Legal
    <3>2. cells' = [g \in Query!Cells |-> IF g - c.a + 1 \in DOMAIN c.v THEN c.v[g - c.a + 1] ELSE cells[g]]
      BY <2>1 DEF Query!Meant
    <3>3. \A k \in DOMAIN c.v : c.v[k] \in Query!Word
      BY <3>1
    <3> QED BY <3>2, <3>3, Zenon
  <2>2. CASE c.op # "write_memory"
    BY <2>2 DEF Query!Meant
  <2> QED BY <2>1, <2>2
<1>3. words' \in Nat
  <2>1. CASE c.op = "read_datafifo"
    <3>1. c.n \in Halves
      BY <2>1 DEF Query!Legal, Halves
    <3>2. c.n \in Nat
      BY <3>1, HalvesAre
    <3> QED BY <2>1, <3>2 DEF Query!Meant
  <2>2. CASE c.op # "read_datafifo"
    BY <2>2 DEF Query!Meant
  <2> QED BY <2>1, <2>2
<1> QED BY <1>1, <1>2, <1>3

LEMMA QuerySend ==
  ASSUME QueryInv, Query!Send
  PROVE  QueryInv'
<1>1. QueryTyped
  BY DEF QueryInv
<1>2. /\ queryPc = "returned" /\ queryTodo # <<>> /\ queryTodo' = Tail(queryTodo) /\ call' = Head(queryTodo) /\ resp' = <<>>
      /\ Query!Meant(Head(queryTodo)) /\ queryNet' = queryNet /\ closed' = closed /\ Now' = Now
  BY DEF Query!Send, Query!board, Now
<1>3. PICK S : queryTodo \in Seq(S) /\ \A c \in S : Query!Legal(c)
  BY <1>1 DEF QueryTyped
<1>4. Head(queryTodo) \in S /\ Tail(queryTodo) \in Seq(S)
  BY <1>2, <1>3
<1>5. PICK c : c = Head(queryTodo)
  OBVIOUS
<1>6. Query!Legal(c) /\ Query!Meant(c) /\ call' = c
  BY <1>2, <1>3, <1>4, <1>5
<1>7. (conf \in [Query!Regs -> Halves] /\ cells \in [Query!Cells -> Query!Word] /\ words \in Nat)'
  BY <1>1, <1>6, MeantTyped DEF QueryTyped
<1>8. (\E T : queryTodo \in Seq(T) /\ \A d \in T : Query!Legal(d))' /\ Query!Legal(call)'
  BY <1>2, <1>3, <1>4, <1>6
<1>9. <<>> \in Seq(Halves)
  OBVIOUS
<1>10. CASE closed
  <2>1. queryCmds' = queryCmds /\ queryPc' = "returned"
    BY <1>10 DEF Query!Send
  <2>2. QueryTyped'
    BY <1>1, <1>2, <1>7, <1>8, <1>9, <2>1, Zenon DEF QueryTyped
  <2>3. ClosedInv'
    <3>1. (Query!Expected \in Seq(Halves))'
      BY <1>7, <1>8, ExpectedIs, PTL
    <3>2. PICK e : e = Query!Expected'
      OBVIOUS
    <3>3. Prefix(<<>>, e)
      BY <3>1, <3>2, PrefixSelf
    <3>4. queryCmds = <<>>
      BY <1>10 DEF QueryInv, ClosedInv
    <3> QED BY <1>2, <2>1, <3>2, <3>3, <3>4, Zenon DEF ClosedInv
  <2> QED BY <1>2, <1>10, <2>2, <2>3, Zenon DEF QueryInv
<1>11. CASE ~closed
  <2>1. queryCmds' = queryCmds \o Query!CommandsOf(c) /\ queryPc' = IF c.expect = 0 THEN "returned" ELSE "select"
    BY <1>5, <1>11 DEF Query!Send
  <2>2. PICK r : /\ Run(r, Now, queryCmds) /\ AsMeant(r[Len(queryCmds)])
                 /\ EndsIn(queryCmds) => queryPc = "select"
                 /\ ~EndsIn(queryCmds) => (queryPc = "returned" => queryNet = <<>>)
    BY <1>11, Zenon DEF QueryInv, OpenInv
  <2>3. ~EndsIn(queryCmds) /\ queryNet = <<>>
    BY <1>2, <2>2
  <2>4. PICK q : q = queryCmds
    OBVIOUS
  <2>5. q \in Seq(Query!Word) /\ Len(q) \in Nat /\ Now \in Boards
    BY <1>1, <2>4 DEF QueryTyped
  <2>6. PICK s : s = Now
    OBVIOUS
  <2>7. Run(r, s, q) /\ AsMeant(r[Len(q)]) /\ s \in Boards /\ ~EndsIn(q)
    BY <2>2, <2>3, <2>4, <2>5, <2>6, Zenon
  <2>8. r[Len(q)] \in Boards
    BY <2>5, <2>7 DEF Run
  <2>9. Leads(c, r[Len(q)])
    BY <1>6, <2>7, <2>8, RequestLeads
  <2> DEFINE p == Query!CommandsOf(c)
  <2>10. PICK f : /\ Run(f, r[Len(q)], p) /\ AsMeant(f[Len(p)])'
                  /\ EndsIn(p) => Query!AnswerLength(c) > 0 /\ Answer(p[Len(p)], f[Len(p) - 1]) = Query!Expected'
                  /\ ~EndsIn(p) => Query!Expected' = <<>>
    BY <2>9, Zenon DEF Leads
  <2>11. p \in Seq(Query!Word) /\ Len(p) > 0
    BY <2>9, Zenon DEF Leads
  <2> HIDE DEF p
  <2>12. /\ EndsIn(q \o p) <=> EndsIn(p)
         /\ (q \o p)[Len(q \o p)] = p[Len(p)]
         /\ \E u : Run(u, s, q \o p) /\ u[Len(q \o p)] = f[Len(p)] /\ u[Len(q \o p) - 1] = f[Len(p) - 1]
    BY <2>5, <2>7, <2>10, <2>11, RunsJoin
  <2>13. PICK u : Run(u, s, q \o p) /\ u[Len(q \o p)] = f[Len(p)] /\ u[Len(q \o p) - 1] = f[Len(p) - 1]
    BY <2>12, Zenon
  <2>14. queryCmds' = q \o p /\ q \o p \in Seq(Query!Word)
    BY <2>1, <2>4, <2>5, <2>11 DEF p
  <2>15. Run(u, s, queryCmds') /\ AsMeant(f[Len(p)])' /\ u[Len(queryCmds')] = f[Len(p)]
    BY <2>10, <2>13, <2>14, Zenon
  <2>16. EndsIn(queryCmds') => queryPc' = "select" /\ Answer(queryCmds'[Len(queryCmds')], u[Len(queryCmds') - 1]) = Query!Expected'
    <3>1. EndsIn(queryCmds') => EndsIn(p)
      BY <2>12, <2>14, Zenon
    <3>2. EndsIn(p) => c.expect # 0
      BY <1>6, <2>10 DEF Query!Legal, Query!NoLength
    <3>3. EndsIn(p) => Answer(queryCmds'[Len(queryCmds')], u[Len(queryCmds') - 1]) = Query!Expected'
      BY <2>10, <2>12, <2>13, <2>14, Zenon
    <3> QED BY <2>1, <3>1, <3>2, <3>3, Zenon
  <2>17. ~EndsIn(queryCmds') => Query!Expected' = <<>>
    BY <2>10, <2>12, <2>14, Zenon
  <2>18. resp' \o queryNet' = <<>>
    BY <1>2, <2>3
  <2>19. OpenInv'
    BY <1>2, <2>3, <2>6, <2>15, <2>16, <2>17, <2>18, Zenon DEF OpenInv, AsMeant
  <2>20. queryPc' \in {"returned", "select"} /\ queryCmds' \in Seq(Query!Word)
    BY <2>1, <2>14
  <2>21. QueryTyped'
    BY <1>1, <1>2, <1>7, <1>8, <1>9, <2>20, Zenon DEF QueryTyped
  <2> QED BY <1>2, <1>11, <2>19, <2>21, Zenon DEF QueryInv
<1> QED BY <1>10, <1>11

(* What is expected stays so while neither the request nor the history     *)
(* changes.                                                                *)
LEMMA ExpectedStays ==
  ASSUME UNCHANGED <<call, Query!meant>>
  PROVE  Query!Expected' = Query!Expected
<1>1. call' = call /\ conf' = conf /\ cells' = cells /\ words' = words
  BY DEF Query!meant
<1>2. (\A g : Query!CellOut(g)' = Query!CellOut(g)) /\ (\A g : Query!LastWord(g)' = Query!LastWord(g))
  BY <1>1 DEF Query!CellOut, Query!LastWord
<1> QED BY <1>1, <1>2 DEF Query!Expected, Query!CellOut, Query!LastWord

LEMMA QueryRead ==
  ASSUME QueryInv, Query!Read
  PROVE  QueryInv'
<1>1. QueryTyped
  BY DEF QueryInv
<1>2. PICK n \in 1 .. Len(queryNet) :
        /\ resp' = resp \o SubSeq(queryNet, 1, n) /\ queryNet' = SubSeq(queryNet, n + 1, Len(queryNet))
        /\ IF Query!Enough(Len(resp')) THEN queryPc' = "returned" ELSE queryPc' = queryPc
  BY Zenon DEF Query!Read, Query!AppendRead, Query!Return
<1>3. /\ queryPc = "select" /\ queryNet # <<>> /\ queryTodo' = queryTodo /\ call' = call /\ queryCmds' = queryCmds /\ closed' = closed
      /\ Now' = Now /\ conf' = conf /\ cells' = cells /\ words' = words
  BY DEF Query!Read, Query!Return, Query!board, Query!meant, Now
<1>4. Query!Expected' = Query!Expected
  BY <1>3, ExpectedStays DEF Query!meant
<1>5. queryNet \in Seq(Halves) /\ resp \in Seq(Halves) /\ Query!Legal(call) /\ Query!Expected \in Seq(Halves)
      /\ Len(Query!Expected) = Query!AnswerLength(call)
  <2>1. queryNet \in Seq(Halves) /\ resp \in Seq(Halves) /\ Query!Legal(call)
    BY <1>1, <1>3 DEF QueryTyped
  <2> QED BY <1>1, <2>1, ExpectedIs DEF QueryTyped
<1>6. /\ resp' \in Seq(Halves) /\ queryNet' \in Seq(Halves) /\ resp' \o queryNet' = resp \o queryNet
      /\ resp' \o queryNet' \in Seq(Halves) /\ Len(resp' \o queryNet') = Len(resp') + Len(queryNet')
      /\ Len(queryNet') = 0 => queryNet' = <<>>
  <2>1. SubSeq(queryNet, 1, n) \o SubSeq(queryNet, n + 1, Len(queryNet)) = queryNet
    BY <1>5
  <2>2. SubSeq(queryNet, 1, n) \in Seq(Halves) /\ SubSeq(queryNet, n + 1, Len(queryNet)) \in Seq(Halves)
    BY <1>5
  <2>3. \A x, y \in Seq(Halves) : (resp \o x) \o y = resp \o (x \o y)
    BY <1>5, SMTT(30)
  <2>4. resp' \o queryNet' = resp \o queryNet
    BY <1>2, <2>1, <2>2, <2>3, Zenon
  <2>5. resp' \in Seq(Halves) /\ queryNet' \in Seq(Halves)
    BY <1>2, <1>5, <2>2
  <2>6. \A x, y \in Seq(Halves) : x \o y \in Seq(Halves) /\ Len(x \o y) = Len(x) + Len(y)
    BY CatIs
  <2>7. \A x \in Seq(Halves) : Len(x) = 0 => x = <<>>
    OBVIOUS
  <2> QED BY <2>4, <2>5, <2>6, <2>7, Zenon
<1>7. queryPc' \in {"returned", "select"}
  BY <1>2, <1>3
<1>8. QueryTyped'
  BY <1>1, <1>3, <1>5, <1>6, <1>7, Zenon DEF QueryTyped
<1>9. CASE closed
  <2>1. queryCmds = <<>> /\ Prefix(resp \o queryNet, Query!Expected)
    BY <1>3, <1>9 DEF QueryInv, ClosedInv
  <2>2. Prefix(resp', Query!Expected)
    <3>1. PICK x : x = resp'
      OBVIOUS
    <3>2. PICK y : y = queryNet'
      OBVIOUS
    <3>3. Prefix(x \o y, Query!Expected) /\ x \in Seq(Halves) /\ y \in Seq(Halves)
      BY <1>6, <2>1, <3>1, <3>2, Zenon
    <3>4. Prefix(x, Query!Expected)
      BY <1>5, <3>3, PrefixCut
    <3> QED BY <3>1, <3>4
  <2>3. ClosedInv'
    BY <1>3, <1>4, <1>6, <2>1, <2>2, Zenon DEF ClosedInv
  <2> QED BY <1>3, <1>8, <1>9, <2>3, Zenon DEF QueryInv
<1>10. CASE ~closed
  <2>1. PICK r : /\ Run(r, Now, queryCmds) /\ AsMeant(r[Len(queryCmds)])
                 /\ EndsIn(queryCmds) => queryNet = <<>>
                 /\ ~EndsIn(queryCmds) => resp \o queryNet = Query!Expected
    BY <1>10, Zenon DEF QueryInv, OpenInv
  <2>2. ~EndsIn(queryCmds) /\ resp' \o queryNet' = Query!Expected
    BY <1>3, <1>6, <2>1
  <2>3. queryPc' = "returned" => queryNet' = <<>>
    <3>1. SUFFICES ASSUME queryPc' = "returned" PROVE queryNet' = <<>>
      OBVIOUS
    <3>2. Len(resp') >= call.expect /\ call.expect > 0
      BY <1>2, <1>3, <3>1 DEF Query!Enough
    <3>3. call.expect = Len(Query!Expected)
      BY <1>5, <3>2 DEF Query!Legal, Query!NoLength
    <3>4. Len(Query!Expected) = Len(resp') + Len(queryNet') /\ Len(resp') \in Nat /\ Len(queryNet') \in Nat
      BY <1>6, <2>2
    <3>5. Len(queryNet') = 0
      BY <3>2, <3>3, <3>4
    <3> QED BY <1>6, <3>5
  <2>4. OpenInv'
    BY <1>3, <1>4, <2>1, <2>2, <2>3, Zenon DEF OpenInv, AsMeant
  <2> QED BY <1>3, <1>8, <1>10, <2>4, Zenon DEF QueryInv
<1> QED BY <1>9, <1>10

LEMMA QueryEnd ==
  ASSUME QueryInv, Query!ReadClosed \/ Query!Timeout
  PROVE  QueryInv'
<1>1. /\ queryNet = <<>> /\ (closed \/ queryCmds = <<>>) /\ queryPc' = "returned" /\ queryTodo' = queryTodo /\ call' = call
      /\ resp' = resp /\ queryCmds' = queryCmds /\ queryNet' = queryNet /\ closed' = closed /\ Now' = Now
      /\ conf' = conf /\ cells' = cells /\ words' = words /\ queryPc = "select"
  BY DEF Query!ReadClosed, Query!Timeout, Query!Return, Query!board, Query!meant, Now
<1>2. Query!Expected' = Query!Expected
  BY <1>1, ExpectedStays DEF Query!meant
<1>3. QueryTyped'
  <2>1. QueryTyped
    BY DEF QueryInv
  <2>2. Query!Legal(call)
    BY <1>1, <2>1 DEF QueryTyped
  <2> QED BY <1>1, <2>1, <2>2, Zenon DEF QueryTyped
<1>4. CASE closed
  <2>1. ClosedInv
    BY <1>4 DEF QueryInv
  <2>2. ClosedInv'
    BY <1>1, <1>2, <2>1, Zenon DEF ClosedInv
  <2> QED BY <1>1, <1>3, <1>4, <2>2, Zenon DEF QueryInv
<1>5. CASE ~closed
  <2>1. ~EndsIn(queryCmds)
    <3>1. queryCmds = <<>>
      BY <1>1, <1>5
    <3> QED BY <3>1 DEF EndsIn
  <2>2. PICK r : Run(r, Now, queryCmds) /\ AsMeant(r[Len(queryCmds)]) /\ resp \o queryNet = Query!Expected
    BY <1>5, <2>1, Zenon DEF QueryInv, OpenInv
  <2>3. OpenInv'
    BY <1>1, <1>2, <2>1, <2>2, Zenon DEF OpenInv, AsMeant
  <2> QED BY <1>1, <1>3, <1>5, <2>3, Zenon DEF QueryInv
<1> QED BY <1>4, <1>5

(* The rest of a run. *)
LEMMA RunTail ==
  ASSUME NEW q \in Seq(Query!Word), Len(q) > 0, NEW s \in Boards, NEW r, Run(r, s, q)
  PROVE  LET u == [k \in 0 .. Len(q) - 1 |-> r[k + 1]] IN
         /\ r[1] = After(Head(q), s) /\ r[1] \in Boards
         /\ Run(u, r[1], Tail(q)) /\ u[Len(Tail(q))] = r[Len(q)]
         /\ Len(q) > 1 => /\ ~Answers(Head(q)) /\ (EndsIn(Tail(q)) <=> EndsIn(q))
                          /\ Tail(q)[Len(Tail(q))] = q[Len(q)] /\ u[Len(Tail(q)) - 1] = r[Len(q) - 1]
         /\ Len(q) = 1 => /\ (EndsIn(q) <=> Answers(Head(q))) /\ ~EndsIn(Tail(q)) /\ Tail(q) = <<>>
                          /\ q[Len(q)] = Head(q) /\ r[Len(q) - 1] = s
<1> DEFINE n == Len(q)
           p == Tail(q)
           u == [k \in 0 .. n - 1 |-> r[k + 1]]
<1>1. n \in Nat \ {0} /\ p \in Seq(Query!Word) /\ Len(p) = n - 1 /\ Head(q) = q[1] /\ (n = 1 => p = <<>>)
      /\ \A k \in 1 .. n - 1 : p[k] = q[k + 1]
  <2>1. n \in Nat \ {0} /\ q # <<>> /\ Head(q) = q[1]
    OBVIOUS
  <2>2. p \in Seq(Query!Word) /\ Len(p) = n - 1 /\ \A k \in 1 .. Len(p) : p[k] = q[k + 1]
    BY <2>1, HeadTailProperties
  <2> HIDE DEF n, p
  <2>3. n = 1 => p = <<>>
    BY <2>2
  <2> QED BY <2>1, <2>2, <2>3
<1>2. /\ r \in [0 .. n -> Boards] /\ r[0] = s /\ (\A k \in 1 .. n : r[k] = After(q[k], r[k - 1]))
      /\ \A k \in 1 .. n - 1 : ~Answers(q[k])
  BY DEF Run
<1> HIDE DEF n, p
<1>3. r[1] = After(Head(q), s) /\ r[1] \in Boards
  <2>1. 1 \in 1 .. n /\ 1 \in 0 .. n /\ 1 - 1 = 0
    BY <1>1
  <2> QED BY <1>1, <1>2, <2>1
<1>4. u \in [0 .. n - 1 -> Boards] /\ \A k \in 0 .. n - 1 : u[k] = r[k + 1]
  <2>1. \A k \in 0 .. n - 1 : k + 1 \in 0 .. n
    BY <1>1
  <2> QED BY <1>2, <2>1
<1> HIDE DEF u
<1>5. \A k \in 1 .. n - 1 : u[k] = After(p[k], u[k - 1])
  <2> SUFFICES ASSUME NEW k \in 1 .. n - 1 PROVE u[k] = After(p[k], u[k - 1])
    OBVIOUS
  <2>1. k \in 0 .. n - 1 /\ k - 1 \in 0 .. n - 1 /\ (k - 1) + 1 = k /\ (k + 1) - 1 = k /\ k + 1 \in 1 .. n
    BY <1>1
  <2>2. u[k] = r[k + 1] /\ u[k - 1] = r[k] /\ p[k] = q[k + 1]
    BY <1>1, <1>4, <2>1
  <2>3. r[k + 1] = After(q[k + 1], r[(k + 1) - 1])
    BY <1>2, <2>1
  <2> QED BY <2>1, <2>2, <2>3
<1>6. \A k \in 1 .. n - 1 - 1 : ~Answers(p[k])
  <2>1. \A k \in 1 .. n - 1 - 1 : k \in 1 .. n - 1 /\ k + 1 \in 1 .. n - 1
    BY <1>1
  <2> QED BY <1>1, <1>2, <2>1
<1>7. Run(u, r[1], p)
  <2>1. u[0] = r[1]
    <3>1. 0 \in 0 .. n - 1 /\ 0 + 1 = 1
      BY <1>1
    <3> QED BY <1>4, <3>1
  <2> QED BY <1>1, <1>4, <1>5, <1>6, <2>1 DEF Run
<1>8. u[Len(p)] = r[n]
  <2>1. n - 1 \in 0 .. n - 1 /\ (n - 1) + 1 = n
    BY <1>1
  <2> QED BY <1>1, <1>4, <2>1
<1>9. ASSUME n > 1
      PROVE  ~Answers(Head(q)) /\ (EndsIn(p) <=> EndsIn(q)) /\ p[Len(p)] = q[n] /\ u[Len(p) - 1] = r[n - 1]
  <2>1. 1 \in 1 .. n - 1 /\ n - 1 \in 1 .. n - 1 /\ (n - 1) + 1 = n /\ n - 1 - 1 \in 0 .. n - 1 /\ (n - 1 - 1) + 1 = n - 1
    BY <1>1, <1>9
  <2>2. ~Answers(Head(q)) /\ p[n - 1] = q[n] /\ u[n - 1 - 1] = r[n - 1]
    BY <1>1, <1>2, <1>4, <2>1
  <2>3. EndsIn(p) <=> EndsIn(q)
    BY <1>1, <1>9, <2>2 DEF EndsIn, n
  <2> QED BY <1>1, <2>2, <2>3
<1>10. ASSUME n = 1
       PROVE  (EndsIn(q) <=> Answers(Head(q))) /\ ~EndsIn(p) /\ p = <<>> /\ q[n] = Head(q) /\ r[n - 1] = s
  <2>1. n - 1 = 0 /\ n > 0 /\ ~(Len(p) > 0)
    BY <1>1, <1>10
  <2> QED BY <1>1, <1>2, <1>10, <2>1 DEF EndsIn, n
<1> QED BY <1>3, <1>7, <1>8, <1>9, <1>10 DEF n, p, u

LEMMA QueryExecute ==
  ASSUME QueryInv, Query!Execute
  PROVE  QueryInv'
<1>1. QueryTyped
  BY DEF QueryInv
<1>2. /\ queryCmds # <<>> /\ queryCmds' = Tail(queryCmds) /\ queryTodo' = queryTodo /\ queryPc' = queryPc /\ call' = call /\ resp' = resp
      /\ closed' = closed /\ conf' = conf /\ cells' = cells /\ words' = words
  BY DEF Query!Execute, Query!program, Query!meant
<1>3. ~closed
  BY <1>2 DEF QueryInv, ClosedInv
<1>4. Query!Expected' = Query!Expected
  BY <1>2, ExpectedStays DEF Query!meant
<1>5. PICK r : /\ Run(r, Now, queryCmds) /\ AsMeant(r[Len(queryCmds)])
               /\ EndsIn(queryCmds) => /\ queryPc = "select" /\ resp = <<>> /\ queryNet = <<>>
                                       /\ Answer(queryCmds[Len(queryCmds)], r[Len(queryCmds) - 1]) = Query!Expected
               /\ ~EndsIn(queryCmds) => resp \o queryNet = Query!Expected /\ (queryPc = "returned" => queryNet = <<>>)
  BY <1>3, Zenon DEF QueryInv, OpenInv
<1>6. PICK q : q = queryCmds
  OBVIOUS
<1>7. PICK s : s = Now
  OBVIOUS
<1>8. q \in Seq(Query!Word) /\ Len(q) \in Nat /\ Len(q) > 0 /\ s \in Boards /\ queryNet \in Seq(Halves) /\ resp \in Seq(Halves)
      /\ Head(q) \in Query!Word /\ Tail(q) \in Seq(Query!Word) /\ Run(r, s, q)
  <2>1. queryCmds \in Seq(Query!Word) /\ Now \in Boards /\ queryNet \in Seq(Halves) /\ resp \in Seq(Halves)
    BY <1>1 DEF QueryTyped
  <2>2. q \in Seq(Query!Word) /\ q # <<>>
    BY <1>2, <1>6, <2>1
  <2>3. Len(q) \in Nat /\ Len(q) > 0 /\ Head(q) \in Query!Word /\ Tail(q) \in Seq(Query!Word)
    BY <2>2
  <2> QED BY <1>5, <1>6, <1>7, <2>1, <2>2, <2>3, Zenon
<1> DEFINE u == [k \in 0 .. Len(q) - 1 |-> r[k + 1]]
<1>9. /\ r[1] = After(Head(q), s) /\ r[1] \in Boards
      /\ Run(u, r[1], Tail(q)) /\ u[Len(Tail(q))] = r[Len(q)]
      /\ Len(q) > 1 => /\ ~Answers(Head(q)) /\ (EndsIn(Tail(q)) <=> EndsIn(q))
                       /\ Tail(q)[Len(Tail(q))] = q[Len(q)] /\ u[Len(Tail(q)) - 1] = r[Len(q) - 1]
      /\ Len(q) = 1 => /\ (EndsIn(q) <=> Answers(Head(q))) /\ ~EndsIn(Tail(q)) /\ Tail(q) = <<>>
                       /\ q[Len(q)] = Head(q) /\ r[Len(q) - 1] = s
  <2>1. q \in Seq(Query!Word) /\ Len(q) > 0 /\ s \in Boards /\ Run(r, s, q)
    BY <1>8, Zenon
  <2> QED BY <2>1, RunTail
<1> HIDE DEF u
<1>10. Now' = r[1] /\ queryNet' = queryNet \o Answer(Head(q), s) /\ Answer(Head(q), s) \in Seq(Halves)
  <2>1. Answer(Head(q), s) \in Seq(Halves)
    BY <1>8, AnswerIs
  <2> QED BY <1>6, <1>7, <1>8, <1>9, <2>1, ExecuteIs
<1>11. queryNet' \in Seq(Halves) /\ (~Answers(Head(q)) => queryNet' = queryNet)
  <2>1. ~Answers(Head(q)) => Answer(Head(q), s) = <<>>
    BY Zenon DEF Answers, Answer
  <2>2. queryNet \o <<>> = queryNet
    BY <1>8
  <2> QED BY <1>8, <1>10, <2>1, <2>2, CatIs
<1>12. AsMeant(u[Len(Tail(q))])
  BY <1>5, <1>6, <1>9
<1>13. QueryTyped'
  BY <1>1, <1>2, <1>6, <1>8, <1>9, <1>10, <1>11, Zenon DEF QueryTyped
<1>14. CASE Len(q) > 1
  <2>1. queryNet' = queryNet /\ (EndsIn(queryCmds') <=> EndsIn(queryCmds))
    BY <1>2, <1>6, <1>9, <1>11, <1>14
  <2>2. EndsIn(queryCmds) => Answer(Tail(q)[Len(Tail(q))], u[Len(Tail(q)) - 1]) = Query!Expected
    BY <1>5, <1>6, <1>9, <1>14, Zenon
  <2>3. queryCmds' = Tail(q) /\ Run(u, Now', queryCmds')
    BY <1>2, <1>6, <1>9, <1>10
  <2>4. OpenInv'
    BY <1>2, <1>4, <1>5, <1>12, <2>1, <2>2, <2>3, Zenon DEF OpenInv, AsMeant
  <2> QED BY <1>2, <1>3, <1>13, <2>4, Zenon DEF QueryInv
<1>15. CASE Len(q) = 1
  <2>1. queryCmds' = Tail(q) /\ Run(u, Now', queryCmds') /\ ~EndsIn(queryCmds')
    BY <1>2, <1>6, <1>9, <1>10, <1>15
  <2>2. resp' \o queryNet' = Query!Expected /\ (queryPc' = "returned" => queryNet' = <<>>)
    <3>1. CASE EndsIn(queryCmds)
      <4>1. queryPc = "select" /\ resp = <<>> /\ queryNet = <<>> /\ Answer(Head(q), s) = Query!Expected
        BY <1>5, <1>6, <1>9, <1>15, <3>1
      <4>2. \A y \in Seq(Halves) : <<>> \o y = y
        OBVIOUS
      <4>3. queryNet' = Query!Expected /\ Query!Expected \in Seq(Halves)
        BY <1>10, <4>1, <4>2
      <4> QED BY <1>2, <4>1, <4>2, <4>3
    <3>2. CASE ~EndsIn(queryCmds)
      <4>1. queryNet' = queryNet
        BY <1>6, <1>9, <1>11, <1>15, <3>2
      <4> QED BY <1>2, <1>5, <3>2, <4>1
    <3> QED BY <3>1, <3>2
  <2>3. OpenInv'
    BY <1>2, <1>4, <1>12, <2>1, <2>2, Zenon DEF OpenInv, AsMeant
  <2> QED BY <1>2, <1>3, <1>13, <2>3, Zenon DEF QueryInv
<1>16. Len(q) > 1 \/ Len(q) = 1
  <2>1. Len(q) \in Nat /\ Len(q) > 0
    BY <1>8, Zenon
  <2>2. \A k \in Nat : k > 0 => k > 1 \/ k = 1
    OBVIOUS
  <2> QED BY <2>1, <2>2, Zenon
<1> QED BY <1>14, <1>15, <1>16

LEMMA QueryClose ==
  ASSUME QueryInv, Query!Close
  PROVE  QueryInv'
<1>1. QueryTyped
  BY DEF QueryInv
<1>2. PICK n \in 0 .. Len(queryNet) : queryNet' = SubSeq(queryNet, 1, n)
  BY DEF Query!Close
<1>3. /\ ~closed /\ closed' = TRUE /\ queryCmds' = <<>> /\ queryTodo' = queryTodo /\ queryPc' = queryPc /\ call' = call /\ resp' = resp
      /\ Now' = Now /\ conf' = conf /\ cells' = cells /\ words' = words
  BY DEF Query!Close, Query!program, Query!board, Query!meant, Now
<1>4. Query!Expected' = Query!Expected
  BY <1>3, ExpectedStays DEF Query!meant
<1>5. queryNet \in Seq(Halves) /\ resp \in Seq(Halves) /\ Query!Expected \in Seq(Halves)
  BY <1>1, ExpectedIs DEF QueryTyped
<1>6. queryNet' \in Seq(Halves) /\ <<>> \in Seq(Query!Word)
  BY <1>2, <1>5
<1>7. QueryTyped'
  <2>1. TRUE \in BOOLEAN
    OBVIOUS
  <2> QED BY <1>1, <1>3, <1>5, <1>6, <2>1, Zenon DEF QueryTyped
<1>8. Prefix(resp, Query!Expected) /\ Prefix(resp \o queryNet', Query!Expected)
  <2>1. CASE EndsIn(queryCmds)
    <3>1. resp = <<>> /\ queryNet = <<>>
      BY <1>3, <2>1, Zenon DEF QueryInv, OpenInv
    <3>2. queryNet' = <<>> /\ <<>> \o <<>> = <<>>
      BY <1>2, <3>1
    <3> QED BY <1>5, <3>1, <3>2, PrefixSelf
  <2>2. CASE ~EndsIn(queryCmds)
    <3>1. resp \o queryNet = Query!Expected
      BY <1>3, <2>2, Zenon DEF QueryInv, OpenInv
    <3>2. Prefix(resp \o queryNet, Query!Expected)
      BY <1>5, <3>1, PrefixSelf
    <3> QED BY <1>2, <1>5, <3>2, PrefixCut
  <2> QED BY <2>1, <2>2
<1>9. ClosedInv'
  BY <1>3, <1>4, <1>8, Zenon DEF ClosedInv
<1> QED BY <1>3, <1>7, <1>9, Zenon DEF QueryInv

LEMMA QueryStep ==
  ASSUME QueryInv, Query!Next
  PROVE  QueryInv'
  BY QuerySend, QueryRead, QueryEnd, QueryExecute, QueryClose DEF Query!Next

(* What the invariant is for. *)
LEMMA QueryGives ==
  ASSUME QueryInv
  PROVE  Query!AnswerRight /\ Query!AnswerPrefix /\ Query!TypeOK
<1>1. QueryTyped
  BY DEF QueryInv
<1>2. resp \in Seq(Halves) /\ queryNet \in Seq(Halves) /\ Query!Expected \in Seq(Halves)
  BY <1>1, ExpectedIs DEF QueryTyped
<1>3. Query!AnswerRight
  <2>1. SUFFICES ASSUME queryPc = "returned", ~closed PROVE resp = Query!Expected
    BY DEF Query!AnswerRight
  <2>2. resp \o queryNet = Query!Expected /\ queryNet = <<>>
    BY <2>1, Zenon DEF QueryInv, OpenInv
  <2> QED BY <1>2, <2>2
<1>4. Prefix(resp, Query!Expected)
  <2>1. CASE closed
    BY <2>1 DEF QueryInv, ClosedInv
  <2>2. CASE ~closed /\ EndsIn(queryCmds)
    <3>1. resp = <<>>
      BY <2>2, Zenon DEF QueryInv, OpenInv
    <3> QED BY <1>2, <3>1, PrefixSelf
  <2>3. CASE ~closed /\ ~EndsIn(queryCmds)
    <3>1. resp \o queryNet = Query!Expected
      BY <2>3, Zenon DEF QueryInv, OpenInv
    <3>2. Prefix(resp \o queryNet, Query!Expected)
      BY <1>2, <3>1, PrefixSelf
    <3> QED BY <1>2, <3>2, PrefixCut
  <2> QED BY <2>1, <2>2, <2>3
<1>5. Query!TypeOK
  <2>1. Query!Range(resp) \subseteq Halves /\ Query!Range(queryNet) \subseteq Halves
    BY <1>2 DEF Query!Range
  <2>2. config \in [Query!Regs -> Halves] /\ mem \in [Query!Cells -> Query!Word] /\ memCnt \in Halves /\ din \in Halves /\ addr \in 0 .. 8
    <3>1. Now \in Boards
      BY <1>1 DEF QueryTyped
    <3> QED BY <3>1, BoardIs DEF Now
  <2>3. addr \in Halves
    BY <2>2, HalvesAre
  <2>4. queryPc \in {"returned", "select"} /\ closed \in BOOLEAN
    BY <1>1 DEF QueryTyped
  <2> QED BY <2>1, <2>2, <2>3, <2>4 DEF Query!TypeOK, Halves
<1> QED BY <1>3, <1>4, <1>5 DEF Query!AnswerPrefix, Prefix

LEMMA QuerySame ==
  ASSUME QueryInv, UNCHANGED Query!vars
  PROVE  QueryInv'
<1>1. /\ queryTodo' = queryTodo /\ queryPc' = queryPc /\ call' = call /\ resp' = resp /\ queryCmds' = queryCmds
      /\ queryNet' = queryNet /\ closed' = closed /\ Now' = Now /\ conf' = conf /\ cells' = cells /\ words' = words
  BY DEF Query!vars, Query!program, Query!board, Query!meant, Now
<1>2. Query!Expected' = Query!Expected
  BY <1>1, ExpectedStays DEF Query!meant
<1>3. QueryTyped'
  BY <1>1, Zenon DEF QueryInv, QueryTyped
<1>4. ClosedInv => ClosedInv'
  BY <1>1, <1>2, Zenon DEF ClosedInv
<1>5. OpenInv => OpenInv'
  BY <1>1, <1>2, Zenon DEF OpenInv, AsMeant
<1> QED BY <1>1, <1>3, <1>4, <1>5, Zenon DEF QueryInv

-----------------------------------------------------------------------------
(* get_socket.  The programs and what may be open: in fmc112 and udptest,  *)
(* beside the standard streams, sockfd alone, and only while get_socket    *)
(* works on it or has returned it.                                         *)
Holding  == {"setsockopt", "keepalive", "connect", "sleep", "refused", "bind"}
Closing(p) == IF p = "fmc112" THEN Holding \ {"bind"} ELSE IF p = "tcpio" THEN Holding \ {"keepalive", "bind"}
              ELSE {"setsockopt", "bind"}

States == {"closed", "std", "new", "ready"}
SocketTypes ==
  /\ program \in {"fmc112", "tcpio", "udptest"}
  /\ connectPc \in Closing(program) \cup {"getaddrinfo", "socket", "none", "success", "failed"}
  /\ list \in Nat /\ ap \in Nat /\ tried \in Nat /\ list <= NAddr
  /\ fd \in [Connect!Fds -> States]
  /\ peer \in [1 .. NAddr -> Nat]

OneSocket ==
  /\ \A d \in Connect!Std : fd[d] = "std"
  /\ connectPc \in Holding => sockfd \in Connect!Fds \ Connect!Std
  /\ \A d \in Connect!Fds \ Connect!Std :
       fd[d] # "closed" => connectPc \in Holding \cup {"success"} /\ d = sockfd

(* tcpio leaves a socket open for each address that failed.                *)
LowSockets ==
  /\ connectPc \in Holding => sockfd \in Connect!Fds
  /\ connectPc \in {"getaddrinfo", "socket"} => \A d \in Connect!Fds : d >= ap + 2 => fd[d] = "closed"
  /\ connectPc \in Holding => \A d \in Connect!Fds : d >= ap + 3 => fd[d] = "closed"

Returning == program # "udptest" /\ connectPc = "success" => sockfd \in Connect!Fds /\ fd[sockfd] = "ready"

(* Every address that the loop has left behind was refused or failed in    *)
(* another call.                                                           *)
LeftBehind ==
  /\ connectPc = "getaddrinfo" => list = 0 /\ ap = 1
  /\ connectPc \in Holding \cup {"socket"} => ap \in 1 .. list
  /\ \A a \in 1 .. list : a < ap => peer[a] > Connect!Tries \/ a \in skipped
  /\ connectPc = "refused" => peer[ap] > Connect!Tries
  /\ connectPc \in {"none", "failed"} => list < ap

ConnectInv ==
  /\ SocketTypes /\ Returning /\ LeftBehind
  /\ IF program = "tcpio" THEN LowSockets ELSE OneSocket

LEMMA InitConnect ==
  ASSUME Connect!NAddrAssumption, Connect!Init
  PROVE  ConnectInv
<1>1. /\ connectPc = "getaddrinfo" /\ list = 0 /\ ap = 1 /\ tried = 0 /\ program \in {"fmc112", "tcpio", "udptest"}
      /\ fd = [d \in Connect!Fds |-> IF d \in Connect!Std THEN "std" ELSE "closed"]
      /\ peer \in [1 .. NAddr -> 1 .. Connect!Tries + 1]
  BY DEF Connect!Init
<1>2. SocketTypes
  BY <1>1, SMT DEF SocketTypes, States, Connect!Tries, Connect!NAddrAssumption
<1>3. OneSocket /\ LowSockets
  BY <1>1, SMT DEF OneSocket, LowSockets, Holding, Connect!Fds, Connect!Std, Connect!NAddrAssumption
<1>4. LeftBehind /\ Returning
  BY <1>1, SMT DEF LeftBehind, Returning, Holding
<1> QED BY <1>2, <1>3, <1>4 DEF ConnectInv

(* The kernel hands out the lowest descriptor that is free.                *)
LEMMA LowestFree ==
  ASSUME Connect!NAddrAssumption, NEW d \in Connect!Fds, fd[d] = "closed"
  PROVE  Connect!Free \in Connect!Fds /\ fd[Connect!Free] = "closed" /\ Connect!Free <= d
<1> DEFINE F == {x \in Connect!Fds : fd[x] = "closed"}
<1>1. Connect!Fds \ Connect!Open = F
  BY DEF Connect!Open
<1>2. F \subseteq Nat /\ d \in F
  BY SMT DEF Connect!Fds, Connect!NAddrAssumption
<1>3. \E x \in F : \A y \in F : x <= y
  BY <1>2, LeastNumber
<1> HIDE DEF F
<1>4. Connect!Free = CHOOSE x \in F : \A y \in F : x <= y
  BY <1>1, Zenon DEF Connect!Free, Connect!Min
<1>5. Connect!Free \in F /\ \A y \in F : Connect!Free <= y
  BY <1>3, <1>4, Zenon
<1> QED BY <1>2, <1>5 DEF F

(* One descriptor is changed. *)
LEMMA DescriptorSet ==
  ASSUME NEW f \in [Connect!Fds -> States], NEW x, NEW v \in {"closed", "new", "ready"}
  PROVE  /\ [f EXCEPT ![x] = v] \in [Connect!Fds -> States]
         /\ \A d \in Connect!Fds : [f EXCEPT ![x] = v][d] = IF d = x THEN v ELSE f[d]
<1>1. v \in States
  BY DEF States
<1>2. [f EXCEPT ![x] = v] = [d \in Connect!Fds |-> IF d = x THEN v ELSE f[d]]
  OBVIOUS
<1> QED BY <1>1, <1>2

(* An address is left behind: it has been refused or has failed in another *)
(* call.                                                                   *)
LEMMA AddressLeft ==
  ASSUME SocketTypes, LeftBehind, Connect!NextAddress, ap \in 1 .. list,
         peer[ap] > Connect!Tries \/ ap \in skipped',
         skipped \subseteq skipped', list' = list, peer' = peer, program' = program,
         fd' \in [Connect!Fds -> States]
  PROVE  /\ SocketTypes' /\ Returning' /\ LeftBehind'
         /\ connectPc' \in {"socket", "none"} /\ ap' = ap + 1
<1>1. connectPc' \in {"socket", "none"} /\ tried' = 0 /\ ap' = ap + 1 /\ (connectPc' = "socket" <=> ap < list)
  BY SMT DEF Connect!NextAddress
<1>2. SocketTypes'
  BY <1>1, SMT DEF SocketTypes
<1>3. LeftBehind'
  <2>1. \A a \in 1 .. list : a < ap + 1 => peer[a] > Connect!Tries \/ a \in skipped'
    <3> SUFFICES ASSUME NEW a \in 1 .. list, a < ap + 1 PROVE peer[a] > Connect!Tries \/ a \in skipped'
      OBVIOUS
    <3>1. a < ap \/ a = ap
      BY SMT DEF SocketTypes
    <3> QED BY <3>1 DEF LeftBehind
  <2> QED BY <1>1, <2>1, SMT DEF LeftBehind, Holding, SocketTypes
<1> QED BY <1>1, <1>2, <1>3 DEF Returning

(* Every call, without the descriptors. *)
LEMMA CallKeeps ==
  ASSUME Connect!NAddrAssumption, ConnectInv, Connect!Next
  PROVE  SocketTypes' /\ LeftBehind' /\ Returning'
<1>1. SocketTypes /\ LeftBehind /\ Returning /\ (connectPc \in Holding => sockfd \in Connect!Fds)
  BY SMT DEF ConnectInv, OneSocket, LowSockets
<1>2. CASE Connect!GetAddrInfo
  BY <1>1, <1>2, SMT DEF Connect!GetAddrInfo, Connect!Goto, SocketTypes, LeftBehind, Returning, Holding, Closing,
                         Connect!NAddrAssumption
<1>3. CASE Connect!Socket
  <2>1. connectPc = "socket" /\ ap \in 1 .. list /\ list' = list /\ peer' = peer /\ program' = program
    BY <1>1, <1>3 DEF Connect!Socket, LeftBehind
  <2>2. CASE /\ connectPc' = "setsockopt" /\ sockfd' = Connect!Free /\ fd' = [fd EXCEPT ![Connect!Free] = "new"]
             /\ UNCHANGED <<ap, tried, skipped>>
    <3>1. fd' \in [Connect!Fds -> States]
      BY <1>1, <2>2, DescriptorSet DEF SocketTypes
    <3> QED BY <1>1, <2>1, <2>2, <3>1, SMT DEF SocketTypes, LeftBehind, Returning, Holding, Closing
  <2>3. CASE Connect!NextAddress /\ sockfd' = -1 /\ skipped' = skipped \cup {ap} /\ UNCHANGED fd
    <3>1. fd' \in [Connect!Fds -> States]
      BY <1>1, <2>3 DEF SocketTypes
    <3> QED BY <1>1, <2>1, <2>3, <3>1, AddressLeft
  <2> QED BY <1>3, <2>2, <2>3 DEF Connect!Socket
<1>4. CASE Connect!SetSockOpt
  <2>1. /\ connectPc \in {"setsockopt", "keepalive"} /\ connectPc' \in Closing(program) \cap {"keepalive", "connect", "bind"}
        /\ UNCHANGED <<program, list, ap, tried, sockfd, fd, peer, skipped>>
    BY <1>1, <1>4, SMT DEF Connect!SetSockOpt, Connect!Goto, SocketTypes, Closing, Holding
  <2> QED BY <1>1, <2>1, SMT DEF SocketTypes, LeftBehind, Returning, Holding
<1>5. CASE Connect!SetSockOptFails
  <2>1. /\ connectPc \in Holding /\ ap \in 1 .. list /\ list' = list /\ peer' = peer /\ Connect!NextAddress
        /\ skipped' = skipped \cup {ap} /\ program' = program
    BY <1>1, <1>5, SMT DEF Connect!SetSockOptFails, LeftBehind, Holding
  <2>2. fd' \in [Connect!Fds -> States]
    BY <1>1, <1>5, SMT DEF Connect!SetSockOptFails, SocketTypes, States
  <2> QED BY <1>1, <2>1, <2>2, AddressLeft
<1>6. CASE Connect!Connect
  <2>1. /\ connectPc = "connect" /\ tried' = tried + 1 /\ sockfd \in Connect!Fds /\ ap \in 1 .. list
        /\ UNCHANGED <<program, list, ap, sockfd, peer, skipped>>
    BY <1>1, <1>6 DEF Connect!Connect, LeftBehind, Holding
  <2>2. tried' \in Nat /\ peer[ap] \in Nat /\ program # "udptest"
    BY <1>1, <2>1, SMT DEF SocketTypes, Connect!NAddrAssumption, Closing, Holding
  <2>3. CASE tried' >= peer[ap] /\ connectPc' = "success" /\ fd' = [fd EXCEPT ![sockfd] = "ready"]
    <3>1. fd' \in [Connect!Fds -> States] /\ fd'[sockfd] = "ready"
      BY <1>1, <2>1, <2>3, DescriptorSet DEF SocketTypes
    <3> QED BY <1>1, <2>1, <2>2, <2>3, <3>1, SMT DEF SocketTypes, LeftBehind, Returning, Holding
  <2>4. CASE tried' < peer[ap] /\ UNCHANGED fd /\ connectPc' = IF tried' < Connect!Tries THEN "sleep" ELSE "refused"
    <3>1. connectPc' \in Closing(program) \cap {"sleep", "refused"}
      BY <1>1, <2>1, <2>2, <2>4, SMT DEF Closing, Holding, SocketTypes
    <3>2. connectPc' = "refused" => peer[ap] > Connect!Tries
      BY <2>2, <2>4, SMT DEF Connect!Tries
    <3> QED BY <1>1, <2>1, <2>2, <2>4, <3>1, <3>2, SMT DEF SocketTypes, LeftBehind, Returning, Holding
  <2> QED BY <1>6, <2>3, <2>4 DEF Connect!Connect
<1>7. CASE Connect!Sleep
  BY <1>1, <1>7, SMT DEF Connect!Sleep, Connect!Goto, SocketTypes, LeftBehind, Returning, Holding, Closing
<1>8. CASE Connect!Refused
  <2>1. /\ connectPc = "refused" /\ ap \in 1 .. list /\ list' = list /\ peer' = peer /\ Connect!NextAddress
        /\ skipped' = skipped /\ peer[ap] > Connect!Tries /\ program' = program
        /\ fd' = [fd EXCEPT ![sockfd] = "closed"]
    BY <1>1, <1>8 DEF Connect!Refused, Connect!Close, LeftBehind, Holding
  <2>2. fd' \in [Connect!Fds -> States]
    BY <1>1, <2>1, DescriptorSet DEF SocketTypes
  <2> QED BY <1>1, <2>1, <2>2, AddressLeft
<1>9. CASE Connect!None
  <2>1. /\ connectPc = "none" /\ connectPc' = (IF program = "udptest" THEN "success" ELSE "failed")
        /\ UNCHANGED <<program, list, ap, tried, sockfd, fd, peer, skipped>>
    BY <1>9, SMT DEF Connect!None, Connect!Goto
  <2> QED BY <1>1, <2>1, SMT DEF SocketTypes, LeftBehind, Returning, Holding
<1>10. CASE Connect!Bind
  <2>1. /\ connectPc = "bind" /\ connectPc' = "success" /\ fd' \in {fd, [fd EXCEPT ![sockfd] = "ready"]}
        /\ UNCHANGED <<program, list, ap, tried, sockfd, peer, skipped>>
    BY <1>10 DEF Connect!Bind, Connect!Goto
  <2>2. program = "udptest"
    BY <1>1, <2>1, SMT DEF SocketTypes, Closing, Holding
  <2>3. fd' \in [Connect!Fds -> States]
    BY <1>1, <2>1, DescriptorSet DEF SocketTypes
  <2> QED BY <1>1, <2>1, <2>2, <2>3, SMT DEF SocketTypes, LeftBehind, Returning, Holding
<1>11. CASE Connect!Return
  BY <1>1, <1>11 DEF Connect!Return, Connect!vars, SocketTypes, LeftBehind, Returning
<1> QED
  BY <1>2, <1>3, <1>4, <1>5, <1>6, <1>7, <1>8, <1>9, <1>10, <1>11 DEF Connect!Next, Connect!Call

LEMMA StdOpen ==
  ASSUME Connect!NAddrAssumption
  PROVE  Connect!Std \subseteq Connect!Fds
BY SMT DEF Connect!Fds, Connect!Std, Connect!NAddrAssumption

(* The descriptors in fmc112 and udptest. *)
LEMMA OneSocketKept ==
  ASSUME Connect!NAddrAssumption, ConnectInv, Connect!Next, program # "tcpio"
  PROVE  OneSocket'
<1>1. SocketTypes /\ LeftBehind /\ OneSocket /\ SocketTypes'
  BY CallKeeps DEF ConnectInv
<1>2. CASE Connect!GetAddrInfo
  BY <1>1, <1>2, SMT DEF Connect!GetAddrInfo, Connect!Goto, OneSocket, Holding
<1>3. CASE Connect!Socket
  <2>1. connectPc = "socket"
    BY <1>3 DEF Connect!Socket
  <2>2. (\A d \in Connect!Std : fd[d] = "std") /\ (\A d \in Connect!Fds \ Connect!Std : fd[d] = "closed")
    BY <1>1, <2>1 DEF OneSocket, Holding
  <2>3. CASE connectPc' = "setsockopt" /\ sockfd' = Connect!Free /\ fd' = [fd EXCEPT ![Connect!Free] = "new"]
    <3>1. 3 \in Connect!Fds \ Connect!Std
      BY SMT DEF Connect!Fds, Connect!Std, Connect!NAddrAssumption
    <3>2. Connect!Free \in Connect!Fds \ Connect!Std
      BY <2>2, <3>1, LowestFree
    <3> QED BY <1>1, <2>2, <2>3, <3>2, SMT DEF OneSocket, Holding, SocketTypes
  <2>4. CASE Connect!NextAddress /\ UNCHANGED fd
    <3>1. connectPc' \in {"socket", "none"}
      BY <2>4, SMT DEF Connect!NextAddress
    <3> QED BY <2>2, <2>4, <3>1, SMT DEF OneSocket, Holding
  <2> QED BY <1>3, <2>3, <2>4 DEF Connect!Socket
<1>4. CASE Connect!SetSockOpt
  <2>1. connectPc \in Holding /\ connectPc' \in Holding /\ sockfd' = sockfd /\ fd' = fd
    BY <1>4, SMT DEF Connect!SetSockOpt, Connect!Goto, Holding
  <2> QED BY <1>1, <2>1, SMT DEF OneSocket
<1>5. ASSUME connectPc \in Holding, connectPc' \in {"socket", "none"},
             \A d \in Connect!Fds : fd'[d] = IF d = sockfd THEN "closed" ELSE fd[d]
      PROVE  OneSocket'
  <2>1. \A d \in Connect!Std : fd'[d] = "std"
    BY <1>1, <1>5, StdOpen DEF OneSocket
  <2>2. \A d \in Connect!Fds \ Connect!Std : fd'[d] = "closed"
    BY <1>1, <1>5, SMT DEF OneSocket
  <2> QED BY <1>5, <2>1, <2>2, SMT DEF OneSocket, Holding
<1>6. CASE Connect!SetSockOptFails
  <2>1. connectPc \in Holding /\ connectPc' \in {"socket", "none"}
    BY <1>6, SMT DEF Connect!SetSockOptFails, Connect!NextAddress, Holding
  <2>2. \A d \in Connect!Fds : fd'[d] = IF d = sockfd THEN "closed" ELSE fd[d]
    BY <1>6, SMT DEF Connect!SetSockOptFails, Connect!OptionCloses
  <2> QED BY <1>5, <2>1, <2>2
<1>7. CASE Connect!Connect \/ Connect!Bind
  <2>1. /\ connectPc \in Holding /\ connectPc' \in Holding \cup {"success"} /\ sockfd' = sockfd
        /\ fd' = fd \/ fd' = [fd EXCEPT ![sockfd] = "ready"]
    BY <1>7, SMT DEF Connect!Connect, Connect!Bind, Connect!Goto, Holding
  <2>2. /\ sockfd \in Connect!Fds \ Connect!Std /\ Connect!Std \subseteq Connect!Fds
        /\ \A d \in Connect!Fds : d # sockfd => fd'[d] = fd[d]
    BY <1>1, <2>1, StdOpen, DescriptorSet DEF OneSocket, SocketTypes
  <2> QED BY <1>1, <2>1, <2>2, SMT DEF OneSocket
<1>8. CASE Connect!Sleep
  BY <1>1, <1>8, SMT DEF Connect!Sleep, Connect!Goto, OneSocket, Holding
<1>9. CASE Connect!Refused
  <2>1. \A d \in Connect!Fds : fd'[d] = IF d = sockfd THEN "closed" ELSE fd[d]
    BY <1>1, <1>9, DescriptorSet DEF Connect!Refused, Connect!Close, SocketTypes
  <2>2. connectPc \in Holding /\ connectPc' \in {"socket", "none"}
    BY <1>9, SMT DEF Connect!Refused, Connect!NextAddress, Holding
  <2> QED BY <1>5, <2>1, <2>2
<1>10. CASE Connect!None
  BY <1>1, <1>10, SMT DEF Connect!None, Connect!Goto, OneSocket, Holding
<1>11. CASE Connect!Return
  BY <1>1, <1>11 DEF Connect!Return, Connect!vars, OneSocket
<1> QED
  BY <1>2, <1>3, <1>4, <1>6, <1>7, <1>8, <1>9, <1>10, <1>11 DEF Connect!Next, Connect!Call

(* The descriptors in tcpio. *)
LEMMA LowSocketsKept ==
  ASSUME Connect!NAddrAssumption, ConnectInv, Connect!Next, program = "tcpio"
  PROVE  LowSockets'
<1>1. SocketTypes /\ LeftBehind /\ LowSockets
  BY DEF ConnectInv
<1>2. CASE Connect!GetAddrInfo
  BY <1>1, <1>2, SMT DEF Connect!GetAddrInfo, Connect!Goto, LowSockets, Holding
<1>3. ASSUME connectPc \in Holding, Connect!NextAddress,
             \A d \in Connect!Fds : fd[d] = "closed" => fd'[d] = "closed"
      PROVE  LowSockets'
  <2>1. connectPc' \in {"socket", "none"} /\ ap' = ap + 1 /\ ap + 3 = ap + 1 + 2
    BY <1>1, <1>3, SMT DEF Connect!NextAddress, SocketTypes
  <2> QED BY <1>1, <1>3, <2>1, SMT DEF LowSockets, Holding
<1>4. CASE Connect!Socket
  <2>1. connectPc = "socket" /\ ap \in 1 .. list
    BY <1>1, <1>4 DEF Connect!Socket, LeftBehind
  <2>2. \A d \in Connect!Fds : d >= ap + 2 => fd[d] = "closed"
    BY <1>1, <2>1 DEF LowSockets
  <2>3. CASE connectPc' = "setsockopt" /\ sockfd' = Connect!Free /\ fd' = [fd EXCEPT ![Connect!Free] = "new"] /\ ap' = ap
    <3>1. ap + 2 \in Connect!Fds /\ ap + 2 >= ap + 2
      BY <1>1, <2>1, SMT DEF Connect!Fds, Connect!NAddrAssumption, SocketTypes
    <3>2. Connect!Free \in Connect!Fds /\ Connect!Free <= ap + 2
      BY <2>2, <3>1, LowestFree
    <3>3. \A d \in Connect!Fds : d >= ap + 3 => d >= ap + 2 /\ d # Connect!Free
      BY <1>1, <3>2, SMT DEF Connect!Fds, Connect!NAddrAssumption, SocketTypes
    <3> QED BY <1>1, <2>2, <2>3, <3>2, <3>3, SMT DEF LowSockets, Holding, SocketTypes
  <2>4. CASE Connect!NextAddress /\ UNCHANGED fd
    <3>1. connectPc' \in {"socket", "none"} /\ ap' = ap + 1
      BY <2>4, SMT DEF Connect!NextAddress
    <3>2. \A d \in Connect!Fds : d >= ap + 1 + 2 => d >= ap + 2
      BY <1>1, SMT DEF Connect!Fds, Connect!NAddrAssumption, SocketTypes
    <3> QED BY <2>2, <2>4, <3>1, <3>2, SMT DEF LowSockets, Holding
  <2> QED BY <1>4, <2>3, <2>4 DEF Connect!Socket
<1>5. CASE Connect!SetSockOpt
  <2>1. connectPc \in Holding /\ connectPc' \in Holding /\ sockfd' = sockfd /\ fd' = fd /\ ap' = ap
    BY <1>5, SMT DEF Connect!SetSockOpt, Connect!Goto, Holding
  <2> QED BY <1>1, <2>1, SMT DEF LowSockets, Holding
<1>6. CASE Connect!SetSockOptFails
  BY <1>3, <1>6, SMT DEF Connect!SetSockOptFails, Holding
<1>7. CASE Connect!Connect
  BY <1>1, <1>7, SMT DEF Connect!Connect, LowSockets, Holding, SocketTypes
<1>8. CASE Connect!Sleep
  BY <1>1, <1>8, SMT DEF Connect!Sleep, Connect!Goto, LowSockets, Holding
<1>9. CASE Connect!Refused
  <2>1. \A d \in Connect!Fds : fd'[d] = IF d = sockfd THEN "closed" ELSE fd[d]
    BY <1>1, <1>9, DescriptorSet DEF Connect!Refused, Connect!Close, SocketTypes
  <2> QED BY <1>3, <1>9, <2>1 DEF Connect!Refused, Holding
<1>10. CASE Connect!None
  BY <1>1, <1>10, SMT DEF Connect!None, Connect!Goto, LowSockets, Holding
<1>11. CASE Connect!Bind
  BY <1>1, <1>11, SMT DEF Connect!Bind, Connect!Goto, LowSockets, Holding
<1>12. CASE Connect!Return
  BY <1>1, <1>12 DEF Connect!Return, Connect!vars, LowSockets
<1> QED
  BY <1>2, <1>4, <1>5, <1>6, <1>7, <1>8, <1>9, <1>10, <1>11, <1>12 DEF Connect!Next, Connect!Call

LEMMA StepConnect ==
  ASSUME Connect!NAddrAssumption, ConnectInv, [Connect!Next]_(Connect!vars)
  PROVE  ConnectInv'
<1>1. CASE Connect!Next
  <2>1. program' = program
    BY <1>1 DEF Connect!Next, Connect!Call, Connect!Return, Connect!GetAddrInfo, Connect!Socket, Connect!SetSockOpt,
                Connect!SetSockOptFails, Connect!Connect, Connect!Sleep, Connect!Refused, Connect!None, Connect!Bind,
                Connect!vars
  <2> QED BY <1>1, <2>1, CallKeeps, OneSocketKept, LowSocketsKept DEF ConnectInv
<1>2. CASE UNCHANGED Connect!vars
  BY <1>2 DEF Connect!vars, ConnectInv, SocketTypes, Returning, LeftBehind, OneSocket, LowSockets
<1> QED BY <1>1, <1>2

LEMMA SocketsAreRight ==
  ASSUME ConnectInv
  PROVE  /\ program # "udptest" => Connect!SocketReady
         /\ program # "tcpio" => Connect!StandardStreams
         /\ program = "fmc112" => Connect!NothingLeftOpen /\ Connect!GivenUpOnlyWhenRefused
<1>1. program # "udptest" => Connect!SocketReady
  BY SMT DEF ConnectInv, Returning, Connect!SocketReady, Connect!Returned, Connect!Result
<1>2. program # "tcpio" => Connect!StandardStreams
  BY DEF ConnectInv, OneSocket, Connect!StandardStreams
<1>3. program = "fmc112" => Connect!NothingLeftOpen
  BY SMT DEF ConnectInv, OneSocket, Holding, Connect!NothingLeftOpen, Connect!Returned, Connect!Result, Connect!Open
<1>4. Connect!GivenUpOnlyWhenRefused
  BY SMT DEF ConnectInv, LeftBehind, SocketTypes, Connect!GivenUpOnlyWhenRefused
<1> QED BY <1>1, <1>2, <1>3, <1>4
-----------------------------------------------------------------------------
(* The packet counter of udptest.  Packets that are on their way come      *)
(* after those that were read, in order; any other is read or lost.        *)
UdpTypes ==
  /\ first \in FirstCounts /\ first \in Nat /\ pktCtr \in Nat /\ first <= pktCtr /\ pktCtr <= first + Packets
  /\ udptestNet \in Seq(Nat) /\ lost \subseteq first .. pktCtr - 1 /\ udptestGot \subseteq first .. pktCtr - 1
  /\ errcnt \in Int /\ i \in Nat /\ udptestTimeouts \in Nat /\ buf \in Nat /\ cnt1 \in Nat
NetInOrder ==
  /\ \A n \in 1 .. Len(udptestNet) : udptestNet[n] \in first .. pktCtr - 1 /\ udptestNet[n] \notin lost
  /\ \A n \in 1 .. Len(udptestNet), g \in udptestGot : g < udptestNet[n]
  /\ \A m, n \in 1 .. Len(udptestNet) : m < n => udptestNet[m] < udptestNet[n]
EveryPacket ==
  /\ \A p \in first .. pktCtr - 1 :
       p \in udptestGot \/ p \in lost \/ \E n \in 1 .. Len(udptestNet) : udptestNet[n] = p
  /\ \A p \in lost : p \notin udptestGot

(* What the loop has counted.                                              *)
Missed == {p \in lost : /\ p - 1 \in udptestGot
                        /\ \E q \in udptestGot : q > p /\ p .. q - 1 \subseteq lost}
Counted ==
  /\ IF i = 0 THEN cnt1 = 0 /\ udptestGot = {} ELSE cnt1 = buf
  /\ udptestGot = {} => buf \in Before /\ errcnt = udptestTimeouts - 1 /\ start # 1
  /\ udptestGot # {} => /\ buf \in udptestGot /\ \A g \in udptestGot : g <= buf
                        /\ errcnt = Cardinality(Missed) + udptestTimeouts - Udp!Hidden

UdpInv == UdpTypes /\ NetInOrder /\ EveryPacket /\ Counted

LEMMA InitUdp ==
  ASSUME Udp!ReadsAssumption, Udp!CountsAssumption, Udp!Init
  PROVE  UdpInv
<1>1. /\ first \in FirstCounts /\ pktCtr = first /\ udptestNet = <<>> /\ lost = {}
      /\ buf \in Before /\ cnt1 = 0 /\ errcnt = -1 /\ i = 0 /\ udptestGot = {} /\ udptestTimeouts = 0 /\ start = 0
  BY DEF Udp!Init
<1>2. first \in Nat /\ buf \in Nat /\ Packets \in Nat
  BY <1>1 DEF Udp!CountsAssumption, Udp!ReadsAssumption
<1>3. UdpTypes
  BY <1>1, <1>2, SMT DEF UdpTypes
<1>4. NetInOrder /\ EveryPacket
  BY <1>1, <1>2, SMT DEF NetInOrder, EveryPacket
<1>5. Counted
  BY <1>1, SMT DEF Counted
<1> QED BY <1>3, <1>4, <1>5 DEF UdpInv

(* The network without the packet in place k. *)
LEMMA Splice ==
  ASSUME NEW l \in Nat, NEW k \in 1 .. l
  PROVE  /\ (k - 1) + (l - k) = l - 1
         /\ \A n \in 1 .. l - 1 :
              /\ n < k => n <= k - 1 /\ n \in 1 .. k - 1
              /\ ~(n < k) => ~(n <= k - 1) /\ n - (k - 1) \in 1 .. l - k /\ n - (k - 1) + k = n + 1
BY SMT

LEMMA Removed ==
  ASSUME NEW s \in Seq(Nat), NEW k \in 1 .. Len(s), NEW r, r = SubSeq(s, 1, k - 1) \o SubSeq(s, k + 1, Len(s))
  PROVE  /\ r \in Seq(Nat) /\ Len(r) = Len(s) - 1
         /\ \A n \in 1 .. Len(r) : r[n] = IF n < k THEN s[n] ELSE s[n + 1]
<1> DEFINE a == SubSeq(s, 1, k - 1)
<1> DEFINE b == SubSeq(s, k + 1, Len(s))
<1>1. Len(s) \in Nat /\ k \in Int /\ 1 <= k /\ k <= Len(s) /\ k - 1 \in Int /\ k + 1 \in Int /\ 1 \in Int
  BY SMT
<1>2. a \in Seq(Nat) /\ Len(a) = k - 1 /\ \A n \in 1 .. k - 1 : a[n] = s[n]
  <2>1. \A n \in 1 .. k - 1 : s[n] \in Nat
    BY <1>1, SMT
  <2>2. /\ a \in Seq(Nat) /\ Len(a) = (IF 1 <= k - 1 THEN k - 1 - 1 + 1 ELSE 0)
        /\ \A n \in 1 .. k - 1 - 1 + 1 : a[n] = s[1 + n - 1]
    BY <1>1, <2>1, SubSeqProperties, SMTT(60)
  <2> HIDE DEF a
  <2> QED BY <1>1, <2>2, SMT
<1>3. b \in Seq(Nat) /\ Len(b) = Len(s) - k /\ \A n \in 1 .. Len(s) - k : b[n] = s[n + k]
  <2>1. \A n \in k + 1 .. Len(s) : s[n] \in Nat
    BY <1>1, SMT
  <2>2. /\ b \in Seq(Nat) /\ Len(b) = (IF k + 1 <= Len(s) THEN Len(s) - (k + 1) + 1 ELSE 0)
        /\ \A n \in 1 .. Len(s) - (k + 1) + 1 : b[n] = s[k + 1 + n - 1]
    BY <1>1, <2>1, SubSeqProperties, SMTT(60)
  <2> HIDE DEF b
  <2>3. \A n \in 1 .. Len(s) - k : n \in 1 .. Len(s) - (k + 1) + 1 /\ k + 1 + n - 1 = n + k
    BY <1>1, SMT
  <2>4. Len(b) = Len(s) - k
    BY <1>1, <2>2, SMT
  <2>5. ASSUME NEW n \in 1 .. Len(s) - k PROVE b[n] = s[n + k]
    <3>1. b[n] = s[k + 1 + n - 1] /\ k + 1 + n - 1 = n + k
      BY <2>2, <2>3, Zenon
    <3> QED BY <3>1, Zenon
  <2> QED BY <2>2, <2>4, <2>5, Zenon
<1> HIDE DEF a, b
<1>4. r = a \o b
  BY DEF a, b
<1>5. a \o b \in Seq(Nat) /\ Len(a \o b) = Len(a) + Len(b)
      /\ \A n \in 1 .. Len(a) + Len(b) : (a \o b)[n] = IF n <= Len(a) THEN a[n] ELSE b[n - Len(a)]
  BY <1>2, <1>3, ConcatProperties, Zenon
<1>6. /\ r \in Seq(Nat) /\ Len(r) = (k - 1) + (Len(s) - k)
      /\ \A n \in 1 .. (k - 1) + (Len(s) - k) : r[n] = IF n <= k - 1 THEN a[n] ELSE b[n - (k - 1)]
  BY <1>2, <1>3, <1>4, <1>5, Zenon
<1>7. /\ Len(r) = Len(s) - 1
      /\ \A n \in 1 .. Len(s) - 1 : r[n] = IF n <= k - 1 THEN a[n] ELSE b[n - (k - 1)]
  BY <1>1, <1>6, Splice, Zenon
<1>8. ASSUME NEW n \in 1 .. Len(s) - 1 PROVE r[n] = IF n < k THEN s[n] ELSE s[n + 1]
  <2>1. CASE n < k
    <3>1. n \in 1 .. k - 1 /\ n <= k - 1
      BY <1>1, <2>1, Splice
    <3> QED BY <1>2, <1>7, <2>1, <3>1, Zenon
  <2>2. CASE ~(n < k)
    <3>1. ~(n <= k - 1) /\ n - (k - 1) \in 1 .. Len(s) - k /\ n - (k - 1) + k = n + 1
      BY <1>1, <2>2, Splice
    <3> QED BY <1>3, <1>7, <2>2, <3>1, Zenon
  <2> QED BY <2>1, <2>2
<1> QED BY <1>6, <1>7, <1>8, Zenon

LEMMA MissedFinite ==
  ASSUME UdpTypes
  PROVE  IsFiniteSet(Missed) /\ Cardinality(Missed) \in Nat
<1>1. IsFiniteSet(first .. pktCtr - 1)
  BY FS_Interval, SMT DEF UdpTypes
<1>2. Missed \subseteq first .. pktCtr - 1
  BY DEF Missed, UdpTypes
<1> QED BY <1>1, <1>2, FS_Subset, FS_CardinalityType

(* A packet that gets lost comes after all that were read. *)
LEMMA MissedKept ==
  ASSUME UdpTypes, NEW x \in Nat, \A g \in udptestGot : g < x, lost' = lost \cup {x}, udptestGot' = udptestGot
  PROVE  Missed' = Missed
<1>1. lost \subseteq Nat /\ udptestGot \subseteq Nat
  BY SMT DEF UdpTypes
<1>2. ASSUME NEW p \in Missed' PROVE p \in Missed
  <2>1. PICK q \in udptestGot : q > p /\ p .. q - 1 \subseteq lost \cup {x}
    BY <1>2 DEF Missed
  <2>2. p \in lost \cup {x} /\ p - 1 \in udptestGot
    BY <1>2 DEF Missed
  <2>3. q < x /\ q \in Nat /\ p \in Nat /\ p < x /\ p # x
    BY <1>1, <2>1, <2>2, SMT
  <2>4. x \notin p .. q - 1
    BY <2>3, SMT
  <2> QED BY <2>1, <2>2, <2>3, <2>4 DEF Missed
<1>3. ASSUME NEW p \in Missed PROVE p \in Missed'
  BY <1>3 DEF Missed
<1> QED BY <1>2, <1>3

(* The first packet that is read ends no run; a later one ends one, unless *)
(* it is the next number.                                                  *)
LEMMA MissedFirst ==
  ASSUME NEW y \in Nat, udptestGot' = {y}, UdpTypes, lost' = lost
  PROVE  Missed' = {}
<1> SUFFICES ASSUME NEW p \in Missed' PROVE FALSE
  OBVIOUS
<1>1. p \in lost /\ p - 1 = y /\ y > p
  BY DEF Missed
<1> QED BY <1>1, SMT DEF UdpTypes

LEMMA MissedNext ==
  ASSUME UdpTypes, NetInOrder, EveryPacket, NEW m \in udptestGot, \A g \in udptestGot : g <= m,
         NEW y \in first .. pktCtr - 1, m < y, y \notin lost, udptestGot' = udptestGot \cup {y}, lost' = lost,
         \A n \in 1 .. Len(udptestNet) : y <= udptestNet[n]
  PROVE  /\ y = m + 1 => Missed' = Missed
         /\ y # m + 1 => Missed' = Missed \cup {m + 1} /\ m + 1 \notin Missed
<1>1. lost \subseteq Nat /\ udptestGot \subseteq Nat /\ m \in Nat /\ y \in Nat /\ first <= m /\ y <= pktCtr - 1
  BY SMT DEF UdpTypes
<1>2. Missed \subseteq Missed'
  <2> SUFFICES ASSUME NEW p \in Missed PROVE p \in Missed'
    OBVIOUS
  <2> QED BY DEF Missed
<1>3. ASSUME NEW p \in Missed', p \notin Missed PROVE p = m + 1 /\ y # m + 1
  <2>1. p \in lost /\ p - 1 \in udptestGot \cup {y}
    BY <1>3 DEF Missed
  <2>2. PICK q \in udptestGot \cup {y} : q > p /\ p .. q - 1 \subseteq lost
    BY <1>3 DEF Missed
  <2>3. p \in Nat /\ q \in Nat /\ q <= y /\ \A g \in udptestGot : g \in Nat /\ g <= m
    BY <1>1, <2>1, <2>2, SMT
  <2>4. p - 1 # y
    BY <1>1, <2>2, <2>3, SMT
  <2>5. p - 1 \in udptestGot /\ p <= m + 1
    BY <1>1, <2>1, <2>3, <2>4, SMT
  <2>6. q = y
    BY <1>3, <2>1, <2>2, <2>5 DEF Missed
  <2>7. m \notin p .. y - 1
    BY <2>2, <2>6 DEF EveryPacket
  <2>8. p = m + 1
    BY <1>1, <2>3, <2>5, <2>7, SMT
  <2> QED BY <1>1, <2>2, <2>6, <2>8, SMT
<1>4. m + 1 \notin Missed
  <2> SUFFICES ASSUME m + 1 \in Missed PROVE FALSE
    OBVIOUS
  <2>1. PICK q \in udptestGot : q > m + 1
    BY DEF Missed
  <2> QED BY <1>1, <2>1, SMT
<1>5. ASSUME y # m + 1 PROVE m + 1 \in Missed'
  <2>1. ASSUME NEW p \in m + 1 .. y - 1 PROVE p \in lost
    <3>1. p \in first .. pktCtr - 1 /\ ~(p <= m) /\ ~(y <= p)
      BY <1>1, <2>1, SMT DEF UdpTypes
    <3>2. p \notin udptestGot /\ \A n \in 1 .. Len(udptestNet) : udptestNet[n] # p
      BY <3>1
    <3> QED BY <3>1, <3>2 DEF EveryPacket
  <2>2. m + 1 \in m + 1 .. y - 1 /\ m + 1 - 1 = m /\ y > m + 1
    BY <1>1, <1>5, SMT
  <2>3. m + 1 \in lost' /\ m + 1 .. y - 1 \subseteq lost'
    BY <2>1, <2>2
  <2>4. y \in udptestGot' /\ m + 1 - 1 \in udptestGot'
    BY <2>2
  <2>5. \E q \in udptestGot' : q > m + 1 /\ m + 1 .. q - 1 \subseteq lost'
    BY <2>2, <2>3, <2>4
  <2> QED BY <2>3, <2>4, <2>5 DEF Missed
<1> QED BY <1>2, <1>3, <1>4, <1>5

(* One turn of the loop with n in the buffer. *)
LEMMA Turn ==
  ASSUME UdpTypes, Counted, NEW n \in Nat, Udp!Count(n)
  PROVE  /\ cnt1' = n /\ buf' = n /\ i' = i + 1 /\ i' # 0 /\ i' \in Nat /\ errcnt' \in Int
         /\ errcnt' = errcnt + (IF n = (IF i = 0 THEN 1 ELSE buf + 1) THEN 0 ELSE 1)
         /\ start' = IF i = 0 THEN n ELSE start
<1>1. /\ cnt1' = n /\ buf' = n /\ i' = i + 1 /\ start' = (IF i = 0 THEN n ELSE start)
      /\ errcnt' = IF n - cnt1 # 1 THEN errcnt + 1 ELSE errcnt
  BY DEF Udp!Count
<1>2. errcnt \in Int /\ i \in Nat /\ buf \in Nat /\ cnt1 = IF i = 0 THEN 0 ELSE buf
  BY SMT DEF UdpTypes, Counted
<1> QED BY <1>1, <1>2, SMT

LEMMA ReceiveUdp ==
  ASSUME Udp!ReadsAssumption, Udp!CountsAssumption, UdpInv, Udp!Receive
  PROVE  UdpInv'
<1>1. UdpTypes /\ NetInOrder /\ EveryPacket /\ Counted
  BY DEF UdpInv
<1> DEFINE y == Head(udptestNet)
<1>2. /\ udptestNet # <<>> /\ udptestNet' = Tail(udptestNet) /\ udptestGot' = udptestGot \cup {y} /\ Udp!Count(y)
      /\ UNCHANGED <<pktCtr, first, lost, udptestTimeouts>>
  BY DEF Udp!Receive
<1>3. udptestNet \in Seq(Nat) /\ Len(udptestNet) \in Nat /\ Len(udptestNet) # 0 /\ y = udptestNet[1]
  BY <1>1, <1>2 DEF UdpTypes
<1>4. /\ udptestNet' \in Seq(Nat) /\ Len(udptestNet') = Len(udptestNet) - 1
      /\ \A n \in 1 .. Len(udptestNet') : udptestNet'[n] = udptestNet[n + 1]
  BY <1>2, <1>3, HeadTailProperties
<1>5. 1 \in 1 .. Len(udptestNet) /\ \A n \in 1 .. Len(udptestNet') : n + 1 \in 1 .. Len(udptestNet) /\ 1 < n + 1
  BY <1>3, <1>4, SMT
<1>6. /\ y \in first .. pktCtr - 1 /\ y \notin lost /\ y \in Nat
      /\ \A g \in udptestGot : g < y
      /\ \A n \in 1 .. Len(udptestNet') : y < udptestNet'[n]
  <2>1. y \in first .. pktCtr - 1 /\ y \notin lost /\ \A g \in udptestGot : g < y
    BY <1>1, <1>3, <1>5 DEF NetInOrder
  <2>2. \A n \in 1 .. Len(udptestNet') : y < udptestNet'[n]
    BY <1>1, <1>3, <1>4, <1>5 DEF NetInOrder
  <2> QED BY <1>1, <2>1, <2>2, SMT DEF UdpTypes
<1>7. \A n \in 1 .. Len(udptestNet) : n = 1 \/ (n - 1 \in 1 .. Len(udptestNet') /\ n - 1 + 1 = n)
  BY <1>3, <1>4, SMT
<1> HIDE DEF y
<1>8. /\ cnt1' = y /\ buf' = y /\ i' = i + 1 /\ i' # 0 /\ i' \in Nat /\ errcnt' \in Int
      /\ errcnt' = errcnt + (IF y = (IF i = 0 THEN 1 ELSE buf + 1) THEN 0 ELSE 1)
      /\ start' = IF i = 0 THEN y ELSE start
  BY <1>1, <1>2, <1>6, Turn
<1>9. UdpTypes'
  BY <1>1, <1>2, <1>4, <1>6, <1>8 DEF UdpTypes
<1>10. NetInOrder'
  <2>1. \A n \in 1 .. Len(udptestNet') : udptestNet'[n] \in first .. pktCtr - 1 /\ udptestNet'[n] \notin lost
    BY <1>1, <1>4, <1>5 DEF NetInOrder
  <2>2. \A n \in 1 .. Len(udptestNet'), g \in udptestGot' : g < udptestNet'[n]
    BY <1>1, <1>2, <1>4, <1>5, <1>6 DEF NetInOrder
  <2>3. ASSUME NEW m \in 1 .. Len(udptestNet'), NEW n \in 1 .. Len(udptestNet'), m < n
        PROVE  udptestNet'[m] < udptestNet'[n]
    <3>1. m + 1 < n + 1
      BY <2>3, SMT
    <3> QED BY <1>1, <1>4, <1>5, <3>1 DEF NetInOrder
  <2> QED BY <1>2, <2>1, <2>2, <2>3 DEF NetInOrder
<1>11. EveryPacket'
  <2>1. ASSUME NEW p \in first .. pktCtr - 1, p \notin udptestGot', p \notin lost
        PROVE  \E n \in 1 .. Len(udptestNet') : udptestNet'[n] = p
    <3>1. PICK n \in 1 .. Len(udptestNet) : udptestNet[n] = p
      BY <1>1, <1>2, <2>1 DEF EveryPacket
    <3>2. n # 1
      BY <1>2, <1>3, <2>1, <3>1
    <3> QED BY <1>4, <1>7, <3>1, <3>2
  <2>2. \A p \in lost : p \notin udptestGot'
    BY <1>1, <1>2, <1>6 DEF EveryPacket
  <2> QED BY <1>2, <2>1, <2>2 DEF EveryPacket
<1>12. Counted'
  <2>1. IsFiniteSet(Missed) /\ Cardinality(Missed) \in Nat
    BY <1>1, MissedFinite
  <2>2. udptestGot' # {} /\ y \in udptestGot' /\ \A g \in udptestGot' : g <= y
    BY <1>1, <1>2, <1>6, SMT DEF UdpTypes
  <2>3. errcnt \in Int /\ udptestTimeouts \in Nat /\ buf \in Nat
    BY <1>1 DEF UdpTypes
  <2>4. errcnt' = Cardinality(Missed') + udptestTimeouts - Udp!Hidden'
    <3>1. CASE udptestGot = {}
      <4>1. Missed' = {}
        BY <1>1, <1>2, <1>6, <3>1, MissedFirst
      <4>2. Cardinality(Missed') = 0
        BY <4>1, FS_EmptySet
      <4>3. buf \in Before /\ errcnt = udptestTimeouts - 1 /\ start # 1
        BY <1>1, <3>1 DEF Counted
      <4>4. y # buf + 1
        <5>1. y \in first .. first + Packets /\ first \in FirstCounts
          BY <1>1, <1>6, SMT DEF UdpTypes, Udp!ReadsAssumption
        <5> QED BY <4>3, <5>1 DEF Udp!CountsAssumption
      <4>5. CASE i = 0
        BY <1>6, <1>8, <2>3, <4>2, <4>3, <4>5, SMT DEF Udp!Hidden
      <4>6. CASE i # 0
        BY <1>6, <1>8, <2>3, <4>2, <4>3, <4>4, <4>6, SMT DEF Udp!Hidden
      <4> QED BY <4>5, <4>6
    <3>2. CASE udptestGot # {}
      <4>1. /\ i # 0 /\ buf \in udptestGot /\ (\A g \in udptestGot : g <= buf)
            /\ errcnt = Cardinality(Missed) + udptestTimeouts - Udp!Hidden
        BY <1>1, <3>2 DEF Counted
      <4>2. Udp!Hidden' = Udp!Hidden /\ Udp!Hidden \in Int
        BY <1>8, <4>1 DEF Udp!Hidden
      <4>3. buf < y /\ \A n \in 1 .. Len(udptestNet) : y <= udptestNet[n]
        <5>1. buf < y
          BY <1>6, <4>1
        <5>2. \A n \in 1 .. Len(udptestNet) : udptestNet[n] \in Nat
          BY <1>3
        <5>3. \A n \in 1 .. Len(udptestNet) : n = 1 \/ y < udptestNet[n]
          BY <1>4, <1>6, <1>7
        <5> QED BY <1>3, <1>6, <5>1, <5>2, <5>3, SMT
      <4>4. /\ y = buf + 1 => Missed' = Missed
            /\ y # buf + 1 => Missed' = Missed \cup {buf + 1} /\ buf + 1 \notin Missed
        BY <1>1, <1>2, <1>6, <4>1, <4>3, MissedNext
      <4>5. CASE y = buf + 1
        BY <1>8, <2>1, <2>3, <4>1, <4>2, <4>4, <4>5, SMT
      <4>6. CASE y # buf + 1
        <5>1. Cardinality(Missed') = Cardinality(Missed) + 1
          BY <2>1, <4>4, <4>6, FS_AddElement
        <5> QED BY <1>8, <2>1, <2>3, <4>1, <4>2, <4>6, <5>1, SMT
      <4> QED BY <4>5, <4>6
    <3> QED BY <3>1, <3>2
  <2> QED BY <1>2, <1>8, <2>2, <2>4 DEF Counted
<1> QED BY <1>9, <1>10, <1>11, <1>12 DEF UdpInv

LEMMA SendUdp ==
  ASSUME Udp!ReadsAssumption, UdpInv, Udp!Send
  PROVE  UdpInv'
<1>1. UdpTypes /\ NetInOrder /\ EveryPacket /\ Counted
  BY DEF UdpInv
<1>2. /\ pktCtr < first + Packets /\ udptestNet' = Append(udptestNet, pktCtr) /\ pktCtr' = pktCtr + 1
      /\ UNCHANGED <<first, lost, buf, cnt1, errcnt, i, udptestGot, udptestTimeouts, start>>
  BY DEF Udp!Send, Udp!main
<1>3. udptestNet \in Seq(Nat) /\ pktCtr \in Nat /\ first \in Nat /\ first <= pktCtr /\ Packets \in Nat
  BY <1>1 DEF UdpTypes, Udp!ReadsAssumption
<1> DEFINE l == Len(udptestNet)
<1>4. /\ udptestNet' \in Seq(Nat) /\ Len(udptestNet') = l + 1
      /\ (\A n \in 1 .. l : udptestNet'[n] = udptestNet[n]) /\ udptestNet'[l + 1] = pktCtr
  BY <1>2, <1>3, AppendProperties
<1>5. l \in Nat
  BY <1>3
<1> HIDE DEF l
<1>6. \A n \in 1 .. l + 1 : n \in 1 .. l \/ n = l + 1
  BY <1>5, SMT
<1>7. l + 1 \in 1 .. l + 1 /\ (\A n \in 1 .. l : n \in 1 .. l + 1 /\ n < l + 1 /\ ~(l + 1 < n)) /\ ~(l + 1 < l + 1)
  BY <1>5, SMT
<1>8. \A p : p \in first .. pktCtr' - 1 <=> (p \in first .. pktCtr - 1 \/ p = pktCtr)
  BY <1>2, <1>3, SMT
<1>9. /\ lost \subseteq first .. pktCtr - 1 /\ udptestGot \subseteq first .. pktCtr - 1
      /\ (\A p \in first .. pktCtr - 1 : p < pktCtr) /\ pktCtr \notin first .. pktCtr - 1
  BY <1>1, <1>3, SMT DEF UdpTypes
<1>10. UdpTypes'
  <2>1. pktCtr' \in Nat /\ first <= pktCtr' /\ pktCtr' <= first + Packets
    BY <1>2, <1>3, SMT
  <2>2. lost \subseteq first .. pktCtr' - 1 /\ udptestGot \subseteq first .. pktCtr' - 1
    BY <1>8, <1>9
  <2> QED BY <1>1, <1>2, <1>4, <2>1, <2>2 DEF UdpTypes
<1>11. NetInOrder'
  <2>1. \A n \in 1 .. l : udptestNet[n] \in first .. pktCtr - 1 /\ udptestNet[n] \notin lost
    BY <1>1 DEF NetInOrder, l
  <2>2. \A m, n \in 1 .. l : m < n => udptestNet[m] < udptestNet[n]
    BY <1>1 DEF NetInOrder, l
  <2>3. \A n \in 1 .. l, g \in udptestGot : g < udptestNet[n]
    BY <1>1 DEF NetInOrder, l
  <2>4. \A n \in 1 .. l + 1 : udptestNet'[n] \in first .. pktCtr' - 1 /\ udptestNet'[n] \notin lost
    BY <1>4, <1>6, <1>8, <1>9, <2>1
  <2>5. \A n \in 1 .. l + 1, g \in udptestGot : g < udptestNet'[n]
    BY <1>4, <1>6, <1>9, <2>3
  <2>6. ASSUME NEW m \in 1 .. l + 1, NEW n \in 1 .. l + 1, m < n PROVE udptestNet'[m] < udptestNet'[n]
    <3>1. m \in 1 .. l
      BY <1>5, <2>6, SMT
    <3> QED BY <1>4, <1>6, <1>9, <2>1, <2>2, <2>6, <3>1
  <2> QED BY <1>2, <1>4, <2>4, <2>5, <2>6 DEF NetInOrder
<1>12. EveryPacket'
  <2>1. \A p \in first .. pktCtr - 1 : p \in udptestGot \/ p \in lost \/ \E n \in 1 .. l : udptestNet[n] = p
    BY <1>1 DEF EveryPacket, l
  <2>2. \A p \in first .. pktCtr' - 1 : p \in udptestGot \/ p \in lost \/ \E n \in 1 .. l + 1 : udptestNet'[n] = p
    BY <1>4, <1>7, <1>8, <2>1
  <2> QED BY <1>1, <1>2, <1>4, <2>2 DEF EveryPacket
<1>13. Counted'
  BY <1>1, <1>2 DEF Counted, Missed, Udp!Hidden
<1> QED BY <1>10, <1>11, <1>12, <1>13 DEF UdpInv

LEMMA LoseUdp ==
  ASSUME UdpInv, Udp!Lose
  PROVE  UdpInv'
<1>1. UdpTypes /\ NetInOrder /\ EveryPacket /\ Counted
  BY DEF UdpInv
<1>2. udptestNet \in Seq(Nat) /\ Len(udptestNet) \in Nat
  BY <1>1 DEF UdpTypes
<1>3. PICK k \in DOMAIN udptestNet :
        /\ lost' = lost \cup {udptestNet[k]}
        /\ udptestNet' = SubSeq(udptestNet, 1, k - 1) \o SubSeq(udptestNet, k + 1, Len(udptestNet))
        /\ UNCHANGED <<pktCtr, first, buf, cnt1, errcnt, i, udptestGot, udptestTimeouts, start>>
  BY DEF Udp!Lose, Udp!main
<1>4. k \in 1 .. Len(udptestNet)
  BY <1>2, <1>3, SMTT(30)
<1> DEFINE x == udptestNet[k]
<1> DEFINE l == Len(udptestNet)
<1>5. /\ udptestNet' \in Seq(Nat) /\ Len(udptestNet') = l - 1
      /\ \A n \in 1 .. Len(udptestNet') : udptestNet'[n] = IF n < k THEN udptestNet[n] ELSE udptestNet[n + 1]
  BY <1>2, <1>3, <1>4, Removed
<1>6. x \in first .. pktCtr - 1 /\ x \notin lost /\ \A g \in udptestGot : g < x
  BY <1>1, <1>4 DEF NetInOrder
<1>7. x \in Nat
  BY <1>1, <1>6, SMT DEF UdpTypes
(* The place a packet had before. *)
<1> DEFINE o(n) == IF n < k THEN n ELSE n + 1
<1>8. \A n \in 1 .. l - 1 : o(n) \in 1 .. l /\ o(n) # k
  BY <1>2, <1>4, SMT
<1>9. \A m, n \in 1 .. l - 1 : m < n => o(m) < o(n)
  BY <1>2, <1>4, SMT
<1>10. \A n \in 1 .. l : n # k => \E j \in 1 .. l - 1 : o(j) = n
  <2> SUFFICES ASSUME NEW n \in 1 .. l, n # k PROVE \E j \in 1 .. l - 1 : o(j) = n
    OBVIOUS
  <2>1. CASE n < k
    <3>1. n \in 1 .. l - 1 /\ o(n) = n
      BY <1>2, <1>4, <2>1, SMT
    <3> QED BY <3>1
  <2>2. CASE ~(n < k)
    <3>1. n - 1 \in 1 .. l - 1 /\ o(n - 1) = n
      BY <1>2, <1>4, <2>2, SMT
    <3> QED BY <3>1
  <2> QED BY <2>1, <2>2
<1>11. \A n \in 1 .. l - 1 : udptestNet'[n] = udptestNet[o(n)]
  BY <1>5
<1>12. \A m, n \in 1 .. l : m # n => udptestNet[m] # udptestNet[n]
  <2> SUFFICES ASSUME NEW m \in 1 .. l, NEW n \in 1 .. l, m # n PROVE udptestNet[m] # udptestNet[n]
    OBVIOUS
  <2>1. udptestNet[m] \in Nat /\ udptestNet[n] \in Nat
    BY <1>2
  <2>2. m < n \/ n < m
    BY <1>2, SMT
  <2>3. udptestNet[m] < udptestNet[n] \/ udptestNet[n] < udptestNet[m]
    BY <1>1, <2>2 DEF NetInOrder
  <2> QED BY <2>1, <2>3, SMT
<1> HIDE DEF o
<1>13. UdpTypes'
  BY <1>1, <1>3, <1>5, <1>6 DEF UdpTypes
<1>14. NetInOrder'
  <2>1. \A n \in 1 .. l - 1 : /\ udptestNet'[n] \in first .. pktCtr - 1 /\ udptestNet'[n] \notin lost'
    <3> TAKE n \in 1 .. l - 1
    <3>1. udptestNet'[n] = udptestNet[o(n)] /\ o(n) \in 1 .. l /\ o(n) # k
      BY <1>8, <1>11
    <3>2. udptestNet[o(n)] \in first .. pktCtr - 1 /\ udptestNet[o(n)] \notin lost /\ udptestNet[o(n)] # x
      BY <1>1, <1>4, <1>12, <3>1 DEF NetInOrder
    <3> QED BY <1>3, <3>1, <3>2
  <2>2. \A n \in 1 .. l - 1, g \in udptestGot : g < udptestNet'[n]
    BY <1>1, <1>8, <1>11 DEF NetInOrder
  <2>3. \A m, n \in 1 .. l - 1 : m < n => udptestNet'[m] < udptestNet'[n]
    BY <1>1, <1>8, <1>9, <1>11 DEF NetInOrder
  <2> QED BY <1>3, <1>5, <2>1, <2>2, <2>3 DEF NetInOrder
<1>15. EveryPacket'
  <2>1. ASSUME NEW p \in first .. pktCtr - 1, p \notin udptestGot, p \notin lost'
        PROVE  \E n \in 1 .. l - 1 : udptestNet'[n] = p
    <3>1. p \notin lost /\ p # x
      BY <1>3, <2>1
    <3>2. PICK n \in 1 .. l : udptestNet[n] = p
      BY <1>1, <2>1, <3>1 DEF EveryPacket
    <3>3. n # k
      BY <3>1, <3>2
    <3> QED BY <1>10, <1>11, <3>2, <3>3
  <2>2. \A p \in lost' : p \notin udptestGot
    <3>1. x \notin udptestGot
      BY <1>6, <1>7, SMT
    <3> QED BY <1>1, <1>3, <3>1 DEF EveryPacket
  <2> QED BY <1>3, <1>5, <2>1, <2>2 DEF EveryPacket
<1>16. Counted'
  <2>1. Missed' = Missed
    BY <1>1, <1>3, <1>6, <1>7, MissedKept
  <2> QED BY <1>1, <1>3, <2>1 DEF Counted, Udp!Hidden
<1> QED BY <1>13, <1>14, <1>15, <1>16 DEF UdpInv

(* The old packet once more: an error, unless the loop has just begun. *)
LEMMA TimeoutUdp ==
  ASSUME Udp!CountsAssumption, UdpInv, Udp!Timeout
  PROVE  UdpInv'
<1>1. UdpTypes /\ NetInOrder /\ EveryPacket /\ Counted
  BY DEF UdpInv
<1>2. Udp!Count(buf) /\ udptestTimeouts' = udptestTimeouts + 1 /\ UNCHANGED <<udptestGot, pktCtr, udptestNet, first, lost>>
  BY DEF Udp!Timeout, Udp!board
<1>3. errcnt \in Int /\ udptestTimeouts \in Nat /\ buf \in Nat /\ i \in Nat
  BY <1>1 DEF UdpTypes
<1>4. /\ cnt1' = buf /\ buf' = buf /\ i' = i + 1 /\ i' # 0 /\ i' \in Nat /\ errcnt' \in Int
      /\ errcnt' = errcnt + (IF buf = (IF i = 0 THEN 1 ELSE buf + 1) THEN 0 ELSE 1)
      /\ start' = IF i = 0 THEN buf ELSE start
  BY <1>1, <1>2, <1>3, Turn
<1>5. i = 0 => buf # 1 /\ udptestGot = {}
  BY <1>1 DEF Counted, Udp!CountsAssumption
<1>6. errcnt' = errcnt + 1
  BY <1>3, <1>4, <1>5, SMT
<1>7. UdpTypes'
  BY <1>1, <1>2, <1>3, <1>4, SMT DEF UdpTypes
<1>8. NetInOrder' /\ EveryPacket'
  BY <1>1, <1>2 DEF NetInOrder, EveryPacket
<1>9. Counted'
  <2>1. Missed' = Missed
    BY <1>2 DEF Missed
  <2>2. udptestGot = {} => errcnt' = udptestTimeouts' - 1 /\ start' # 1
    BY <1>1, <1>2, <1>3, <1>4, <1>5, <1>6, SMT DEF Counted
  <2>3. udptestGot # {} => errcnt' = Cardinality(Missed') + udptestTimeouts' - Udp!Hidden'
    <3>1. IsFiniteSet(Missed) /\ Cardinality(Missed) \in Nat
      BY <1>1, MissedFinite
    <3>2. udptestGot # {} => errcnt = Cardinality(Missed) + udptestTimeouts - Udp!Hidden
      BY <1>1 DEF Counted
    <3>3. udptestGot # {} => Udp!Hidden' = Udp!Hidden
      BY <1>4, <1>5 DEF Udp!Hidden
    <3>4. Udp!Hidden \in Int
      BY DEF Udp!Hidden
    <3> QED BY <1>2, <1>3, <1>6, <2>1, <3>1, <3>2, <3>3, <3>4, SMT
  <2> QED BY <1>1, <1>2, <1>4, <2>2, <2>3 DEF Counted
<1> QED BY <1>7, <1>8, <1>9 DEF UdpInv

LEMMA StepUdp ==
  ASSUME Udp!ReadsAssumption, Udp!CountsAssumption, UdpInv, [Udp!Next]_(Udp!vars)
  PROVE  UdpInv'
<1>1. CASE Udp!Next
  BY <1>1, SendUdp, LoseUdp, ReceiveUdp, TimeoutUdp DEF Udp!Next
<1>2. CASE UNCHANGED Udp!vars
  BY <1>2 DEF Udp!vars, Udp!board, Udp!main, UdpInv, UdpTypes, NetInOrder, EveryPacket, Counted, Missed, Udp!Hidden
<1> QED BY <1>1, <1>2

LEMMA ErrorsCounted ==
  ASSUME UdpInv
  PROVE  Udp!ErrorsAreGaps
<1>1. Udp!Gaps = Cardinality(Missed)
  <2>1. Udp!Cardinality(Missed) = Cardinality(Missed)
    BY Zenon DEF Udp!Cardinality, Cardinality
  <2> QED BY <2>1 DEF Udp!Gaps, Missed
<1> QED BY <1>1 DEF UdpInv, Counted, Udp!ErrorsAreGaps
-----------------------------------------------------------------------------
(* The waveform file.  Events lie apart in the data sets: the place of     *)
(* sample k of event e is in the data set of its chunk.                    *)
Spot(e, k) == <<File!ChunkOf(e), File!InChunk(e) * fileNPt + k>>
Stored(f, e) == /\ File!ChunkOf(e) \in f.chunks
                /\ \A k \in 0 .. fileNPt - 1 : f.cell[Spot(e, k)] = File!Point(e, k)

(* Places in a data set: inside it, and the same place is the same sample  *)
(* of the same event.                                                      *)
LEMMA PlaceInside ==
  ASSUME NEW n \in Nat \ {0}, NEW l \in Nat \ {0}, NEW c \in 0 .. l - 1, NEW k \in 0 .. n - 1
  PROVE  c * n + k \in 0 .. n * l - 1 /\ c * n \in Nat /\ (c * n + k) - c * n = k
<1>1. c \in Nat /\ c < l /\ n \in Nat /\ l \in Nat
  BY SMT
<1>2. c * n \in Nat /\ l * n \in Nat /\ c * n + n <= l * n
  BY <1>1, Product
<1>3. n * l = l * n
  BY <1>1, SMT
<1> QED BY <1>2, <1>3, SMT

LEMMA PlacesApart ==
  ASSUME NEW n \in Nat \ {0}, NEW b \in Nat, NEW c \in Nat, b # c, NEW j \in 0 .. n - 1, NEW k \in 0 .. n - 1
  PROVE  b * n + j # c * n + k
<1>1. b < c \/ c < b
  BY SMT
<1>2. CASE b < c
  <2>1. b * n \in Nat /\ c * n \in Nat /\ b * n + n <= c * n
    BY <1>2, Product, SMT
  <2> QED BY <2>1, SMT
<1>3. CASE c < b
  <2>1. b * n \in Nat /\ c * n \in Nat /\ c * n + n <= b * n
    BY <1>3, Product, SMT
  <2> QED BY <2>1, SMT
<1> QED BY <1>1, <1>2, <1>3

LEMMA IdsAreNumbers ==
  ASSUME File!SizesAssumption, File!WritesAssumption, NEW e \in File!Ids
  PROVE  /\ e \in Nat /\ File!ChunkOf(e) \in File!Chunks /\ File!ChunkOf(e) \in Nat
         /\ File!InChunk(e) \in 0 .. nWfmPerChunk - 1
         /\ e = nWfmPerChunk * File!ChunkOf(e) + File!InChunk(e)
<1>1. PICK w \in Writes : \E n \in DOMAIN w : e = w[n]
  BY DEF File!Ids
<1>2. w \in Seq(Nat)
  BY <1>1 DEF File!WritesAssumption
<1>3. e \in Nat
  BY <1>1, <1>2
<1>4. nWfmPerChunk \in Nat \ {0}
  BY DEF File!SizesAssumption
<1>5. /\ e \div nWfmPerChunk \in Nat /\ e % nWfmPerChunk \in 0 .. nWfmPerChunk - 1
      /\ e = nWfmPerChunk * (e \div nWfmPerChunk) + (e % nWfmPerChunk)
  BY <1>3, <1>4, Quotient
<1>6. e \div nWfmPerChunk \in File!Chunks
  BY DEF File!Chunks
<1> QED BY <1>3, <1>5, <1>6 DEF File!ChunkOf, File!InChunk

LEMMA SlabInside ==
  ASSUME File!SizesAssumption, File!WritesAssumption, NEW e \in File!Ids
  PROVE  /\ File!SlabAt(e, fileNPt) \subseteq File!Offsets
         /\ \A k \in 0 .. fileNPt - 1 : /\ Spot(e, k) \in File!Chunks \X File!Offsets
                                    /\ Spot(e, k)[2] \in File!SlabAt(e, fileNPt)
                                    /\ Spot(e, k)[2] - File!InChunk(e) * fileNPt = k
<1>1. fileNPt \in Nat \ {0} /\ nWfmPerChunk \in Nat \ {0} /\ File!InChunk(e) \in 0 .. nWfmPerChunk - 1
      /\ File!ChunkOf(e) \in File!Chunks
  BY IdsAreNumbers DEF File!SizesAssumption
<1>2. ASSUME NEW k \in 0 .. fileNPt - 1
      PROVE  /\ File!InChunk(e) * fileNPt + k \in 0 .. fileNPt * nWfmPerChunk - 1
             /\ (File!InChunk(e) * fileNPt + k) - File!InChunk(e) * fileNPt = k
  BY <1>1, PlaceInside
<1>3. File!SlabAt(e, fileNPt) \subseteq File!Offsets
  BY <1>2, Zenon DEF File!SlabAt, File!Offsets
<1>4. ASSUME NEW k \in 0 .. fileNPt - 1
      PROVE  File!InChunk(e) * fileNPt + k \in File!SlabAt(e, fileNPt) /\ File!InChunk(e) * fileNPt + k \in File!Offsets
  BY <1>2, Zenon DEF File!SlabAt, File!Offsets
<1>5. ASSUME NEW k \in 0 .. fileNPt - 1
      PROVE  /\ Spot(e, k) \in File!Chunks \X File!Offsets
             /\ Spot(e, k)[2] \in File!SlabAt(e, fileNPt) /\ Spot(e, k)[2] - File!InChunk(e) * fileNPt = k
  <2>1. /\ Spot(e, k) \in File!Chunks \X File!Offsets
        /\ Spot(e, k)[2] = File!InChunk(e) * fileNPt + k
    BY <1>1, <1>4, SMT DEF Spot
  <2> DEFINE p == Spot(e, k)[2]
  <2>2. /\ File!InChunk(e) * fileNPt + k \in File!SlabAt(e, fileNPt)
        /\ (File!InChunk(e) * fileNPt + k) - File!InChunk(e) * fileNPt = k
    BY <1>2, <1>4, Zenon
  <2> HIDE DEF p
  <2>3. p \in File!SlabAt(e, fileNPt) /\ p - File!InChunk(e) * fileNPt = k
    BY <2>1, <2>2 DEF p
  <2> QED BY <2>1, <2>3, Zenon DEF p
<1> QED BY <1>3, <1>5, Zenon

LEMMA SlabsApart ==
  ASSUME File!SizesAssumption, File!WritesAssumption, NEW e \in File!Ids, NEW f \in File!Ids, e # f,
         NEW k \in 0 .. fileNPt - 1, Spot(f, k)[1] = File!ChunkOf(e)
  PROVE  Spot(f, k)[2] \notin File!SlabAt(e, fileNPt)
<1>1. Spot(f, k)[1] = File!ChunkOf(f) /\ Spot(f, k)[2] = File!InChunk(f) * fileNPt + k
  BY DEF Spot
<1>2. fileNPt \in Nat \ {0} /\ nWfmPerChunk \in Nat \ {0}
  BY DEF File!SizesAssumption
<1>3. File!InChunk(e) # File!InChunk(f)
  BY <1>1, IdsAreNumbers
<1>4. File!InChunk(e) \in Nat /\ File!InChunk(f) \in Nat
  <2>1. File!InChunk(e) \in 0 .. nWfmPerChunk - 1 /\ File!InChunk(f) \in 0 .. nWfmPerChunk - 1
    BY IdsAreNumbers
  <2> QED BY <1>2, <2>1, SMT
<1>5. \A j \in 0 .. fileNPt - 1 : File!InChunk(e) * fileNPt + j # File!InChunk(f) * fileNPt + k
  BY <1>2, <1>3, <1>4, PlacesApart
<1> QED BY <1>1, <1>5, Zenon DEF File!SlabAt

(* A file as the library has it. *)
Image(f) == /\ f = [chunks |-> f.chunks, cell |-> f.cell, nEvents |-> f.nEvents, nPt |-> f.nPt]
            /\ f.cell = [p \in File!Chunks \X File!Offsets |-> f.cell[p]]
            /\ f.nEvents \in Nat /\ f.nPt \in Nat
FileTypes ==
  /\ Image(h5) /\ Image(disk)
  /\ wav \in [nEvents : Nat, nPt : Nat] /\ rd \in [nEvents : Nat, nPt : Nat]
  /\ fileTodo \in Seq(Nat) /\ written \subseteq File!Ids /\ IsFiniteSet(written)
  /\ filePc \in {"open", "attribute", "event", "write", "count", "handler", "close", "free", "return", "ended"}

(* An event is written once, and after those with smaller numbers.         *)
CountsUp ==
  /\ \A n \in 1 .. Len(fileTodo) : fileTodo[n] \in File!Ids /\ \A e \in written : e < fileTodo[n]
  /\ \A m, n \in 1 .. Len(fileTodo) : m < n => fileTodo[m] < fileTodo[n]

(* The library has what is written, and data sets for nothing else.        *)
InMemory ==
  /\ wav.nEvents = Cardinality(written) /\ \A e \in written : Stored(h5, e)
  /\ IF filePc \in {"open", "attribute"} THEN written = {} /\ h5.chunks = {} ELSE wav.nPt = fileNPt /\ h5.nPt = fileNPt
  /\ filePc \in {"event", "write", "count"} =>
       \A c \in h5.chunks : \/ \E e \in written : c = File!ChunkOf(e)
                            \/ filePc # "event" /\ c = File!ChunkOf(Head(fileTodo))
  /\ filePc \in {"write", "count"} => /\ fileTodo # <<>> /\ did = File!ChunkOf(Head(fileTodo)) /\ did \in h5.chunks
                                      /\ filePc = "count" => Stored(h5, Head(fileTodo))

(* The disk has it once the file is flushed, and it is flushed before it   *)
(* is closed.                                                              *)
Saved == disk.nEvents = Cardinality(written) /\ disk.nPt = fileNPt /\ \A e \in written : Stored(disk, e)
OnDisk ==
  /\ IF filePc = "open" THEN id = "none" ELSE id \in {"open", "closed", "freed"}
  /\ filePc \in {"attribute", "event", "write", "count"} => id = "open"
  /\ filePc = "free" => id # "open"
  /\ filePc = "return" => id = "freed"
  /\ filePc = "close" /\ id = "open" => disk = h5
  /\ id \in {"closed", "freed"} \/ filePc = "close" => Saved
  /\ filePc = "ended" /\ stop # "SIGKILL" => Saved

(* The reader learns from the file how long an event is before it reads.   *)
ReadOut ==
  /\ rpc # "wait" => filePc = "ended" /\ rd.nEvents = disk.nEvents
  /\ rpc \in {"events", "done"} /\ stop # "SIGKILL" => rd.nPt = fileNPt
  /\ rpc = "done" /\ stop # "SIGKILL" => \A e \in written : got[e] = File!Whole(e)

FileInv == FileTypes /\ CountsUp /\ InMemory /\ OnDisk /\ ReadOut

LEMMA EmptyImage ==
  Image(File!Empty) /\ File!Empty.chunks = {}
<1> DEFINE f == File!Empty
<1> DEFINE c == [p \in File!Chunks \X File!Offsets |-> File!Fill]
<1>1. f = [chunks |-> {}, cell |-> c, nEvents |-> 0, nPt |-> 0]
    BY DEF File!Empty
<1>2. c = [p \in File!Chunks \X File!Offsets |-> c[p]]
    BY SMT
<1> HIDE DEF c
<1>3. f.chunks = {} /\ f.cell = c /\ f.nEvents = 0 /\ f.nPt = 0
    BY <1>1
<1> HIDE DEF f
<1> QED BY <1>1, <1>2, <1>3 DEF Image, f

LEMMA InitFile ==
  ASSUME File!SizesAssumption, File!WritesAssumption, File!Init
  PROVE  FileInv
<1>1. /\ fileTodo \in Writes /\ filePc = "open" /\ id = "none" /\ wav = [nEvents |-> 0, nPt |-> 0] /\ h5 = File!Empty
      /\ disk = File!Empty /\ rpc = "wait" /\ rd = wav /\ written = {}
  BY DEF File!Init
<1>2. Image(File!Empty) /\ File!Empty.chunks = {}
  BY EmptyImage
<1>3. Cardinality(written) = 0 /\ IsFiniteSet(written)
  BY <1>1, FS_EmptySet
<1>4. fileTodo \in Seq(Nat) /\ DOMAIN fileTodo = 1 .. Len(fileTodo)
      /\ \A m, n \in DOMAIN fileTodo : m < n => fileTodo[m] < fileTodo[n]
  BY <1>1 DEF File!WritesAssumption
<1>5. \A n \in 1 .. Len(fileTodo) : fileTodo[n] \in File!Ids
  BY <1>1, <1>4 DEF File!Ids
<1>6. wav \in [nEvents : Nat, nPt : Nat] /\ wav.nEvents = 0
  BY <1>1
<1>7. FileTypes
  BY <1>1, <1>2, <1>3, <1>4, <1>6 DEF FileTypes
<1>8. CountsUp
  BY <1>1, <1>4, <1>5 DEF CountsUp
<1>9. InMemory
  BY <1>1, <1>2, <1>3, <1>6 DEF InMemory
<1>10. OnDisk /\ ReadOut
  BY <1>1 DEF OnDisk, ReadOut
<1> QED BY <1>7, <1>8, <1>9, <1>10 DEF FileInv

LEMMA OpenFileKeeps ==
  ASSUME File!SizesAssumption, FileInv, File!OpenFile \/ File!WriteAttribute
  PROVE  FileInv'
<1>1. FileTypes /\ CountsUp /\ InMemory /\ OnDisk /\ ReadOut
  BY DEF FileInv
<1>2. fileNPt \in Nat /\ SCOPE_MEM_LENGTH_MAX \in Nat
  BY DEF File!SizesAssumption
<1>3. UNCHANGED <<fileTodo, did, disk, rpc, rd, got, written, stop>>
  BY DEF File!OpenFile, File!WriteAttribute, File!reader
<1>4. CASE File!OpenFile
  <2>1. /\ filePc = "open" /\ filePc' = "attribute" /\ id' = "open" /\ h5' = File!Empty
        /\ wav' = [nEvents |-> 0, nPt |-> SCOPE_MEM_LENGTH_MAX]
    BY <1>4 DEF File!OpenFile, File!Goto
  <2>2. Image(File!Empty) /\ File!Empty.chunks = {}
    BY EmptyImage
  <2>3. written = {} /\ Cardinality(written) = 0
    BY <1>1, <2>1, FS_EmptySet DEF InMemory
  <2>4. wav' \in [nEvents : Nat, nPt : Nat] /\ wav'.nEvents = 0
    BY <1>2, <2>1
  <2>5. FileTypes'
    BY <1>1, <1>3, <2>1, <2>2, <2>4 DEF FileTypes, Image
  <2>6. InMemory'
    BY <1>3, <2>1, <2>2, <2>3, <2>4 DEF InMemory
  <2>7. OnDisk' /\ ReadOut'
    BY <1>1, <1>3, <2>1 DEF OnDisk, ReadOut
  <2> QED BY <1>1, <1>3, <2>5, <2>6, <2>7 DEF FileInv, CountsUp
<1>5. CASE File!WriteAttribute
  <2>1. /\ filePc = "attribute" /\ filePc' = "event" /\ id' = id /\ h5' = [h5 EXCEPT !.nPt = fileNPt]
        /\ wav' = [wav EXCEPT !.nPt = fileNPt]
    BY <1>5 DEF File!WriteAttribute, File!Goto
  <2>2. Image(h5') /\ h5'.chunks = h5.chunks /\ h5'.nPt = fileNPt
    BY <1>1, <1>2, <2>1 DEF FileTypes, Image
  <2>3. wav' \in [nEvents : Nat, nPt : Nat] /\ wav'.nEvents = wav.nEvents /\ wav'.nPt = fileNPt
    BY <1>1, <1>2, <2>1 DEF FileTypes
  <2>4. written = {} /\ h5.chunks = {}
    BY <1>1, <2>1 DEF InMemory
  <2>5. FileTypes'
    BY <1>1, <1>3, <2>1, <2>2, <2>3 DEF FileTypes, Image
  <2>6. InMemory'
    BY <1>1, <1>3, <2>1, <2>2, <2>3, <2>4 DEF InMemory
  <2>7. OnDisk' /\ ReadOut'
    BY <1>1, <1>3, <2>1 DEF OnDisk, ReadOut
  <2> QED BY <1>1, <1>3, <2>5, <2>6, <2>7 DEF FileInv, CountsUp
<1> QED BY <1>4, <1>5

(* The event at hand: above all that are written, below all that follow.   *)
LEMMA AtHand ==
  ASSUME FileTypes, CountsUp, fileTodo # <<>>
  PROVE  LET e == Head(fileTodo) IN
         /\ e \in File!Ids /\ (\A w \in written : w < e)
         /\ Tail(fileTodo) \in Seq(Nat)
         /\ \A n \in 1 .. Len(Tail(fileTodo)) : Tail(fileTodo)[n] \in File!Ids /\ e < Tail(fileTodo)[n]
                                               /\ \A w \in written : w < Tail(fileTodo)[n]
         /\ \A m, n \in 1 .. Len(Tail(fileTodo)) : m < n => Tail(fileTodo)[m] < Tail(fileTodo)[n]
<1> DEFINE s == fileTodo
<1> DEFINE t1 == Tail(fileTodo)
<1>1. s \in Seq(Nat) /\ s # <<>> /\ Len(s) \in Nat /\ Len(s) # 0 /\ Head(s) = s[1]
  BY DEF FileTypes
<1>2. t1 \in Seq(Nat) /\ Len(t1) = Len(s) - 1 /\ \A n \in 1 .. Len(t1) : t1[n] = s[n + 1]
  BY <1>1, HeadTailProperties
<1>3. /\ \A n \in 1 .. Len(s) : s[n] \in File!Ids /\ \A e \in written : e < s[n]
      /\ \A m, n \in 1 .. Len(s) : m < n => s[m] < s[n]
  BY DEF CountsUp
<1> HIDE DEF s, t1
<1>4. 1 \in 1 .. Len(s) /\ \A n \in 1 .. Len(t1) : n + 1 \in 1 .. Len(s) /\ 1 < n + 1
  BY <1>1, <1>2, SMT
<1>5. \A m, n \in 1 .. Len(t1) : m < n => m + 1 < n + 1
  BY SMT
<1>6. Head(s) \in File!Ids /\ \A w \in written : w < Head(s)
  BY <1>1, <1>3, <1>4
<1>7. \A n \in 1 .. Len(t1) : t1[n] \in File!Ids /\ Head(s) < t1[n] /\ \A w \in written : w < t1[n]
  BY <1>1, <1>2, <1>3, <1>4
<1>8. \A m, n \in 1 .. Len(t1) : m < n => t1[m] < t1[n]
  BY <1>2, <1>3, <1>4, <1>5
<1> QED BY <1>2, <1>6, <1>7, <1>8 DEF s, t1

(* The first event of a chunk finds no data set of it: an event that has   *)
(* left one comes later in the chunk.                                      *)
LEMMA NoDataSetYet ==
  ASSUME File!SizesAssumption, File!WritesAssumption, NEW e \in File!Ids, NEW w \in File!Ids, w < e,
         File!ChunkOf(w) = File!ChunkOf(e)
  PROVE  File!InChunk(e) # 0
<1> SUFFICES ASSUME File!InChunk(e) = 0 PROVE FALSE
  OBVIOUS
<1> DEFINE c == nWfmPerChunk * File!ChunkOf(e)
<1>1. e = c + File!InChunk(e) /\ w = c + File!InChunk(w)
  BY IdsAreNumbers
<1>2. nWfmPerChunk \in Nat /\ File!ChunkOf(e) \in Nat /\ File!InChunk(w) \in 0 .. nWfmPerChunk - 1
  BY IdsAreNumbers DEF File!SizesAssumption
<1>3. c \in Nat /\ File!InChunk(w) \in Nat
  BY <1>2, SMT
<1> HIDE DEF c
<1>4. File!InChunk(e) \in Nat
  <2>1. File!InChunk(e) \in 0 .. nWfmPerChunk - 1
    BY IdsAreNumbers
  <2> QED BY <1>2, <2>1, SMT
<1> QED BY <1>1, <1>3, <1>4, SMT

LEMMA ChunkKeeps ==
  ASSUME File!SizesAssumption, File!WritesAssumption, FileInv, File!Chunk
  PROVE  FileInv'
<1>1. FileTypes /\ CountsUp /\ InMemory /\ OnDisk /\ ReadOut
  BY DEF FileInv
<1> DEFINE e == Head(fileTodo)
<1>2. /\ fileTodo # <<>> /\ filePc = "event" /\ filePc' = "write" /\ did' = File!DataSet(e)
      /\ h5' = [h5 EXCEPT !.chunks = IF did' = File!Bad THEN @ ELSE @ \cup {did'}]
      /\ UNCHANGED <<fileTodo, id, wav, disk, rpc, rd, got, written, stop>>
  BY DEF File!Chunk, File!Goto, File!reader
<1>3. e \in File!Ids /\ \A w \in written : w < e
  BY <1>1, <1>2, AtHand
<1> HIDE DEF e
<1>4. File!ChunkOf(e) \in Nat /\ File!Bad # File!ChunkOf(e)
  BY <1>3, IdsAreNumbers, SMT DEF File!Bad
<1>5. \A c \in h5.chunks : \E w \in written : c = File!ChunkOf(w)
  BY <1>1, <1>2 DEF InMemory
<1>6. did' = File!ChunkOf(e)
  <2> SUFFICES ASSUME File!InChunk(e) = 0, File!ChunkOf(e) \in h5.chunks PROVE FALSE
    BY <1>2 DEF File!DataSet
  <2>1. PICK w \in written : File!ChunkOf(e) = File!ChunkOf(w)
    BY <1>5
  <2>2. w \in File!Ids /\ w < e
    BY <1>1, <1>3 DEF FileTypes
  <2> QED BY <1>3, <2>1, <2>2, NoDataSetYet
<1>7. /\ Image(h5') /\ h5'.chunks = h5.chunks \cup {File!ChunkOf(e)} /\ h5'.cell = h5.cell
      /\ h5'.nPt = h5.nPt /\ h5'.nEvents = h5.nEvents
  BY <1>1, <1>2, <1>4, <1>6 DEF FileTypes, Image
<1>8. FileTypes'
  BY <1>1, <1>2, <1>7 DEF FileTypes, Image
<1>9. InMemory'
  <2>1. \A w \in written : Stored(h5, w)'
    BY <1>1, <1>7 DEF InMemory, Stored, Spot, File!ChunkOf, File!InChunk, File!Point
  <2>2. wav.nEvents = Cardinality(written) /\ wav.nPt = fileNPt /\ h5.nPt = fileNPt
    BY <1>1, <1>2 DEF InMemory
  <2>3. \A c \in h5'.chunks : (\E w \in written : c = File!ChunkOf(w)) \/ c = File!ChunkOf(e)
    BY <1>5, <1>7
  <2> QED BY <1>2, <1>6, <1>7, <2>1, <2>2, <2>3 DEF InMemory, e, File!ChunkOf
<1>10. OnDisk' /\ ReadOut'
  BY <1>1, <1>2 DEF OnDisk, ReadOut
<1> QED BY <1>1, <1>2, <1>8, <1>9, <1>10 DEF FileInv, CountsUp

LEMMA WriteKeeps ==
  ASSUME File!SizesAssumption, File!WritesAssumption, FileInv, File!Write
  PROVE  FileInv'
<1>1. FileTypes /\ CountsUp /\ InMemory /\ OnDisk /\ ReadOut
  BY DEF FileInv
<1> DEFINE e == Head(fileTodo)
<1> DEFINE slab == File!SlabAt(e, fileNPt)
<1>2. /\ filePc = "write" /\ filePc' = "count" /\ UNCHANGED <<fileTodo, id, wav, did, disk, rpc, rd, got, written, stop>>
  BY DEF File!Write, File!Goto, File!reader
<1>3. /\ fileTodo # <<>> /\ did = File!ChunkOf(e) /\ did \in h5.chunks /\ wav.nPt = fileNPt /\ h5.nPt = fileNPt
      /\ wav.nEvents = Cardinality(written) /\ \A w \in written : Stored(h5, w)
  BY <1>1, <1>2 DEF InMemory
<1>4. e \in File!Ids /\ \A w \in written : w < e
  BY <1>1, <1>3, AtHand
<1>5. File!Bad # did /\ slab \subseteq File!Offsets
  BY <1>3, <1>4, IdsAreNumbers, SlabInside, SMT DEF File!Bad
<1>6. h5' = [h5 EXCEPT !.cell = [p \in DOMAIN @ |->
                IF p[1] = did /\ p[2] \in slab THEN File!Point(e, p[2] - File!InChunk(e) * fileNPt) ELSE @[p]]]
  BY <1>3, <1>5 DEF File!Write
<1> HIDE DEF e, slab
<1> DEFINE P == File!Chunks \X File!Offsets
<1> DEFINE to(p) == IF p[1] = did /\ p[2] \in slab THEN File!Point(e, p[2] - File!InChunk(e) * fileNPt) ELSE h5.cell[p]
<1>7. DOMAIN h5.cell = P /\ h5 = [chunks |-> h5.chunks, cell |-> h5.cell, nEvents |-> h5.nEvents, nPt |-> h5.nPt]
      /\ h5.nEvents \in Nat /\ h5.nPt \in Nat
  BY <1>1 DEF FileTypes, Image
<1>8. h5' = [chunks |-> h5.chunks, cell |-> [p \in P |-> to(p)], nEvents |-> h5.nEvents, nPt |-> h5.nPt]
  BY <1>6, <1>7
<1> HIDE DEF P, to
<1>9. /\ h5'.chunks = h5.chunks /\ h5'.cell = [p \in P |-> to(p)] /\ h5'.nEvents = h5.nEvents /\ h5'.nPt = h5.nPt
  BY <1>8
<1>10. \A p \in P : h5'.cell[p] = to(p)
  BY <1>9
<1>11. Image(h5')
  BY <1>7, <1>8, <1>9, <1>10 DEF Image, P
<1>12. \A k \in 0 .. fileNPt - 1 : h5'.cell[Spot(e, k)] = File!Point(e, k)
  <2> SUFFICES ASSUME NEW k \in 0 .. fileNPt - 1 PROVE h5'.cell[Spot(e, k)] = File!Point(e, k)
    OBVIOUS
  <2>1. /\ Spot(e, k) \in P /\ Spot(e, k)[2] \in slab /\ Spot(e, k)[2] - File!InChunk(e) * fileNPt = k
    BY <1>4, SlabInside DEF P, slab
  <2>2. Spot(e, k)[1] = did
    BY <1>3 DEF Spot, e
  <2> QED BY <1>10, <2>1, <2>2, Zenon DEF to
<1>13. ASSUME NEW w \in written PROVE Stored(h5, w)'
  <2>1. w \in File!Ids /\ w # e /\ Stored(h5, w)
    <3>1. w \in File!Ids /\ w < e /\ Stored(h5, w)
      BY <1>1, <1>3, <1>4 DEF FileTypes
    <3>2. w \in Nat /\ e \in Nat
      BY <1>4, <3>1, IdsAreNumbers
    <3> QED BY <3>1, <3>2, SMT
  <2>2. ASSUME NEW k \in 0 .. fileNPt - 1 PROVE h5'.cell[Spot(w, k)] = File!Point(w, k)
    <3>1. Spot(w, k) \in P
      BY <2>1, SlabInside DEF P
    <3>2. ~(Spot(w, k)[1] = did /\ Spot(w, k)[2] \in slab)
      BY <1>3, <1>4, <2>1, SlabsApart DEF slab, e
    <3>3. h5.cell[Spot(w, k)] = File!Point(w, k)
      BY <2>1 DEF Stored
    <3> QED BY <1>10, <3>1, <3>2, <3>3, Zenon DEF to
  <2> QED BY <1>9, <2>1, <2>2 DEF Stored, Spot, File!ChunkOf, File!InChunk, File!Point
<1>14. FileTypes'
  BY <1>1, <1>2, <1>11 DEF FileTypes, Image
<1>15. InMemory'
  <2>1. Stored(h5, e)'
    BY <1>2, <1>3, <1>9, <1>12 DEF Stored, Spot, File!ChunkOf, File!InChunk, File!Point, e
  <2>2. \A c \in h5.chunks : (\E w \in written : c = File!ChunkOf(w)) \/ c = File!ChunkOf(e)
    BY <1>1, <1>2 DEF InMemory, e
  <2> QED BY <1>2, <1>3, <1>9, <1>13, <2>1, <2>2 DEF InMemory, e, File!ChunkOf
<1>16. OnDisk' /\ ReadOut'
  BY <1>1, <1>2 DEF OnDisk, ReadOut
<1> QED BY <1>1, <1>2, <1>14, <1>15, <1>16 DEF FileInv, CountsUp

LEMMA CountKeeps ==
  ASSUME File!SizesAssumption, File!WritesAssumption, FileInv, File!Count
  PROVE  FileInv'
<1>1. FileTypes /\ CountsUp /\ InMemory /\ OnDisk /\ ReadOut
  BY DEF FileInv
<1> DEFINE e == Head(fileTodo)
<1>2. /\ filePc = "count" /\ filePc' = "event" /\ wav' = [wav EXCEPT !.nEvents = @ + 1] /\ written' = written \cup {e}
      /\ fileTodo' = Tail(fileTodo) /\ UNCHANGED <<id, h5, disk, rpc, rd, got, stop>>
  BY DEF File!Count, File!Goto, File!reader
<1>3. /\ fileTodo # <<>> /\ wav.nPt = fileNPt /\ h5.nPt = fileNPt /\ Stored(h5, e)
      /\ wav.nEvents = Cardinality(written) /\ \A w \in written : Stored(h5, w)
  BY <1>1, <1>2 DEF InMemory
<1>4. /\ e \in File!Ids /\ (\A w \in written : w < e)
      /\ fileTodo' \in Seq(Nat)
      /\ \A n \in 1 .. Len(fileTodo') : fileTodo'[n] \in File!Ids /\ e < fileTodo'[n]
                                        /\ \A w \in written : w < fileTodo'[n]
      /\ \A m, n \in 1 .. Len(fileTodo') : m < n => fileTodo'[m] < fileTodo'[n]
  BY <1>1, <1>2, <1>3, AtHand
<1> HIDE DEF e
<1>5. e \notin written
  <2>1. e \in Nat
    BY <1>4, IdsAreNumbers
  <2> QED BY <1>4, <2>1, SMT
<1>6. IsFiniteSet(written') /\ Cardinality(written') = Cardinality(written) + 1 /\ written' \subseteq File!Ids
  BY <1>1, <1>2, <1>4, <1>5, FS_AddElement DEF FileTypes
<1>7. /\ wav' \in [nEvents : Nat, nPt : Nat] /\ wav'.nEvents = wav.nEvents + 1 /\ wav'.nPt = wav.nPt
  BY <1>1, <1>2, SMT DEF FileTypes
<1>8. FileTypes'
  BY <1>1, <1>2, <1>4, <1>6, <1>7 DEF FileTypes, Image
<1>9. CountsUp'
  BY <1>2, <1>4 DEF CountsUp, File!Ids
<1>10. InMemory'
  <2>1. \A w \in written' : Stored(h5, w)'
    BY <1>2, <1>3 DEF Stored, Spot, File!ChunkOf, File!InChunk, File!Point
  <2>2. \A c \in h5.chunks : (\E w \in written : c = File!ChunkOf(w)) \/ c = File!ChunkOf(e)
    BY <1>1, <1>2 DEF InMemory, e
  <2>3. \A c \in h5'.chunks : \E w \in written' : c = File!ChunkOf(w)
    BY <1>2, <2>2
  <2> QED BY <1>2, <1>3, <1>6, <1>7, <2>1, <2>3 DEF InMemory, File!ChunkOf
<1>11. OnDisk' /\ ReadOut'
  BY <1>1, <1>2 DEF OnDisk, ReadOut
<1> QED BY <1>8, <1>9, <1>10, <1>11 DEF FileInv

LEMMA FlushKeeps ==
  ASSUME FileInv, File!Flush
  PROVE  FileInv'
<1>1. FileTypes /\ CountsUp /\ InMemory /\ OnDisk /\ ReadOut
  BY DEF FileInv
<1>2. /\ (filePc = "event" /\ fileTodo = <<>>) \/ filePc = "handler"
      /\ filePc' = "close" /\ UNCHANGED <<fileTodo, id, wav, did, rpc, rd, got, written, stop>>
      /\ h5' = IF id = "open" THEN [h5 EXCEPT !.nEvents = wav.nEvents] ELSE h5
      /\ disk' = IF id = "open" THEN h5' ELSE disk
  BY DEF File!Flush, File!reader
<1>3. /\ wav.nPt = fileNPt /\ h5.nPt = fileNPt /\ wav.nEvents = Cardinality(written) /\ wav.nEvents \in Nat
      /\ \A w \in written : Stored(h5, w)
  BY <1>1, <1>2 DEF InMemory, FileTypes
<1>4. id \in {"open", "closed", "freed"} /\ (id # "open" => Saved) /\ rpc = "wait"
  BY <1>1, <1>2 DEF OnDisk, ReadOut
<1>5. /\ Image(h5') /\ h5'.chunks = h5.chunks /\ h5'.cell = h5.cell /\ h5'.nPt = fileNPt
      /\ id = "open" => h5'.nEvents = Cardinality(written)
  BY <1>1, <1>2, <1>3 DEF FileTypes, Image
<1>6. \A w \in written : Stored(h5, w)'
  BY <1>3, <1>5 DEF Stored, Spot, File!ChunkOf, File!InChunk, File!Point
<1>7. Saved'
  <2>1. CASE id = "open"
    <3>1. \A w \in written : Stored(disk, w)'
      BY <1>2, <1>6, <2>1 DEF Stored, Spot, File!ChunkOf, File!InChunk, File!Point
    <3> QED BY <1>2, <1>5, <2>1, <3>1 DEF Saved
  <2>2. CASE id # "open"
    BY <1>2, <1>4, <2>2 DEF Saved, Stored, Spot, File!ChunkOf, File!InChunk, File!Point
  <2> QED BY <2>1, <2>2
<1>8. FileTypes'
  BY <1>1, <1>2, <1>5 DEF FileTypes, Image
<1>9. InMemory'
  BY <1>2, <1>3, <1>5, <1>6 DEF InMemory
<1>10. OnDisk' /\ ReadOut'
  BY <1>2, <1>4, <1>7 DEF OnDisk, ReadOut
<1> QED BY <1>1, <1>2, <1>8, <1>9, <1>10 DEF FileInv, CountsUp

LEMMA EndKeeps ==
  ASSUME FileInv, File!Close \/ File!Free \/ File!Exit
  PROVE  FileInv'
<1>1. FileTypes /\ CountsUp /\ InMemory /\ OnDisk /\ ReadOut
  BY DEF FileInv
<1>2. /\ filePc \in {"close", "free", "return"} /\ filePc' \in {"free", "return", "ended"}
      /\ disk' = (IF filePc = "close" /\ id = "open" THEN h5 ELSE disk)
      /\ id' = (CASE filePc = "close" -> IF id = "open" THEN "closed" ELSE id
                  [] filePc = "free" -> "freed"
                  [] OTHER -> id)
      /\ filePc' = (CASE filePc = "close" -> "free" [] filePc = "free" -> "return" [] OTHER -> "ended")
      /\ UNCHANGED <<fileTodo, wav, did, h5, rpc, rd, got, written, stop>>
  BY DEF File!Close, File!Free, File!Exit, File!Goto, File!reader
<1>3. disk' = disk /\ rpc = "wait" /\ id \in {"open", "closed", "freed"} /\ (filePc # "close" => id # "open")
  BY <1>1, <1>2 DEF OnDisk, ReadOut
<1>4. Saved /\ (filePc = "return" => id = "freed")
  BY <1>1, <1>2, <1>3 DEF OnDisk
<1>5. Saved'
  BY <1>2, <1>3, <1>4 DEF Saved, Stored, Spot, File!ChunkOf, File!InChunk, File!Point
<1>6. InMemory'
  BY <1>1, <1>2 DEF InMemory, Stored, Spot, File!ChunkOf, File!InChunk, File!Point
<1>7. FileTypes'
  BY <1>1, <1>2, <1>3 DEF FileTypes, Image
<1>8. OnDisk' /\ ReadOut'
  BY <1>2, <1>3, <1>4, <1>5 DEF OnDisk, ReadOut
<1> QED BY <1>1, <1>2, <1>6, <1>7, <1>8 DEF FileInv, CountsUp

LEMMA StopKeeps ==
  ASSUME FileInv, File!Signal \/ File!ReadTimeout \/ File!Kill
  PROVE  FileInv'
<1>1. FileTypes /\ CountsUp /\ InMemory /\ OnDisk /\ ReadOut
  BY DEF FileInv
<1>2. /\ filePc \in {"event", "write", "count", "close", "free", "return"}
      /\ \/ filePc' = "handler" /\ stop' \in {"SIGINT", "timeout"}
         \/ filePc' = "ended" /\ stop' = "SIGKILL"
      /\ UNCHANGED <<fileTodo, id, wav, did, h5, disk, rpc, rd, got, written>>
  BY DEF File!Signal, File!ReadTimeout, File!Kill, File!Running, File!reader
<1>3. FileTypes'
  BY <1>1, <1>2 DEF FileTypes, Image
<1>4. InMemory'
  BY <1>1, <1>2 DEF InMemory, Stored, Spot, File!ChunkOf, File!InChunk, File!Point
<1>5. OnDisk' /\ ReadOut'
  <2>1. Saved => Saved'
    BY <1>2 DEF Saved, Stored, Spot, File!ChunkOf, File!InChunk, File!Point
  <2> QED BY <1>1, <1>2, <2>1 DEF OnDisk, ReadOut
<1> QED BY <1>1, <1>2, <1>3, <1>4, <1>5 DEF FileInv, CountsUp

(* The reader: what it reads at the places of an event that is stored. *)
LEMMA WholeRead ==
  ASSUME File!SizesAssumption, File!WritesAssumption, NEW e \in File!Ids, Stored(disk, e), rd.nPt = fileNPt
  PROVE  File!Slab(e) = File!Whole(e)
<1>1. fileNPt \in Nat /\ File!SlabAt(e, fileNPt) \subseteq File!Offsets /\ File!InChunk(e) * fileNPt \in Nat
  <2>1. fileNPt \in Nat \ {0} /\ nWfmPerChunk \in Nat \ {0} /\ File!InChunk(e) \in 0 .. nWfmPerChunk - 1
    BY IdsAreNumbers DEF File!SizesAssumption
  <2>2. 0 \in 0 .. fileNPt - 1
    BY <2>1, SMT
  <2>3. File!InChunk(e) * fileNPt \in Nat
    BY <2>1, <2>2, PlaceInside
  <2> QED BY <2>1, <2>3, SlabInside
<1>2. File!Slab(e) = [k \in 1 .. fileNPt |-> disk.cell[File!ChunkOf(e), File!InChunk(e) * fileNPt + k - 1]]
  BY <1>1 DEF File!Slab, Stored
<1>3. ASSUME NEW k \in 1 .. fileNPt
      PROVE  disk.cell[File!ChunkOf(e), File!InChunk(e) * fileNPt + k - 1] = File!Point(e, k - 1)
  <2>1. k - 1 \in 0 .. fileNPt - 1
    BY <1>1, SMT
  <2>2. disk.cell[Spot(e, k - 1)] = File!Point(e, k - 1)
    BY <2>1 DEF Stored
  <2>3. disk.cell[File!ChunkOf(e), File!InChunk(e) * fileNPt + k - 1] = disk.cell[Spot(e, k - 1)]
    BY Zenon DEF Spot
  <2> QED BY <2>2, <2>3, Zenon
<1> QED BY <1>2, <1>3, Zenon DEF File!Whole

LEMMA ReaderKeeps ==
  ASSUME File!SizesAssumption, File!WritesAssumption, FileInv, File!OpenForRead \/ File!ReadAttribute \/ File!ReadEvents
  PROVE  FileInv'
<1>1. FileTypes /\ CountsUp /\ InMemory /\ OnDisk /\ ReadOut
  BY DEF FileInv
<1>2. UNCHANGED <<fileTodo, filePc, id, wav, did, h5, disk, written, stop>>
  BY DEF File!OpenForRead, File!ReadAttribute, File!ReadEvents, File!writer
<1>3. fileNPt \in Nat \ {0} /\ SCOPE_MEM_LENGTH_MAX \in Nat
  BY DEF File!SizesAssumption
<1>4. filePc = "ended" /\ (stop # "SIGKILL" => Saved)
  BY <1>1 DEF OnDisk, ReadOut, File!OpenForRead, File!ReadAttribute, File!ReadEvents
<1>5. rd' \in [nEvents : Nat, nPt : Nat] /\ ReadOut'
  <2>1. CASE File!OpenForRead
    <3>1. rpc' = "attribute" /\ rd' = [nEvents |-> disk.nEvents, nPt |-> SCOPE_MEM_LENGTH_MAX]
      BY <2>1 DEF File!OpenForRead
    <3>2. disk.nEvents \in Nat
      BY <1>1 DEF FileTypes, Image
    <3> QED BY <1>2, <1>3, <1>4, <3>1, <3>2 DEF ReadOut
  <2>2. CASE File!ReadAttribute
    <3>1. rpc = "attribute" /\ rpc' = "events" /\ rd' = [rd EXCEPT !.nPt = IF disk.nPt = 0 THEN @ ELSE disk.nPt]
      BY <2>2 DEF File!ReadAttribute
    <3>2. rd \in [nEvents : Nat, nPt : Nat] /\ rd.nEvents = disk.nEvents /\ disk.nPt \in Nat
      BY <1>1, <3>1 DEF FileTypes, Image, ReadOut
    <3>3. rd' \in [nEvents : Nat, nPt : Nat] /\ rd'.nEvents = disk.nEvents
          /\ rd'.nPt = IF disk.nPt = 0 THEN rd.nPt ELSE disk.nPt
      BY <3>1, <3>2
    <3>4. stop # "SIGKILL" => disk.nPt = fileNPt
      BY <1>4 DEF Saved
    <3> QED BY <1>2, <1>3, <1>4, <3>1, <3>3, <3>4 DEF ReadOut
  <2>3. CASE File!ReadEvents
    <3>1. rpc = "events" /\ rpc' = "done" /\ got' = [e \in File!Ids |-> File!Slab(e)] /\ rd' = rd
      BY <2>3 DEF File!ReadEvents
    <3>2. ASSUME stop # "SIGKILL", NEW e \in written PROVE got'[e] = File!Whole(e)
      <4>1. e \in File!Ids /\ Stored(disk, e) /\ rd.nPt = fileNPt
        BY <1>1, <1>4, <3>1, <3>2 DEF FileTypes, Saved, ReadOut
      <4> QED BY <3>1, <4>1, WholeRead
    <3>3. rd \in [nEvents : Nat, nPt : Nat] /\ rd.nEvents = disk.nEvents /\ (stop # "SIGKILL" => rd.nPt = fileNPt)
      BY <1>1, <3>1 DEF FileTypes, ReadOut
    <3> QED BY <1>2, <1>4, <3>1, <3>2, <3>3 DEF ReadOut, File!Whole, File!Point
  <2> QED BY <2>1, <2>2, <2>3
<1>6. FileTypes' /\ CountsUp'
  BY <1>1, <1>2, <1>5 DEF FileTypes, Image, CountsUp
<1>7. InMemory' /\ OnDisk'
  BY <1>1, <1>2 DEF InMemory, OnDisk, Saved, Stored, Spot, File!ChunkOf, File!InChunk, File!Point
<1> QED BY <1>5, <1>6, <1>7 DEF FileInv

LEMMA StepFile ==
  ASSUME File!SizesAssumption, File!WritesAssumption, FileInv, [File!Next]_(File!vars)
  PROVE  FileInv'
<1>1. CASE File!Next
  BY <1>1, OpenFileKeeps, ChunkKeeps, WriteKeeps, CountKeeps, FlushKeeps, EndKeeps, StopKeeps, ReaderKeeps
     DEF File!Next
<1>2. CASE UNCHANGED File!vars
  BY <1>2, ZenonT(60) DEF File!vars, File!writer, File!reader, FileInv, FileTypes, Image, CountsUp, InMemory, OnDisk, ReadOut, Saved,
              Stored, Spot, File!ChunkOf, File!InChunk, File!Point, File!Whole
<1> QED BY <1>1, <1>2

LEMMA FileIsRight ==
  ASSUME FileInv
  PROVE  File!ReadBack /\ File!CountIsWritten
<1>1. FileTypes /\ OnDisk /\ ReadOut
  BY DEF FileInv
<1>2. File!ReadBack
  BY <1>1 DEF ReadOut, File!ReadBack
<1>3. File!Cardinality(written) = Cardinality(written)
  BY Zenon DEF File!Cardinality, Cardinality
<1>4. File!CountIsWritten
  BY <1>1, <1>3 DEF ReadOut, OnDisk, Saved, File!CountIsWritten
<1> QED BY <1>2, <1>4
-----------------------------------------------------------------------------
(* fmc112_prepare.  The calls after the first; p of them have been made,   *)
(* and the commands of the first e of them have been executed.             *)
Calls == Prepare!Table(NStars) \o Prepare!Rest
Base  == 3 * NStars

(* The command of a write or of a plain register.                          *)
Asked(c) == Prepare!At(c.star, c.reg)
Sent(c)  == IF c.op = "write" THEN [op |-> "sip", addr |-> Asked(c), what |-> c.what]
            ELSE [op |-> "blank"]

TodoFrom(p) ==
  \/ p = 0 /\ todo = <<Prepare!ReadCid(0)>>
  \/ /\ Len(todo) = Len(Calls) - p
     /\ \A k \in 1 .. Len(Calls) - p : todo[k] = Calls[p + k]

(* The commands that the present read has sent itself, from the last one.  *)
Own == CASE waiting = "first" -> 9 [] waiting = "second" -> 4 [] OTHER -> 0
OwnCommand(j) ==
  CASE j < 4 -> [op |-> "status", part |-> 3 - j]
    [] j \in 4 .. 7 -> [op |-> "blank"]
    [] OTHER -> [op |-> "sip", addr |-> Asked(Head(todo)), what |-> "read"]

(* The queue: the commands of the calls that are made and not executed,    *)
(* and what is left of the read's own.                                     *)
QueueFrom(e, p) ==
  /\ Len(cmds) = (p - e) + Own \/ (e = p /\ Len(cmds) <= Own)
  /\ \A k \in 1 .. p - e : Calls[e + k].op # "read" /\ cmds[k] = Sent(Calls[e + k])
  /\ \A j \in 0 .. Own - 1 : j < Len(cmds) => cmds[Len(cmds) - j] = OwnCommand(j)

(* Whose answer the firmware has, and what of it is on its way.  A read    *)
(* that sleeps may find anything in the reply that does not count.         *)
SleepsFor(c) == c.op = "read" => (c.wait <=> c.reg[1] \in Prepare!Slow)
Counts == waiting = "second" \/ ~Head(todo).wait
AnswerOnItsWay ==
  /\ waiting # "nothing" => todo # <<>> /\ Head(todo).op = "read" /\ SleepsFor(Head(todo))
  /\ waiting = "sleep" => cmds = <<>> /\ Len(cmds) = 0 /\ Head(todo).wait
  /\ waiting = "second" => Len(cmds) <= 4
  /\ pending.on => /\ waiting \in {"first", "sleep"} /\ Len(cmds) < 9 /\ pending.addr = Asked(Head(todo))
                   /\ ~Head(todo).wait => Len(cmds) \in 4 .. 8 /\ pending.age = 8 - Len(cmds)
  /\ waiting # "nothing" /\ Len(cmds) < 9 /\ ~pending.on => status = Asked(Head(todo))
  /\ Len(net) = IF waiting \in {"first", "second"} /\ Len(cmds) < 4 THEN 4 - Len(cmds) ELSE 0
  /\ Counts => \A k \in 1 .. Len(net) : net[k] = [of |-> Asked(Head(todo)), part |-> k - 1]

(* The base address of every star that has been read.                      *)
BasesFrom(p) == \A s \in Prepare!Stars : 3 * s < p => bar[s] = Prepare!Cid(4 + 3 * s)

(* The FMC112 after the first e calls.                                     *)
BoardAfter(e) ==
  LET q == e - Base IN
  /\ q >= 12 => cpld = "run"
  /\ q >= 16 + ClockSettings => clock = "update"
  /\ \A a \in Prepare!ADCs :
       /\ q >= 20 + ClockSettings + 3 * a /\ q < 31 + ClockSettings + a => adc[a] = "pattern"
       /\ q >= 31 + ClockSettings + a => adc[a] = "normal"
  /\ q < 29 + ClockSettings => phy # "train"
  /\ q = 28 + ClockSettings => phy = "resetSerdes"
  /\ q >= 29 + ClockSettings => phy = "train"

PrepareFrom(e, p) ==
  TodoFrom(p) /\ QueueFrom(e, p) /\ AnswerOnItsWay /\ BasesFrom(p) /\ BoardAfter(e)

(* The types that the argument needs.                                      *)
Whats == {"lpc", "resetClock", "resetDac", "run", "off", "setting", "update", "reset", "twos", "pattern",
          "resetSerdes", "train", "normal", "midscale", "source"}
Registers == Prepare!Names \X Int
CallSet ==
  [op : {"read"}, star : Int, reg : Registers, wait : BOOLEAN]
  \cup [op : {"write"}, star : Int, reg : Registers, what : Whats]
  \cup [op : {"register"}, reg : Int]
Places == [base : Int, reg : Registers]
CmdSet == [op : {"sip"}, addr : Places, what : Whats \cup {"read"}]
          \cup [op : {"blank"}] \cup [op : {"status"}, part : Int]
PrepareTyped ==
  /\ waiting \in {"nothing", "first", "sleep", "second"}
  /\ todo \in Seq(CallSet) /\ cmds \in Seq(CmdSet) /\ net \in Seq([of : Places, part : Int])
  /\ pending \in [addr : Places, age : Nat, on : BOOLEAN] /\ status \in Places

(* As long as no query was lost.                                           *)
PrepareInv ==
  /\ timeouts \in Nat
  /\ timeouts = 0 => PrepareTyped /\ \E p \in 0 .. Len(Calls) : \E e \in 0 .. p : PrepareFrom(e, p)

(* The calls of the preparation.                                           *)
LEMMA InCallSet ==
  ASSUME Prepare!StarsAssumption
  PROVE  /\ \A k \in Int : Prepare!ReadCid(k) \in CallSet /\ [op |-> "register", reg |-> k] \in CallSet
         /\ \A name \in Prepare!Names, w \in Int : Prepare!Read(name, w) \in CallSet
         /\ \A name \in Prepare!Names, k \in Int, what \in Whats : Prepare!Write(name, k, what) \in CallSet
         /\ Prepare!SwitchI2C \in CallSet
<1>1. I2C \in Int /\ FMC \in Int /\ "cid" \in Prepare!Names /\ "switch" \in Prepare!Names /\ "lpc" \in Whats
  BY DEF Prepare!StarsAssumption, Prepare!Stars, Prepare!Names, Whats
<1>2. \A k \in Int, n \in Prepare!Names : <<n, k>> \in Registers
  BY DEF Registers
<1>3. \A w \in Int : (w > 0) \in BOOLEAN
  BY SMT
<1>4. ASSUME NEW k \in Int PROVE Prepare!ReadCid(k) \in CallSet
  <2>1. Prepare!ReadCid(k) = [op |-> "read", star |-> -1, reg |-> <<"cid", k>>, wait |-> 0 > 0]
    BY Zenon DEF Prepare!ReadCid, Prepare!ReadAt, Prepare!CID
  <2>2. <<"cid", k>> \in Registers
    BY <1>1, <1>2, Zenon
  <2> QED BY <1>3, <2>1, <2>2 DEF CallSet
<1>5. \A k \in Int : [op |-> "register", reg |-> k] \in CallSet
  BY DEF CallSet
<1>6. \A name \in Prepare!Names, w \in Int : Prepare!Read(name, w) \in CallSet
  BY <1>1, <1>2, <1>3 DEF CallSet, Prepare!Read, Prepare!ReadAt
<1>7. \A name \in Prepare!Names, k \in Int, what \in Whats : Prepare!Write(name, k, what) \in CallSet
  BY <1>1, <1>2 DEF CallSet, Prepare!Write
<1>8. Prepare!SwitchI2C \in CallSet
  <2>1. <<"switch", 0>> \in Registers
    BY <1>1, <1>2
  <2> QED BY <1>1, <2>1 DEF CallSet, Prepare!SwitchI2C
<1> QED BY <1>4, <1>5, <1>6, <1>7, <1>8, Zenon

(* Two programs of calls, one after the other.                             *)
Joined(s, u, r) ==
  /\ r \in Seq(CallSet) /\ Len(r) = Len(s) + Len(u)
  /\ \A k \in 1 .. Len(s) : r[k] = s[k]
  /\ \A k \in 1 .. Len(u) : r[Len(s) + k] = u[k]

LEMMA Cat ==
  ASSUME NEW s \in Seq(CallSet), NEW u \in Seq(CallSet)
  PROVE  Joined(s, u, s \o u)
<1> DEFINE m == Len(s)
           n == Len(u)
<1>0. m \in Nat /\ n \in Nat
  BY LenProperties
<1> HIDE DEF m, n
<1>1. \A k \in 1 .. m : k \in 1 .. m + n /\ k <= m
  BY <1>0, SMT
<1>2. \A k \in 1 .. n : m + k \in 1 .. m + n /\ ~(m + k <= m) /\ m + k - m = k
  BY <1>0, SMT
<1>3. \A k \in 1 .. m + n : (s \o u)[k] = IF k <= m THEN s[k] ELSE u[k - m]
  BY ConcatProperties, Zenon DEF m, n
<1>4. s \o u \in Seq(CallSet) /\ Len(s \o u) = m + n
  BY ConcatProperties, Zenon DEF m, n
<1>5. ASSUME NEW k \in 1 .. n PROVE (s \o u)[m + k] = u[k]
  <2>1. (m + k) - m = k /\ m + k \in 1 .. m + n /\ ~(m + k <= m)
    BY <1>0, SMT
  <2>2. (s \o u)[m + k] = u[(m + k) - m]
    BY <1>3, <2>1, Zenon
  <2> QED BY <2>1, <2>2, Zenon
<1> QED BY <1>1, <1>3, <1>4, <1>5, Zenon DEF m, n, Joined

LEMMA Joining ==
  ASSUME NEW s \in Seq(CallSet), NEW u \in Seq(CallSet)
  PROVE  Joined(s, u, s \o u) /\ s \o u \in Seq(CallSet)
<1>1. Joined(s, u, s \o u)
  BY Cat, Zenon
<1> QED BY <1>1, Zenon DEF Joined

LEMMA StrobeIs ==
  ASSUME Prepare!StarsAssumption, NEW on \in Whats
  PROVE  /\ Prepare!Strobe(on) \in Seq(CallSet) /\ Len(Prepare!Strobe(on)) = 3
         /\ Prepare!Strobe(on)[1] = Prepare!Read("cpld", 2)
         /\ Prepare!Strobe(on)[2] = Prepare!Write("cpld", 0, on)
         /\ Prepare!Strobe(on)[3] = Prepare!Write("cpld", 0, "run")
<1>1. "cpld" \in Prepare!Names /\ "run" \in Whats
  BY DEF Prepare!Names, Whats
<1>2. /\ Prepare!Read("cpld", 2) \in CallSet /\ Prepare!Write("cpld", 0, on) \in CallSet
      /\ Prepare!Write("cpld", 0, "run") \in CallSet
  BY <1>1, InCallSet
<1> QED BY <1>2 DEF Prepare!Strobe

LEMMA IdentifyIs ==
  ASSUME Prepare!StarsAssumption
  PROVE  /\ Prepare!Identify \in Seq(CallSet) /\ Len(Prepare!Identify) = 5
         /\ \A k \in 1 .. 3 : Prepare!Identify[k] = Prepare!ReadCid(k)
         /\ Prepare!Identify[4] = Prepare!SwitchI2C
         /\ Prepare!Identify[5] = Prepare!Read("power", 0)
<1>1. "power" \in Prepare!Names
  BY DEF Prepare!Names
<1>2. /\ Prepare!ReadCid(1) \in CallSet /\ Prepare!ReadCid(2) \in CallSet /\ Prepare!ReadCid(3) \in CallSet
      /\ Prepare!SwitchI2C \in CallSet /\ Prepare!Read("power", 0) \in CallSet
  <2>1. 1 \in Int /\ 2 \in Int /\ 3 \in Int /\ 0 \in Int
    BY SMT
  <2> QED BY <1>1, <2>1, InCallSet, Zenon
<1> QED BY <1>2 DEF Prepare!Identify

LEMMA CpldIs ==
  ASSUME Prepare!StarsAssumption
  PROVE
  /\ Prepare!Cpld \in Seq(CallSet) /\ Len(Prepare!Cpld) = 9
  /\ \A k \in {1, 4, 9} : Prepare!Cpld[k] = Prepare!Read("cpld", 2)
  /\ Prepare!Cpld[2] = Prepare!Write("cpld", 0, "resetClock")
  /\ Prepare!Cpld[5] = Prepare!Write("cpld", 0, "resetDac")
  /\ \A k \in {3, 6, 7} : Prepare!Cpld[k] = Prepare!Write("cpld", 0, "run")
  /\ Prepare!Cpld[8] = Prepare!Write("led", 0, "off")
<1> DEFINE x == Prepare!Strobe("resetClock")
           y == Prepare!Strobe("resetDac")
           z == <<Prepare!Write("cpld", 0, "run"), Prepare!Write("led", 0, "off"), Prepare!Read("cpld", 2)>>
<1>0. Prepare!Cpld = (x \o y) \o z
  BY Zenon DEF Prepare!Cpld
<1>1. "cpld" \in Prepare!Names /\ "led" \in Prepare!Names /\ {"run", "off", "resetClock", "resetDac"} \subseteq Whats
  BY DEF Prepare!Names, Whats
<1>2. /\ Prepare!Read("cpld", 2) \in CallSet /\ Prepare!Write("led", 0, "off") \in CallSet
      /\ Prepare!Write("cpld", 0, "run") \in CallSet
  BY <1>1, InCallSet
<1>3. z \in Seq(CallSet) /\ Len(z) = 3 /\ z[1] = Prepare!Write("cpld", 0, "run") /\ z[2] = Prepare!Write("led", 0, "off") /\ z[3] = Prepare!Read("cpld", 2)
  BY <1>2
<1>4. /\ x \in Seq(CallSet) /\ Len(x) = 3 /\ x[1] = Prepare!Read("cpld", 2)
      /\ x[2] = Prepare!Write("cpld", 0, "resetClock") /\ x[3] = Prepare!Write("cpld", 0, "run")
      /\ y \in Seq(CallSet) /\ Len(y) = 3 /\ y[1] = Prepare!Read("cpld", 2)
      /\ y[2] = Prepare!Write("cpld", 0, "resetDac") /\ y[3] = Prepare!Write("cpld", 0, "run")
  BY <1>1, StrobeIs
<1> HIDE DEF x, y, z
<1> DEFINE w == x \o y
           r == w \o z
<1>5. Joined(x, y, w)
  BY <1>4, Cat, Zenon
<1>6. Joined(w, z, r)
  BY <1>3, <1>5, Cat, Zenon DEF Joined
<1>7. Prepare!Cpld = r
  BY <1>0
<1> HIDE DEF w, r
<1>8. Len(w) = 6 /\ w[1] = x[1] /\ w[2] = x[2] /\ w[3] = x[3] /\ w[4] = y[1] /\ w[5] = y[2] /\ w[6] = y[3]
  BY <1>4, <1>5 DEF Joined
<1>9. /\ r \in Seq(CallSet) /\ Len(r) = 9 /\ \A k \in 1 .. 6 : r[k] = w[k]
      /\ r[7] = z[1] /\ r[8] = z[2] /\ r[9] = z[3]
  BY <1>3, <1>6, <1>8 DEF Joined
<1> QED BY <1>3, <1>4, <1>7, <1>8, <1>9

LEMMA ClockTreeIs ==
  ASSUME Prepare!StarsAssumption, Prepare!BoundsAssumption
  PROVE
  /\ Prepare!ClockTree \in Seq(CallSet) /\ Len(Prepare!ClockTree) = ClockSettings + 3
  /\ Prepare!ClockTree[1] = Prepare!Read("clockId", 10)
  /\ \A k \in 1 .. ClockSettings : Prepare!ClockTree[k + 1] = Prepare!Write("clock", 0, "setting")
  /\ Prepare!ClockTree[ClockSettings + 2] = Prepare!Write("clock", 0, "update")
  /\ Prepare!ClockTree[ClockSettings + 3] = Prepare!Read("pll", 10)
<1> DEFINE x == <<Prepare!Read("clockId", 10)>>
           y == [k \in 1 .. ClockSettings |-> Prepare!Write("clock", 0, "setting")]
           z == <<Prepare!Write("clock", 0, "update"), Prepare!Read("pll", 10)>>
<1>1. "clockId" \in Prepare!Names /\ "clock" \in Prepare!Names /\ "pll" \in Prepare!Names /\ {"setting", "update"} \subseteq Whats
  BY DEF Prepare!Names, Whats
<1>2. /\ Prepare!Read("clockId", 10) \in CallSet /\ Prepare!Read("pll", 10) \in CallSet
      /\ Prepare!Write("clock", 0, "setting") \in CallSet /\ Prepare!Write("clock", 0, "update") \in CallSet
  BY <1>1, InCallSet
<1>3. ClockSettings \in Nat
  BY DEF Prepare!BoundsAssumption
<1>4. x \in Seq(CallSet) /\ Len(x) = 1 /\ x[1] = Prepare!Read("clockId", 10)
  BY <1>2
<1>5. /\ y \in Seq(CallSet) /\ Len(y) = ClockSettings
      /\ \A k \in 1 .. ClockSettings : y[k] = Prepare!Write("clock", 0, "setting")
  BY <1>2, <1>3
<1>6. z \in Seq(CallSet) /\ Len(z) = 2 /\ z[1] = Prepare!Write("clock", 0, "update") /\ z[2] = Prepare!Read("pll", 10)
  BY <1>2
<1> DEFINE w == x \o y
           r == w \o z
<1>7. Prepare!ClockTree = r
  BY Zenon DEF Prepare!ClockTree
<1> HIDE DEF x, y, z
<1>8. Joined(x, y, w)
  BY <1>4, <1>5, Cat, Zenon
<1>9. Joined(w, z, r)
  BY <1>6, <1>8, Cat, Zenon DEF Joined
<1> HIDE DEF w, r
<1>10. /\ Len(w) = ClockSettings + 1 /\ w[1] = x[1]
       /\ \A k \in 1 .. ClockSettings : k + 1 \in 1 .. Len(w) /\ w[k + 1] = y[k]
  BY <1>3, <1>4, <1>5, <1>8 DEF Joined
<1>11. /\ r \in Seq(CallSet) /\ Len(r) = ClockSettings + 3 /\ \A k \in 1 .. Len(w) : r[k] = w[k]
       /\ r[ClockSettings + 2] = z[1] /\ r[ClockSettings + 3] = z[2]
  BY <1>3, <1>6, <1>9, <1>10 DEF Joined
<1>12. r[1] = w[1]
  BY <1>3, <1>10, <1>11
<1> QED BY <1>4, <1>5, <1>6, <1>7, <1>10, <1>11, <1>12

LEMMA AdcIs ==
  ASSUME Prepare!StarsAssumption
  PROVE
  /\ Prepare!Adc \in Seq(CallSet) /\ Len(Prepare!Adc) = 22
  /\ \A k \in 1 .. 9 : \E a \in 0 .. 2, what \in {"reset", "twos", "pattern"} :
       Prepare!Adc[k] = Prepare!Write("adc", a, what) /\ k >= 3 * a + 1 /\ k <= 3 * a + 3
  /\ \A a \in 0 .. 2 : Prepare!Adc[3 * a + 3] = Prepare!Write("adc", a, "pattern")
  /\ Prepare!Adc[10] = Prepare!Write("phy", 0, "resetClock")
  /\ Prepare!Adc[11] = Prepare!Write("phy", 0, "resetSerdes")
  /\ Prepare!Adc[12] = Prepare!Write("phy", 0, "train")
  /\ Prepare!Adc[13] = Prepare!Read("phy", 2)
  /\ \A a \in 0 .. 2 : Prepare!Adc[14 + a] = Prepare!Write("adc", a, "normal")
  /\ \A k \in 17 .. 22 : Prepare!Adc[k] = Prepare!Read("idelay", 2)
<1> DEFINE i4 == [k \in 1 .. 6 |-> Prepare!Read("idelay", 2)]
<1>1. /\ {"adc", "phy", "idelay"} \subseteq Prepare!Names
      /\ {"reset", "twos", "pattern", "normal", "resetClock", "resetSerdes", "train"} \subseteq Whats
  BY DEF Prepare!Names, Whats
<1>2. /\ \A a \in Int, what \in Whats : Prepare!Write("adc", a, what) \in CallSet /\ Prepare!Write("phy", a, what) \in CallSet
      /\ Prepare!Read("phy", 2) \in CallSet /\ Prepare!Read("idelay", 2) \in CallSet
  BY <1>1, InCallSet
<1>3. /\ Prepare!AdcModes \in Seq(CallSet) /\ Len(Prepare!AdcModes) = 9
      /\ \A k \in 1 .. 9 : \E a \in 0 .. 2, what \in {"reset", "twos", "pattern"} :
           Prepare!AdcModes[k] = Prepare!Write("adc", a, what) /\ k >= 3 * a + 1 /\ k <= 3 * a + 3
      /\ \A a \in 0 .. 2 : Prepare!AdcModes[3 * a + 3] = Prepare!Write("adc", a, "pattern")
  <2> DEFINE three == <<"reset", "twos", "pattern">>
             mode(k) == Prepare!Write("adc", (k - 1) \div 3, three[1 + ((k - 1) % 3)])
  <2>1. \A k \in 1 .. 9 : (k - 1) \div 3 \in 0 .. 2 /\ 1 + ((k - 1) % 3) \in 1 .. 3
                          /\ k >= 3 * ((k - 1) \div 3) + 1 /\ k <= 3 * ((k - 1) \div 3) + 3
    BY SMT
  <2>2. \A a \in 0 .. 2 : 3 * a + 3 \in 1 .. 9 /\ ((3 * a + 3) - 1) \div 3 = a /\ 1 + (((3 * a + 3) - 1) % 3) = 3
    BY SMT
  <2>3. \A j \in 1 .. 3 : three[j] \in {"reset", "twos", "pattern"}
    BY SMT
  <2>4. three[3] = "pattern"
    BY SMT
  <2>5. Prepare!AdcModes = [k \in 1 .. 9 |-> mode(k)]
    BY Zenon DEF Prepare!AdcModes
  <2> HIDE DEF three
  <2>6. \A k \in 1 .. 9 : mode(k) \in CallSet
    BY <1>1, <1>2, <2>1, <2>3
  <2>7. \A a \in 0 .. 2 : mode(3 * a + 3) = Prepare!Write("adc", a, "pattern")
    BY <2>2, <2>4
  <2>8. \A k \in 1 .. 9 : \E a \in 0 .. 2, what \in {"reset", "twos", "pattern"} :
          mode(k) = Prepare!Write("adc", a, what) /\ k >= 3 * a + 1 /\ k <= 3 * a + 3
    BY <2>1, <2>3, Zenon
  <2> HIDE DEF mode
  <2>9. Prepare!AdcModes \in Seq(CallSet) /\ Len(Prepare!AdcModes) = 9 /\ \A k \in 1 .. 9 : Prepare!AdcModes[k] = mode(k)
    BY <2>5, <2>6
  <2> QED BY <2>2, <2>7, <2>8, <2>9, Zenon
<1>4. /\ Prepare!Training \in Seq(CallSet) /\ Len(Prepare!Training) = 4
      /\ Prepare!Training[1] = Prepare!Write("phy", 0, "resetClock")
      /\ Prepare!Training[2] = Prepare!Write("phy", 0, "resetSerdes")
      /\ Prepare!Training[3] = Prepare!Write("phy", 0, "train")
      /\ Prepare!Training[4] = Prepare!Read("phy", 2)
  BY <1>1, <1>2 DEF Prepare!Training
<1>5. /\ Prepare!PatternOff \in Seq(CallSet) /\ Len(Prepare!PatternOff) = 3
      /\ \A a \in 0 .. 2 : Prepare!PatternOff[1 + a] = Prepare!Write("adc", a, "normal")
  <2>1. \A k \in 1 .. 3 : Prepare!Write("adc", k - 1, "normal") \in CallSet
    BY <1>1, <1>2
  <2>2. \A a \in 0 .. 2 : 1 + a \in 1 .. 3 /\ (1 + a) - 1 = a
    BY SMT
  <2> QED BY <2>1, <2>2 DEF Prepare!PatternOff
<1>6. i4 \in Seq(CallSet) /\ Len(i4) = 6 /\ \A k \in 1 .. 6 : i4[k] = Prepare!Read("idelay", 2)
  BY <1>2
<1> DEFINE v == Prepare!AdcModes \o Prepare!Training
           w == v \o Prepare!PatternOff
           r == w \o i4
<1>7. Prepare!Adc = r
  BY Zenon DEF Prepare!Adc
<1> HIDE DEF i4
<1>8. Joined(Prepare!AdcModes, Prepare!Training, v)
  BY <1>3, <1>4, Cat, Zenon
<1>9. Joined(v, Prepare!PatternOff, w)
  BY <1>5, <1>8, Cat, Zenon DEF Joined
<1>10. Joined(w, i4, r)
  BY <1>6, <1>9, Cat, Zenon DEF Joined
<1> HIDE DEF v, w, r
<1>11. /\ Len(v) = 13 /\ \A k \in 1 .. 9 : v[k] = Prepare!AdcModes[k]
       /\ \A k \in 1 .. 4 : v[9 + k] = Prepare!Training[k]
  BY <1>3, <1>4, <1>8 DEF Joined
<1>12. /\ Len(w) = 16 /\ \A k \in 1 .. 13 : w[k] = v[k]
       /\ \A k \in 1 .. 3 : w[13 + k] = Prepare!PatternOff[k]
  BY <1>5, <1>9, <1>11 DEF Joined
<1>13. /\ r \in Seq(CallSet) /\ Len(r) = 22 /\ \A k \in 1 .. 16 : r[k] = w[k]
       /\ \A k \in 1 .. 6 : r[16 + k] = i4[k]
  BY <1>6, <1>10, <1>12 DEF Joined
<1>14. /\ \A k \in 1 .. 9 : r[k] = Prepare!AdcModes[k]
       /\ \A k \in 1 .. 4 : r[9 + k] = Prepare!Training[k]
       /\ \A k \in 1 .. 3 : r[13 + k] = Prepare!PatternOff[k]
  BY <1>11, <1>12, <1>13
<1>15. \A k \in 17 .. 22 : r[k] = Prepare!Read("idelay", 2)
  <2>1. \A k \in 17 .. 22 : k - 16 \in 1 .. 6 /\ 16 + (k - 16) = k
    BY SMT
  <2> QED BY <1>6, <1>13, <2>1, SMTT(30)
<1>16. \A a \in 0 .. 2 : r[14 + a] = Prepare!Write("adc", a, "normal")
  <2>1. \A a \in 0 .. 2 : 1 + a \in 1 .. 3 /\ 13 + (1 + a) = 14 + a
    BY SMT
  <2> QED BY <1>5, <1>14, <2>1, Zenon
<1>17. \A a \in 0 .. 2 : r[3 * a + 3] = Prepare!Write("adc", a, "pattern")
  BY <1>3, <1>14
<1>18. \A k \in 1 .. 9 : \E a \in 0 .. 2, what \in {"reset", "twos", "pattern"} :
         r[k] = Prepare!Write("adc", a, what) /\ k >= 3 * a + 1 /\ k <= 3 * a + 3
  BY <1>3, <1>14, Zenon
<1>19. r[10] = Prepare!Training[1] /\ r[11] = Prepare!Training[2] /\ r[12] = Prepare!Training[3] /\ r[13] = Prepare!Training[4]
  BY <1>14
<1> QED BY <1>4, <1>7, <1>13, <1>15, <1>16, <1>17, <1>18, <1>19, Zenon

LEMMA LastCallsAre ==
  ASSUME Prepare!StarsAssumption
  PROVE
  /\ Prepare!Dac \in Seq(CallSet) /\ Len(Prepare!Dac) = 2
  /\ \A k \in 1 .. 2 : Prepare!Dac[k] = Prepare!Write("dac", k - 1, "midscale")
  /\ Prepare!Freq \in Seq(CallSet) /\ Len(Prepare!Freq) = 12
  /\ \A k \in 1 .. 12 : Prepare!Freq[k] \in {Prepare!Write("freq", 0, "source"), Prepare!Read("freq", 2)}
  /\ Prepare!Buffer \in Seq(CallSet) /\ Len(Prepare!Buffer) = 7
  /\ \A k \in 1 .. 7 : Prepare!Buffer[k].op = "register"
<1>1. "dac" \in Prepare!Names /\ "freq" \in Prepare!Names /\ {"midscale", "source"} \subseteq Whats
  BY DEF Prepare!Names, Whats
<1>2. /\ \A k \in 1 .. 2 : Prepare!Write("dac", k - 1, "midscale") \in CallSet
      /\ Prepare!Write("freq", 0, "source") \in CallSet /\ Prepare!Read("freq", 2) \in CallSet
  BY <1>1, InCallSet
<1>3. \A k \in 1 .. 7 : <<8, 9, 10, 11, 12, 14, 15>>[k] \in Int
  BY SMT
<1> DEFINE n(k) == <<8, 9, 10, 11, 12, 14, 15>>[k]
<1>4. Prepare!Buffer = [k \in 1 .. 7 |-> [op |-> "register", reg |-> n(k)]]
  BY Zenon DEF Prepare!Buffer
<1>5. \A k \in 1 .. 7 : [op |-> "register", reg |-> n(k)] \in CallSet
  BY <1>3, InCallSet, Zenon
<1> HIDE DEF n
<1>6. Prepare!Buffer \in Seq(CallSet) /\ Len(Prepare!Buffer) = 7 /\ \A k \in 1 .. 7 : Prepare!Buffer[k].op = "register"
  BY <1>4, <1>5
<1>7. /\ Prepare!Dac \in Seq(CallSet) /\ Len(Prepare!Dac) = 2
      /\ \A k \in 1 .. 2 : Prepare!Dac[k] = Prepare!Write("dac", k - 1, "midscale")
  BY <1>2 DEF Prepare!Dac
<1>8. /\ Prepare!Freq \in Seq(CallSet) /\ Len(Prepare!Freq) = 12
      /\ \A k \in 1 .. 12 : Prepare!Freq[k] \in {Prepare!Write("freq", 0, "source"), Prepare!Read("freq", 2)}
  BY <1>2 DEF Prepare!Freq
<1> QED BY <1>6, <1>7, <1>8

(* Where each part is in the whole.                                        *)
LEMMA RestIs ==
  ASSUME Prepare!StarsAssumption, Prepare!BoundsAssumption
  PROVE
  /\ Prepare!Rest \in Seq(CallSet) /\ Len(Prepare!Rest) = 60 + ClockSettings
  /\ \A k \in 1 .. 5 : Prepare!Rest[k] = Prepare!Identify[k]
  /\ \A k \in 1 .. 9 : Prepare!Rest[5 + k] = Prepare!Cpld[k]
  /\ \A k \in 1 .. ClockSettings + 3 : Prepare!Rest[14 + k] = Prepare!ClockTree[k]
  /\ \A k \in 1 .. 22 : Prepare!Rest[17 + ClockSettings + k] = Prepare!Adc[k]
  /\ \A k \in 1 .. 2 : Prepare!Rest[39 + ClockSettings + k] = Prepare!Dac[k]
  /\ \A k \in 1 .. 12 : Prepare!Rest[41 + ClockSettings + k] = Prepare!Freq[k]
  /\ \A k \in 1 .. 7 : Prepare!Rest[53 + ClockSettings + k] = Prepare!Buffer[k]
<1> DEFINE C == ClockSettings
           r1 == Prepare!Identify \o Prepare!Cpld
           r2 == r1 \o Prepare!ClockTree
           r3 == r2 \o Prepare!Adc
           r4 == r3 \o Prepare!Dac
           r5 == r4 \o Prepare!Freq
           r6 == r5 \o Prepare!Buffer
<1>0. Prepare!Rest = r6
  BY Zenon DEF Prepare!Rest
<1>1. /\ Prepare!Identify \in Seq(CallSet) /\ Len(Prepare!Identify) = 5
      /\ Prepare!Cpld \in Seq(CallSet) /\ Len(Prepare!Cpld) = 9
      /\ Prepare!ClockTree \in Seq(CallSet) /\ Len(Prepare!ClockTree) = C + 3
      /\ Prepare!Adc \in Seq(CallSet) /\ Len(Prepare!Adc) = 22
      /\ Prepare!Dac \in Seq(CallSet) /\ Len(Prepare!Dac) = 2
      /\ Prepare!Freq \in Seq(CallSet) /\ Len(Prepare!Freq) = 12
      /\ Prepare!Buffer \in Seq(CallSet) /\ Len(Prepare!Buffer) = 7
  BY IdentifyIs, CpldIs, ClockTreeIs, AdcIs, LastCallsAre, Zenon
<1>c. C \in Nat
  BY DEF Prepare!BoundsAssumption
<1> HIDE DEF C, r1, r2, r3, r4, r5, r6
<1>2. Joined(Prepare!Identify, Prepare!Cpld, r1) /\ r1 \in Seq(CallSet)
  BY <1>1, Joining, Zenon DEF r1
<1>3. Joined(r1, Prepare!ClockTree, r2) /\ r2 \in Seq(CallSet)
  BY <1>1, <1>2, Joining, Zenon DEF r2
<1>4. Joined(r2, Prepare!Adc, r3) /\ r3 \in Seq(CallSet)
  BY <1>1, <1>3, Joining, Zenon DEF r3
<1>5. Joined(r3, Prepare!Dac, r4) /\ r4 \in Seq(CallSet)
  BY <1>1, <1>4, Joining, Zenon DEF r4
<1>6. Joined(r4, Prepare!Freq, r5) /\ r5 \in Seq(CallSet)
  BY <1>1, <1>5, Joining, Zenon DEF r5
<1>7. Joined(r5, Prepare!Buffer, r6)
  BY <1>1, <1>6, Joining, Zenon DEF r6
<1>8. /\ Len(r1) = 14 /\ \A k \in 1 .. 5 : r1[k] = Prepare!Identify[k]
      /\ \A k \in 1 .. 9 : r1[5 + k] = Prepare!Cpld[k]
  BY <1>1, <1>2 DEF Joined
<1>9. /\ Len(r2) = 17 + C /\ \A k \in 1 .. 14 : r2[k] = r1[k]
      /\ \A k \in 1 .. C + 3 : r2[14 + k] = Prepare!ClockTree[k]
  BY <1>c, <1>1, <1>3, <1>8 DEF Joined
<1>10. /\ Len(r3) = 39 + C /\ \A k \in 1 .. 17 + C : r3[k] = r2[k]
       /\ \A k \in 1 .. 22 : r3[17 + C + k] = Prepare!Adc[k]
  BY <1>c, <1>1, <1>4, <1>9 DEF Joined
<1>11. /\ Len(r4) = 41 + C /\ \A k \in 1 .. 39 + C : r4[k] = r3[k]
       /\ \A k \in 1 .. 2 : r4[39 + C + k] = Prepare!Dac[k]
  BY <1>c, <1>1, <1>5, <1>10 DEF Joined
<1>12. /\ Len(r5) = 53 + C /\ \A k \in 1 .. 41 + C : r5[k] = r4[k]
       /\ \A k \in 1 .. 12 : r5[41 + C + k] = Prepare!Freq[k]
  BY <1>c, <1>1, <1>6, <1>11 DEF Joined
<1>13. /\ r6 \in Seq(CallSet) /\ Len(r6) = 60 + C /\ \A k \in 1 .. 53 + C : r6[k] = r5[k]
       /\ \A k \in 1 .. 7 : r6[53 + C + k] = Prepare!Buffer[k]
  BY <1>c, <1>1, <1>7, <1>12 DEF Joined
<1>d. /\ \A k \in 1 .. 41 + C : k \in 1 .. 53 + C
      /\ \A k \in 1 .. 39 + C : k \in 1 .. 41 + C
      /\ \A k \in 1 .. 17 + C : k \in 1 .. 39 + C
      /\ \A k \in 1 .. 14 : k \in 1 .. 17 + C
      /\ \A k \in 1 .. 12 : 41 + C + k \in 1 .. 53 + C
      /\ \A k \in 1 .. 2 : 39 + C + k \in 1 .. 41 + C
      /\ \A k \in 1 .. 22 : 17 + C + k \in 1 .. 39 + C
      /\ \A k \in 1 .. C + 3 : 14 + k \in 1 .. 17 + C
  BY <1>c, SMT
<1>14. \A k \in 1 .. 41 + C : r6[k] = r4[k]
  BY <1>d, <1>12, <1>13, Zenon
<1>15. \A k \in 1 .. 39 + C : r6[k] = r3[k]
  BY <1>d, <1>11, <1>14, Zenon
<1>16. \A k \in 1 .. 17 + C : r6[k] = r2[k]
  BY <1>d, <1>10, <1>15, Zenon
<1>17. \A k \in 1 .. 14 : r6[k] = r1[k]
  BY <1>d, <1>9, <1>16, Zenon
<1>18. \A k \in 1 .. 12 : r6[41 + C + k] = Prepare!Freq[k]
  BY <1>d, <1>12, <1>13, Zenon
<1>19. \A k \in 1 .. 2 : r6[39 + C + k] = Prepare!Dac[k]
  BY <1>d, <1>11, <1>14, Zenon
<1>20. \A k \in 1 .. 22 : r6[17 + C + k] = Prepare!Adc[k]
  BY <1>d, <1>10, <1>15, Zenon
<1>21. \A k \in 1 .. C + 3 : r6[14 + k] = Prepare!ClockTree[k]
  BY <1>d, <1>9, <1>16, Zenon
<1>22. \A k \in 1 .. 9 : r6[5 + k] = Prepare!Cpld[k]
  BY <1>8, <1>17
<1>23. \A k \in 1 .. 5 : r6[k] = Prepare!Identify[k]
  BY <1>8, <1>17
<1> QED BY <1>0, <1>13, <1>18, <1>19, <1>20, <1>21, <1>22, <1>23, Zenon DEF C

LEMMA CallsAre ==
  ASSUME Prepare!StarsAssumption, Prepare!BoundsAssumption
  PROVE
  /\ Base \in Nat /\ ClockSettings \in Nat /\ Calls \in Seq(CallSet) /\ Len(Calls) = Base + 60 + ClockSettings
  /\ \A k \in 1 .. Base : Calls[k] = Prepare!ReadCid(3 + k)
  /\ \A q \in 1 .. 60 + ClockSettings : Calls[Base + q] = Prepare!Rest[q]
<1> DEFINE C == ClockSettings
           x == Prepare!Table(NStars)
<1>1. Base \in Nat /\ C \in Nat
  BY DEF Prepare!BoundsAssumption, Prepare!StarsAssumption, Base
<1>2. \A k \in 1 .. Base : 3 + k \in Int
  BY <1>1
<1>3. \A k \in 1 .. Base : Prepare!ReadCid(3 + k) \in CallSet
  BY <1>2, InCallSet, Zenon
<1>4. x = [k \in 1 .. Base |-> Prepare!ReadCid(3 + k)]
  BY Zenon DEF Prepare!Table, Base
<1> HIDE DEF x
<1>5. x \in Seq(CallSet) /\ Len(x) = Base /\ \A k \in 1 .. Base : x[k] = Prepare!ReadCid(3 + k)
  BY <1>1, <1>3, <1>4
<1>6. Joined(x, Prepare!Rest, Calls)
  BY <1>5, RestIs, Cat, Zenon DEF Calls, x
<1> HIDE DEF C
<1>7. Len(Prepare!Rest) = 60 + C
  BY RestIs, Zenon DEF C
<1>8. Len(Calls) = Base + (60 + C) /\ (\A k \in 1 .. Base : Calls[k] = x[k]) /\ \A q \in 1 .. 60 + C : Calls[Base + q] = Prepare!Rest[q]
  BY <1>5, <1>6, <1>7, Zenon DEF Joined
<1>9. Base + (60 + C) = Base + 60 + C
  BY <1>1, SMT
<1> QED BY <1>1, <1>5, <1>6, <1>8, <1>9, Zenon DEF C, Joined

(* What a call says: whether it writes register `name' number k of the     *)
(* FMC112, and whether it is addressed as the program means it.            *)
Sets(c, name, k) == c.op = "write" /\ c.star = FMC /\ c.reg = <<name, k>>
Addressed(c) ==
  /\ c.op \in {"read", "write", "register"} /\ SleepsFor(c)
  /\ c.op = "read" => /\ c.star \in {Prepare!CID, FMC}
                      /\ \A k \in Int : c.reg = <<"cid", k>> => k \in 1 .. 3
  /\ c.op = "write" => /\ c.what # "read"
                       /\ (c.star = FMC /\ c.what # "lpc") \/ (c.star = I2C /\ c.what = "lpc")

LEMMA WriteParts ==
  ASSUME NEW n, NEW k, NEW w, NEW c, c = Prepare!Write(n, k, w)
  PROVE  c.op = "write" /\ c.star = FMC /\ c.reg = <<n, k>> /\ c.what = w
BY DEF Prepare!Write

LEMMA ReadParts ==
  ASSUME NEW star, NEW r, NEW w, NEW c, c = Prepare!ReadAt(star, r, w)
  PROVE  c.op = "read" /\ c.star = star /\ c.reg = r /\ c.wait = (w > 0)
BY DEF Prepare!ReadAt

LEMMA ReadsCid ==
  ASSUME NEW k, NEW c, c = Prepare!ReadCid(k)
  PROVE  c.op = "read" /\ c.star = Prepare!CID /\ c.reg = <<"cid", k>> /\ SleepsFor(c)
<1>1. c.op = "read" /\ c.star = Prepare!CID /\ c.reg = <<"cid", k>> /\ c.wait = (0 > 0)
  BY ReadParts DEF Prepare!ReadCid
<1>2. c.reg[1] = "cid" /\ "cid" \notin Prepare!Slow /\ ~(0 > 0)
  BY <1>1 DEF Prepare!Slow
<1> QED BY <1>1, <1>2, Zenon DEF SleepsFor

LEMMA WriteSets ==
  ASSUME NEW n, NEW k, NEW w, NEW c, c = Prepare!Write(n, k, w)
  PROVE  /\ c.op = "write" /\ c.what = w
         /\ \A m, j : Sets(c, m, j) <=> m = n /\ j = k
         /\ w # "lpc" /\ w # "read" => Addressed(c)
<1>1. c.op = "write" /\ c.star = FMC /\ c.reg = <<n, k>> /\ c.what = w
  BY WriteParts
<1>2. \A m, j : <<n, k>> = <<m, j>> <=> m = n /\ j = k
  OBVIOUS
<1>3. \A m, j : Sets(c, m, j) <=> m = n /\ j = k
  BY <1>1, <1>2, Zenon DEF Sets
<1>4. ASSUME w # "lpc", w # "read" PROVE Addressed(c)
  <2>1. c.op # "read" /\ c.op \in {"read", "write", "register"}
    BY <1>1
  <2>2. SleepsFor(c)
    BY <2>1 DEF SleepsFor
  <2> QED BY <1>1, <1>4, <2>1, <2>2, Zenon DEF Addressed
<1> QED BY <1>1, <1>3, <1>4

LEMMA ReadSets ==
  ASSUME NEW n, NEW w, NEW c, c = Prepare!Read(n, w)
  PROVE  /\ c.op = "read" /\ \A m, j : ~Sets(c, m, j)
         /\ n # "cid" /\ (w > 0 <=> n \in Prepare!Slow) => Addressed(c)
<1>1. c.op = "read" /\ c.star = FMC /\ c.reg = <<n, 0>> /\ c.wait = (w > 0)
  BY ReadParts DEF Prepare!Read
<1>2. c.reg[1] = n
  BY <1>1
<1>3. (w > 0 <=> n \in Prepare!Slow) => SleepsFor(c)
  BY <1>1, <1>2, Zenon DEF SleepsFor
<1> QED BY <1>1, <1>3 DEF Sets, Addressed

LEMMA IdentifyCalls ==
  ASSUME Prepare!StarsAssumption, NEW k \in 1 .. 5, NEW c, c = Prepare!Identify[k]
  PROVE  Addressed(c) /\ \A m, j : ~Sets(c, m, j)
<1>1. CASE k <= 3
  <2>1. c = Prepare!ReadCid(k) /\ k \in 1 .. 3
    BY <1>1, IdentifyIs
  <2>2. c.op = "read" /\ c.star = Prepare!CID /\ c.reg = <<"cid", k>> /\ SleepsFor(c)
    BY <2>1, ReadsCid
  <2> QED BY <2>1, <2>2 DEF Sets, Addressed
<1>2. CASE k = 4
  <2>1. c = Prepare!SwitchI2C
    BY <1>2, IdentifyIs
  <2>2. c.op = "write" /\ c.star = I2C /\ c.what = "lpc" /\ I2C # FMC
    BY <2>1 DEF Prepare!SwitchI2C, Prepare!StarsAssumption
  <2> QED BY <2>2 DEF Sets, Addressed, SleepsFor
<1>3. CASE k = 5
  <2>1. c = Prepare!Read("power", 0)
    BY <1>3, IdentifyIs
  <2> QED BY <2>1, ReadSets DEF Prepare!Slow
<1> QED BY <1>1, <1>2, <1>3

LEMMA CpldCalls ==
  ASSUME Prepare!StarsAssumption, NEW k \in 1 .. 9, NEW c, c = Prepare!Cpld[k]
  PROVE  /\ Addressed(c) /\ \A m, j : Sets(c, m, j) => m \in {"cpld", "led"}
         /\ Sets(c, "cpld", 0) => k <= 7
         /\ k = 7 => Sets(c, "cpld", 0) /\ c.what = "run"
<1>1. CASE k \in {1, 4, 9}
  <2>1. c = Prepare!Read("cpld", 2)
    BY <1>1, CpldIs
  <2> QED BY <1>1, <2>1, ReadSets DEF Prepare!Slow
<1>2. CASE k = 8
  <2>1. c = Prepare!Write("led", 0, "off")
    BY <1>2, CpldIs
  <2> QED BY <1>2, <2>1, WriteSets
<1>3. CASE k \in {2, 3, 5, 6, 7}
  <2>1. \E w \in {"resetClock", "resetDac", "run"} : c = Prepare!Write("cpld", 0, w) /\ (k = 7 => w = "run")
    BY <1>3, CpldIs
  <2>2. PICK w \in {"resetClock", "resetDac", "run"} : c = Prepare!Write("cpld", 0, w) /\ (k = 7 => w = "run")
    BY <2>1
  <2> QED BY <1>3, <2>2, WriteSets
<1> QED BY <1>1, <1>2, <1>3

LEMMA ClockCalls ==
  ASSUME Prepare!StarsAssumption, Prepare!BoundsAssumption,
         NEW k \in 1 .. ClockSettings + 3, NEW c, c = Prepare!ClockTree[k]
  PROVE  /\ Addressed(c) /\ \A m, j : Sets(c, m, j) => m = "clock"
         /\ Sets(c, "clock", 0) => k <= ClockSettings + 2
         /\ k = ClockSettings + 2 => Sets(c, "clock", 0) /\ c.what = "update"
<1>c. ClockSettings \in Nat
  BY DEF Prepare!BoundsAssumption
<1>1. CASE k = 1 \/ k = ClockSettings + 3
  <2>1. \E n \in {"clockId", "pll"} : c = Prepare!Read(n, 10)
    BY <1>1, ClockTreeIs
  <2> QED BY <1>1, <1>c, <2>1, ReadSets DEF Prepare!Slow
<1>2. CASE k \in 2 .. ClockSettings + 2
  <2>1. \E w \in {"setting", "update"} : c = Prepare!Write("clock", 0, w) /\ (k = ClockSettings + 2 => w = "update")
    <3>1. CASE k = ClockSettings + 2
      BY <3>1, ClockTreeIs
    <3>2. CASE k # ClockSettings + 2
      <4>1. k - 1 \in 1 .. ClockSettings /\ (k - 1) + 1 = k
        BY <1>c, <1>2, <3>2
      <4>2. c = Prepare!Write("clock", 0, "setting")
        BY <4>1, ClockTreeIs
      <4> QED BY <3>2, <4>2
    <3> QED BY <3>1, <3>2
  <2>2. PICK w \in {"setting", "update"} : c = Prepare!Write("clock", 0, w) /\ (k = ClockSettings + 2 => w = "update")
    BY <2>1
  <2>3. k <= ClockSettings + 2
    BY <1>c, <1>2
  <2> QED BY <2>2, <2>3, WriteSets
<1> QED BY <1>c, <1>1, <1>2

LEMMA AdcCalls ==
  ASSUME Prepare!StarsAssumption, NEW k \in 1 .. 22, NEW c, c = Prepare!Adc[k]
  PROVE  /\ Addressed(c) /\ \A m, j : Sets(c, m, j) => m \in {"adc", "phy"}
         /\ \A a \in 0 .. 2 :
              /\ Sets(c, "adc", a) => k <= 3 * a + 3 \/ k = 14 + a
              /\ k = 3 * a + 3 => Sets(c, "adc", a) /\ c.what = "pattern"
              /\ k = 14 + a => Sets(c, "adc", a) /\ c.what = "normal"
         /\ Sets(c, "phy", 0) => k \in 10 .. 12
         /\ k = 10 => Sets(c, "phy", 0) /\ c.what = "resetClock"
         /\ k = 11 => Sets(c, "phy", 0) /\ c.what = "resetSerdes"
         /\ k = 12 => Sets(c, "phy", 0) /\ c.what = "train"
<1>1. CASE k \in 1 .. 9
  <2>1. PICK b \in 0 .. 2, w \in {"reset", "twos", "pattern"} :
          c = Prepare!Write("adc", b, w) /\ k >= 3 * b + 1 /\ k <= 3 * b + 3
    BY <1>1, AdcIs
  <2>2. \A m, j : Sets(c, m, j) <=> m = "adc" /\ j = b
    BY <2>1, WriteSets
  <2>3. Addressed(c) /\ \A m, j : Sets(c, m, j) => m \in {"adc", "phy"}
    BY <2>1, <2>2, WriteSets
  <2>4. \A a \in 0 .. 2 : k = 3 * a + 3 => Sets(c, "adc", a) /\ c.what = "pattern"
    <3> SUFFICES ASSUME NEW a \in 0 .. 2, k = 3 * a + 3 PROVE Sets(c, "adc", a) /\ c.what = "pattern"
      OBVIOUS
    <3>1. c = Prepare!Write("adc", a, "pattern")
      BY AdcIs
    <3> QED BY <3>1, WriteSets
  <2>5. \A a \in 0 .. 2 : (Sets(c, "adc", a) => k <= 3 * a + 3) /\ k # 14 + a
    BY <1>1, <2>1, <2>2
  <2>6. ~Sets(c, "phy", 0) /\ k \notin 10 .. 12
    BY <1>1, <2>2
  <2> QED BY <2>3, <2>4, <2>5, <2>6
<1>2. CASE k \in 10 .. 12
  <2>1. \E w \in {"resetClock", "resetSerdes", "train"} :
          /\ c = Prepare!Write("phy", 0, w)
          /\ (k = 10 => w = "resetClock") /\ (k = 11 => w = "resetSerdes") /\ (k = 12 => w = "train")
    <3>1. CASE k = 10
      BY <3>1, AdcIs, SMTT(30)
    <3>2. CASE k = 11
      BY <3>2, AdcIs, SMTT(30)
    <3>3. CASE k = 12
      BY <3>3, AdcIs, SMTT(30)
    <3> QED BY <1>2, <3>1, <3>2, <3>3, SMT
  <2>2. PICK w \in {"resetClock", "resetSerdes", "train"} :
          /\ c = Prepare!Write("phy", 0, w)
          /\ (k = 10 => w = "resetClock") /\ (k = 11 => w = "resetSerdes") /\ (k = 12 => w = "train")
    BY <2>1
  <2>3. \A m, j : Sets(c, m, j) <=> m = "phy" /\ j = 0
    BY <2>2, WriteSets
  <2>4. Addressed(c) /\ c.what = w
    BY <2>2, WriteSets
  <2>5. \A a \in 0 .. 2 : k # 3 * a + 3 /\ k # 14 + a
    BY <1>2
  <2> QED BY <1>2, <2>2, <2>3, <2>4, <2>5
<1>3. CASE k \in 14 .. 16
  <2>1. k - 14 \in 0 .. 2 /\ 14 + (k - 14) = k
    BY <1>3
  <2> DEFINE b == k - 14
  <2>2. c = Prepare!Write("adc", b, "normal")
    BY <2>1, AdcIs
  <2>3. b \in 0 .. 2 /\ k = 14 + b
    BY <2>1
  <2> HIDE DEF b
  <2>4. \A m, j : Sets(c, m, j) <=> m = "adc" /\ j = b
    BY <2>2, WriteSets
  <2>5. Addressed(c) /\ c.what = "normal"
    BY <2>2, WriteSets
  <2>6. \A a \in 0 .. 2 : k # 3 * a + 3 /\ (k = 14 + a => a = b)
    BY <2>3
  <2>7. k \notin 10 .. 12
    BY <2>3
  <2> QED BY <2>3, <2>4, <2>5, <2>6, <2>7
<1>4. CASE k \in {13, 17, 18, 19, 20, 21, 22}
  <2>1. \E n \in {"phy", "idelay"} : c = Prepare!Read(n, 2)
    <3>1. k = 13 \/ k \in 17 .. 22
      BY <1>4
    <3> QED BY <3>1, AdcIs
  <2>2. PICK n \in {"phy", "idelay"} : c = Prepare!Read(n, 2)
    BY <2>1
  <2>3. Addressed(c) /\ \A m, j : ~Sets(c, m, j)
    BY <2>2, ReadSets DEF Prepare!Slow
  <2>4. k \notin 10 .. 12 /\ \A a \in 0 .. 2 : k # 3 * a + 3 /\ k # 14 + a
    BY <1>4
  <2> QED BY <2>3, <2>4
<1> QED BY <1>1, <1>2, <1>3, <1>4

LEMMA LastCalls ==
  ASSUME Prepare!StarsAssumption, NEW c,
         \/ \E k \in 1 .. 2 : c = Prepare!Dac[k]
         \/ \E k \in 1 .. 12 : c = Prepare!Freq[k]
         \/ \E k \in 1 .. 7 : c = Prepare!Buffer[k]
  PROVE  Addressed(c) /\ \A m, j : Sets(c, m, j) => m \in {"dac", "freq"}
<1>1. ASSUME NEW k \in 1 .. 2, c = Prepare!Dac[k] PROVE Addressed(c) /\ \A m, j : Sets(c, m, j) => m \in {"dac", "freq"}
  <2>1. c = Prepare!Write("dac", k - 1, "midscale")
    BY <1>1, LastCallsAre
  <2> QED BY <2>1, WriteSets
<1>2. ASSUME NEW k \in 1 .. 12, c = Prepare!Freq[k] PROVE Addressed(c) /\ \A m, j : Sets(c, m, j) => m \in {"dac", "freq"}
  <2>1. c = Prepare!Write("freq", 0, "source") \/ c = Prepare!Read("freq", 2)
    BY <1>2, LastCallsAre
  <2> QED BY <2>1, WriteSets, ReadSets DEF Prepare!Slow
<1>3. ASSUME NEW k \in 1 .. 7, c = Prepare!Buffer[k] PROVE Addressed(c) /\ \A m, j : Sets(c, m, j) => m \in {"dac", "freq"}
  <2>1. c.op = "register"
    BY <1>3, LastCallsAre
  <2> QED BY <2>1 DEF Sets, Addressed, SleepsFor
<1> QED BY <1>1, <1>2, <1>3

(* The calls that the state of the FMC112 depends on, by their place.      *)
LEMMA CallFacts ==
  ASSUME Prepare!StarsAssumption, Prepare!BoundsAssumption,
         NEW q \in 1 .. 60 + ClockSettings, NEW c, c = Calls[Base + q]
  PROVE
  /\ Addressed(c)
  /\ Sets(c, "cpld", 0) => q <= 12
  /\ q = 12 => Sets(c, "cpld", 0) /\ c.what = "run"
  /\ Sets(c, "clock", 0) => q <= 16 + ClockSettings
  /\ q = 16 + ClockSettings => Sets(c, "clock", 0) /\ c.what = "update"
  /\ \A a \in 0 .. 2 :
       /\ Sets(c, "adc", a) => q <= 20 + ClockSettings + 3 * a \/ q = 31 + ClockSettings + a
       /\ q = 20 + ClockSettings + 3 * a => Sets(c, "adc", a) /\ c.what = "pattern"
       /\ q = 31 + ClockSettings + a => Sets(c, "adc", a) /\ c.what = "normal"
  /\ Sets(c, "phy", 0) => q - ClockSettings \in 27 .. 29
  /\ q = 27 + ClockSettings => Sets(c, "phy", 0) /\ c.what = "resetClock"
  /\ q = 28 + ClockSettings => Sets(c, "phy", 0) /\ c.what = "resetSerdes"
  /\ q = 29 + ClockSettings => Sets(c, "phy", 0) /\ c.what = "train"
<1> DEFINE C == ClockSettings
<1>0. C \in Nat /\ c = Prepare!Rest[q]
  BY CallsAre
<1> HIDE DEF C
<1>1. CASE q \in 1 .. 5
  <2>1. c = Prepare!Identify[q]
    BY <1>0, <1>1, RestIs
  <2>2. Addressed(c) /\ \A m, j : ~Sets(c, m, j)
    BY <1>1, <2>1, IdentifyCalls
  <2>3. q < 12 /\ q < 16 + C /\ q < 27 + C /\ \A a \in 0 .. 2 : q < 20 + C + 3 * a /\ q < 31 + C + a
    BY <1>0, <1>1
  <2> QED BY <2>2, <2>3, <1>0 DEF C
<1>2. CASE q \in 6 .. 14
  <2> DEFINE k == q - 5
  <2>1. k \in 1 .. 9 /\ 5 + k = q
    BY <1>2
  <2>2. c = Prepare!Cpld[k]
    BY <1>0, <2>1, RestIs
  <2> HIDE DEF k
  <2>3. /\ Addressed(c) /\ \A m, j : Sets(c, m, j) => m \in {"cpld", "led"}
        /\ Sets(c, "cpld", 0) => k <= 7
        /\ k = 7 => Sets(c, "cpld", 0) /\ c.what = "run"
    BY <2>1, <2>2, CpldCalls
  <2>4. q < 16 + C /\ q < 27 + C /\ \A a \in 0 .. 2 : q < 20 + C + 3 * a /\ q < 31 + C + a
    BY <1>0, <1>2
  <2>5. ~Sets(c, "clock", 0) /\ ~Sets(c, "phy", 0) /\ \A a \in 0 .. 2 : ~Sets(c, "adc", a)
    BY <2>3
  <2> QED BY <1>0, <2>1, <2>3, <2>4, <2>5 DEF C
<1>3. CASE q \in 15 .. 17 + C
  <2> DEFINE k == q - 14
  <2>1. k \in 1 .. C + 3 /\ 14 + k = q
    BY <1>0, <1>3
  <2>2. c = Prepare!ClockTree[k]
    BY <1>0, <2>1, RestIs DEF C
  <2> HIDE DEF k
  <2>3. /\ Addressed(c) /\ \A m, j : Sets(c, m, j) => m = "clock"
        /\ Sets(c, "clock", 0) => k <= C + 2
        /\ k = C + 2 => Sets(c, "clock", 0) /\ c.what = "update"
    BY <2>1, <2>2, ClockCalls DEF C
  <2>4. q > 12 /\ q < 27 + C /\ \A a \in 0 .. 2 : q < 20 + C + 3 * a /\ q < 31 + C + a
    BY <1>0, <1>3
  <2>5. ~Sets(c, "cpld", 0) /\ ~Sets(c, "phy", 0) /\ \A a \in 0 .. 2 : ~Sets(c, "adc", a)
    BY <2>3
  <2> QED BY <1>0, <2>1, <2>3, <2>4, <2>5 DEF C
<1>4. CASE q \in 18 + C .. 39 + C
  <2> DEFINE k == q - 17 - C
  <2>1. k \in 1 .. 22 /\ (17 + C) + k = q
    BY <1>0, <1>4
  <2>2. c = Prepare!Adc[k]
    BY <1>0, <2>1, RestIs DEF C
  <2> HIDE DEF k
  <2>3. /\ Addressed(c) /\ \A m, j : Sets(c, m, j) => m \in {"adc", "phy"}
        /\ \A a \in 0 .. 2 :
             /\ Sets(c, "adc", a) => k <= 3 * a + 3 \/ k = 14 + a
             /\ k = 3 * a + 3 => Sets(c, "adc", a) /\ c.what = "pattern"
             /\ k = 14 + a => Sets(c, "adc", a) /\ c.what = "normal"
        /\ Sets(c, "phy", 0) => k \in 10 .. 12
        /\ k = 10 => Sets(c, "phy", 0) /\ c.what = "resetClock"
        /\ k = 11 => Sets(c, "phy", 0) /\ c.what = "resetSerdes"
        /\ k = 12 => Sets(c, "phy", 0) /\ c.what = "train"
    BY <2>1, <2>2, AdcCalls, Zenon
  <2>4. q > 12 /\ q > 16 + C /\ (q = 27 + C <=> k = 10) /\ (q = 28 + C <=> k = 11) /\ (q = 29 + C <=> k = 12)
        /\ (k \in 10 .. 12 <=> q - C \in 27 .. 29)
    BY <1>0, <1>4, <2>1
  <2>5. \A a \in 0 .. 2 : /\ q = 20 + C + 3 * a <=> k = 3 * a + 3
                          /\ q = 31 + C + a <=> k = 14 + a
                          /\ q <= 20 + C + 3 * a <=> k <= 3 * a + 3
    BY <1>0, <1>4, <2>1
  <2>6. ~Sets(c, "cpld", 0) /\ ~Sets(c, "clock", 0) /\ q # 12 /\ q # 16 + C
    BY <1>0, <2>3, <2>4
  <2> QED BY <2>3, <2>4, <2>5, <2>6, Zenon DEF C
<1>5. CASE q \in 40 + C .. 60 + C
  <2>1. Addressed(c) /\ \A m, j : Sets(c, m, j) => m \in {"dac", "freq"}
    <3>1. CASE q \in 40 + C .. 41 + C
      <4> DEFINE k == q - 39 - C
      <4>1. k \in 1 .. 2 /\ (39 + C) + k = q
        BY <1>0, <3>1
      <4>2. c = Prepare!Dac[k]
        BY <1>0, <4>1, RestIs DEF C
      <4> QED BY <4>1, <4>2, LastCalls, Zenon
    <3>2. CASE q \in 42 + C .. 53 + C
      <4> DEFINE k == q - 41 - C
      <4>1. k \in 1 .. 12 /\ (41 + C) + k = q
        BY <1>0, <3>2
      <4>2. c = Prepare!Freq[k]
        BY <1>0, <4>1, RestIs DEF C
      <4> QED BY <4>1, <4>2, LastCalls, Zenon
    <3>3. CASE q \in 54 + C .. 60 + C
      <4> DEFINE k == q - 53 - C
      <4>1. k \in 1 .. 7 /\ (53 + C) + k = q
        BY <1>0, <3>3
      <4>2. c = Prepare!Buffer[k]
        BY <1>0, <4>1, RestIs DEF C
      <4> QED BY <4>1, <4>2, LastCalls, Zenon
    <3> QED BY <1>0, <1>5, <3>1, <3>2, <3>3
  <2>2. q > 12 /\ q > 16 + C /\ q > 29 + C /\ \A a \in 0 .. 2 : q > 20 + C + 3 * a /\ q > 31 + C + a
    BY <1>0, <1>5
  <2>3. ~Sets(c, "cpld", 0) /\ ~Sets(c, "clock", 0) /\ ~Sets(c, "phy", 0) /\ \A a \in 0 .. 2 : ~Sets(c, "adc", a)
    BY <2>1
  <2> QED BY <1>0, <2>1, <2>2, <2>3 DEF C
<1>6. q \in 1 .. 60 + C
  BY DEF C
<1> QED BY <1>0, <1>1, <1>2, <1>3, <1>4, <1>5, <1>6

(* What a call does to the FMC112, and what that leaves.                   *)
EffectOf(c) ==
  /\ cpld' = IF Sets(c, "cpld", 0) THEN c.what ELSE cpld
  /\ clock' = IF Sets(c, "clock", 0) THEN c.what ELSE clock
  /\ \A a \in 0 .. 2 : adc'[a] = IF Sets(c, "adc", a) THEN c.what ELSE adc[a]
  /\ phy' = IF Sets(c, "phy", 0) THEN c.what ELSE phy

LEMMA TableCall ==
  ASSUME Prepare!StarsAssumption, Prepare!BoundsAssumption, NEW k \in 1 .. Base, NEW c, c = Calls[k]
  PROVE  /\ c.op = "read" /\ c.star = Prepare!CID /\ c.reg = <<"cid", 3 + k>> /\ \A m, j : ~Sets(c, m, j)
         /\ SleepsFor(c)
<1>1. c = Prepare!ReadCid(3 + k)
  BY CallsAre
<1>2. c.op = "read" /\ c.star = Prepare!CID /\ c.reg = <<"cid", 3 + k>> /\ SleepsFor(c)
  BY <1>1, ReadsCid
<1> QED BY <1>2 DEF Sets

LEMMA BoardStep ==
  ASSUME Prepare!StarsAssumption, Prepare!BoundsAssumption,
         NEW e \in 0 .. Len(Calls) - 1, NEW c, c = Calls[e + 1], EffectOf(c), BoardAfter(e)
  PROVE  BoardAfter(e + 1)'
<1>c. ClockSettings \in Nat /\ Base \in Nat /\ Len(Calls) = Base + 60 + ClockSettings
  BY CallsAre
<1>a. Prepare!ADCs = 0 .. 2 /\ ClockSettings' = ClockSettings /\ Base' = Base
  BY DEF Prepare!ADCs, Base
<1>1. CASE e + 1 <= Base
  <2>1. e + 1 \in 1 .. Base
    BY <1>1, <1>c
  <2>2. ~Sets(c, "phy", 0)
    BY <2>1, TableCall, Zenon
  <2>3. phy' = phy
    BY <2>2 DEF EffectOf
  <2>4. phy # "train"
    BY <1>1, <1>c, Zenon, SMT DEF BoardAfter
  <2>5. (e + 1) - Base <= 0
    BY <1>1, <1>c
  <2> QED BY <1>a, <1>c, <2>3, <2>4, <2>5 DEF BoardAfter
<1>2. CASE e + 1 > Base
  <2> DEFINE q == (e + 1) - Base
             C == ClockSettings
  <2>1. q \in 1 .. 60 + C /\ Base + q = e + 1 /\ e - Base = q - 1
    BY <1>2, <1>c
  <2>2. C \in Nat
    BY <1>c
  <2>3. /\ Sets(c, "cpld", 0) => q <= 12
        /\ q = 12 => Sets(c, "cpld", 0) /\ c.what = "run"
        /\ Sets(c, "clock", 0) => q <= 16 + C
        /\ q = 16 + C => Sets(c, "clock", 0) /\ c.what = "update"
        /\ \A a \in 0 .. 2 :
             /\ Sets(c, "adc", a) => q <= 20 + C + 3 * a \/ q = 31 + C + a
             /\ q = 20 + C + 3 * a => Sets(c, "adc", a) /\ c.what = "pattern"
             /\ q = 31 + C + a => Sets(c, "adc", a) /\ c.what = "normal"
        /\ Sets(c, "phy", 0) => q - C \in 27 .. 29
        /\ q = 27 + C => Sets(c, "phy", 0) /\ c.what = "resetClock"
        /\ q = 28 + C => Sets(c, "phy", 0) /\ c.what = "resetSerdes"
        /\ q = 29 + C => Sets(c, "phy", 0) /\ c.what = "train"
    <3>1. q \in 1 .. 60 + ClockSettings /\ c = Calls[Base + q]
      BY <2>1
    <3> HIDE DEF q
    <3> QED BY <3>1, CallFacts DEF C
  <2>4. /\ q - 1 >= 12 => cpld = "run"
        /\ q - 1 >= 16 + C => clock = "update"
        /\ \A a \in 0 .. 2 :
             /\ q - 1 >= 20 + C + 3 * a /\ q - 1 < 31 + C + a => adc[a] = "pattern"
             /\ q - 1 >= 31 + C + a => adc[a] = "normal"
        /\ q - 1 < 29 + C => phy # "train"
        /\ q - 1 = 28 + C => phy = "resetSerdes"
        /\ q - 1 >= 29 + C => phy = "train"
    BY <1>a, <2>1, Zenon DEF BoardAfter
  <2> HIDE DEF q, C
  <2>5. q \in Int
    BY <2>1
  <2>6. q >= 12 => cpld' = "run"
    BY <2>2, <2>3, <2>4, <2>5 DEF EffectOf
  <2>7. q >= 16 + C => clock' = "update"
    BY <2>2, <2>3, <2>4, <2>5 DEF EffectOf
  <2>8. ASSUME NEW a \in 0 .. 2
        PROVE  /\ q >= 20 + C + 3 * a /\ q < 31 + C + a => adc'[a] = "pattern"
               /\ q >= 31 + C + a => adc'[a] = "normal"
    <3>1. adc'[a] = IF Sets(c, "adc", a) THEN c.what ELSE adc[a]
      BY DEF EffectOf
    <3>2. \/ q = 20 + C + 3 * a \/ q = 31 + C + a
          \/ (~Sets(c, "adc", a) /\ q # 20 + C + 3 * a /\ q # 31 + C + a)
          \/ q < 20 + C + 3 * a
      BY <2>2, <2>3, <2>5
    <3>3. 20 + C + 3 * a < 31 + C + a
      BY <2>2
    <3> DEFINE begin == 20 + C + 3 * a
               end  == 31 + C + a
    <3>4. begin \in Int /\ end \in Int
      BY <2>2
    <3>5. /\ q = begin => adc'[a] = "pattern"
          /\ q = end => adc'[a] = "normal"
          /\ ~Sets(c, "adc", a) => adc'[a] = adc[a]
      BY <2>3, <3>1
    <3>6. /\ q - 1 >= begin /\ q - 1 < end => adc[a] = "pattern"
          /\ q - 1 >= end => adc[a] = "normal"
      BY <2>4
    <3> HIDE DEF begin, end
    <3>7. /\ q = begin \/ q = end \/ (~Sets(c, "adc", a) /\ q # begin /\ q # end) \/ q < begin
          /\ begin < end
      BY <3>2, <3>3 DEF begin, end
    <3>8. /\ q >= begin /\ q < end => adc'[a] = "pattern"
          /\ q >= end => adc'[a] = "normal"
      BY <2>5, <3>4, <3>5, <3>6, <3>7
    <3> QED BY <3>8 DEF begin, end
  <2>9. /\ q < 29 + C => phy' # "train"
        /\ q = 28 + C => phy' = "resetSerdes"
        /\ q >= 29 + C => phy' = "train"
    BY <2>2, <2>3, <2>4, <2>5 DEF EffectOf
  <2> QED BY <1>a, <2>6, <2>7, <2>8, <2>9, Zenon DEF BoardAfter, q, C
<1> QED BY <1>c, <1>1, <1>2

(* A call of the preparation by its place.                                 *)
LEMMA CallAt ==
  ASSUME Prepare!StarsAssumption, Prepare!BoundsAssumption,
         NEW k \in 1 .. Len(Calls), NEW c, c = Calls[k]
  PROVE  /\ c \in CallSet
         /\ c.op \in {"read", "write", "register"}
         /\ c.op # "read" => k > Base /\ Addressed(c)
         /\ c.op = "read" => /\ c.star = Prepare!CID \/ (c.star = FMC /\ k > Base)
                             /\ c.reg # <<"cid", 0>> /\ SleepsFor(c)
                             /\ \A s \in Prepare!Stars : c.reg = <<"cid", 4 + 3 * s>> <=> k = 3 * s + 1
<1>1. Base \in Nat /\ ClockSettings \in Nat /\ Calls \in Seq(CallSet) /\ Len(Calls) = Base + 60 + ClockSettings
  BY CallsAre
<1>2. c \in CallSet
  BY <1>1
<1>3. \A s \in Prepare!Stars : s \in Nat /\ 3 * s < Base
  BY DEF Prepare!Stars, Prepare!StarsAssumption, Base
<1>4. CASE k <= Base
  <2>1. k \in 1 .. Base
    BY <1>1, <1>4
  <2>2. c.op = "read" /\ c.star = Prepare!CID /\ c.reg = <<"cid", 3 + k>> /\ SleepsFor(c)
    BY <2>1, TableCall
  <2>3. <<"cid", 3 + k>> # <<"cid", 0>>
    BY <2>1, <1>1
  <2>4. \A s \in Prepare!Stars : <<"cid", 3 + k>> = <<"cid", 4 + 3 * s>> <=> k = 3 * s + 1
    BY <2>1, <1>1, <1>3
  <2> QED BY <1>2, <2>2, <2>3, <2>4
<1>5. CASE k > Base
  <2> DEFINE q == k - Base
  <2>1. q \in 1 .. 60 + ClockSettings /\ Base + q = k
    BY <1>1, <1>5
  <2> HIDE DEF q
  <2>2. c = Calls[Base + q]
    BY <2>1
  <2>3. Addressed(c)
    BY <2>1, <2>2, CallFacts
  <2>4. \A s \in Prepare!Stars : 4 + 3 * s \in Int /\ 4 + 3 * s \notin 1 .. 3 /\ k # 3 * s + 1
    BY <1>1, <1>3, <1>5
  <2>5. 0 \in Int /\ 0 \notin 1 .. 3
    OBVIOUS
  <2>6. c.op = "read" => /\ c.reg # <<"cid", 0>>
                         /\ \A s \in Prepare!Stars : c.reg # <<"cid", 4 + 3 * s>>
    BY <2>3, <2>4, <2>5, Zenon DEF Addressed
  <2> QED BY <1>2, <1>5, <2>3, <2>4, <2>6 DEF Addressed
<1> QED BY <1>1, <1>4, <1>5

LEMMA BaseIs ==
  ASSUME Prepare!StarsAssumption, NEW s \in Prepare!Stars
  PROVE  Prepare!BaseOf(Prepare!Cid(4 + 3 * s)) = s
<1> DEFINE v == Prepare!Cid(4 + 3 * s)
<1>1. s \in Nat
  BY DEF Prepare!Stars, Prepare!StarsAssumption
<1>2. v.base = -1 /\ v.reg = <<"cid", 4 + 3 * s>> /\ v.reg[2] = 4 + 3 * s
  BY DEF Prepare!Cid, Prepare!At, Prepare!CID
<1>3. v # Prepare!Zero
  BY <1>2 DEF Prepare!Zero, Prepare!At, Prepare!Nowhere
<1>4. v \in {Prepare!Cid(4 + 3 * k) : k \in Prepare!Stars}
  OBVIOUS
<1>5. ((4 + 3 * s) - 4) \div 3 = s
  BY <1>1
<1> HIDE DEF v
<1>6. Prepare!BaseOf(v) = (v.reg[2] - 4) \div 3
  BY <1>3, <1>4 DEF Prepare!BaseOf
<1> QED BY <1>2, <1>5, <1>6 DEF v

(* A call goes to the address it is meant for when the bases are known.    *)
LEMMA AddressIs ==
  ASSUME Prepare!StarsAssumption, Prepare!BoundsAssumption,
         NEW p \in 0 .. Len(Calls) - 1, NEW c, c = Calls[p + 1], c.op \in {"read", "write"}, BasesFrom(p)
  PROVE  Prepare!AddrOf(c) = Asked(c)
<1>1. Base \in Nat /\ ClockSettings \in Nat /\ Len(Calls) = Base + 60 + ClockSettings
  BY CallsAre
<1>2. p + 1 \in 1 .. Len(Calls)
  BY <1>1
<1>3. c.star = Prepare!CID \/ (c.star \in Prepare!Stars /\ p >= Base)
  <2>1. CASE c.op = "read"
    BY <1>1, <1>2, <2>1, CallAt DEF Prepare!StarsAssumption, Prepare!Stars
  <2>2. CASE c.op = "write"
    <3>1. p + 1 > Base /\ Addressed(c)
      BY <1>2, <2>2, CallAt
    <3> QED BY <1>1, <2>2, <3>1, SMTT(30) DEF Addressed, Prepare!StarsAssumption, Prepare!Stars
  <2> QED BY <2>1, <2>2
<1>4. CASE c.star = Prepare!CID
  BY <1>4 DEF Prepare!AddrOf, Asked
<1>5. CASE c.star \in Prepare!Stars /\ p >= Base
  <2> DEFINE s == c.star
  <2>1. s \in Prepare!Stars /\ 3 * s < p /\ s # Prepare!CID
    BY <1>1, <1>5 DEF Prepare!Stars, Prepare!StarsAssumption, Base, Prepare!CID
  <2>2. bar[s] = Prepare!Cid(4 + 3 * s)
    BY <2>1 DEF BasesFrom
  <2>3. Prepare!BaseOf(bar[s]) = s
    BY <2>1, <2>2, BaseIs
  <2> QED BY <2>1, <2>3 DEF Prepare!AddrOf, Asked
<1> QED BY <1>3, <1>4, <1>5

LEMMA FirstCall ==
  /\ Prepare!ReadCid(0).op = "read" /\ Prepare!ReadCid(0).reg = <<"cid", 0>> /\ Prepare!ReadCid(0).star = Prepare!CID
  /\ Asked(Prepare!ReadCid(0)) = Prepare!Cid(0)
  /\ Prepare!AddrOf(Prepare!ReadCid(0)) = Asked(Prepare!ReadCid(0))
  /\ SleepsFor(Prepare!ReadCid(0))
BY ReadsCid DEF Prepare!ReadCid, Prepare!ReadAt, Prepare!AddrOf, Asked, Prepare!Cid, Prepare!At

(* Types.                                                                  *)
LEMMA PlaceOf ==
  ASSUME NEW c \in CallSet
  PROVE  /\ c.op \in {"read", "write"} => Asked(c) \in Places
         /\ c.op # "read" => Sent(c) \in CmdSet
<1>1. c.op \in {"read", "write"} => Asked(c) \in Places
  BY DEF CallSet, Asked, Prepare!At, Places
<1>2. CASE c.op = "write"
  <2>1. c.what \in Whats /\ Asked(c) \in Places
    BY <1>1, <1>2 DEF CallSet
  <2> QED BY <1>1, <1>2, <2>1 DEF Sent, CmdSet
<1>3. CASE c.op # "write"
  BY <1>1, <1>3 DEF Sent, CmdSet
<1> QED BY <1>1, <1>2, <1>3

Follows(s, u, r) ==
  /\ r \in Seq(CmdSet) /\ Len(r) = Len(s) + Len(u)
  /\ \A k \in 1 .. Len(s) : r[k] = s[k]
  /\ \A k \in 1 .. Len(u) : r[Len(s) + k] = u[k]

LEMMA Following ==
  ASSUME NEW s \in Seq(CmdSet), NEW u \in Seq(CmdSet)
  PROVE  Follows(s, u, s \o u)
<1> DEFINE m == Len(s)
           n == Len(u)
<1>0. m \in Nat /\ n \in Nat
  BY LenProperties
<1> HIDE DEF m, n
<1>1. \A k \in 1 .. m : k \in 1 .. m + n /\ k <= m
  BY <1>0, SMT
<1>3. \A k \in 1 .. m + n : (s \o u)[k] = IF k <= m THEN s[k] ELSE u[k - m]
  BY ConcatProperties, Zenon DEF m, n
<1>4. s \o u \in Seq(CmdSet) /\ Len(s \o u) = m + n
  BY ConcatProperties, Zenon DEF m, n
<1>5. ASSUME NEW k \in 1 .. n PROVE (s \o u)[m + k] = u[k]
  <2>1. (m + k) - m = k /\ m + k \in 1 .. m + n /\ ~(m + k <= m)
    BY <1>0, SMT
  <2>2. (s \o u)[m + k] = u[(m + k) - m]
    BY <1>3, <2>1, Zenon
  <2> QED BY <2>1, <2>2, Zenon
<1> QED BY <1>1, <1>3, <1>4, <1>5, Zenon DEF m, n, Follows

(* A query adds the command, its blanks and the reads of the registers.    *)
QueryAdded(s, a, r) ==
  /\ r \in Seq(CmdSet) /\ Len(r) = Len(s) + 9
  /\ \A k \in 1 .. Len(s) : r[k] = s[k]
  /\ r[Len(s) + 1] = [op |-> "sip", addr |-> a, what |-> "read"]
  /\ \A k \in 1 .. 4 : r[(Len(s) + 1) + k] = [op |-> "blank"]
  /\ \A k \in 1 .. 4 : r[(Len(s) + 5) + k] = [op |-> "status", part |-> k - 1]

LEMMA QueryAdds ==
  ASSUME NEW s \in Seq(CmdSet), NEW a \in Places
  PROVE  QueryAdded(s, a, s \o Prepare!Sip(a, "read") \o Prepare!Blanks \o Prepare!RecvCommand)
<1> DEFINE sip == Prepare!Sip(a, "read")
           s1 == s \o sip
           s2 == s1 \o Prepare!Blanks
           n == Len(s)
           r == s2 \o Prepare!RecvCommand
<1>1. /\ sip \in Seq(CmdSet) /\ Len(sip) = 1 /\ sip[1] = [op |-> "sip", addr |-> a, what |-> "read"]
  BY DEF Prepare!Sip, CmdSet
<1>2. /\ Prepare!Blanks \in Seq(CmdSet) /\ Len(Prepare!Blanks) = 4
      /\ \A k \in 1 .. 4 : Prepare!Blanks[k] = [op |-> "blank"]
  BY DEF Prepare!Blanks, CmdSet
<1>3. /\ Prepare!RecvCommand \in Seq(CmdSet) /\ Len(Prepare!RecvCommand) = 4
      /\ \A k \in 1 .. 4 : Prepare!RecvCommand[k] = [op |-> "status", part |-> k - 1]
  BY DEF Prepare!RecvCommand, CmdSet
<1> HIDE DEF sip
<1>4. Follows(s, sip, s1)
  BY <1>1, Following, Zenon
<1>s. s1 \in Seq(CmdSet)
  BY <1>4, Zenon DEF Follows
<1> HIDE DEF s1
<1>5. Follows(s1, Prepare!Blanks, s2)
  BY <1>2, <1>s, Following, Zenon
<1>t. s2 \in Seq(CmdSet)
  BY <1>5, Zenon DEF Follows
<1> HIDE DEF s2
<1>7. Follows(s2, Prepare!RecvCommand, r)
  BY <1>3, <1>t, Following, Zenon
<1> HIDE DEF r
<1>8. n \in Nat /\ Len(s1) = n + 1 /\ Len(s2) = n + 5 /\ Len(r) = n + 9
  BY <1>1, <1>2, <1>3, <1>4, <1>5, <1>7, LenProperties DEF Follows
<1> HIDE DEF n
<1>9. /\ \A k \in 1 .. n : s1[k] = s[k]
      /\ s1[n + 1] = sip[1]
      /\ \A k \in 1 .. n + 1 : s2[k] = s1[k]
      /\ \A k \in 1 .. 4 : s2[(n + 1) + k] = Prepare!Blanks[k]
      /\ \A k \in 1 .. n + 5 : r[k] = s2[k]
      /\ \A k \in 1 .. 4 : r[(n + 5) + k] = Prepare!RecvCommand[k]
  <2>1. 1 \in 1 .. 1
    OBVIOUS
  <2> QED BY <1>1, <1>2, <1>3, <1>4, <1>5, <1>7, <1>8, <2>1, Zenon DEF Follows, n
<1>10. /\ n + 1 \in 1 .. n + 1 /\ n + 1 \in 1 .. n + 5
       /\ \A k \in 1 .. n : k \in 1 .. n + 1 /\ k \in 1 .. n + 5
       /\ \A k \in 1 .. 4 : (n + 1) + k \in 1 .. n + 5
  BY <1>8
<1>11. \A k \in 1 .. n : r[k] = s[k]
  BY <1>9, <1>10, Zenon
<1>12. r[n + 1] = [op |-> "sip", addr |-> a, what |-> "read"]
  BY <1>1, <1>9, <1>10, Zenon
<1>13. ASSUME NEW k \in 1 .. 4 PROVE r[(n + 1) + k] = [op |-> "blank"]
  <2>1. r[(n + 1) + k] = s2[(n + 1) + k]
    BY <1>9, <1>10, Zenon
  <2>2. s2[(n + 1) + k] = [op |-> "blank"]
    BY <1>2, <1>9, ZenonT(60)
  <2> QED BY <2>1, <2>2, Zenon
<1>14. \A k \in 1 .. 4 : r[(n + 5) + k] = [op |-> "status", part |-> k - 1]
  BY <1>3, <1>9, Zenon
<1>15. r \in Seq(CmdSet) /\ Len(r) = n + 9
  BY <1>7, <1>8, Zenon DEF Follows
<1> QED BY <1>11, <1>12, <1>13, <1>14, <1>15, Zenon DEF n, r, s2, s1, sip, QueryAdded

LEMMA InitPrepare ==
  ASSUME Prepare!StarsAssumption, Prepare!BoundsAssumption, Prepare!Init
  PROVE  PrepareInv
<1>1. Base \in Nat /\ ClockSettings \in Nat /\ Len(Calls) = Base + 60 + ClockSettings
  BY CallsAre
<1>2. 0 \in 0 .. Len(Calls) /\ 0 \in 0 .. 0
  BY <1>1
<1>3. "none" \in Prepare!Names /\ "cid" \in Prepare!Names
  BY DEF Prepare!Names
<1>4. Prepare!Zero \in Places
  BY <1>3 DEF Prepare!Zero, Prepare!At, Prepare!Nowhere, Places, Registers
<1>5. Prepare!ReadCid(0) \in CallSet
  <2>1. 0 \in Int
    OBVIOUS
  <2> QED BY <2>1, InCallSet
<1>6. PrepareTyped
  <2>1. waiting = "nothing" /\ todo = <<Prepare!ReadCid(0)>> /\ cmds = <<>> /\ net = <<>> /\ status = Prepare!Zero
    BY DEF Prepare!Init
  <2>2. pending \in [addr : Places, age : Nat, on : BOOLEAN]
    BY <1>4 DEF Prepare!Init
  <2>3. todo \in Seq(CallSet) /\ cmds \in Seq(CmdSet) /\ net \in Seq([of : Places, part : Int])
    BY <1>5, <2>1
  <2> QED BY <1>4, <2>1, <2>2, <2>3 DEF PrepareTyped
<1>7. TodoFrom(0)
  BY DEF Prepare!Init, TodoFrom
<1>8. QueueFrom(0, 0)
  BY DEF Prepare!Init, QueueFrom, Own
<1>9. AnswerOnItsWay
  BY DEF Prepare!Init, AnswerOnItsWay, Counts
<1>10. BasesFrom(0)
  BY DEF BasesFrom, Prepare!Stars, Prepare!StarsAssumption
<1>11. BoardAfter(0)
  <2>1. 0 - Base < 12 /\ 0 - Base < 16 + ClockSettings /\ 0 - Base < 29 + ClockSettings /\ 0 - Base # 28 + ClockSettings
        /\ \A a \in 0 .. 2 : 0 - Base < 20 + ClockSettings + 3 * a /\ 0 - Base < 31 + ClockSettings + a
    BY <1>1
  <2>2. phy # "train"
    BY DEF Prepare!Init
  <2>3. 0 - Base \in Int
    BY <1>1
  <2> QED BY <1>1, <2>1, <2>2, <2>3 DEF BoardAfter, Prepare!ADCs
<1>12. PrepareFrom(0, 0)
  BY <1>7, <1>8, <1>9, <1>10, <1>11 DEF PrepareFrom
<1>13. timeouts \in Nat
  BY DEF Prepare!Init
<1> QED BY <1>2, <1>6, <1>12, <1>13 DEF PrepareInv

(* The call at the front of what is still to do.                           *)
LEMMA FrontIs ==
  ASSUME Prepare!StarsAssumption, Prepare!BoundsAssumption,
         NEW p \in 0 .. Len(Calls), TodoFrom(p), BasesFrom(p), PrepareTyped, todo # <<>>
  PROVE  /\ Head(todo) \in CallSet
         /\ Head(todo).op = "read" => SleepsFor(Head(todo))
         /\ Head(todo).op \in {"read", "write"} => Prepare!AddrOf(Head(todo)) = Asked(Head(todo))
         /\ \/ p = 0 /\ todo = <<Prepare!ReadCid(0)>> /\ Head(todo) = Prepare!ReadCid(0)
            \/ /\ p < Len(Calls) /\ Head(todo) = Calls[p + 1]
               /\ Len(Tail(todo)) = Len(Calls) - (p + 1)
               /\ \A k \in 1 .. Len(Calls) - (p + 1) : Tail(todo)[k] = Calls[(p + 1) + k]
<1>1. todo \in Seq(CallSet) /\ Len(todo) > 0 /\ Head(todo) \in CallSet /\ Head(todo) = todo[1]
  BY DEF PrepareTyped
<1>2. Len(Calls) \in Nat
  BY CallsAre
<1>3. CASE p = 0 /\ todo = <<Prepare!ReadCid(0)>>
  <2>1. Head(todo) = Prepare!ReadCid(0)
    BY <1>3
  <2> QED BY <1>1, <1>3, <2>1, FirstCall
<1>4. CASE /\ Len(todo) = Len(Calls) - p
           /\ \A k \in 1 .. Len(Calls) - p : todo[k] = Calls[p + k]
  <2>1. p < Len(Calls) /\ p \in 0 .. Len(Calls) - 1
    BY <1>1, <1>2, <1>4
  <2>2. Head(todo) = Calls[p + 1]
    BY <1>1, <1>2, <1>4, <2>1
  <2>3. Tail(todo) \in Seq(CallSet) /\ Len(Tail(todo)) = Len(todo) - 1
        /\ \A k \in 1 .. Len(todo) - 1 : Tail(todo)[k] = todo[k + 1]
    BY <1>1
  <2>4. /\ Len(Tail(todo)) = Len(Calls) - (p + 1)
        /\ \A k \in 1 .. Len(Calls) - (p + 1) : Tail(todo)[k] = Calls[(p + 1) + k]
    <3>1. Len(todo) - 1 = Len(Calls) - (p + 1)
      BY <1>2, <1>4
    <3>2. ASSUME NEW k \in 1 .. Len(Calls) - (p + 1) PROVE Tail(todo)[k] = Calls[(p + 1) + k]
      <4>1. k + 1 \in 1 .. Len(Calls) - p /\ k \in 1 .. Len(todo) - 1 /\ p + (k + 1) = (p + 1) + k
        BY <1>2, <3>1
      <4> QED BY <1>4, <2>3, <4>1
    <3> QED BY <2>3, <3>1, <3>2
  <2>5. Head(todo).op \in {"read", "write"} => Prepare!AddrOf(Head(todo)) = Asked(Head(todo))
    BY <2>1, <2>2, AddressIs
  <2>6. Head(todo).op = "read" => SleepsFor(Head(todo))
    <3>1. p + 1 \in 1 .. Len(Calls)
      BY <1>2, <2>1
    <3> QED BY <2>2, <3>1, CallAt
  <2> QED BY <1>1, <2>1, <2>2, <2>4, <2>5, <2>6
<1> QED BY <1>3, <1>4 DEF TodoFrom

(* The state after a step, for some number of calls made and executed.     *)
KeptTo(e, p) == p \in 0 .. Len(Calls) /\ e \in 0 .. p /\ PrepareTyped' /\ PrepareFrom(e, p)'

LEMMA BoardSame ==
  ASSUME NEW e, BoardAfter(e), UNCHANGED <<adc, phy, cpld, clock>>
  PROVE  BoardAfter(e)'
BY DEF BoardAfter, Base, Prepare!ADCs

LEMMA BasesSame ==
  ASSUME NEW p, BasesFrom(p), UNCHANGED bar
  PROVE  BasesFrom(p)'
BY DEF BasesFrom, Prepare!Stars, Prepare!Cid, Prepare!At, Prepare!CID

LEMMA OwnIs ==
  /\ waiting \in {"nothing", "sleep"} => Own = 0
  /\ waiting = "first" => Own = 9
  /\ waiting = "second" => Own = 4
BY DEF Own

(* A read: its nine commands follow those of the calls before.             *)
LEMMA CallsARead ==
  ASSUME Prepare!StarsAssumption, Prepare!BoundsAssumption,
         NEW p \in 0 .. Len(Calls), NEW e \in 0 .. p, PrepareTyped, PrepareFrom(e, p),
         Prepare!Call, Head(todo).op = "read"
  PROVE  KeptTo(e, p)
<1> DEFINE c == Head(todo)
           n == Len(cmds)
<1>1. /\ waiting = "nothing" /\ todo # <<>> /\ waiting' = "first" /\ UNCHANGED todo
      /\ cmds' = cmds \o Prepare!Sip(Prepare!AddrOf(c), "read") \o Prepare!Blanks \o Prepare!RecvCommand
      /\ UNCHANGED <<bar, net, pending, status, timeouts>> /\ UNCHANGED <<adc, phy, cpld, clock>>
  BY DEF Prepare!Call, Prepare!fmc
<1>2. TodoFrom(p) /\ QueueFrom(e, p) /\ AnswerOnItsWay /\ BasesFrom(p) /\ BoardAfter(e)
  BY DEF PrepareFrom
<1>3. c \in CallSet /\ Prepare!AddrOf(c) = Asked(c) /\ Asked(c) \in Places /\ SleepsFor(c)
  BY <1>1, <1>2, FrontIs, PlaceOf
<1>4. cmds \in Seq(CmdSet) /\ n \in Nat /\ Own = 0 /\ Own' = 9
  <2>1. waiting' = "first" => Own' = 9
    BY DEF Own
  <2> QED BY <1>1, <2>1, OwnIs DEF PrepareTyped
<1>q. QueryAdded(cmds, Asked(c), cmds')
  <2>1. cmds' = cmds \o Prepare!Sip(Asked(c), "read") \o Prepare!Blanks \o Prepare!RecvCommand
    BY <1>1, <1>3
  <2> QED BY <1>3, <1>4, <2>1, QueryAdds, Zenon
<1>5. /\ cmds' \in Seq(CmdSet) /\ Len(cmds') = n + 9
      /\ \A k \in 1 .. n : cmds'[k] = cmds[k]
      /\ cmds'[n + 1] = [op |-> "sip", addr |-> Asked(c), what |-> "read"]
      /\ \A k \in 1 .. 4 : cmds'[(n + 1) + k] = [op |-> "blank"]
      /\ \A k \in 1 .. 4 : cmds'[(n + 5) + k] = [op |-> "status", part |-> k - 1]
  BY <1>q, Zenon DEF QueryAdded
<1>6. PrepareTyped'
  BY <1>1, <1>5 DEF PrepareTyped
<1>7. TodoFrom(p)'
  BY <1>1, <1>2 DEF TodoFrom
<1>8. n = p - e
  BY <1>2, <1>4 DEF QueueFrom
<1>9. QueueFrom(e, p)'
  <2>1. (Len(cmds) = (p - e) + Own)'
    BY <1>4, <1>5, <1>8
  <2>2. ASSUME NEW k \in 1 .. p - e PROVE Calls[e + k].op # "read" /\ cmds'[k] = Sent(Calls[e + k])
    BY <1>2, <1>5, <1>8 DEF QueueFrom
  <2>3. ASSUME NEW j \in 0 .. 8 PROVE cmds'[(n + 9) - j] = OwnCommand(j)'
    <3>1. CASE j < 4
      <4>1. (n + 9) - j = (n + 5) + (4 - j) /\ 4 - j \in 1 .. 4 /\ (4 - j) - 1 = 3 - j
        BY <1>4, <3>1
      <4>2. cmds'[(n + 9) - j] = [op |-> "status", part |-> 3 - j]
        BY <1>5, <4>1
      <4> QED BY <3>1, <4>2 DEF OwnCommand
    <3>2. CASE j \in 4 .. 7
      <4>1. (n + 9) - j = (n + 1) + (8 - j) /\ 8 - j \in 1 .. 4
        BY <1>4, <3>2
      <4>2. cmds'[(n + 9) - j] = [op |-> "blank"]
        BY <1>5, <4>1
      <4> QED BY <3>2, <4>2 DEF OwnCommand
    <3>3. CASE j = 8
      <4>1. cmds'[(n + 9) - j] = [op |-> "sip", addr |-> Asked(c), what |-> "read"]
        BY <1>4, <1>5, <3>3
      <4>2. ~(j < 4) /\ j \notin 4 .. 7 /\ todo' = todo
        BY <1>1, <3>3
      <4>3. OwnCommand(j)' = [op |-> "sip", addr |-> Asked(c), what |-> "read"]
        BY <4>2, Zenon DEF OwnCommand, Asked
      <4> QED BY <4>1, <4>3
    <3> QED BY <3>1, <3>2, <3>3
  <2> QED BY <1>4, <1>5, <2>1, <2>2, <2>3 DEF QueueFrom, Sent, Asked
<1>10. AnswerOnItsWay'
  <2>1. ~pending.on /\ Len(net) = 0
    BY <1>1, <1>2 DEF AnswerOnItsWay
  <2>2. ~pending'.on /\ Len(net') = 0 /\ ~(Len(cmds') < 9) /\ ~(Len(cmds') < 4) /\ todo' = todo
    <3>1. n \in Nat /\ Len(cmds') = n + 9
      BY <1>4, <1>5
    <3>2. ~(Len(cmds') < 9) /\ ~(Len(cmds') < 4)
      BY <3>1
    <3>3. pending' = pending /\ net' = net /\ todo' = todo
      BY <1>1
    <3> QED BY <2>1, <3>2, <3>3
  <2>3. \A k \in 1 .. Len(net') : FALSE
    BY <2>2
  <2>4. waiting' = "first" /\ todo' # <<>> /\ Head(todo').op = "read" /\ SleepsFor(Head(todo))'
    BY <1>1, <1>3 DEF SleepsFor, Prepare!Slow
  <2>5. waiting' # "sleep" /\ waiting' # "second"
    BY <2>4
  <2> QED BY <2>2, <2>3, <2>4, <2>5, Zenon DEF AnswerOnItsWay
<1>11. BasesFrom(p)' /\ BoardAfter(e)'
  BY <1>1, <1>2, BasesSame, BoardSame
<1> QED BY <1>6, <1>7, <1>9, <1>10, <1>11 DEF KeptTo, PrepareFrom

(* A write or a register: one command more.                                *)
LEMMA CallsAWrite ==
  ASSUME Prepare!StarsAssumption, Prepare!BoundsAssumption,
         NEW p \in 0 .. Len(Calls), NEW e \in 0 .. p, PrepareTyped, PrepareFrom(e, p),
         Prepare!Call, Head(todo).op # "read"
  PROVE  KeptTo(e, p + 1)
<1> DEFINE c == Head(todo)
           n == Len(cmds)
<1>1. waiting = "nothing" /\ todo # <<>>
  BY DEF Prepare!Call
<1>2. TodoFrom(p) /\ QueueFrom(e, p) /\ AnswerOnItsWay /\ BasesFrom(p) /\ BoardAfter(e)
  BY DEF PrepareFrom
<1>3. /\ c \in CallSet /\ (c.op = "write" => Prepare!AddrOf(c) = Asked(c))
      /\ p < Len(Calls) /\ c = Calls[p + 1]
      /\ Len(Tail(todo)) = Len(Calls) - (p + 1)
      /\ \A k \in 1 .. Len(Calls) - (p + 1) : Tail(todo)[k] = Calls[(p + 1) + k]
  BY <1>1, <1>2, FrontIs, FirstCall
<1>4. /\ cmds \in Seq(CmdSet) /\ n \in Nat /\ Own = 0 /\ Len(Calls) \in Nat /\ Base \in Nat
      /\ p + 1 \in 1 .. Len(Calls)
  BY <1>1, <1>3, OwnIs, CallsAre, SMTT(30) DEF PrepareTyped
<1>5. c.op \in {"write", "register"} /\ p + 1 > Base
  BY <1>3, <1>4, CallAt
<1>6. /\ waiting' = "nothing" /\ todo' = Tail(todo)
      /\ UNCHANGED <<bar, net, pending, status, timeouts>> /\ UNCHANGED <<adc, phy, cpld, clock>>
  BY <1>1, <1>5 DEF Prepare!Call, Prepare!fmc
<1>7. Sent(c) \in CmdSet
  BY <1>3, <1>5, PlaceOf
<1>8. /\ cmds' \in Seq(CmdSet) /\ Len(cmds') = n + 1
      /\ \A k \in 1 .. n : cmds'[k] = cmds[k]
      /\ cmds'[n + 1] = Sent(c)
  <2>1. CASE c.op = "write"
    <3>1. cmds' = cmds \o <<Sent(c)>>
      BY <1>3, <2>1 DEF Prepare!Call, Prepare!Sip, Sent
    <3>2. cmds' = Append(cmds, Sent(c))
      BY <1>4, <1>7, <3>1
    <3> QED BY <1>4, <1>7, <3>2
  <2>2. CASE c.op = "register"
    <3>1. cmds' = Append(cmds, Sent(c))
      BY <2>2 DEF Prepare!Call, Sent
    <3> QED BY <1>4, <1>7, <3>1
  <2> QED BY <1>5, <2>1, <2>2
<1>9. PrepareTyped'
  <2>1. Tail(todo) \in Seq(CallSet)
    BY <1>1 DEF PrepareTyped
  <2> QED BY <1>1, <1>6, <1>8, <2>1 DEF PrepareTyped
<1>10. TodoFrom(p + 1)'
  BY <1>3, <1>6 DEF TodoFrom
<1>11. n = p - e
  BY <1>2, <1>4 DEF QueueFrom
<1>12. QueueFrom(e, p + 1)'
  <2>1. Own' = 0
    BY <1>6 DEF Own
  <2>2. (Len(cmds) = ((p + 1) - e) + Own)'
    BY <1>4, <1>8, <1>11, <2>1
  <2>3. ASSUME NEW k \in 1 .. (p + 1) - e PROVE Calls[e + k].op # "read" /\ cmds'[k] = Sent(Calls[e + k])
    <3>1. CASE k \in 1 .. n
      BY <1>2, <1>8, <1>11, <3>1 DEF QueueFrom
    <3>2. CASE k = n + 1
      BY <1>3, <1>5, <1>8, <1>11, <3>2
    <3> QED BY <1>4, <1>11, <3>1, <3>2
  <2> QED BY <2>1, <2>2, <2>3 DEF QueueFrom, Sent, Asked
<1>13. AnswerOnItsWay'
  <2>1. ~pending.on /\ Len(net) = 0
    BY <1>1, <1>2 DEF AnswerOnItsWay
  <2>2. waiting' = "nothing" /\ ~pending'.on /\ Len(net') = 0
    BY <1>6, <2>1
  <2>3. \A k \in 1 .. Len(net') : FALSE
    BY <2>2
  <2> QED BY <2>2, <2>3 DEF AnswerOnItsWay
<1>14. BasesFrom(p + 1)
  BY <1>2, <1>5, <1>4 DEF BasesFrom, Base, Prepare!Stars, Prepare!StarsAssumption
<1>15. BasesFrom(p + 1)' /\ BoardAfter(e)'
  BY <1>2, <1>6, <1>14, BasesSame, BoardSame
<1> QED BY <1>3, <1>4, <1>9, <1>10, <1>12, <1>13, <1>15 DEF KeptTo, PrepareFrom

(* When a reply is whole, the queue is empty, and a reply that counts is   *)
(* the answer.                                                             *)
LEMMA WholeReply ==
  ASSUME Prepare!StarsAssumption, Prepare!BoundsAssumption,
         NEW p \in 0 .. Len(Calls), NEW e \in 0 .. p, PrepareTyped, PrepareFrom(e, p),
         waiting # "nothing", Len(net) >= 4
  PROVE  /\ cmds = <<>> /\ Len(cmds) = 0 /\ Len(net) = 4 /\ e = p
         /\ todo # <<>> /\ Head(todo).op = "read" /\ SleepsFor(Head(todo))
         /\ Counts => ~pending.on /\ status = Asked(Head(todo)) /\ Prepare!Value(net) = Asked(Head(todo))
<1>1. TodoFrom(p) /\ QueueFrom(e, p) /\ AnswerOnItsWay
  BY DEF PrepareFrom
<1>2. /\ cmds \in Seq(CmdSet) /\ Len(cmds) \in Nat /\ net \in Seq([of : Places, part : Int])
      /\ waiting \in {"nothing", "first", "sleep", "second"}
  BY DEF PrepareTyped
<1>3. Len(net) = IF waiting \in {"first", "second"} /\ Len(cmds) < 4 THEN 4 - Len(cmds) ELSE 0
  BY <1>1, Zenon DEF AnswerOnItsWay
<1>4. waiting \in {"first", "second"} /\ Len(cmds) = 0 /\ Len(net) = 4
  BY <1>2, <1>3
<1>5. Own \in {4, 9}
  BY <1>4, OwnIs
<1>6. cmds = <<>>
  BY <1>2, <1>4
<1>7. e = p
  BY <1>1, <1>5, <1>4 DEF QueueFrom
<1>8. todo # <<>> /\ Head(todo).op = "read" /\ SleepsFor(Head(todo))
  BY <1>1 DEF AnswerOnItsWay
<1>9. ASSUME Counts
      PROVE  ~pending.on /\ status = Asked(Head(todo)) /\ Prepare!Value(net) = Asked(Head(todo))
  <2>1. ~pending.on
    BY <1>1, <1>4, <1>9 DEF AnswerOnItsWay, Counts
  <2>2. status = Asked(Head(todo))
    BY <1>1, <1>4, <2>1 DEF AnswerOnItsWay
  <2>3. /\ net[1] = [of |-> Asked(Head(todo)), part |-> 0]
        /\ net[2] = [of |-> Asked(Head(todo)), part |-> 1]
    <3>1. \A k \in 1 .. 4 : net[k] = [of |-> Asked(Head(todo)), part |-> k - 1]
      BY <1>1, <1>4, <1>9 DEF AnswerOnItsWay
    <3> QED BY <3>1
  <2>4. Prepare!Value(net) = Asked(Head(todo))
    BY <2>3 DEF Prepare!Value
  <2> QED BY <2>1, <2>2, <2>4
<1> QED BY <1>4, <1>6, <1>7, <1>8, <1>9

(* The first reply of a read with waitms counts for nothing.               *)
LEMMA AsksAgain ==
  ASSUME Prepare!StarsAssumption, Prepare!BoundsAssumption,
         NEW p \in 0 .. Len(Calls), NEW e \in 0 .. p, PrepareTyped, PrepareFrom(e, p),
         NEW n \in 4 .. Len(net), Prepare!Answer(n), waiting = "first", Head(todo).wait
  PROVE  KeptTo(e, p)
<1>1. TodoFrom(p) /\ QueueFrom(e, p) /\ AnswerOnItsWay /\ BasesFrom(p) /\ BoardAfter(e)
  BY DEF PrepareFrom
<1>2. Len(net) \in Nat
  BY DEF PrepareTyped
<1>3. /\ cmds = <<>> /\ Len(cmds) = 0 /\ Len(net) = 4 /\ e = p
      /\ todo # <<>> /\ Head(todo).op = "read" /\ SleepsFor(Head(todo)) /\ n = 4
  <2>1. Len(net) >= 4 /\ waiting # "nothing"
    BY <1>2
  <2>2. /\ cmds = <<>> /\ Len(cmds) = 0 /\ Len(net) = 4 /\ e = p
        /\ todo # <<>> /\ Head(todo).op = "read" /\ SleepsFor(Head(todo))
    BY <2>1, WholeReply, Zenon
  <2> QED BY <2>2
<1>4. /\ waiting' = "sleep" /\ UNCHANGED <<todo, bar>> /\ net' = SubSeq(net, 5, 4)
      /\ UNCHANGED <<cmds, pending, status, timeouts>> /\ UNCHANGED <<adc, phy, cpld, clock>>
  BY <1>3 DEF Prepare!Answer, Prepare!Ends, Prepare!fmc
<1>5. net' = <<>>
  BY <1>3, <1>4 DEF PrepareTyped
<1>6. PrepareTyped'
  BY <1>4, <1>5 DEF PrepareTyped
<1>7. TodoFrom(p)'
  BY <1>1, <1>4 DEF TodoFrom
<1>8. QueueFrom(e, p)'
  <2>1. Own' = 0
    BY <1>4 DEF Own
  <2>2. Len(cmds') = 0
    BY <1>3, <1>4
  <2>3. /\ \A k \in 1 .. p - p : FALSE
        /\ \A j \in 0 .. 0 - 1 : FALSE
        /\ (p - p) + 0 = 0
    OBVIOUS
  <2> QED BY <1>3, <2>1, <2>2, <2>3 DEF QueueFrom
<1>9. AnswerOnItsWay'
  <2>1. /\ waiting' = "sleep" /\ cmds' = <<>> /\ Len(cmds') = 0 /\ Len(net') = 0 /\ todo' = todo
        /\ pending' = pending /\ status' = status /\ Asked(Head(todo))' = Asked(Head(todo))
    BY <1>3, <1>4, <1>5 DEF Asked
  <2>2. SleepsFor(Head(todo))'
    BY <1>3, <2>1 DEF SleepsFor, Prepare!Slow
  <2>3. pending.on => pending.addr = Asked(Head(todo))
    BY <1>1 DEF AnswerOnItsWay
  <2>4. ~pending.on => status = Asked(Head(todo))
    BY <1>1, <1>3 DEF AnswerOnItsWay
  <2>5. \A k \in 1 .. Len(net') : FALSE
    BY <2>1
  <2>6. waiting' \notin {"first", "second", "nothing"}
    BY <2>1
  <2> QED BY <1>3, <2>1, <2>2, <2>3, <2>4, <2>5, <2>6 DEF AnswerOnItsWay
<1>10. BasesFrom(p)' /\ BoardAfter(e)'
  BY <1>1, <1>4, BasesSame, BoardSame
<1> QED BY <1>6, <1>7, <1>8, <1>9, <1>10 DEF KeptTo, PrepareFrom

(* After the sleep the registers are read once more.                       *)
LEMMA Wakes ==
  ASSUME Prepare!StarsAssumption, Prepare!BoundsAssumption,
         NEW p \in 0 .. Len(Calls), NEW e \in 0 .. p, PrepareTyped, PrepareFrom(e, p), Prepare!Wake
  PROVE  KeptTo(e, p)
<1>1. TodoFrom(p) /\ QueueFrom(e, p) /\ AnswerOnItsWay /\ BasesFrom(p) /\ BoardAfter(e)
  BY DEF PrepareFrom
<1>2. /\ waiting = "sleep" /\ ~pending.on /\ waiting' = "second" /\ cmds' = cmds \o Prepare!RecvCommand
      /\ UNCHANGED <<todo, bar, net, pending, status, timeouts>> /\ UNCHANGED <<adc, phy, cpld, clock>>
  BY DEF Prepare!Wake, Prepare!fmc
<1>3. /\ cmds = <<>> /\ Len(cmds) = 0 /\ todo # <<>> /\ Head(todo).op = "read" /\ SleepsFor(Head(todo))
      /\ Head(todo).wait /\ status = Asked(Head(todo)) /\ Len(net) = 0
  BY <1>1, <1>2 DEF AnswerOnItsWay
<1>4. e = p
  <2>1. Own = 0
    BY <1>2, OwnIs
  <2> QED BY <1>1, <1>3, <2>1 DEF QueueFrom
<1>6. /\ Prepare!RecvCommand \in Seq(CmdSet) /\ Len(Prepare!RecvCommand) = 4
      /\ \A k \in 1 .. 4 : Prepare!RecvCommand[k] = [op |-> "status", part |-> k - 1]
  BY DEF Prepare!RecvCommand, CmdSet
<1>7. cmds' = Prepare!RecvCommand
  BY <1>2, <1>3, <1>6
<1>8. PrepareTyped'
  BY <1>2, <1>6, <1>7 DEF PrepareTyped
<1>9. TodoFrom(p)'
  BY <1>1, <1>2 DEF TodoFrom
<1>10. QueueFrom(e, p)'
  <2>1. Own' = 4
    BY <1>2 DEF Own
  <2>2. (Len(cmds) = (p - e) + Own)'
    BY <1>4, <1>6, <1>7, <2>1
  <2>3. ASSUME NEW j \in 0 .. 3 PROVE cmds'[4 - j] = OwnCommand(j)'
    <3>1. 4 - j \in 1 .. 4 /\ (4 - j) - 1 = 3 - j /\ j < 4
      OBVIOUS
    <3>2. cmds'[4 - j] = [op |-> "status", part |-> 3 - j]
      BY <1>6, <1>7, <3>1
    <3> QED BY <3>1, <3>2 DEF OwnCommand
  <2>4. \A k \in 1 .. p - e : FALSE
    BY <1>4
  <2>5. Len(cmds') = 4 /\ 0 .. Own' - 1 = 0 .. 3
    BY <1>6, <1>7, <2>1
  <2> QED BY <2>2, <2>3, <2>4, <2>5, Zenon DEF QueueFrom
<1>11. AnswerOnItsWay'
  <2>1. Len(cmds') = 4 /\ Len(net') = 0 /\ todo' = todo /\ pending' = pending /\ status' = status
    BY <1>2, <1>3, <1>6, <1>7
  <2>2. \A k \in 1 .. Len(net') : FALSE
    BY <2>1
  <2>3. Asked(Head(todo))' = Asked(Head(todo)) /\ SleepsFor(Head(todo))'
    BY <1>3, <2>1 DEF Asked, SleepsFor, Prepare!Slow
  <2>4. Len(cmds') <= 4 /\ ~(Len(cmds') < 4) /\ waiting' # "sleep"
    BY <1>2, <2>1
  <2> QED BY <1>2, <1>3, <2>1, <2>2, <2>3, <2>4, Zenon DEF AnswerOnItsWay
<1>12. BasesFrom(p)' /\ BoardAfter(e)'
  BY <1>1, <1>2, BasesSame, BoardSame
<1> QED BY <1>8, <1>9, <1>10, <1>11, <1>12 DEF KeptTo, PrepareFrom

(* The state after an answer that was made use of.                         *)
LEMMA NothingWaits ==
  ASSUME waiting' = "nothing", cmds' = <<>>, net' = <<>>, ~pending'.on, NEW p \in Nat
  PROVE  QueueFrom(p, p)' /\ AnswerOnItsWay'
<1>1. Own' = 0
  BY DEF Own
<1>2. Len(cmds') = 0 /\ Len(net') = 0
  BY Zenon, LenProperties
<1>3. /\ \A k \in 1 .. p - p : FALSE
      /\ \A j \in 0 .. 0 - 1 : FALSE
      /\ \A k \in 1 .. 0 : FALSE
      /\ (p - p) + 0 = 0
  OBVIOUS
<1> QED BY <1>1, <1>2, <1>3 DEF QueueFrom, AnswerOnItsWay

(* The number of stars begins the program of all the calls.                *)
LEMMA UsesNumber ==
  ASSUME Prepare!StarsAssumption, Prepare!BoundsAssumption,
         NEW p \in 0 .. Len(Calls), NEW e \in 0 .. p, PrepareTyped, PrepareFrom(e, p),
         NEW n \in 4 .. Len(net), Prepare!Answer(n), ~(waiting = "first" /\ Head(todo).wait),
         Head(todo) = Prepare!ReadCid(0)
  PROVE  KeptTo(0, 0)
<1>1. TodoFrom(p) /\ BasesFrom(p) /\ BoardAfter(e) /\ Len(net) \in Nat /\ Calls \in Seq(CallSet) /\ Len(Calls) \in Nat
  BY CallsAre DEF PrepareFrom, PrepareTyped
<1>2. /\ cmds = <<>> /\ Len(net) = 4 /\ e = p /\ todo # <<>> /\ ~pending.on
      /\ Prepare!Value(net) = Asked(Head(todo)) /\ n = 4
  <2>1. Len(net) >= 4 /\ waiting # "nothing" /\ Counts
    BY <1>1 DEF Prepare!Answer, Counts
  <2>2. /\ cmds = <<>> /\ Len(net) = 4 /\ e = p /\ todo # <<>> /\ ~pending.on
        /\ Prepare!Value(net) = Asked(Head(todo))
    BY <2>1, WholeReply, Zenon
  <2> QED BY <2>2
<1>3. /\ waiting' = "nothing" /\ Prepare!Use(Prepare!Value(net)) /\ cmds' = cmds /\ net' = SubSeq(net, 5, 4)
      /\ UNCHANGED <<pending, status, timeouts>> /\ UNCHANGED <<adc, phy, cpld, clock>>
  BY <1>2 DEF Prepare!Answer, Prepare!Ends, Prepare!fmc
<1>4. net' = <<>>
  BY <1>2, <1>3 DEF PrepareTyped
<1>5. Prepare!Value(net) = Prepare!Cid(0) /\ Head(todo).reg = <<"cid", 0>>
  BY <1>2, FirstCall
<1>6. todo' = Calls /\ UNCHANGED bar
  <2>1. Prepare!Use(Prepare!Cid(0))
    BY <1>3, <1>5
  <2>2. /\ \E m \in {NStars} : todo' = Prepare!Table(m) \o Prepare!Rest
        /\ UNCHANGED bar
    <3>1. Prepare!Cid(0) # Prepare!Zero
      BY DEF Prepare!Cid, Prepare!Zero, Prepare!At, Prepare!CID, Prepare!Nowhere
    <3>2. (CASE Prepare!Cid(0) = Prepare!Cid(0) -> {NStars}
             [] Prepare!Cid(0) = Prepare!Zero -> {0}
             [] OTHER -> 0 .. NStars) = {NStars}
      BY <3>1
    <3> QED BY <1>5, <2>1, <3>2, Zenon DEF Prepare!Use
  <2> QED BY <2>2, Zenon DEF Calls
<1>7. p = 0
  <2>1. CASE p < Len(Calls) /\ Head(todo) = Calls[p + 1]
    <3>1. p + 1 \in 1 .. Len(Calls) /\ Head(todo).op = "read"
      BY <1>1, <2>1, FirstCall
    <3> QED BY <1>5, <2>1, <3>1, CallAt
  <2> QED BY <1>1, <1>2, <2>1, FrontIs
<1>8. TodoFrom(0)'
  BY <1>1, <1>6 DEF TodoFrom
<1>9. PrepareTyped'
  BY <1>1, <1>2, <1>3, <1>4, <1>6 DEF PrepareTyped
<1>10. QueueFrom(0, 0)' /\ AnswerOnItsWay'
  BY <1>2, <1>3, <1>4, NothingWaits
<1>11. BasesFrom(0)' /\ BoardAfter(0)'
  BY <1>1, <1>2, <1>3, <1>6, <1>7, BasesSame, BoardSame
<1> QED BY <1>1, <1>8, <1>9, <1>10, <1>11 DEF KeptTo, PrepareFrom

(* Any other answer is kept when it is a base address.                     *)
LEMMA UsesAnswer ==
  ASSUME Prepare!StarsAssumption, Prepare!BoundsAssumption,
         NEW p \in 0 .. Len(Calls), NEW e \in 0 .. p, PrepareTyped, PrepareFrom(e, p),
         NEW n \in 4 .. Len(net), Prepare!Answer(n), ~(waiting = "first" /\ Head(todo).wait),
         Head(todo) # Prepare!ReadCid(0)
  PROVE  KeptTo(p + 1, p + 1)
<1> DEFINE c == Head(todo)
<1>1. TodoFrom(p) /\ BasesFrom(p) /\ BoardAfter(e) /\ Len(net) \in Nat /\ Len(Calls) \in Nat
  BY CallsAre DEF PrepareFrom, PrepareTyped
<1>2. /\ cmds = <<>> /\ Len(net) = 4 /\ e = p /\ todo # <<>> /\ ~pending.on /\ c.op = "read"
      /\ Prepare!Value(net) = Asked(c) /\ n = 4
  <2>1. Len(net) >= 4 /\ waiting # "nothing" /\ Counts
    BY <1>1 DEF Prepare!Answer, Counts
  <2>2. /\ cmds = <<>> /\ Len(net) = 4 /\ e = p /\ todo # <<>> /\ ~pending.on /\ c.op = "read"
        /\ Prepare!Value(net) = Asked(c)
    BY <2>1, WholeReply, Zenon
  <2> QED BY <2>2
<1>3. /\ waiting' = "nothing" /\ Prepare!Use(Prepare!Value(net)) /\ cmds' = cmds /\ net' = SubSeq(net, 5, 4)
      /\ UNCHANGED <<pending, status, timeouts>> /\ UNCHANGED <<adc, phy, cpld, clock>>
  BY <1>2 DEF Prepare!Answer, Prepare!Ends, Prepare!fmc
<1>4. net' = <<>>
  BY <1>2, <1>3 DEF PrepareTyped
<1>5. /\ p < Len(Calls) /\ c = Calls[p + 1]
      /\ Len(Tail(todo)) = Len(Calls) - (p + 1)
      /\ \A k \in 1 .. Len(Calls) - (p + 1) : Tail(todo)[k] = Calls[(p + 1) + k]
  BY <1>1, <1>2, FrontIs
<1>6. p + 1 \in 1 .. Len(Calls) /\ p \in 0 .. Len(Calls) - 1
  BY <1>1, <1>5
<1>7. /\ c.reg # <<"cid", 0>>
      /\ c.star = Prepare!CID \/ (c.star = FMC /\ p + 1 > Base)
      /\ \A s \in Prepare!Stars : c.reg = <<"cid", 4 + 3 * s>> <=> p + 1 = 3 * s + 1
  BY <1>2, <1>5, <1>6, CallAt
<1>8. /\ todo' = Tail(todo)
      /\ bar' = [s \in Prepare!Stars |-> IF c.reg = <<"cid", 4 + 3 * s>> THEN Asked(c) ELSE bar[s]]
  BY <1>2, <1>3, <1>7 DEF Prepare!Use
<1>9. TodoFrom(p + 1)'
  BY <1>5, <1>8 DEF TodoFrom
<1>10. PrepareTyped'
  <2>1. Tail(todo) \in Seq(CallSet)
    BY <1>2 DEF PrepareTyped
  <2> QED BY <1>2, <1>3, <1>4, <1>8, <2>1 DEF PrepareTyped
<1>11. QueueFrom(p + 1, p + 1)' /\ AnswerOnItsWay'
  BY <1>2, <1>3, <1>4, <1>6, NothingWaits
<1>12. BasesFrom(p + 1)'
  <2> SUFFICES ASSUME NEW s \in Prepare!Stars, 3 * s < p + 1 PROVE bar'[s] = Prepare!Cid(4 + 3 * s)
    BY DEF BasesFrom, Prepare!Stars, Prepare!Cid, Prepare!At, Prepare!CID
  <2>1. s \in Nat
    BY DEF Prepare!Stars, Prepare!StarsAssumption
  <2>2. CASE 3 * s < p
    <3>1. bar[s] = Prepare!Cid(4 + 3 * s)
      BY <1>1, <2>2 DEF BasesFrom
    <3>2. p + 1 # 3 * s + 1
      BY <2>1, <2>2
    <3> QED BY <1>7, <1>8, <3>1, <3>2
  <2>3. CASE 3 * s = p
    <3>1. c.reg = <<"cid", 4 + 3 * s>>
      BY <1>7, <2>1, <2>3
    <3>2. p + 1 <= Base
      BY <1>6, <2>1, <2>3 DEF Base, Prepare!Stars, Prepare!StarsAssumption
    <3>3. c.star = Prepare!CID
      BY <1>7, <3>2, <1>6, CallsAre
    <3>4. Asked(c) = Prepare!Cid(4 + 3 * s)
      BY <3>1, <3>3 DEF Asked, Prepare!Cid
    <3> QED BY <1>8, <3>1, <3>4
  <2> QED BY <2>1, <2>2, <2>3
<1>13. BoardAfter(p + 1)'
  <2>1. \A m, j : ~Sets(c, m, j)
    BY <1>2 DEF Sets
  <2>2. EffectOf(c)
    BY <1>3, <2>1 DEF EffectOf
  <2> QED BY <1>1, <1>2, <1>5, <1>6, <2>2, BoardStep
<1> QED BY <1>6, <1>9, <1>10, <1>11, <1>12, <1>13 DEF KeptTo, PrepareFrom

(* A register that the program does not sleep for is there by the time     *)
(* that the status registers are read.                                     *)
AnswersInTime == AnswerTime <= 4

LEMMA RespondKeeps ==
  ASSUME NEW p \in 0 .. Len(Calls), NEW e \in 0 .. p, PrepareTyped, PrepareFrom(e, p), Prepare!Respond
  PROVE  KeptTo(e, p)
<1>1. TodoFrom(p) /\ QueueFrom(e, p) /\ AnswerOnItsWay /\ BasesFrom(p) /\ BoardAfter(e)
  BY DEF PrepareFrom
<1>2. /\ pending.on /\ pending' = [addr |-> Prepare!Zero, age |-> 0, on |-> FALSE] /\ status' = pending.addr
      /\ UNCHANGED <<todo, waiting, bar>> /\ UNCHANGED <<cmds, net, timeouts>> /\ UNCHANGED <<adc, phy, cpld, clock>>
  BY DEF Prepare!Respond, Prepare!program, Prepare!fmc
<1>3. status' = Asked(Head(todo)) /\ ~pending'.on
  BY <1>1, <1>2 DEF AnswerOnItsWay
<1>4. Prepare!Zero \in Places
  <2>1. "none" \in Prepare!Names
    BY DEF Prepare!Names
  <2> QED BY <2>1 DEF Prepare!Zero, Prepare!At, Prepare!Nowhere, Places, Registers
<1>5. PrepareTyped'
  BY <1>2, <1>4 DEF PrepareTyped
<1>6. TodoFrom(p)'
  BY <1>1, <1>2 DEF TodoFrom
<1>7. QueueFrom(e, p)'
  BY <1>1, <1>2 DEF QueueFrom, Own, OwnCommand, Sent, Asked
<1>8. AnswerOnItsWay'
  <2>1. Asked(Head(todo))' = Asked(Head(todo)) /\ (SleepsFor(Head(todo)) => SleepsFor(Head(todo))')
    BY <1>2 DEF Asked, SleepsFor, Prepare!Slow
  <2>2. Counts' = Counts
    BY <1>2 DEF Counts
  <2> QED BY <1>1, <1>2, <1>3, <2>1, <2>2, Zenon DEF AnswerOnItsWay
<1>9. BasesFrom(p)' /\ BoardAfter(e)'
  BY <1>1, <1>2, BasesSame, BoardSame
<1> QED BY <1>5, <1>6, <1>7, <1>8, <1>9 DEF KeptTo, PrepareFrom

(* The head of the queue leaves it.                                        *)
LEMMA Leaves ==
  ASSUME PrepareTyped, Prepare!Execute
  PROVE  /\ Len(cmds) \in Nat \ {0} /\ cmds' \in Seq(CmdSet) /\ Len(cmds') = Len(cmds) - 1
         /\ Head(cmds) = cmds[1] /\ Head(cmds) \in CmdSet
         /\ \A k \in 1 .. Len(cmds) - 1 : cmds'[k] = cmds[k + 1]
         /\ \A j \in 0 .. Len(cmds) - 2 : cmds'[(Len(cmds) - 1) - j] = cmds[Len(cmds) - j]
<1>1. cmds \in Seq(CmdSet) /\ cmds # <<>> /\ cmds' = Tail(cmds)
  BY DEF PrepareTyped, Prepare!Execute
<1>2. /\ Len(cmds) \in Nat \ {0} /\ cmds' \in Seq(CmdSet) /\ Len(cmds') = Len(cmds) - 1
      /\ Head(cmds) = cmds[1] /\ Head(cmds) \in CmdSet
      /\ \A k \in 1 .. Len(cmds) - 1 : cmds'[k] = cmds[k + 1]
  BY <1>1
<1>3. ASSUME NEW j \in 0 .. Len(cmds) - 2 PROVE cmds'[(Len(cmds) - 1) - j] = cmds[Len(cmds) - j]
  <2>1. (Len(cmds) - 1) - j \in 1 .. Len(cmds) - 1 /\ ((Len(cmds) - 1) - j) + 1 = Len(cmds) - j
    BY <1>2
  <2>2. cmds'[(Len(cmds) - 1) - j] = cmds[((Len(cmds) - 1) - j) + 1]
    BY <1>2, <2>1, Zenon
  <2> QED BY <2>1, <2>2
<1> QED BY <1>2, <1>3

(* The command of a call takes effect, on the FMC112 or on nothing.        *)
LEMMA ExecutesACall ==
  ASSUME Prepare!StarsAssumption, Prepare!BoundsAssumption,
         NEW p \in 0 .. Len(Calls), NEW e \in 0 .. p, PrepareTyped, PrepareFrom(e, p), e # p,
         Prepare!Execute
  PROVE  KeptTo(e + 1, p) /\ e + 1 <= Len(Calls)
<1> DEFINE c == Calls[e + 1]
           n == Len(cmds)
<1>1. TodoFrom(p) /\ QueueFrom(e, p) /\ AnswerOnItsWay /\ BasesFrom(p) /\ BoardAfter(e)
  BY DEF PrepareFrom
<1>2. /\ n \in Nat \ {0} /\ cmds' \in Seq(CmdSet) /\ Len(cmds') = n - 1 /\ Head(cmds) = cmds[1]
      /\ \A k \in 1 .. n - 1 : cmds'[k] = cmds[k + 1]
      /\ \A j \in 0 .. n - 2 : cmds'[(n - 1) - j] = cmds[n - j]
  BY Leaves, Zenon
<1>3. waiting \in {"nothing", "first", "sleep", "second"} /\ Own \in {0, 4, 9} /\ Len(Calls) \in Nat
  BY OwnIs, CallsAre DEF PrepareTyped
<1>4. n = (p - e) + Own /\ e + 1 \in 1 .. Len(Calls) /\ e \in 0 .. Len(Calls) - 1 /\ e + 1 \in 0 .. p
  BY <1>1, <1>3 DEF QueueFrom
<1>5. c.op # "read" /\ Head(cmds) = Sent(c)
  <2>1. 1 \in 1 .. p - e
    BY <1>4
  <2> QED BY <1>1, <1>2, <2>1 DEF QueueFrom
<1>6. c \in CallSet /\ c.op \in {"write", "register"} /\ Addressed(c)
  BY <1>4, <1>5, CallAt
<1>7. waiting # "sleep" /\ waiting # "second" /\ (waiting = "first" => n >= 10) /\ ~pending.on
  <2>1. waiting # "sleep"
    BY <1>1, <1>2 DEF AnswerOnItsWay
  <2>2. waiting # "second" /\ (waiting = "first" => n >= 10)
    BY <1>1, <1>2, <1>3, <1>4, OwnIs DEF AnswerOnItsWay
  <2>3. ~pending.on
    BY <1>1, <1>2, <2>1, <2>2 DEF AnswerOnItsWay
  <2> QED BY <2>1, <2>2, <2>3
<1>8. EffectOf(c) /\ net' = net
  <2>1. CASE c.op = "write"
    <3>1. Head(cmds) = [op |-> "sip", addr |-> Asked(c), what |-> c.what] /\ c.what # "read"
      BY <1>5, <1>6, <2>1 DEF Sent, Addressed
    <3>2. Prepare!Effect(Head(cmds)) /\ net' = net
      BY <3>1 DEF Prepare!Execute
    <3>3. \A m, j : Asked(c) = Prepare!At(FMC, <<m, j>>) <=> Sets(c, m, j)
      BY <2>1 DEF Asked, Prepare!At, Sets
    <3>4. Head(cmds).addr = Asked(c) /\ Head(cmds).what = c.what
      BY <3>1
    <3>5. /\ adc' = [a \in Prepare!ADCs |-> IF Asked(c) = Prepare!At(FMC, <<"adc", a>>) THEN c.what ELSE adc[a]]
          /\ phy' = IF Asked(c) = Prepare!At(FMC, <<"phy", 0>>) THEN c.what ELSE phy
          /\ cpld' = IF Asked(c) = Prepare!At(FMC, <<"cpld", 0>>) THEN c.what ELSE cpld
          /\ clock' = IF Asked(c) = Prepare!At(FMC, <<"clock", 0>>) THEN c.what ELSE clock
      BY <3>2, <3>4 DEF Prepare!Effect
    <3>6. \A a \in 0 .. 2 : adc'[a] = IF Asked(c) = Prepare!At(FMC, <<"adc", a>>) THEN c.what ELSE adc[a]
      BY <3>5 DEF Prepare!ADCs
    <3> QED BY <3>2, <3>3, <3>5, <3>6, Zenon DEF EffectOf
  <2>2. CASE c.op = "register"
    <3>1. Head(cmds) = [op |-> "blank"]
      BY <1>5, <2>2 DEF Sent
    <3>2. UNCHANGED <<adc, phy, cpld, clock>> /\ net' = net
      BY <3>1 DEF Prepare!Execute, Prepare!fmc
    <3>3. \A m, j : ~Sets(c, m, j)
      BY <2>2 DEF Sets
    <3> QED BY <3>2, <3>3 DEF EffectOf
  <2> QED BY <1>6, <2>1, <2>2
<1>9. BoardAfter(e + 1)'
  BY <1>1, <1>4, <1>8, BoardStep
<1>10. ~pending'.on /\ pending' \in [addr : Places, age : Nat, on : BOOLEAN]
  <2>1. ~(Head(cmds).op = "sip" /\ Head(cmds).what = "read")
    BY <1>5, <1>6 DEF Sent, Addressed
  <2>2. pending' = [pending EXCEPT !.age = 0]
    BY <1>7, <2>1 DEF Prepare!Execute, Prepare!Prompt
  <2> QED BY <1>7, <2>2 DEF PrepareTyped
<1>11. UNCHANGED <<todo, waiting, bar, status, timeouts>>
  BY DEF Prepare!Execute, Prepare!program
<1>12. PrepareTyped'
  BY <1>2, <1>8, <1>10, <1>11 DEF PrepareTyped
<1>13. TodoFrom(p)' /\ BasesFrom(p)'
  BY <1>1, <1>11, BasesSame DEF TodoFrom
<1>14. QueueFrom(e + 1, p)'
  <2>1. Own' = Own /\ \A j : OwnCommand(j)' = OwnCommand(j)
    BY <1>11 DEF Own, OwnCommand, Asked
  <2>2. (Len(cmds) = (p - (e + 1)) + Own)'
    BY <1>2, <1>3, <1>4, <2>1
  <2>3. ASSUME NEW k \in 1 .. p - (e + 1)
        PROVE  Calls[(e + 1) + k].op # "read" /\ cmds'[k] = Sent(Calls[(e + 1) + k])
    <3>1. k + 1 \in 1 .. p - e /\ k \in 1 .. n - 1 /\ e + (k + 1) = (e + 1) + k
      BY <1>3, <1>4
    <3>2. Calls[e + (k + 1)].op # "read" /\ cmds[k + 1] = Sent(Calls[e + (k + 1)])
      BY <1>1, <3>1, Zenon DEF QueueFrom
    <3> QED BY <1>2, <3>1, <3>2
  <2>4. ASSUME NEW j \in 0 .. Own - 1, j < n - 1 PROVE cmds'[(n - 1) - j] = OwnCommand(j)
    <3>1. j \in 0 .. n - 2 /\ j < n
      BY <1>2, <1>3, <2>4
    <3>2. cmds[n - j] = OwnCommand(j)
      BY <1>1, <3>1, Zenon DEF QueueFrom
    <3> QED BY <1>2, <3>1, <3>2
  <2>5. \A k : Sent(Calls[(e + 1) + k])' = Sent(Calls[(e + 1) + k])
    BY DEF Sent, Asked
  <2> QED BY <1>2, <2>1, <2>2, <2>3, <2>4, <2>5, Zenon DEF QueueFrom
<1>15. AnswerOnItsWay'
  <2>1. Len(net) = 0
    BY <1>1, <1>2, <1>7 DEF AnswerOnItsWay
  <2>2. waiting' # "sleep" /\ waiting' # "second" /\ Len(net') = 0
    BY <1>7, <1>8, <1>11, <2>1
  <2>3. waiting' # "nothing" => ~(Len(cmds') < 9) /\ ~(Len(cmds') < 4)
    BY <1>2, <1>3, <1>7, <1>11
  <2>4. \A k \in 1 .. Len(net') : FALSE
    BY <2>2
  <2>5. waiting' # "nothing" => todo' # <<>> /\ Head(todo').op = "read" /\ SleepsFor(Head(todo))'
    BY <1>1, <1>11 DEF AnswerOnItsWay, SleepsFor, Prepare!Slow
  <2>6. waiting' \in {"first", "second"} => ~(Len(cmds') < 4)
    BY <2>3
  <2> QED BY <1>10, <2>2, <2>3, <2>4, <2>5, <2>6, Zenon DEF AnswerOnItsWay
<1> QED BY <1>4, <1>9, <1>12, <1>13, <1>14, <1>15 DEF KeptTo, PrepareFrom

(* A command of the present read: the read itself, time to answer it, and  *)
(* the status registers.                                                   *)
LEMMA ExecutesOwn ==
  ASSUME Prepare!StarsAssumption, Prepare!BoundsAssumption, AnswersInTime,
         NEW p \in 0 .. Len(Calls), PrepareTyped, PrepareFrom(p, p), Prepare!Execute
  PROVE  KeptTo(p, p) /\ UNCHANGED <<adc, phy, cpld, clock>>
<1> DEFINE a == Asked(Head(todo))
           n == Len(cmds)
<1>1. TodoFrom(p) /\ QueueFrom(p, p) /\ AnswerOnItsWay /\ BasesFrom(p) /\ BoardAfter(p)
  BY DEF PrepareFrom
<1>2. /\ n \in Nat \ {0} /\ cmds' \in Seq(CmdSet) /\ Len(cmds') = n - 1 /\ Head(cmds) = cmds[1]
      /\ \A j \in 0 .. n - 2 : cmds'[(n - 1) - j] = cmds[n - j]
  BY Leaves, Zenon
<1>3. waiting \in {"nothing", "first", "sleep", "second"} /\ Own \in {0, 4, 9}
  BY OwnIs DEF PrepareTyped
<1>4. n <= Own /\ waiting \in {"first", "second"} /\ n <= 9 /\ (waiting = "second" => n <= 4)
  <2>1. n <= Own
    BY <1>1, <1>2, <1>3 DEF QueueFrom
  <2> QED BY <1>2, <1>3, <2>1, OwnIs
<1>5. Head(cmds) = OwnCommand(n - 1)
  <2>1. n - 1 \in 0 .. Own - 1 /\ n - 1 < n /\ n - (n - 1) = 1
    BY <1>2, <1>3, <1>4
  <2>2. cmds[n - (n - 1)] = OwnCommand(n - 1)
    BY <1>1, <2>1, Zenon DEF QueueFrom
  <2> QED BY <1>2, <2>1, <2>2
<1>6. UNCHANGED <<todo, waiting, bar, status, timeouts>>
  BY DEF Prepare!Execute, Prepare!program
<1>7. /\ todo # <<>> /\ Head(todo).op = "read" /\ todo \in Seq(CallSet) /\ status \in Places
      /\ pending \in [addr : Places, age : Nat, on : BOOLEAN] /\ net \in Seq([of : Places, part : Int])
      /\ Head(todo) \in CallSet /\ SleepsFor(Head(todo))
  BY <1>1, <1>4 DEF AnswerOnItsWay, PrepareTyped
<1>8. a \in Places
  BY <1>7, PlaceOf
<1> DEFINE wait == Head(todo).wait
<1>w. wait \in BOOLEAN
  BY <1>7 DEF CallSet
<1>9. /\ pending.on => /\ waiting = "first" /\ pending.addr = a /\ n < 9
                       /\ ~wait => n \in 4 .. 8 /\ pending.age = 8 - n
      /\ n < 9 /\ ~pending.on => status = a
      /\ Len(net) = IF n < 4 THEN 4 - n ELSE 0
      /\ waiting = "second" \/ ~wait => \A k \in 1 .. Len(net) : net[k] = [of |-> a, part |-> k - 1]
  <2>1. waiting # "nothing" /\ waiting # "sleep"
    BY <1>4
  <2> QED BY <1>1, <1>4, <2>1, Zenon DEF AnswerOnItsWay, Counts
<1>p. pending.on => (Prepare!Prompt <=> ~wait)
  <2>1. a.reg = Head(todo).reg
    BY DEF Asked, Prepare!At
  <2>2. wait <=> a.reg[1] \in Prepare!Slow
    BY <1>7, <2>1 DEF SleepsFor
  <2>3. pending.on => pending.addr = a
    BY <1>9
  <2> HIDE DEF a, wait
  <2> QED BY <2>2, <2>3, Zenon DEF Prepare!Prompt
<1>9a. n \in Nat \ {0} /\ n <= 9 /\ n <= Own /\ Len(cmds') = n - 1
  BY <1>2, <1>4, Zenon
<1> HIDE DEF a, n, wait
<1> DEFINE Works ==
             /\ UNCHANGED <<adc, phy, cpld, clock>>
             /\ pending' \in [addr : Places, age : Nat, on : BOOLEAN] /\ net' \in Seq([of : Places, part : Int])
             /\ pending'.on => /\ waiting = "first" /\ pending'.addr = a /\ n - 1 < 9
                               /\ ~wait => n - 1 \in 4 .. 8 /\ pending'.age = 8 - (n - 1)
             /\ n - 1 < 9 /\ ~pending'.on => status = a
             /\ Len(net') = IF n - 1 < 4 THEN 4 - (n - 1) ELSE 0
             /\ waiting = "second" \/ ~wait =>
                  \A k \in 1 .. Len(net') : net'[k] = [of |-> a, part |-> k - 1]
<1>10. ASSUME n = 9 PROVE Works
  <2>1. Head(cmds) = [op |-> "sip", addr |-> a, what |-> "read"]
    BY <1>5, <1>10 DEF OwnCommand, a
  <2>2. /\ pending' = [addr |-> a, age |-> 0, on |-> TRUE] /\ net' = net
        /\ UNCHANGED <<adc, phy, cpld, clock>>
    <3>1. Head(cmds).op = "sip" /\ Head(cmds).what = "read" /\ Head(cmds).addr = a /\ Head(cmds).op # "status"
      BY <2>1
    <3> QED BY <3>1, Zenon DEF Prepare!Execute, Prepare!fmc
  <2>3. waiting = "first"
    BY <1>4, <1>10
  <2>4. pending' \in [addr : Places, age : Nat, on : BOOLEAN] /\ net' \in Seq([of : Places, part : Int])
    BY <1>7, <1>8, <2>2
  <2>5. n - 1 \in 4 .. 8 /\ 8 - (n - 1) = 0 /\ n - 1 < 9 /\ ~(n - 1 < 4) /\ Len(net') = 0
    BY <1>9, <1>10, <2>2
  <2>6. pending'.on /\ pending'.addr = a /\ pending'.age = 0
    BY <2>2
  <2>7. \A k \in 1 .. Len(net') : FALSE
    BY <2>5
  <2> QED BY <2>2, <2>3, <2>4, <2>5, <2>6, <2>7
<1>11. ASSUME n \in 5 .. 8 PROVE Works
  <2>1. Head(cmds) = [op |-> "blank"]
    BY <1>5, <1>11 DEF OwnCommand
  <2>2. /\ pending' = [pending EXCEPT !.age = IF Prepare!Prompt THEN pending.age + 1 ELSE 0] /\ net' = net
        /\ UNCHANGED <<adc, phy, cpld, clock>>
    BY <2>1 DEF Prepare!Execute, Prepare!fmc
  <2>3. waiting = "first"
    BY <1>4, <1>11
  <2>4. /\ pending'.on = pending.on /\ pending'.addr = pending.addr
        /\ pending'.age = (IF Prepare!Prompt THEN pending.age + 1 ELSE 0)
        /\ pending' \in [addr : Places, age : Nat, on : BOOLEAN]
    BY <1>7, <2>2, SMTT(30)
  <2>5. pending'.on => /\ pending'.addr = a /\ n - 1 < 9
                       /\ ~wait => n - 1 \in 4 .. 8 /\ pending'.age = 8 - (n - 1)
    BY <1>9, <1>w, <1>p, <1>11, <2>4
  <2>6. ~pending'.on => status = a
    BY <1>9, <1>11, <2>4
  <2>7. Len(net') = 0 /\ ~(n - 1 < 4)
    BY <1>9, <1>11, <2>2
  <2>8. /\ Len(net') = IF n - 1 < 4 THEN 4 - (n - 1) ELSE 0
        /\ \A k \in 1 .. Len(net') : net'[k] = [of |-> a, part |-> k - 1]
    BY <2>7
  <2>9. net' \in Seq([of : Places, part : Int])
    BY <1>7, <2>2
  <2> QED BY <2>2, <2>3, <2>4, <2>5, <2>6, <2>8, <2>9
<1>12. ASSUME n \in 1 .. 4 PROVE Works
  <2>1. Head(cmds) = [op |-> "status", part |-> 4 - n]
    <3>1. n - 1 < 4 /\ 3 - (n - 1) = 4 - n
      BY <1>12
    <3>2. OwnCommand(n - 1) = [op |-> "status", part |-> 3 - (n - 1)]
      BY <1>12, <3>1 DEF OwnCommand
    <3> QED BY <1>5, <3>1, <3>2
  <2>2. pending.on => wait
    <3> SUFFICES ASSUME pending.on, ~wait PROVE FALSE
      OBVIOUS
    <3>1. pending.age = 4 /\ Prepare!Prompt
      BY <1>9, <1>w, <1>p, <1>12
    <3>2. pending.age < AnswerTime /\ AnswerTime \in Nat /\ AnswerTime <= 4
      BY <3>1 DEF Prepare!Execute, AnswersInTime, Prepare!BoundsAssumption
    <3> QED BY <3>1, <3>2
  <2>3. ~pending.on => status = a
    BY <1>9, <1>12
  <2>4. /\ pending' = [pending EXCEPT !.age = IF Prepare!Prompt THEN pending.age + 1 ELSE 0]
        /\ net' = Append(net, [of |-> status, part |-> 4 - n])
        /\ UNCHANGED <<adc, phy, cpld, clock>>
    BY <2>1 DEF Prepare!Execute, Prepare!fmc
  <2>5. /\ pending'.on = pending.on /\ pending'.addr = pending.addr
        /\ pending'.age = (IF Prepare!Prompt THEN pending.age + 1 ELSE 0)
        /\ pending' \in [addr : Places, age : Nat, on : BOOLEAN]
    <3>1. pending' = [pending EXCEPT !.age = IF Prepare!Prompt THEN pending.age + 1 ELSE 0]
      BY <2>4
    <3>2. pending \in [addr : Places, age : Nat, on : BOOLEAN]
      BY <1>7
    <3>3. (IF Prepare!Prompt THEN pending.age + 1 ELSE 0) \in Nat
      BY <3>2
    <3> QED BY <3>1, <3>2, <3>3
  <2>6. Len(net) = 4 - n
    BY <1>9, <1>12
  <2>7. [of |-> status, part |-> 4 - n] \in [of : Places, part : Int]
    BY <1>7, <1>12
  <2>8. /\ net' \in Seq([of : Places, part : Int]) /\ Len(net') = Len(net) + 1
        /\ \A k \in 1 .. Len(net) : net'[k] = net[k]
        /\ net'[Len(net) + 1] = [of |-> status, part |-> 4 - n]
    BY <1>7, <2>4, <2>7
  <2>9. Len(net') = IF n - 1 < 4 THEN 4 - (n - 1) ELSE 0
    BY <1>12, <2>6, <2>8
  <2>10. ASSUME waiting = "second" \/ ~wait, NEW k \in 1 .. Len(net')
         PROVE  net'[k] = [of |-> a, part |-> k - 1]
    <3>0. status = a
      BY <1>9, <1>w, <2>2, <2>3, <2>10
    <3>1. CASE k \in 1 .. Len(net)
      BY <1>9, <2>8, <2>10, <3>1
    <3>2. CASE k = Len(net) + 1
      <4>1. k - 1 = 4 - n
        BY <1>12, <2>6, <3>2
      <4> QED BY <2>8, <3>0, <3>2, <4>1
    <3> QED BY <1>12, <2>6, <2>8, <3>1, <3>2
  <2>11. pending'.on => waiting = "first" /\ pending'.addr = a /\ n - 1 < 9 /\ wait
    BY <1>9, <1>w, <1>12, <2>2, <2>5
  <2>12. n - 1 < 9 /\ ~pending'.on => status = a
    BY <2>3, <2>5
  <2> QED BY <2>4, <2>5, <2>8, <2>9, <2>10, <2>11, <2>12
<1>13. Works
  <2>1. n = 9 \/ n \in 5 .. 8 \/ n \in 1 .. 4
    BY <1>9a
  <2> QED BY <1>10, <1>11, <1>12, <2>1
<1> USE DEF Works
<1>14. PrepareTyped'
  BY <1>2, <1>6, <1>7, <1>3, <1>13 DEF PrepareTyped
<1>15. TodoFrom(p)' /\ BasesFrom(p)' /\ BoardAfter(p)'
  BY <1>1, <1>6, <1>13, BasesSame, BoardSame DEF TodoFrom
<1>17. QueueFrom(p, p)'
  <2>1. Own' = Own /\ \A j : OwnCommand(j)' = OwnCommand(j)
    BY <1>6 DEF Own, OwnCommand, Asked
  <2>2. Len(cmds') <= Own'
    BY <1>3, <1>9a, <2>1
  <2>3. \A k \in 1 .. p - p : FALSE
    OBVIOUS
  <2>4. ASSUME NEW j \in 0 .. Own - 1, j < n - 1 PROVE cmds'[(n - 1) - j] = OwnCommand(j)
    <3>1. j \in 0 .. n - 2 /\ j < n
      BY <1>3, <1>9a, <2>4
    <3>2. cmds[n - j] = OwnCommand(j)
      BY <1>1, <3>1, Zenon DEF QueueFrom, n
    <3> QED BY <1>2, <3>1, <3>2 DEF n
  <2> QED BY <1>9a, <2>1, <2>2, <2>3, <2>4, Zenon DEF QueueFrom
<1>18. AnswerOnItsWay'
  <2>1. /\ todo' = todo /\ waiting' = waiting /\ status' = status /\ Asked(Head(todo))' = a
        /\ (Head(todo).wait)' = wait
    BY <1>6 DEF Asked, a, wait
  <2>2. waiting = "second" => n - 1 <= 4
    BY <1>4, <1>9a DEF n
  <2>3. SleepsFor(Head(todo))'
    BY <1>7, <2>1 DEF SleepsFor, Prepare!Slow
  <2>4. waiting' \in {"first", "second"} /\ waiting' # "sleep"
    BY <1>4, <2>1
  <2>5. Counts' <=> waiting = "second" \/ ~wait
    BY <2>1 DEF Counts, wait
  <2> QED BY <1>7, <1>13, <1>9a, <2>1, <2>2, <2>3, <2>4, <2>5, Zenon DEF AnswerOnItsWay
<1> QED BY <1>13, <1>14, <1>15, <1>17, <1>18 DEF KeptTo, PrepareFrom

LEMMA KeptIs ==
  ASSUME NEW p, NEW e, KeptTo(e, p), timeouts' \in Nat
  PROVE  PrepareInv'
BY DEF KeptTo, PrepareInv

LEMMA LostKeeps ==
  ASSUME PrepareInv, Prepare!Lost
  PROVE  PrepareInv' /\ timeouts' # 0 /\ UNCHANGED <<adc, phy, cpld, clock>>
<1>1. timeouts' = timeouts + 1 /\ UNCHANGED <<adc, phy, cpld, clock>>
  BY DEF Prepare!Lost, Prepare!Timeout, Prepare!Fail, Prepare!fmc
<1> QED BY <1>1 DEF PrepareInv

LEMMA PrepareSame ==
  ASSUME PrepareInv, UNCHANGED Prepare!vars
  PROVE  PrepareInv'
<1>1. /\ UNCHANGED <<todo, waiting, bar>> /\ UNCHANGED <<cmds, net, pending, status, timeouts>>
      /\ UNCHANGED <<adc, phy, cpld, clock>>
  BY DEF Prepare!vars, Prepare!program, Prepare!fmc
<1>2. timeouts' \in Nat /\ (timeouts' = 0 => timeouts = 0)
  BY <1>1 DEF PrepareInv
<1>3. ASSUME timeouts = 0 PROVE PrepareTyped' /\ \E p \in 0 .. Len(Calls) : \E e \in 0 .. p : PrepareFrom(e, p)'
  <2>1. PrepareTyped'
    BY <1>1, <1>3 DEF PrepareInv, PrepareTyped
  <2>2. ASSUME NEW p, NEW e, PrepareFrom(e, p) PROVE PrepareFrom(e, p)'
    <3>1. TodoFrom(p) /\ QueueFrom(e, p) /\ AnswerOnItsWay /\ BasesFrom(p) /\ BoardAfter(e)
      BY <2>2 DEF PrepareFrom
    <3>2. QueueFrom(e, p)'
      BY <1>1, <3>1 DEF QueueFrom, Own, OwnCommand, Sent, Asked
    <3>3. TodoFrom(p)'
      BY <1>1, <3>1 DEF TodoFrom
    <3>4. AnswerOnItsWay'
      <4>1. Asked(Head(todo))' = Asked(Head(todo)) /\ (SleepsFor(Head(todo)) => SleepsFor(Head(todo))')
            /\ Counts' = Counts
        BY <1>1 DEF Asked, SleepsFor, Prepare!Slow, Counts
      <4> QED BY <1>1, <3>1, <4>1, Zenon DEF AnswerOnItsWay
    <3> QED BY <1>1, <3>1, <3>2, <3>3, <3>4, BasesSame, BoardSame DEF PrepareFrom
  <2> QED BY <1>3, <2>1, <2>2 DEF PrepareInv
<1> QED BY <1>2, <1>3 DEF PrepareInv

LEMMA NothingLost ==
  ASSUME Prepare!Next, ~Prepare!Lost
  PROVE  timeouts' = timeouts
<1>1. /\ Prepare!Call => timeouts' = timeouts
      /\ \A n : Prepare!Answer(n) => timeouts' = timeouts
      /\ Prepare!Wake => timeouts' = timeouts
      /\ Prepare!Execute => timeouts' = timeouts
      /\ Prepare!Respond => timeouts' = timeouts
      /\ Prepare!Done => timeouts' = timeouts
  BY Zenon DEF Prepare!Call, Prepare!Answer, Prepare!Wake, Prepare!Execute, Prepare!Respond, Prepare!Done, Prepare!vars
<1> QED BY <1>1 DEF Prepare!Next, Prepare!Program

(* Every other step, as long as no query was lost.                        *)
LEMMA MovesKeep ==
  ASSUME Prepare!StarsAssumption, Prepare!BoundsAssumption, AnswersInTime,
         PrepareInv, timeouts = 0, Prepare!Next, ~Prepare!Lost
  PROVE  /\ PrepareInv'
         /\ \/ UNCHANGED <<adc, phy, cpld, clock>>
            \/ \E e \in 0 .. Len(Calls) - 1 : BoardAfter(e) /\ BoardAfter(e + 1)'
<1>1. PICK p \in 0 .. Len(Calls) : \E e \in 0 .. p : PrepareFrom(e, p)
  BY DEF PrepareInv
<1>2. PICK e \in 0 .. p : PrepareFrom(e, p)
  BY <1>1
<1>3. PrepareTyped /\ Len(Calls) \in Nat
  BY CallsAre DEF PrepareInv
<1>4. timeouts' = timeouts /\ timeouts' \in Nat
  BY NothingLost DEF PrepareInv
<1>5. CASE Prepare!Call
  <2>1. UNCHANGED <<adc, phy, cpld, clock>>
    BY <1>5 DEF Prepare!Call, Prepare!fmc
  <2>2. KeptTo(e, p) \/ KeptTo(e, p + 1)
    BY <1>2, <1>3, <1>5, CallsARead, CallsAWrite, Zenon
  <2> QED BY <1>4, <2>1, <2>2, KeptIs
<1>6. ASSUME NEW n \in 4 .. Len(net), Prepare!Answer(n)
      PROVE  PrepareInv' /\ UNCHANGED <<adc, phy, cpld, clock>>
  <2>1. UNCHANGED <<adc, phy, cpld, clock>>
    BY <1>6 DEF Prepare!Answer, Prepare!fmc
  <2>2. KeptTo(e, p) \/ KeptTo(0, 0) \/ KeptTo(p + 1, p + 1)
    <3>1. CASE waiting = "first" /\ Head(todo).wait
      BY <1>2, <1>3, <1>6, <3>1, AsksAgain, Zenon
    <3>2. CASE ~(waiting = "first" /\ Head(todo).wait)
      BY <1>2, <1>3, <1>6, <3>2, UsesNumber, UsesAnswer, Zenon
    <3> QED BY <3>1, <3>2
  <2> QED BY <1>4, <2>1, <2>2, KeptIs
<1>7. CASE Prepare!Execute
  <2>1. CASE e = p
    <3>1. PrepareFrom(p, p)
      BY <1>2, <2>1
    <3>2. KeptTo(p, p) /\ UNCHANGED <<adc, phy, cpld, clock>>
      BY <1>3, <1>7, <3>1, ExecutesOwn, Zenon
    <3> QED BY <1>4, <3>2, KeptIs
  <2>2. CASE e # p
    <3>1. KeptTo(e + 1, p)
      BY <1>2, <1>3, <1>7, <2>2, ExecutesACall, Zenon
    <3>2. e \in 0 .. Len(Calls) - 1
      BY <1>3, <2>2
    <3>3. BoardAfter(e) /\ BoardAfter(e + 1)'
      BY <1>2, <3>1 DEF PrepareFrom, KeptTo
    <3> QED BY <1>4, <3>1, <3>2, <3>3, KeptIs
  <2> QED BY <2>1, <2>2
<1>8. CASE Prepare!Respond
  <2>1. UNCHANGED <<adc, phy, cpld, clock>>
    BY <1>8 DEF Prepare!Respond, Prepare!fmc
  <2>2. KeptTo(e, p)
    BY <1>2, <1>3, <1>8, RespondKeeps, Zenon
  <2> QED BY <1>4, <2>1, <2>2, KeptIs
<1>9. CASE Prepare!Done
  <2>1. UNCHANGED Prepare!vars
    BY <1>9 DEF Prepare!Done
  <2>2. UNCHANGED <<adc, phy, cpld, clock>>
    BY <2>1 DEF Prepare!vars, Prepare!fmc
  <2> QED BY <2>1, <2>2, PrepareSame
<1>10. CASE Prepare!Wake
  <2>1. UNCHANGED <<adc, phy, cpld, clock>>
    BY <1>10 DEF Prepare!Wake, Prepare!fmc
  <2>2. KeptTo(e, p)
    BY <1>2, <1>3, <1>10, Wakes, Zenon
  <2> QED BY <1>4, <2>1, <2>2, KeptIs
<1> QED BY <1>5, <1>6, <1>7, <1>8, <1>9, <1>10 DEF Prepare!Next, Prepare!Program

LEMMA StepPrepare ==
  ASSUME Prepare!StarsAssumption, Prepare!BoundsAssumption, AnswersInTime,
         PrepareInv, [Prepare!Next]_(Prepare!vars)
  PROVE  PrepareInv'
<1>1. CASE Prepare!Lost
  BY <1>1, LostKeeps
<1>2. CASE UNCHANGED Prepare!vars
  BY <1>2, PrepareSame
<1>3. CASE timeouts = 0 /\ Prepare!Next /\ ~Prepare!Lost
  BY <1>3, MovesKeep
<1>4. CASE timeouts # 0 /\ Prepare!Next /\ ~Prepare!Lost
  <2>1. timeouts' = timeouts
    BY <1>4, NothingLost
  <2> QED BY <1>4, <2>1 DEF PrepareInv
<1> QED BY <1>1, <1>2, <1>3, <1>4

(* The inputs are trained in one place of the program.                     *)
LEMMA TrainsOnPattern ==
  ASSUME Prepare!StarsAssumption, Prepare!BoundsAssumption, AnswersInTime,
         PrepareInv, timeouts = 0, [Prepare!Next]_(Prepare!vars)
  PROVE  Prepare!TrainedOnPattern
<1> SUFFICES ASSUME phy' = "train", phy # "train"
             PROVE  /\ \A a \in Prepare!ADCs : adc[a] = "pattern"
                    /\ cpld = "run" /\ clock = "update" /\ phy = "resetSerdes"
  BY DEF Prepare!TrainedOnPattern
<1>1. PICK e \in 0 .. Len(Calls) - 1 : BoardAfter(e) /\ BoardAfter(e + 1)'
  <2>1. CASE Prepare!Lost
    BY <2>1, LostKeeps
  <2>2. CASE UNCHANGED Prepare!vars
    BY <2>2 DEF Prepare!vars, Prepare!fmc
  <2>3. CASE Prepare!Next /\ ~Prepare!Lost
    BY <2>3, MovesKeep
  <2> QED BY <2>1, <2>2, <2>3
<1> DEFINE q == e - Base
           C == ClockSettings
<1>2. C \in Nat /\ Base \in Nat /\ e \in Int /\ q \in Int /\ (e + 1) - Base = q + 1
  <2>1. C \in Nat /\ Base \in Nat /\ Len(Calls) \in Nat
    BY CallsAre
  <2> QED BY <2>1
<1>3. /\ q >= 12 => cpld = "run"
      /\ q >= 16 + C => clock = "update"
      /\ \A a \in Prepare!ADCs : q >= 20 + C + 3 * a /\ q < 31 + C + a => adc[a] = "pattern"
      /\ q = 28 + C => phy = "resetSerdes"
      /\ q >= 29 + C => phy = "train"
  BY <1>1, Zenon DEF BoardAfter
<1>4. (e + 1) - Base < 29 + C => phy' # "train"
  BY <1>1 DEF BoardAfter, Base
<1> HIDE DEF q, C
<1>5. q = 28 + C
  BY <1>2, <1>3, <1>4
<1>6. \A a \in Prepare!ADCs : q >= 20 + C + 3 * a /\ q < 31 + C + a
  BY <1>2, <1>5 DEF Prepare!ADCs
<1> QED BY <1>2, <1>3, <1>5, <1>6

(* What a read gives, unless it was lost.                                  *)
LEMMA AnswersTheRead ==
  ASSUME Prepare!StarsAssumption, Prepare!BoundsAssumption, AnswersInTime,
         PrepareInv, timeouts' = 0, [Prepare!Next]_(Prepare!vars)
  PROVE  timeouts = 0 /\ Prepare!AnswerIsForThisRead
<1>1. timeouts = 0 /\ ~Prepare!Lost
  <2>1. ~Prepare!Lost
    BY LostKeeps
  <2>2. timeouts' = timeouts
    <3>1. UNCHANGED Prepare!vars => timeouts' = timeouts
      BY DEF Prepare!vars
    <3> QED BY <2>1, <3>1, NothingLost
  <2> QED BY <2>1, <2>2
<1> SUFFICES ASSUME waiting # "nothing", waiting' = "nothing"
             PROVE  Prepare!Value(net) = Prepare!AddrOf(Head(todo))
  BY <1>1 DEF Prepare!AnswerIsForThisRead
<1>2. PICK p \in 0 .. Len(Calls) : \E e \in 0 .. p : PrepareFrom(e, p)
  BY <1>1 DEF PrepareInv
<1>3. PICK e \in 0 .. p : PrepareFrom(e, p)
  BY <1>2
<1>4. PrepareTyped /\ TodoFrom(p) /\ BasesFrom(p)
  BY <1>1, <1>3 DEF PrepareInv, PrepareFrom
<1>5. PICK n \in 4 .. Len(net) : Prepare!Answer(n)
  <2>1. /\ UNCHANGED Prepare!vars => waiting' = waiting
        /\ Prepare!Call => waiting = "nothing"
        /\ Prepare!Wake => waiting' = "second"
        /\ Prepare!Execute => waiting' = waiting
        /\ Prepare!Respond => waiting' = waiting
        /\ Prepare!Done => waiting' = waiting
    BY Zenon DEF Prepare!Call, Prepare!Wake, Prepare!Execute, Prepare!Respond, Prepare!Done,
                 Prepare!vars, Prepare!program
  <2>2. "second" # "nothing"
    OBVIOUS
  <2> QED BY <1>1, <2>1, <2>2 DEF Prepare!Next, Prepare!Program
<1>6. Len(net) >= 4 /\ Counts
  <2>1. Len(net) \in Nat /\ waiting \in {"first", "second"}
    BY <1>4, <1>5 DEF PrepareTyped, Prepare!Answer
  <2>2. ~(waiting = "first" /\ Head(todo).wait)
    <3>1. waiting = "first" /\ Head(todo).wait => waiting' = "sleep"
      BY <1>5 DEF Prepare!Answer, Prepare!Ends
    <3> QED BY <3>1
  <2> QED BY <1>5, <2>1, <2>2 DEF Counts
<1>7. todo # <<>> /\ Head(todo).op = "read" /\ Prepare!Value(net) = Asked(Head(todo))
  BY <1>3, <1>4, <1>6, WholeReply, Zenon
<1>8. Prepare!AddrOf(Head(todo)) = Asked(Head(todo))
  <2>1. Head(todo).op \in {"read", "write"}
    BY <1>7
  <2> QED BY <1>4, <1>7, <2>1, FrontIs, Zenon
<1> QED BY <1>7, <1>8

LEMMA PreparationHolds ==
  ASSUME Prepare!StarsAssumption, Prepare!BoundsAssumption, PrepareInv, timeouts = 0
  PROVE  Prepare!WritesHitTheirStar /\ Prepare!LeftReady
<1>1. PICK p \in 0 .. Len(Calls) : \E e \in 0 .. p : PrepareFrom(e, p)
  BY DEF PrepareInv
<1>2. PICK e \in 0 .. p : PrepareFrom(e, p)
  BY <1>1
<1>3. /\ PrepareTyped /\ Len(Calls) \in Nat /\ Len(Calls) = Base + 60 + ClockSettings
      /\ Base \in Nat /\ ClockSettings \in Nat
  BY CallsAre DEF PrepareInv
<1>4. TodoFrom(p) /\ QueueFrom(e, p) /\ AnswerOnItsWay /\ BasesFrom(p) /\ BoardAfter(e)
  BY <1>2 DEF PrepareFrom
<1>5. Prepare!WritesHitTheirStar
  <2> SUFFICES ASSUME cmds # <<>>, Head(cmds).op = "sip", Head(cmds).what # "read"
               PROVE  Head(cmds).addr.base = IF Head(cmds).what = "lpc" THEN I2C ELSE FMC
    BY DEF Prepare!WritesHitTheirStar
  <2>1. Len(cmds) \in Nat \ {0} /\ Head(cmds) = cmds[1]
    BY <1>3 DEF PrepareTyped
  <2>2. Own \in {0, 4, 9}
    BY <1>3, OwnIs DEF PrepareTyped
  <2>3. CASE e = p
    <3>1. Len(cmds) - 1 \in 0 .. Own - 1 /\ Len(cmds) - 1 < Len(cmds) /\ Len(cmds) - (Len(cmds) - 1) = 1
      BY <1>4, <2>1, <2>2, <2>3 DEF QueueFrom
    <3>2. cmds[Len(cmds) - (Len(cmds) - 1)] = OwnCommand(Len(cmds) - 1)
      BY <1>4, <3>1, Zenon DEF QueueFrom
    <3>3. Head(cmds) = OwnCommand(Len(cmds) - 1)
      BY <2>1, <3>1, <3>2
    <3> DEFINE k == Len(cmds) - 1
    <3>4. k \in Int /\ Head(cmds) = OwnCommand(k)
      BY <3>1, <3>3
    <3> HIDE DEF k
    <3> QED BY <3>4 DEF OwnCommand
  <2>4. CASE e # p
    <3> DEFINE c == Calls[e + 1]
    <3>1. 1 \in 1 .. p - e /\ e + 1 \in 1 .. Len(Calls)
      BY <1>3, <2>4
    <3>2. c.op # "read" /\ Head(cmds) = Sent(c)
      BY <1>4, <2>1, <3>1 DEF QueueFrom
    <3>3. c.op \in {"write", "register"} /\ Addressed(c)
      BY <3>1, <3>2, CallAt
    <3> HIDE DEF c
    <3>4. c.op = "write" /\ Head(cmds) = [op |-> "sip", addr |-> Asked(c), what |-> c.what]
      BY <3>2, <3>3 DEF Sent
    <3>5. Head(cmds).addr.base = c.star /\ Head(cmds).what = c.what
      BY <3>4 DEF Asked, Prepare!At
    <3> QED BY <3>3, <3>4, <3>5 DEF Addressed
  <2> QED BY <2>3, <2>4
<1>6. Prepare!LeftReady
  <2> SUFFICES ASSUME todo = <<>>, cmds = <<>>
               PROVE  phy = "train" /\ clock = "update" /\ \A a \in Prepare!ADCs : adc[a] = "normal"
    BY DEF Prepare!LeftReady, Prepare!Prepared
  <2>1. p = Len(Calls)
    <3>1. todo # <<Prepare!ReadCid(0)>> /\ Len(todo) = 0
      OBVIOUS
    <3> QED BY <1>3, <1>4, <3>1 DEF TodoFrom
  <2>2. Own = 0
    BY <1>3, <1>4, OwnIs DEF AnswerOnItsWay, PrepareTyped
  <2>3. e = p
    <3>1. Len(cmds) = 0
      OBVIOUS
    <3> QED BY <1>3, <1>4, <2>2, <3>1 DEF QueueFrom
  <2>4. BoardAfter(Len(Calls)) /\ Len(Calls) - Base = 60 + ClockSettings
    BY <1>3, <1>4, <2>1, <2>3
  <2>5. /\ 60 + ClockSettings >= 16 + ClockSettings /\ 60 + ClockSettings >= 29 + ClockSettings
        /\ \A a \in Prepare!ADCs : 60 + ClockSettings >= 31 + ClockSettings + a
    BY <1>3 DEF Prepare!ADCs
  <2> QED BY <2>4, <2>5 DEF BoardAfter
<1> QED BY <1>5, <1>6
-----------------------------------------------------------------------------
(* The channels.  A mask is a group of neighbours, k channels from b on.    *)
Sizes == {1, 4, 8, 16}

(* The stream of bytes that the mask of k channels from b on lets through. *)
Bytes == [ch : Int, t : Int, half : {"low", "high"}]
ByteAt(k, b, x) == [ch |-> b + ((x - 1) % (2 * k)) \div 2, t |-> (x - 1) \div (2 * k),
                half |-> IF (x - 1) % 2 = 0 THEN "low" ELSE "high"]
(* s is a piece of it, behind the first a bytes. *)
Piece(s, k, b, a) == s \in Seq(Bytes) /\ \A x \in 1 .. Len(s) : s[x] = ByteAt(k, b, a + x)

SelectOf(k, b) == IF k = 1 THEN b ELSE IF k = 4 THEN 16 + b \div 4 ELSE IF k = 8 THEN 32 + b \div 8 ELSE 48
Setting(k, b) == k \in Sizes /\ b \in 0 .. 15 /\ b % k = 0 /\ b + k <= 16

Rows(k, b) ==
  /\ DOMAIN wavBuf = {j * (MemWords * (16 \div k)) + p : j \in 0 .. k - 1, p \in 0 .. iP - 1}
  /\ \A j \in 0 .. k - 1, p \in 0 .. iP - 1 :
       wavBuf[j * (MemWords * (16 \div k)) + p] =
         [low |-> Channels!Byte(b + j, p, "low"), high |-> Channels!Byte(b + j, p, "high")]

(* q words have been dealt, n wait, and the rest of what came is on its    *)
(* way to the next word.                                                   *)
ChannelsFrom(k, b, q, n) ==
  /\ Setting(k, b) /\ chMask = b .. b + k - 1 /\ SEL = SelectOf(k, b)
  /\ t \in Nat /\ indata_q_i = Channels!Bus(t)
  /\ q \in Nat /\ n \in Nat /\ iP = q * (16 \div k) /\ Len(channelsWords) = 32 * n
  /\ 32 * (q + n) + Len(fifo) = 2 * k * t /\ Len(fifo) < 32 /\ q + n <= MemWords
  /\ Piece(channelsWords, k, b, 32 * q) /\ Piece(fifo, k, b, 32 * (q + n))
  /\ Rows(k, b)
ChannelsInv == \E k \in Sizes, b \in 0 .. 15, q, n \in Nat : ChannelsFrom(k, b, q, n)
-----------------------------------------------------------------------------
LEMMA MasksAligned ==
  ASSUME NEW m \in Masks
  PROVE  \E k \in Sizes, g \in 0 .. 15 : k * g + k <= 16 /\ m = k * g .. k * g + k - 1
<1> DEFINE Aligned(k, g) == k * g + k <= 16 /\ m = k * g .. k * g + k - 1
<1>1. CASE m = 0 .. 15
  <2>1. Aligned(16, 0)
    BY <1>1, SMT
  <2> QED BY <2>1 DEF Sizes
<1>2. CASE m = 0 .. 7
  <2>1. Aligned(8, 0)
    BY <1>2, SMT
  <2> QED BY <2>1 DEF Sizes
<1>3. CASE m = 8 .. 15
  <2>1. Aligned(8, 1)
    BY <1>3, SMT
  <2> QED BY <2>1 DEF Sizes
<1>4. ASSUME NEW g \in 0 .. 3, m = 4 * g .. 4 * g + 3 PROVE Aligned(4, g)
  BY <1>4, SMT
<1>5. ASSUME NEW c \in 0 .. 15, m = {c} PROVE Aligned(1, c)
  BY <1>5, SMT
<1>6. \/ m \in {0 .. 15, 0 .. 7, 8 .. 15} \/ \E g \in 0 .. 3 : m = 4 * g .. 4 * g + 3
      \/ \E c \in 0 .. 15 : m = {c}
  BY Zenon DEF Masks
<1>7. CASE \E g \in 0 .. 3 : m = 4 * g .. 4 * g + 3
  <2>1. PICK g \in 0 .. 3 : Aligned(4, g)
    BY <1>4, <1>7, Zenon
  <2> HIDE DEF Aligned
  <2>2. 4 \in Sizes /\ g \in 0 .. 15
    BY DEF Sizes
  <2>3. \E k \in Sizes, c \in 0 .. 15 : Aligned(k, c)
    BY <2>1, <2>2, Zenon
  <2> QED BY <2>3, Zenon DEF Aligned
<1>8. CASE \E c \in 0 .. 15 : m = {c}
  <2>1. PICK c \in 0 .. 15 : Aligned(1, c)
    BY <1>5, <1>8, Zenon
  <2> HIDE DEF Aligned
  <2>2. 1 \in Sizes
    BY DEF Sizes
  <2>3. \E k \in Sizes, d \in 0 .. 15 : Aligned(k, d)
    BY <2>1, <2>2, Zenon
  <2> QED BY <2>3, Zenon DEF Aligned
<1> QED BY <1>1, <1>2, <1>3, <1>6, <1>7, <1>8

LEMMA IntervalSize ==
  ASSUME NEW a \in Int, NEW b \in Int
  PROVE  Channels!Cardinality(a .. b) = IF a > b THEN 0 ELSE b - a + 1
<1>1. Channels!Cardinality(a .. b) = Cardinality(a .. b)
  BY Zenon DEF Channels!Cardinality, Cardinality
<1> QED BY <1>1, FS_Interval

LEMMA SizeOf ==
  ASSUME NEW k \in Sizes, NEW b \in 0 .. 15, chMask = b .. b + k - 1
  PROVE  Channels!nCh = k
<1>1. b \in Int /\ b + k - 1 \in Int /\ k >= 1 /\ (b + k - 1) - b + 1 = k
  BY DEF Sizes
<1>2. Channels!Cardinality(b .. b + k - 1) = IF b > b + k - 1 THEN 0 ELSE (b + k - 1) - b + 1
  BY <1>1, IntervalSize
<1>3. ~(b > b + k - 1)
  BY <1>1
<1> QED BY <1>1, <1>2, <1>3 DEF Channels!nCh

LEMMA TouchesOne ==
  ASSUME NEW k \in {4, 8}, NEW b \in 0 .. 15, b % k = 0, b + k <= 16, chMask = b .. b + k - 1
  PROVE  Channels!Group(k) = {b \div k}
<1>1. Channels!SCOPE_NCH \div k = 16 \div k
  BY DEF Channels!SCOPE_NCH
<1>2. ASSUME NEW h \in 0 .. (16 \div k) - 1 PROVE Channels!Touches(k * h, k * h + k - 1) <=> h = b \div k
  <2>1. CASE k = 4
    <3>1. h \in 0 .. 3 /\ b = 4 * (b \div 4) /\ b \div 4 \in 0 .. 3
      BY <2>1, SMT
    <3>2. (\E c \in b .. b + 3 : c >= 4 * h /\ c <= 4 * h + 3) <=> h = b \div 4
      <4>1. h = b \div 4 => b >= 4 * h /\ b <= 4 * h + 3 /\ b \in b .. b + 3
        BY <3>1, SMT
      <4>2. ASSUME NEW c \in b .. b + 3, c >= 4 * h, c <= 4 * h + 3 PROVE h = b \div 4
        BY <3>1, <4>2, SMT
      <4> QED BY <4>1, <4>2
    <3>3. Channels!Touches(4 * h, 4 * h + 3) <=> \E c \in b .. b + 3 : c >= 4 * h /\ c <= 4 * h + 3
      <4>1. chMask = b .. b + 3
        BY <2>1, SMT
      <4>2. \A c \in b .. b + 3 : c \in 4 * h .. 4 * h + 3 <=> c >= 4 * h /\ c <= 4 * h + 3
        BY <3>1, SMT
      <4> QED BY <4>1, <4>2, Zenon DEF Channels!Touches
    <3>4. k * h + k - 1 = 4 * h + 3
      BY <2>1, <3>1, SMT
    <3> QED BY <2>1, <3>2, <3>3, <3>4, Zenon
  <2>2. CASE k = 8
    <3>1. h \in 0 .. 1 /\ b = 8 * (b \div 8) /\ b \div 8 \in 0 .. 1
      BY <2>2, SMT
    <3>2. (\E c \in b .. b + 7 : c >= 8 * h /\ c <= 8 * h + 7) <=> h = b \div 8
      <4>1. h = b \div 8 => b >= 8 * h /\ b <= 8 * h + 7 /\ b \in b .. b + 7
        BY <3>1, SMT
      <4>2. ASSUME NEW c \in b .. b + 7, c >= 8 * h, c <= 8 * h + 7 PROVE h = b \div 8
        BY <3>1, <4>2, SMT
      <4> QED BY <4>1, <4>2
    <3>3. Channels!Touches(8 * h, 8 * h + 7) <=> \E c \in b .. b + 7 : c >= 8 * h /\ c <= 8 * h + 7
      <4>1. chMask = b .. b + 7
        BY <2>2, SMT
      <4>2. \A c \in b .. b + 7 : c \in 8 * h .. 8 * h + 7 <=> c >= 8 * h /\ c <= 8 * h + 7
        BY <3>1, SMT
      <4> QED BY <4>1, <4>2, Zenon DEF Channels!Touches
    <3>4. k * h + k - 1 = 8 * h + 7
      BY <2>2, <3>1, SMT
    <3> QED BY <2>2, <3>2, <3>3, <3>4, Zenon
  <2> QED BY <2>1, <2>2
<1>3. b \div k \in 0 .. (16 \div k) - 1
  <2>1. CASE k = 4
    BY <2>1, SMT
  <2>2. CASE k = 8
    BY <2>2, SMT
  <2> QED BY <2>1, <2>2
<1>4. Channels!Group(k) = {h \in 0 .. (16 \div k) - 1 : Channels!Touches(k * h, k * h + k - 1)}
  BY <1>1, Zenon DEF Channels!Group
<1> QED BY <1>2, <1>3, <1>4, Zenon

LEMMA OredIs ==
  ASSUME NEW g \in 0 .. 3
  PROVE  Channels!Ored({g}) = g
<1>1. CASE g = 0
  BY <1>1 DEF Channels!Ored
<1>2. CASE g = 1
  BY <1>2 DEF Channels!Ored
<1>3. CASE g = 2
  BY <1>3 DEF Channels!Ored
<1>4. CASE g = 3
  BY <1>4 DEF Channels!Ored
<1> QED BY <1>1, <1>2, <1>3, <1>4

LEMMA SelectIs ==
  ASSUME NEW k \in Sizes, NEW b \in 0 .. 15, Setting(k, b), chMask = b .. b + k - 1
  PROVE  Channels!Select = SelectOf(k, b)
<1>0. Channels!nCh = k /\ b % k = 0 /\ b + k <= 16
  BY SizeOf DEF Setting
<1>1. CASE k = 1
  <2>1. chMask = {b}
    BY <1>1, SMT
  <2> DEFINE S == chMask \cup {16}
  <2>2. b \in S /\ \A y \in S : b <= y
    BY <2>1
  <2>3. \A x \in S : (\A y \in S : x <= y) => x = b
    BY <2>1
  <2> HIDE DEF S
  <2>4. Channels!Min(S) = b
    BY <2>2, <2>3, Zenon DEF Channels!Min
  <2>5. Channels!Select = Channels!Min(S)
    <3>1. Channels!nCh = 1
      BY <1>0, <1>1
    <3> HIDE DEF Channels!nCh
    <3> QED BY <3>1 DEF Channels!Select, S
  <2> QED BY <1>1, <2>4, <2>5 DEF SelectOf
<1>2. CASE k = 4
  <2>1. Channels!Group(4) = {b \div 4}
    BY <1>0, <1>2, TouchesOne
  <2>2. b \div 4 \in 0 .. 3
    BY SMT
  <2>3. Channels!Ored({b \div 4}) = b \div 4
    BY <2>2, OredIs, Zenon
  <2>4. Channels!Select = 16 + Channels!Ored(Channels!Group(4))
    BY <1>0, <1>2 DEF Channels!Select
  <2>5. Channels!Ored(Channels!Group(4)) = b \div 4
    BY <2>1, <2>3, Zenon
  <2>6. Channels!Select = 16 + b \div 4
    BY <2>4, <2>5, Zenon
  <2> HIDE DEF Channels!Select
  <2> QED BY <1>2, <2>6 DEF SelectOf
<1>3. CASE k = 8
  <2>1. Channels!Group(8) = {b \div 8}
    BY <1>0, <1>3, TouchesOne
  <2>2. b \div 8 \in 0 .. 3
    BY SMT
  <2>3. Channels!Ored({b \div 8}) = b \div 8
    BY <2>2, OredIs, Zenon
  <2>4. Channels!Select = 32 + Channels!Ored(Channels!Group(8))
    BY <1>0, <1>3 DEF Channels!Select
  <2>5. Channels!Ored(Channels!Group(8)) = b \div 8
    BY <2>1, <2>3, Zenon
  <2>6. Channels!Select = 32 + b \div 8
    BY <2>4, <2>5, Zenon
  <2> HIDE DEF Channels!Select
  <2> QED BY <1>3, <2>6 DEF SelectOf
<1>4. CASE k = 16
  BY <1>0, <1>4 DEF Channels!Select, SelectOf
<1> QED BY <1>1, <1>2, <1>3, <1>4 DEF Sizes

LEMMA RowIs ==
  ASSUME NEW k \in Sizes, NEW b \in 0 .. 15, chMask = b .. b + k - 1, NEW j \in 0 .. k - 1
  PROVE  Channels!RowChannel(j) = b + j
<1>0. k \in Nat
  BY DEF Sizes
<1>1. ASSUME NEW c \in b .. b + k - 1 PROVE Channels!Cardinality({d \in chMask : d < c}) = c - b
  <2>1. {d \in chMask : d < c} = b .. c - 1
    BY <1>0
  <2>2. Channels!Cardinality(b .. c - 1) = IF b > c - 1 THEN 0 ELSE (c - 1) - b + 1
    <3>1. b \in Int /\ c - 1 \in Int
      BY <1>0
    <3> QED BY <3>1, IntervalSize
  <2>3. c \in Int /\ b \in Int /\ b <= c /\ (c - 1) - b + 1 = c - b
    BY <1>0
  <2> DEFINE z == Channels!Cardinality(b .. c - 1)
  <2>4. z = IF b > c - 1 THEN 0 ELSE (c - 1) - b + 1
    BY <2>2
  <2> HIDE DEF z
  <2>5. z = c - b
    BY <2>3, <2>4
  <2> QED BY <2>1, <2>5 DEF z
<1>2. b + j \in chMask /\ (b + j) - b = j
  BY <1>0
<1>3. \A c \in chMask : Channels!Cardinality({d \in chMask : d < c}) = j <=> c = b + j
  BY <1>0, <1>1
<1> QED BY <1>2, <1>3, Zenon DEF Channels!RowChannel
-----------------------------------------------------------------------------
(* The bus and the lanes that are picked.                                  *)
LEMMA BusIs ==
  ASSUME NEW n \in Nat
  PROVE  /\ Channels!Bus(n) \in Seq(Bytes) /\ Len(Channels!Bus(n)) = 32
         /\ \A x \in 1 .. 32 :
              Channels!Bus(n)[x] = [ch |-> (x - 1) \div 2, t |-> n,
                                     half |-> IF (x - 1) % 2 = 0 THEN "low" ELSE "high"]
<1> DEFINE e(x) == [ch |-> (x - 1) \div 2, t |-> n, half |-> IF (x - 1) % 2 = 0 THEN "low" ELSE "high"]
<1>1. ASSUME NEW x \in 1 .. 32 PROVE Channels!Lane((x - 1) \div 2, n)[1 + ((x - 1) % 2)] = e(x)
  <2>1. (x - 1) % 2 \in {0, 1}
    BY SMT
  <2> DEFINE c == (x - 1) \div 2
             h == (x - 1) % 2
  <2> HIDE DEF c, h
  <2>2. CASE h = 0
    BY <2>2 DEF Channels!Lane, Channels!Byte, c, h
  <2>3. CASE h = 1
    BY <2>3 DEF Channels!Lane, Channels!Byte, c, h
  <2> QED BY <2>1, <2>2, <2>3 DEF h
<1>2. \A x \in 1 .. 32 : e(x) \in Bytes
  BY DEF Bytes
<1>3. Channels!Bus(n) = [x \in 1 .. 32 |-> Channels!Lane((x - 1) \div 2, n)[1 + ((x - 1) % 2)]]
  BY DEF Channels!Bus, Channels!SCOPE_NCH
<1> HIDE DEF e
<1>4. Channels!Bus(n) = [x \in 1 .. 32 |-> e(x)]
  BY <1>1, <1>3
<1>5. Channels!Bus(n) \in Seq(Bytes) /\ Len(Channels!Bus(n)) = 32 /\ \A x \in 1 .. 32 : Channels!Bus(n)[x] = e(x)
  BY <1>2, <1>4
<1> QED BY <1>5 DEF e

LEMMA SliceIs ==
  ASSUME NEW a \in Nat, NEW m \in Nat, a + m <= 16, t \in Nat, indata_q_i = Channels!Bus(t)
  PROVE  /\ Channels!Slice(a, m) \in Seq(Bytes) /\ Len(Channels!Slice(a, m)) = 2 * m
         /\ \A x \in 1 .. 2 * m : Channels!Slice(a, m)[x] = Channels!Bus(t)[2 * a + x]
<1> DEFINE u == Channels!Bus(t)
<1>1. u \in Seq(Bytes) /\ Len(u) = 32
  BY BusIs
<1>2. Channels!Slice(a, m) = SubSeq(u, 2 * a + 1, 2 * (a + m))
  BY Zenon DEF Channels!Slice
<1> HIDE DEF u
<1> DEFINE l == 2 * a + 1
           h == 2 * (a + m)
<1>4. /\ l \in Int /\ h \in Int /\ h - l + 1 = 2 * m /\ l >= 1 /\ h <= 32 /\ (l <= h <=> m > 0)
      /\ \A x \in 1 .. 2 * m : l + x - 1 = 2 * a + x
  BY SMT
<1> HIDE DEF l, h
<1>5. \A x \in l .. h : u[x] \in Bytes
  <2>1. \A x \in l .. h : x \in 1 .. 32
    BY <1>4
  <2>2. ASSUME NEW x \in 1 .. 32 PROVE u[x] \in Bytes
    <3>1. u \in Seq(Bytes) /\ x \in 1 .. Len(u)
      BY <1>1
    <3> QED BY <3>1, ElementOfSeq, Zenon
  <2> QED BY <2>1, <2>2
<1>6. /\ SubSeq(u, l, h) \in Seq(Bytes) /\ Len(SubSeq(u, l, h)) = IF l <= h THEN h - l + 1 ELSE 0
      /\ \A x \in 1 .. h - l + 1 : SubSeq(u, l, h)[x] = u[l + x - 1]
  <2>1. l \in Int /\ h \in Int
    BY <1>4
  <2> QED BY <1>5, <2>1, SubSeqProperties
<1>3. /\ SubSeq(u, l, h) \in Seq(Bytes) /\ Len(SubSeq(u, l, h)) = 2 * m
      /\ \A x \in 1 .. 2 * m : SubSeq(u, l, h)[x] = u[2 * a + x]
  BY <1>4, <1>6
<1> QED BY <1>2, <1>3, Zenon DEF u, l, h

LEMMA PlaceOnBus ==
  ASSUME NEW k \in Sizes, NEW b \in Nat, NEW n \in Nat, NEW x \in 1 .. 2 * k
  PROVE  /\ ((2 * k * n + x) - 1) \div (2 * k) = n
         /\ b + (((2 * k * n + x) - 1) % (2 * k)) \div 2 = ((2 * b + x) - 1) \div 2
         /\ ((2 * k * n + x) - 1) % 2 = ((2 * b + x) - 1) % 2
<1>1. CASE k = 1
  BY <1>1, SMT
<1>2. CASE k = 4
  BY <1>2, SMT
<1>3. CASE k = 8
  BY <1>3, SMT
<1>4. CASE k = 16
  BY <1>4, SMT
<1> QED BY <1>1, <1>2, <1>3, <1>4 DEF Sizes

LEMMA PickedIs ==
  ASSUME NEW k \in Sizes, NEW b \in 0 .. 15, Setting(k, b), SEL = SelectOf(k, b),
         t \in Nat, indata_q_i = Channels!Bus(t)
  PROVE  Piece(Channels!Picked, k, b, 2 * k * t) /\ Len(Channels!Picked) = 2 * k
<1>0. b % k = 0 /\ b + k <= 16 /\ k \in Nat
  BY DEF Setting, Sizes
<1>1. Channels!Picked = Channels!Slice(b, k)
  <2>1. CASE k = 1
    <3>1. SEL \div 16 = 0 /\ SEL % 16 = b
      BY <2>1 DEF SelectOf
    <3> QED BY <2>1, <3>1 DEF Channels!Picked
  <2>2. CASE k = 4
    <3>1. SEL \div 16 = 1 /\ 4 * (SEL % 16) = b
      BY <1>0, <2>2 DEF SelectOf
    <3> QED BY <2>2, <3>1 DEF Channels!Picked
  <2>3. CASE k = 8
    <3>1. SEL \div 16 = 2 /\ ((b = 0 /\ SEL % 16 = 0) \/ (b = 8 /\ SEL % 16 = 1))
      BY <1>0, <2>3 DEF SelectOf
    <3> QED BY <2>3, <3>1 DEF Channels!Picked
  <2>4. CASE k = 16
    <3>1. SEL \div 16 = 3 /\ b = 0
      BY <1>0, <2>4 DEF SelectOf
    <3>2. Channels!Picked = indata_q_i
      BY <3>1 DEF Channels!Picked
    <3>3. indata_q_i \in Seq(Bytes) /\ Len(indata_q_i) = 32
      BY BusIs
    <3>4. SubSeq(indata_q_i, 1, 32) = indata_q_i
      BY <3>3
    <3>5. 2 * 0 + 1 = 1 /\ 2 * (0 + 16) = 32
      OBVIOUS
    <3>6. Channels!Slice(b, k) = SubSeq(indata_q_i, 1, 32)
      BY <2>4, <3>1, <3>5, Zenon DEF Channels!Slice
    <3> QED BY <3>2, <3>4, <3>6, Zenon
  <2> QED BY <2>1, <2>2, <2>3, <2>4 DEF Sizes
<1>2. /\ Channels!Slice(b, k) \in Seq(Bytes) /\ Len(Channels!Slice(b, k)) = 2 * k
      /\ \A x \in 1 .. 2 * k : Channels!Slice(b, k)[x] = Channels!Bus(t)[2 * b + x]
  <2>1. b \in Nat
    OBVIOUS
  <2> QED BY <1>0, <2>1, SliceIs, Zenon
<1>3. ASSUME NEW x \in 1 .. 2 * k PROVE Channels!Bus(t)[2 * b + x] = ByteAt(k, b, 2 * k * t + x)
  <2>1. 2 * b + x \in 1 .. 32
    BY <1>0
  <2>2. Channels!Bus(t)[2 * b + x] = [ch |-> ((2 * b + x) - 1) \div 2, t |-> t,
                                  half |-> IF ((2 * b + x) - 1) % 2 = 0 THEN "low" ELSE "high"]
    BY <2>1, BusIs, Zenon
  <2>3. b \in Nat
    OBVIOUS
  <2>4. /\ ((2 * k * t + x) - 1) \div (2 * k) = t
        /\ b + (((2 * k * t + x) - 1) % (2 * k)) \div 2 = ((2 * b + x) - 1) \div 2
        /\ ((2 * k * t + x) - 1) % 2 = ((2 * b + x) - 1) % 2
    BY <2>3, PlaceOnBus, Zenon
  <2> QED BY <2>2, <2>4, Zenon DEF ByteAt
<1> QED BY <1>1, <1>2, <1>3, Zenon DEF Piece

(* Pieces are put together and cut.                                        *)
LEMMA PiecesJoin ==
  ASSUME NEW s, NEW u, NEW k \in Nat, NEW b \in Nat, NEW a \in Nat, Piece(s, k, b, a), Piece(u, k, b, a + Len(s))
  PROVE  Piece(s \o u, k, b, a) /\ Len(s \o u) = Len(s) + Len(u)
<1>1. s \in Seq(Bytes) /\ u \in Seq(Bytes) /\ Len(s) \in Nat /\ Len(u) \in Nat
  BY DEF Piece
<1>2. s \o u \in Seq(Bytes) /\ Len(s \o u) = Len(s) + Len(u)
  BY <1>1
<1>3. ASSUME NEW x \in 1 .. Len(s) + Len(u) PROVE (s \o u)[x] = ByteAt(k, b, a + x)
  <2>1. CASE x <= Len(s)
    <3>1. x \in 1 .. Len(s) /\ (s \o u)[x] = s[x]
      BY <1>1, <2>1
    <3> QED BY <3>1, Zenon DEF Piece
  <2>2. CASE x > Len(s)
    <3> DEFINE y == x - Len(s)
    <3>1. y \in 1 .. Len(u) /\ (s \o u)[x] = u[y] /\ (a + Len(s)) + y = a + x
      BY <1>1, <2>2
    <3> HIDE DEF y
    <3>2. u[y] = ByteAt(k, b, (a + Len(s)) + y)
      BY <3>1, Zenon DEF Piece
    <3> QED BY <3>1, <3>2, Zenon
  <2> QED BY <1>1, <2>1, <2>2
<1> QED BY <1>2, <1>3, Zenon DEF Piece

LEMMA PiecesCut ==
  ASSUME NEW s, NEW k \in Nat, NEW b \in Nat, NEW a \in Nat, Piece(s, k, b, a), NEW m \in 0 .. Len(s)
  PROVE  /\ Piece(SubSeq(s, 1, m), k, b, a) /\ Len(SubSeq(s, 1, m)) = m
         /\ Piece(SubSeq(s, m + 1, Len(s)), k, b, a + m) /\ Len(SubSeq(s, m + 1, Len(s))) = Len(s) - m
<1>1. s \in Seq(Bytes) /\ Len(s) \in Nat
  BY DEF Piece
<1> DEFINE f == SubSeq(s, 1, m)
           g == SubSeq(s, m + 1, Len(s))
<1>2. f \in Seq(Bytes) /\ Len(f) = m /\ \A x \in 1 .. m : x \in 1 .. Len(s) /\ f[x] = s[x]
  BY <1>1
<1>3. /\ g \in Seq(Bytes) /\ Len(g) = Len(s) - m
      /\ \A x \in 1 .. Len(s) - m : m + x \in 1 .. Len(s) /\ g[x] = s[m + x] /\ (a + m) + x = a + (m + x)
  <2>1. m \in Nat /\ m <= Len(s) /\ (m + 1) - 1 = m
    BY <1>1
  <2>2. g \in Seq(Bytes)
    BY <1>1, <2>1
  <2>3. Len(g) = Len(s) - m
    BY <1>1, <2>1
  <2>4. ASSUME NEW x \in 1 .. Len(s) - m
        PROVE  m + x \in 1 .. Len(s) /\ g[x] = s[m + x] /\ (a + m) + x = a + (m + x)
    <3>1. m + x \in 1 .. Len(s) /\ (a + m) + x = a + (m + x) /\ (m + 1) + x - 1 = m + x
      BY <1>1, <2>1
    <3>2. g[x] = s[m + x]
      BY <1>1, <2>1, <3>1
    <3> QED BY <3>1, <3>2
  <2> HIDE DEF g
  <2> QED BY <2>2, <2>3, <2>4
<1> HIDE DEF f, g
<1>4. \A x \in 1 .. m : f[x] = ByteAt(k, b, a + x)
  BY <1>2, Zenon DEF Piece
<1>5. \A x \in 1 .. Len(s) - m : g[x] = ByteAt(k, b, (a + m) + x)
  BY <1>3, Zenon DEF Piece
<1>6. Piece(f, k, b, a) /\ Piece(g, k, b, a + m)
  BY <1>2, <1>3, <1>4, <1>5, Zenon DEF Piece
<1> QED BY <1>2, <1>3, <1>6 DEF f, g
-----------------------------------------------------------------------------
(* Points and words.  A word holds 16 \div k points of k channels.         *)
LEMMA PointsOf ==
  ASSUME NEW k \in Sizes, NEW q \in Nat, NEW m \in Nat
  PROVE  /\ (32 * m) \div (2 * k) = m * (16 \div k) /\ k * (m * (16 \div k)) = 16 * m
         /\ (q + m) * (16 \div k) = q * (16 \div k) + m * (16 \div k) /\ m * (16 \div k) \in Nat
         /\ (q <= m => q * (16 \div k) <= m * (16 \div k))
<1>1. CASE k = 1
  BY <1>1, SMT
<1>2. CASE k = 4
  BY <1>2, SMT
<1>3. CASE k = 8
  BY <1>3, SMT
<1>4. CASE k = 16
  BY <1>4, SMT
<1> QED BY <1>1, <1>2, <1>3, <1>4 DEF Sizes

LEMMA SamplesOf ==
  ASSUME NEW k \in Sizes, NEW m \in Nat
  PROVE  k * (m * (16 \div k)) = 16 * m
<1>1. 0 \in Nat
  OBVIOUS
<1> QED BY <1>1, PointsOf

(* Sample n is of channel n % k and point n \div k.                        *)
LEMMA SampleIs ==
  ASSUME NEW k \in Sizes, NEW m \in Nat, NEW n \in 0 .. 16 * m - 1
  PROVE  n % k \in 0 .. k - 1 /\ n \div k \in 0 .. m * (16 \div k) - 1 /\ n = k * (n \div k) + (n % k)
<1>1. CASE k = 1
  BY <1>1, SMT
<1>2. CASE k = 4
  BY <1>2, SMT
<1>3. CASE k = 8
  BY <1>3, SMT
<1>4. CASE k = 16
  BY <1>4, SMT
<1> QED BY <1>1, <1>2, <1>3, <1>4 DEF Sizes

LEMMA SampleOf ==
  ASSUME NEW k \in Sizes, NEW m \in Nat, NEW j \in 0 .. k - 1, NEW p \in 0 .. m * (16 \div k) - 1
  PROVE  k * p + j \in 0 .. 16 * m - 1 /\ (k * p + j) % k = j /\ (k * p + j) \div k = p
<1>1. CASE k = 1
  BY <1>1, SMT
<1>2. CASE k = 4
  BY <1>2, SMT
<1>3. CASE k = 8
  BY <1>3, SMT
<1>4. CASE k = 16
  BY <1>4, SMT
<1> QED BY <1>1, <1>2, <1>3, <1>4 DEF Sizes

(* The bytes of a sample, behind q words.                                  *)
LEMMA BytesOfSample ==
  ASSUME NEW k \in Sizes, NEW b \in Nat, NEW q \in Nat, NEW j \in 0 .. k - 1, NEW p \in Nat
  PROVE  /\ ByteAt(k, b, 32 * q + (2 * (k * p + j) + 1)) = Channels!Byte(b + j, q * (16 \div k) + p, "low")
         /\ ByteAt(k, b, 32 * q + (2 * (k * p + j) + 2)) = Channels!Byte(b + j, q * (16 \div k) + p, "high")
<1> DEFINE x == 32 * q + (2 * (k * p + j) + 1)
           y == 32 * q + (2 * (k * p + j) + 2)
           z == q * (16 \div k) + p
<1>1. /\ ((x - 1) % (2 * k)) \div 2 = j /\ (x - 1) \div (2 * k) = z /\ (x - 1) % 2 = 0
      /\ ((y - 1) % (2 * k)) \div 2 = j /\ (y - 1) \div (2 * k) = z /\ (y - 1) % 2 = 1
  <2>1. CASE k = 1
    BY <2>1, SMT
  <2>2. CASE k = 4
    BY <2>2, SMT
  <2>3. CASE k = 8
    BY <2>3, SMT
  <2>4. CASE k = 16
    BY <2>4, SMT
  <2> QED BY <2>1, <2>2, <2>3, <2>4 DEF Sizes
<1> HIDE DEF x, y, z
<1>2. ByteAt(k, b, x) = Channels!Byte(b + j, z, "low") /\ ByteAt(k, b, y) = Channels!Byte(b + j, z, "high")
  BY <1>1 DEF ByteAt, Channels!Byte
<1> QED BY <1>2 DEF x, y, z

(* How many words have left the FIFO.                                      *)
LEMMA TakenIs ==
  ASSUME NEW k \in Sizes, NEW q \in Nat, NEW n \in Nat, NEW l \in Nat, l < 32,
         NEW z \in Nat, 32 * (q + n) + l = 2 * k * z
  PROVE  (z * k) \div 16 = q + n
<1>1. CASE k = 1
  BY <1>1, SMT
<1>2. CASE k = 4
  BY <1>2, SMT
<1>3. CASE k = 8
  BY <1>3, SMT
<1>4. CASE k = 16
  BY <1>4, SMT
<1> QED BY <1>1, <1>2, <1>3, <1>4 DEF Sizes

LEMMA NextPoint ==
  ASSUME NEW k \in Sizes, NEW z \in Nat
  PROVE  2 * k * (z + 1) = 2 * k * z + 2 * k /\ 2 * k <= 32 /\ 2 * k \in Nat /\ 2 * k * z \in Nat
<1>1. CASE k = 1
  BY <1>1, SMT
<1>2. CASE k = 4
  BY <1>2, SMT
<1>3. CASE k = 8
  BY <1>3, SMT
<1>4. CASE k = 16
  BY <1>4, SMT
<1> QED BY <1>1, <1>2, <1>3, <1>4 DEF Sizes
-----------------------------------------------------------------------------
LEMMA InitChannels ==
  ASSUME Channels!MemWordsAssumption, Channels!Init
  PROVE  ChannelsInv
<1>1. PICK k \in Sizes, g \in 0 .. 15 : k * g + k <= 16 /\ chMask = k * g .. k * g + k - 1
  BY MasksAligned, Zenon DEF Channels!Init
<1> DEFINE b == k * g
<1>2. b \in 0 .. 15 /\ b % k = 0 /\ b + k <= 16 /\ chMask = b .. b + k - 1
  <2>1. CASE k = 1
    BY <1>1, <2>1, SMT
  <2>2. CASE k = 4
    BY <1>1, <2>2, SMT
  <2>3. CASE k = 8
    BY <1>1, <2>3, SMT
  <2>4. CASE k = 16
    BY <1>1, <2>4, SMT
  <2> QED BY <2>1, <2>2, <2>3, <2>4 DEF Sizes
<1> HIDE DEF b
<1>3. Setting(k, b)
  BY <1>2 DEF Setting
<1>4. SEL = SelectOf(k, b)
  BY <1>2, <1>3, SelectIs, Zenon DEF Channels!Init
<1>5. t = 0 /\ indata_q_i = Channels!Bus(t) /\ fifo = <<>> /\ channelsWords = <<>> /\ iP = 0 /\ wavBuf = <<>>
  BY DEF Channels!Init
<1>6. iP = 0 * (16 \div k) /\ 32 * (0 + 0) + Len(fifo) = 2 * k * t /\ Len(channelsWords) = 32 * 0 /\ Len(fifo) = 0
  <2>1. 0 * (16 \div k) = 0 /\ 2 * k * 0 = 0
    BY SMT DEF Sizes
  <2>2. Len(fifo) = 0 /\ Len(channelsWords) = 0
    BY <1>5
  <2> QED BY <1>5, <2>1, <2>2
<1>7. Piece(channelsWords, k, b, 32 * 0) /\ Piece(fifo, k, b, 32 * (0 + 0))
  BY <1>5 DEF Piece
<1>8. Rows(k, b)
  <2>1. \A p \in 0 .. iP - 1 : FALSE
    BY <1>5
  <2>2. DOMAIN wavBuf = {}
    BY <1>5
  <2>3. {j * (MemWords * (16 \div k)) + p : j \in 0 .. k - 1, p \in 0 .. iP - 1} = {}
    BY <2>1
  <2> QED BY <2>1, <2>2, <2>3 DEF Rows
<1>9. 0 + 0 <= MemWords /\ 0 \in Nat
  BY DEF Channels!MemWordsAssumption
<1>10. ChannelsFrom(k, b, 0, 0)
  BY <1>2, <1>3, <1>4, <1>5, <1>6, <1>7, <1>8, <1>9 DEF ChannelsFrom
<1> QED BY <1>2, <1>9, <1>10, Zenon DEF ChannelsInv

LEMMA StepClock ==
  ASSUME Channels!MemWordsAssumption, NEW k \in Sizes, NEW b \in 0 .. 15, NEW q \in Nat, NEW n \in Nat,
         ChannelsFrom(k, b, q, n), Channels!Clock
  PROVE  ChannelsFrom(k, b, q, n)' \/ ChannelsFrom(k, b, q, n + 1)'
<1>1. /\ Setting(k, b) /\ chMask = b .. b + k - 1 /\ SEL = SelectOf(k, b) /\ t \in Nat /\ indata_q_i = Channels!Bus(t)
      /\ iP = q * (16 \div k) /\ Len(channelsWords) = 32 * n /\ 32 * (q + n) + Len(fifo) = 2 * k * t /\ Len(fifo) < 32
      /\ q + n <= MemWords /\ Piece(channelsWords, k, b, 32 * q) /\ Piece(fifo, k, b, 32 * (q + n)) /\ Rows(k, b)
  BY DEF ChannelsFrom
<1>2. k \in Nat /\ b \in Nat /\ Len(fifo) \in Nat /\ Len(channelsWords) \in Nat
  <2>1. fifo \in Seq(Bytes) /\ channelsWords \in Seq(Bytes)
    BY <1>1, Zenon DEF Piece
  <2>2. Len(fifo) \in Nat /\ Len(channelsWords) \in Nat
    BY <2>1
  <2>3. k \in Nat /\ b \in Nat
    BY DEF Sizes
  <2> QED BY <2>2, <2>3
<1>3. Piece(Channels!Picked, k, b, 2 * k * t) /\ Len(Channels!Picked) = 2 * k
  BY <1>1, PickedIs
<1> DEFINE f == fifo \o Channels!Picked
<1>4. Piece(f, k, b, 32 * (q + n)) /\ Len(f) = Len(fifo) + 2 * k
  <2>1. 32 * (q + n) \in Nat
    OBVIOUS
  <2>2. Piece(Channels!Picked, k, b, 32 * (q + n) + Len(fifo))
    BY <1>1, <1>3, Zenon
  <2> QED BY <1>1, <1>2, <1>3, <2>1, <2>2, PiecesJoin
<1>5. /\ Channels!Taken < MemWords
      /\ channelsWords' = IF Len(f) >= 32 THEN channelsWords \o SubSeq(f, 1, 32) ELSE channelsWords
      /\ fifo' = IF Len(f) >= 32 THEN SubSeq(f, 33, Len(f)) ELSE f
      /\ t' = t + 1 /\ indata_q_i' = Channels!Bus(t + 1) /\ chMask' = chMask /\ SEL' = SEL
      /\ wavBuf' = wavBuf /\ iP' = iP
  BY DEF Channels!Clock, Channels!WordBytes, Channels!SCOPE_NCH
<1> HIDE DEF f
<1>6. /\ t' \in Nat /\ indata_q_i' = Channels!Bus(t)'
      /\ 2 * k * t' = 2 * k * t + 2 * k /\ 2 * k <= 32 /\ 2 * k \in Nat /\ 2 * k * t \in Nat
  <2>1. t' \in Nat /\ indata_q_i' = Channels!Bus(t')
    BY <1>1, <1>5
  <2> QED BY <1>1, <1>5, <2>1, NextPoint
<1>7. Rows(k, b)'
  <2>1. wavBuf' = wavBuf /\ iP' = iP /\ Rows(k, b)
    BY <1>1, <1>5, Zenon
  <2> QED BY <2>1 DEF Rows
<1>8. q + n < MemWords
  <2>1. Channels!nCh = k
    BY <1>1, SizeOf, Zenon
  <2>2. Channels!Taken = (t * k) \div 16
    BY <2>1, Zenon DEF Channels!Taken, Channels!SCOPE_NCH
  <2>3. (t * k) \div 16 = q + n
    BY <1>1, <1>2, TakenIs
  <2> QED BY <1>5, <2>2, <2>3
<1>9. CASE Len(f) < 32
  <2>1. channelsWords' = channelsWords /\ fifo' = f
    BY <1>2, <1>4, <1>5, <1>6, <1>9
  <2>2. 32 * (q + n) + Len(fifo)' = 2 * k * t' /\ Len(fifo') < 32
    <3> DEFINE z == 2 * k * t
               y == 2 * k * t'
               d == 2 * k
    <3>1. z \in Nat /\ d \in Nat /\ y = z + d /\ Len(f) = Len(fifo) + d /\ 32 * (q + n) + Len(fifo) = z
      BY <1>1, <1>4, <1>6, Zenon
    <3> HIDE DEF z, y, d
    <3>2. Len(fifo') = Len(f)
      BY <2>1, Zenon
    <3>3. 32 * (q + n) + Len(fifo') = y /\ Len(fifo') < 32
      BY <1>2, <1>9, <3>1, <3>2
    <3> QED BY <3>3, Zenon DEF y
  <2>3. Piece(channelsWords, k, b, 32 * q)' /\ Piece(fifo, k, b, 32 * (q + n))'
    BY <1>1, <1>4, <2>1, Zenon DEF Piece
  <2>4. Len(channelsWords)' = 32 * n
    BY <1>1, <2>1
  <2> QED BY <1>1, <1>5, <1>6, <1>7, <2>2, <2>3, <2>4 DEF ChannelsFrom
<1>10. CASE Len(f) >= 32
  <2> DEFINE g == SubSeq(f, 1, 32)
             h == SubSeq(f, 32 + 1, Len(f))
  <2>1. 32 \in 0 .. Len(f)
    BY <1>2, <1>4, <1>6, <1>10
  <2>2. /\ 32 * (q + n) \in Nat /\ 32 * q \in Nat
        /\ 32 * q + 32 * n = 32 * (q + n) /\ 32 * (q + n) + 32 = 32 * (q + (n + 1))
    BY SMT
  <2>3. Piece(g, k, b, 32 * (q + n)) /\ Len(g) = 32 /\ Piece(h, k, b, 32 * (q + n) + 32) /\ Len(h) = Len(f) - 32
    <3>1. \A m \in 0 .. Len(f) :
            /\ Piece(SubSeq(f, 1, m), k, b, 32 * (q + n)) /\ Len(SubSeq(f, 1, m)) = m
            /\ Piece(SubSeq(f, m + 1, Len(f)), k, b, 32 * (q + n) + m)
            /\ Len(SubSeq(f, m + 1, Len(f))) = Len(f) - m
      BY <1>2, <1>4, <2>2, PiecesCut, ZenonT(30)
    <3> QED BY <2>1, <3>1, Zenon DEF g, h
  <2>4. channelsWords' = channelsWords \o g /\ fifo' = h
    <3>1. 32 + 1 = 33
      OBVIOUS
    <3> QED BY <1>5, <1>10, <3>1, Zenon DEF g, h
  <2> HIDE DEF g, h
  <2>5. Piece(g, k, b, 32 * q + Len(channelsWords))
    BY <1>1, <2>2, <2>3, Zenon
  <2>6. Piece(channelsWords \o g, k, b, 32 * q) /\ Len(channelsWords \o g) = Len(channelsWords) + Len(g)
    BY <1>1, <1>2, <2>2, <2>5, PiecesJoin, Zenon
  <2>7. Piece(channelsWords, k, b, 32 * q)' /\ Piece(fifo, k, b, 32 * (q + (n + 1)))'
    BY <2>2, <2>3, <2>4, <2>6, Zenon DEF Piece
  <2>8. Len(channelsWords)' = 32 * (n + 1)
    BY <1>1, <2>3, <2>4, <2>6
  <2>9. 32 * (q + (n + 1)) + Len(fifo)' = 2 * k * t' /\ Len(fifo)' < 32
    <3> DEFINE z == 2 * k * t
               y == 2 * k * t'
               d == 2 * k
    <3>1. z \in Nat /\ d \in Nat /\ d <= 32 /\ y = z + d /\ Len(f) = Len(fifo) + d /\ 32 * (q + n) + Len(fifo) = z
      BY <1>1, <1>4, <1>6, Zenon
    <3> HIDE DEF z, y, d
    <3>2. Len(fifo') = Len(f) - 32
      BY <2>3, <2>4, Zenon
    <3> DEFINE a == Len(fifo)
               c == Len(fifo')
               u == q + n
    <3>4. a < 32 /\ a \in Nat /\ u \in Nat /\ c = (a + d) - 32 /\ 32 * u + a = z /\ q + (n + 1) = u + 1
      <4>1. a < 32 /\ a \in Nat
        BY <1>1, <1>2, Zenon
      <4>2. u \in Nat /\ q + (n + 1) = u + 1
        OBVIOUS
      <4> QED BY <3>1, <3>2, <4>1, <4>2, Zenon
    <3> HIDE DEF a, c, u
    <3>5. 32 * (u + 1) + c = y /\ c < 32
      BY <3>1, <3>4
    <3>3. 32 * (q + (n + 1)) + Len(fifo') = y /\ Len(fifo') < 32
      BY <3>4, <3>5, Zenon DEF c
    <3> QED BY <3>3, Zenon DEF y
  <2>10. n + 1 \in Nat /\ q + (n + 1) <= MemWords
    BY <1>8 DEF Channels!MemWordsAssumption
  <2> QED BY <1>1, <1>5, <1>6, <1>7, <2>7, <2>8, <2>9, <2>10 DEF ChannelsFrom
<1>11. Len(f) \in Nat
  BY <1>2, <1>4, <1>6
<1> QED BY <1>9, <1>10, <1>11

(* Two places of the event are never the same.                             *)
LEMMA PointsApart ==
  ASSUME NEW w \in Nat, NEW j \in Nat, NEW c \in Nat, NEW p \in 0 .. w - 1, NEW d \in 0 .. w - 1,
         j * w + p = c * w + d
  PROVE  j = c /\ p = d
<1>1. ASSUME NEW x \in Nat, NEW y \in Nat, x < y PROVE y * w >= x * w + w
  <2> DEFINE z == y - x - 1
  <2>1. z \in Nat /\ y = x + 1 + z
    BY <1>1
  <2> HIDE DEF z
  <2>2. (x + 1 + z) * w = x * w + w + z * w /\ z * w >= 0 /\ x * w \in Nat /\ z * w \in Nat
    BY <2>1, SMT
  <2> QED BY <2>1, <2>2
<1>2. j * w \in Nat /\ c * w \in Nat
  BY SMT
<1>3. ~(j < c)
  BY <1>1, <1>2
<1>4. ~(c < j)
  BY <1>1, <1>2
<1>5. j = c
  BY <1>3, <1>4
<1> QED BY <1>2, <1>5

LEMMA PointInside ==
  ASSUME NEW w \in Nat, NEW k \in Nat, NEW j \in 0 .. k - 1, NEW p \in 0 .. w - 1
  PROVE  j * w + p \in 0 .. k * w - 1
<1> DEFINE z == k - j - 1
<1>1. z \in Nat /\ k = j + 1 + z
  OBVIOUS
<1> HIDE DEF z
<1>2. (j + 1 + z) * w = j * w + w + z * w /\ z * w \in Nat /\ j * w \in Nat
  BY <1>1, SMT
<1>3. k * w = j * w + w + z * w
  BY <1>1, <1>2
<1> QED BY <1>2, <1>3

(* What dealing the m words of v does to the event.                        *)
Dealing(k, b, q, m, v) ==
  /\ chMask = b .. b + k - 1 /\ iP = q * (16 \div k) /\ Rows(k, b)
  /\ Piece(v, k, b, 32 * q) /\ Len(v) = 32 * m /\ iP' = (q + m) * (16 \div k) /\ wavBuf' = Channels!Deal(v)

LEMMA DealIs ==
  ASSUME Channels!MemWordsAssumption, NEW k \in Sizes, NEW b \in 0 .. 15, NEW q \in Nat, NEW m \in Nat,
         q + m <= MemWords, NEW v, Dealing(k, b, q, m, v)
  PROVE  Rows(k, b)'
<1> DEFINE r == 16 \div k
           w == MemWords * (16 \div k)
           e == m * (16 \div k)
<1>1. Channels!nCh = k /\ k \in Nat /\ b \in Nat
  <2>1. Channels!nCh = k
    <3>1. chMask = b .. b + k - 1
      BY Zenon DEF Dealing
    <3> QED BY <3>1, SizeOf, Zenon
  <2>2. k \in Nat /\ b \in Nat
    BY DEF Sizes
  <2> QED BY <2>1, <2>2
<1>2. /\ (32 * m) \div (2 * k) = e /\ k * e = 16 * m /\ iP' = iP + e /\ e \in Nat /\ iP \in Nat
      /\ w \in Nat /\ iP' <= w
  <2>1. /\ (32 * m) \div (2 * k) = e /\ k * e = 16 * m /\ (q + m) * r = q * r + e /\ e \in Nat
    <3>1. (32 * m) \div (2 * k) = e
      BY PointsOf, Zenon
    <3>3. k * e = 16 * m
      BY SamplesOf, Zenon
    <3>2. (q + m) * r = q * r + e /\ e \in Nat
      BY PointsOf, Zenon
    <3> QED BY <3>1, <3>2, <3>3, Zenon
  <2>2. MemWords \in Nat /\ q + m \in Nat
    BY DEF Channels!MemWordsAssumption
  <2>3. q * r \in Nat /\ w \in Nat
    BY <2>2, PointsOf
  <2>4. (q + m) * r <= w
    <3>1. q + m \in Nat /\ MemWords \in Nat /\ q + m <= MemWords
      BY <2>2
    <3> QED BY <3>1, PointsOf, Zenon
  <2>5. iP = q * r /\ iP' = (q + m) * r
    BY Zenon DEF Dealing
  <2> HIDE DEF r, w, e
  <2> QED BY <2>1, <2>3, <2>4, <2>5, Zenon
<1>3. Channels!nPt = w
  BY <1>1, Zenon DEF Channels!nPt, Channels!SCOPE_NCH
<1> HIDE DEF r, w, e
<1>12. iP' = iP + e /\ e \in Nat /\ iP \in Nat /\ w \in Nat /\ iP' <= w /\ k \in Nat
  BY <1>1, <1>2, Zenon
<1>13. /\ \A a \in 0 .. e - 1 : a \in Nat /\ iP + a \in iP .. iP' - 1
       /\ \A p \in iP .. iP' - 1 : p - iP \in 0 .. e - 1 /\ p \in 0 .. w - 1
       /\ \A p : p \in 0 .. iP' - 1 <=> (p \in 0 .. iP - 1 \/ p \in iP .. iP' - 1)
       /\ \A j \in 0 .. k - 1 : j \in Nat
  <2>1. \A j \in 0 .. k - 1 : j \in Nat
    OBVIOUS
  <2> DEFINE l == iP
             h == iP'
  <2>2. l \in Nat /\ e \in Nat /\ h = l + e /\ w \in Nat /\ h <= w
    BY <1>12, Zenon
  <2> HIDE DEF l, h
  <2>3. /\ \A a \in 0 .. e - 1 : a \in Nat /\ l + a \in l .. h - 1
        /\ \A p \in l .. h - 1 : p - l \in 0 .. e - 1 /\ p \in 0 .. w - 1
        /\ \A p : p \in 0 .. h - 1 <=> (p \in 0 .. l - 1 \/ p \in l .. h - 1)
    BY <2>2
  <2> QED BY <2>1, <2>3, Zenon DEF l, h
<1> DEFINE place(x) == (x % k) * w + (iP + x \div k)
           filled == {place(x) : x \in 0 .. 16 * m - 1}
<1>4. /\ DOMAIN wavBuf' = filled \cup DOMAIN wavBuf
      /\ \A x \in DOMAIN wavBuf : x \notin filled => wavBuf'[x] = wavBuf[x]
      /\ \A x \in filled : \E y \in 0 .. 16 * m - 1 : x = place(y) /\ wavBuf'[x] = Channels!Sample(v, y)
  <2> DEFINE S == 0 .. Channels!nCh * (Len(v) \div (2 * Channels!nCh)) - 1
             at(x) == Channels!Index(x % Channels!nCh, iP + x \div Channels!nCh)
             F == {at(x) : x \in S}
  <2>1. Channels!nCh * (Len(v) \div (2 * Channels!nCh)) = 16 * m
    <3>1. Len(v) = 32 * m
      BY Zenon DEF Dealing
    <3> QED BY <1>1, <1>2, <3>1, Zenon
  <2>2. \A x : at(x) = place(x)
    BY <1>1, <1>3, Zenon DEF Channels!Index
  <2>3. S = 0 .. 16 * m - 1
    BY <2>1, Zenon
  <2>5. wavBuf' = [x \in F \cup DOMAIN wavBuf |->
                     IF x \in F THEN Channels!Sample(v, CHOOSE y \in S : x = at(y)) ELSE wavBuf[x]]
    BY Zenon DEF Dealing, Channels!Deal
  <2> HIDE DEF S, at, place
  <2>6. F = filled
    BY <2>2, <2>3
  <2> HIDE DEF filled
  <2>7. \A x \in F : \E y \in S : x = at(y)
    BY Zenon
  <2> HIDE DEF F
  <2>8. /\ DOMAIN wavBuf' = F \cup DOMAIN wavBuf
        /\ \A x \in DOMAIN wavBuf : x \notin F => wavBuf'[x] = wavBuf[x]
        /\ \A x \in F : wavBuf'[x] = Channels!Sample(v, CHOOSE y \in S : x = at(y))
    <3> HIDE DEF Channels!Sample
    <3> QED BY <2>5, Zenon
  <2>9. ASSUME NEW x \in F PROVE \E y \in S : x = at(y) /\ wavBuf'[x] = Channels!Sample(v, y)
    <3> DEFINE c == CHOOSE y \in S : x = at(y)
    <3>1. c \in S /\ x = at(c)
      BY <2>7, Zenon
    <3>2. wavBuf'[x] = Channels!Sample(v, c)
      BY <2>8, Zenon
    <3> HIDE DEF c
    <3> QED BY <3>1, <3>2, Zenon
  <2> QED BY <2>2, <2>3, <2>6, <2>8, <2>9, Zenon
<1> HIDE DEF filled
(* Sample x is dealt to channel x % k at point iP + x \div k.              *)
<1>5. ASSUME NEW x \in 0 .. 16 * m - 1
      PROVE  /\ x % k \in 0 .. k - 1 /\ iP + x \div k \in iP .. iP' - 1 /\ x = k * (x \div k) + (x % k)
             /\ x \div k \in Nat
  <2>1. x % k \in 0 .. k - 1 /\ x \div k \in 0 .. e - 1 /\ x = k * (x \div k) + (x % k)
    BY SampleIs DEF e
  <2> DEFINE a == x \div k
  <2>2. a \in 0 .. e - 1
    BY <2>1, Zenon
  <2> HIDE DEF a
  <2>3. a \in Nat /\ iP + a \in iP .. iP' - 1
    BY <1>13, <2>2, Zenon
  <2> QED BY <2>1, <2>3, Zenon DEF a
<1>6. ASSUME NEW j \in 0 .. k - 1, NEW p \in iP .. iP' - 1
      PROVE  /\ j * w + p \in filled
             /\ \A x \in 0 .. 16 * m - 1 : j * w + p = place(x) => x = k * (p - iP) + j
  <2>1. p - iP \in 0 .. e - 1 /\ p \in 0 .. w - 1 /\ j \in Nat
    BY <1>13, Zenon
  <2> DEFINE x == k * (p - iP) + j
  <2>2. x \in 0 .. 16 * m - 1 /\ x % k = j /\ x \div k = p - iP
    BY <2>1, SampleOf DEF e
  <2>3. iP + (p - iP) = p
    BY <1>12
  <2> HIDE DEF x
  <2>4. place(x) = j * w + p
    BY <2>2, <2>3
  <2>5. ASSUME NEW y \in 0 .. 16 * m - 1, j * w + p = place(y) PROVE y = k * (p - iP) + j
    <3> DEFINE c == y % k
               d == iP + y \div k
    <3>1. c \in Nat /\ d \in 0 .. w - 1 /\ y = k * (y \div k) + (y % k) /\ y \div k \in Nat
      <4>1. c \in 0 .. k - 1 /\ d \in iP .. iP' - 1 /\ y = k * (y \div k) + (y % k) /\ y \div k \in Nat
        BY <1>5, <2>5, Zenon
      <4> HIDE DEF c, d
      <4>2. c \in Nat /\ d \in 0 .. w - 1
        BY <1>12, <4>1
      <4> QED BY <4>1, <4>2, Zenon
    <3>2. j * w + p = c * w + d
      BY <2>5, Zenon
    <3> HIDE DEF c, d
    <3>3. c \in Nat /\ d \in 0 .. w - 1
      BY <3>1, Zenon
    <3>4. j = c /\ p = d
      <4>1. w \in Nat /\ j \in Nat /\ p \in 0 .. w - 1
        BY <1>12, <2>1, Zenon
      <4> QED BY <3>2, <3>3, <4>1, PointsApart
    <3>5. y % k = j /\ y \div k = p - iP
      <4>1. y % k = j /\ iP + y \div k = p
        BY <3>4, Zenon DEF c, d
      <4> DEFINE a == y \div k
      <4>2. iP + a = p /\ a \in Nat
        BY <3>1, <4>1, Zenon
      <4> HIDE DEF a
      <4>3. a = p - iP
        BY <1>12, <4>2
      <4> QED BY <4>1, <4>3, Zenon DEF a
    <3> QED BY <3>1, <3>5, Zenon
  <2> QED BY <2>2, <2>4, <2>5 DEF filled
<1>7. ASSUME NEW j \in 0 .. k - 1, NEW p \in 0 .. iP - 1
      PROVE  j * w + p \notin filled
  <2>1. SUFFICES ASSUME NEW x \in 0 .. 16 * m - 1, j * w + p = place(x) PROVE FALSE
    BY DEF filled
  <2>2. x % k \in 0 .. k - 1 /\ iP + x \div k \in iP .. iP' - 1
    BY <1>5
  <2> DEFINE c == x % k
             d == iP + x \div k
  <2>3. j * w + p = c * w + d
    BY <2>1
  <2>4. c \in 0 .. k - 1 /\ d \in iP .. iP' - 1
    BY <2>2
  <2> HIDE DEF c, d
  <2>5. c \in Nat /\ j \in Nat /\ d \in 0 .. w - 1 /\ p \in 0 .. w - 1
    BY <1>12, <2>4
  <2>6. p = d
    <3>1. w \in Nat
      BY <1>12, Zenon
    <3> QED BY <2>3, <2>5, <3>1, PointsApart
  <2> QED BY <1>12, <2>4, <2>6
<1>8. filled = {j * w + p : j \in 0 .. k - 1, p \in iP .. iP' - 1}
  <2>1. \A x \in filled : x \in {j * w + p : j \in 0 .. k - 1, p \in iP .. iP' - 1}
    BY <1>5 DEF filled
  <2>2. \A x \in {j * w + p : j \in 0 .. k - 1, p \in iP .. iP' - 1} : x \in filled
    BY <1>6
  <2> QED BY <2>1, <2>2
<1>9. /\ DOMAIN wavBuf = {j * w + p : j \in 0 .. k - 1, p \in 0 .. iP - 1}
      /\ \A j \in 0 .. k - 1, p \in 0 .. iP - 1 :
           wavBuf[j * w + p] =
             [low |-> Channels!Byte(b + j, p, "low"), high |-> Channels!Byte(b + j, p, "high")]
  BY DEF Rows, w, Dealing
<1>10. DOMAIN wavBuf' = {j * w + p : j \in 0 .. k - 1, p \in 0 .. iP' - 1}
  <2>1. DOMAIN wavBuf' = filled \cup DOMAIN wavBuf
    BY <1>4, Zenon
  <2>2. \A p : p \in 0 .. iP' - 1 <=> (p \in 0 .. iP - 1 \/ p \in iP .. iP' - 1)
    BY <1>13, Zenon
  <2> DEFINE A == 0 .. iP - 1
             B == iP .. iP' - 1
             C == 0 .. iP' - 1
             to(j, p) == j * w + p
  <2>3. /\ filled = {to(j, p) : j \in 0 .. k - 1, p \in B}
        /\ DOMAIN wavBuf = {to(j, p) : j \in 0 .. k - 1, p \in A}
    BY <1>8, <1>9
  <2>4. C = A \cup B
    BY <2>2
  <2> HIDE DEF A, B, C, to, place
  <2>5. DOMAIN wavBuf' = {to(j, p) : j \in 0 .. k - 1, p \in C}
    BY <2>1, <2>3, <2>4
  <2> QED BY <2>5 DEF C, to
<1>11. ASSUME NEW j \in 0 .. k - 1, NEW p \in 0 .. iP' - 1
       PROVE  wavBuf'[j * w + p] = [low |-> Channels!Byte(b + j, p, "low"), high |-> Channels!Byte(b + j, p, "high")]
  <2>1. CASE p < iP
    <3>1. p \in 0 .. iP - 1
      BY <1>12, <2>1
    <3>2. j * w + p \in DOMAIN wavBuf /\ j * w + p \notin filled
      BY <1>7, <1>9, <3>1
    <3> DEFINE x == j * w + p
    <3>3. x \in DOMAIN wavBuf /\ x \notin filled
      BY <3>2
    <3> HIDE DEF x
    <3>4. wavBuf'[x] = wavBuf[x]
      BY <1>4, <3>3
    <3> QED BY <1>9, <3>1, <3>4, Zenon DEF x
  <2>2. CASE p >= iP
    <3>1. p \in iP .. iP' - 1
      BY <1>12, <2>2
    <3> DEFINE x == j * w + p
    <3>2. x \in filled /\ \A y \in 0 .. 16 * m - 1 : x = place(y) => y = k * (p - iP) + j
      BY <1>6, <3>1, Zenon
    <3> HIDE DEF x, place
    <3>3. PICK y \in 0 .. 16 * m - 1 : x = place(y) /\ wavBuf'[x] = Channels!Sample(v, y)
      BY <1>4, <3>2, Zenon
    <3>4. wavBuf'[x] = Channels!Sample(v, y)
      BY <3>3, Zenon
    <3>5. y = k * (p - iP) + j
      BY <3>2, <3>3, Zenon
    <3> DEFINE d == p - iP
    <3>6. d \in Nat /\ iP + d = p /\ y = k * d + j
      <4>1. d \in Nat /\ iP + d = p
        BY <1>12, <3>1
      <4> QED BY <3>5, <4>1, Zenon
    <3> HIDE DEF d
    <3>7. Channels!Sample(v, y) = [low |-> v[2 * y + 1], high |-> v[2 * y + 2]]
      BY Zenon DEF Channels!Sample
    <3>8. 2 * y + 1 \in 1 .. 32 * m /\ 2 * y + 2 \in 1 .. 32 * m
      BY <3>3
    <3>9. v[2 * y + 1] = ByteAt(k, b, 32 * q + (2 * y + 1)) /\ v[2 * y + 2] = ByteAt(k, b, 32 * q + (2 * y + 2))
      BY <3>8, Zenon DEF Piece, Dealing
    <3>10. /\ ByteAt(k, b, 32 * q + (2 * (k * d + j) + 1)) = Channels!Byte(b + j, q * (16 \div k) + d, "low")
           /\ ByteAt(k, b, 32 * q + (2 * (k * d + j) + 2)) = Channels!Byte(b + j, q * (16 \div k) + d, "high")
      <4>1. d \in Nat /\ b \in Nat
        BY <1>1, <3>6, Zenon
      <4> QED BY <4>1, BytesOfSample
    <3>11. q * (16 \div k) + d = p
      BY <3>6, Zenon DEF Dealing
    <3> QED BY <3>4, <3>6, <3>7, <3>9, <3>10, <3>11, Zenon DEF x
  <2> QED BY <1>2, <2>1, <2>2
<1> HIDE DEF place
<1> QED BY <1>10, <1>11 DEF Rows, w

LEMMA StepFill ==
  ASSUME Channels!MemWordsAssumption, NEW k \in Sizes, NEW b \in 0 .. 15, NEW q \in Nat, NEW n \in Nat,
         ChannelsFrom(k, b, q, n), Channels!Fill
  PROVE  \E m \in 1 .. n : ChannelsFrom(k, b, q + m, n - m)'
<1>1. /\ Setting(k, b) /\ chMask = b .. b + k - 1 /\ SEL = SelectOf(k, b) /\ t \in Nat /\ indata_q_i = Channels!Bus(t)
      /\ iP = q * (16 \div k) /\ Len(channelsWords) = 32 * n /\ 32 * (q + n) + Len(fifo) = 2 * k * t /\ Len(fifo) < 32
      /\ q + n <= MemWords /\ Piece(channelsWords, k, b, 32 * q) /\ Piece(fifo, k, b, 32 * (q + n)) /\ Rows(k, b)
  BY DEF ChannelsFrom
<1>2. (32 * n) \div 32 = n /\ Channels!WordBytes = 32
  BY DEF Channels!WordBytes, Channels!SCOPE_NCH
<1>3. PICK m \in 1 .. n :
        /\ wavBuf' = Channels!Deal(SubSeq(channelsWords, 1, m * 32)) /\ iP' = iP + (m * 32) \div (2 * Channels!nCh)
        /\ channelsWords' = SubSeq(channelsWords, m * 32 + 1, Len(channelsWords))
        /\ UNCHANGED <<chMask, SEL, indata_q_i, fifo, t>>
  BY <1>1, <1>2, Zenon DEF Channels!Fill
<1>4. m * 32 = 32 * m /\ 32 * m \in 0 .. 32 * n /\ 32 * q \in Nat
  OBVIOUS
<1>5. k \in Nat /\ b \in Nat
  BY DEF Sizes
<1> DEFINE v == SubSeq(channelsWords, 1, 32 * m)
           g == SubSeq(channelsWords, 32 * m + 1, Len(channelsWords))
<1>6. /\ Piece(v, k, b, 32 * q) /\ Len(v) = 32 * m
      /\ Piece(g, k, b, 32 * q + 32 * m) /\ Len(g) = Len(channelsWords) - 32 * m
  <2>1. \A l \in 0 .. Len(channelsWords) :
          /\ Piece(SubSeq(channelsWords, 1, l), k, b, 32 * q) /\ Len(SubSeq(channelsWords, 1, l)) = l
          /\ Piece(SubSeq(channelsWords, l + 1, Len(channelsWords)), k, b, 32 * q + l)
          /\ Len(SubSeq(channelsWords, l + 1, Len(channelsWords))) = Len(channelsWords) - l
    BY <1>1, <1>4, <1>5, PiecesCut, Zenon
  <2>2. 32 * m \in 0 .. Len(channelsWords)
    BY <1>1, <1>4, Zenon
  <2> QED BY <2>1, <2>2, Zenon
<1>7. wavBuf' = Channels!Deal(v) /\ channelsWords' = g
  BY <1>3, <1>4, Zenon
<1> HIDE DEF v, g
<1>8. iP' = (q + m) * (16 \div k)
  <2>1. Channels!nCh = k
    BY <1>1, SizeOf, Zenon
  <2>2. (32 * m) \div (2 * k) = m * (16 \div k) /\ (q + m) * (16 \div k) = q * (16 \div k) + m * (16 \div k)
    <3>1. m \in Nat
      OBVIOUS
    <3> QED BY <3>1, PointsOf, Zenon
  <2> QED BY <1>1, <1>3, <1>4, <2>1, <2>2, Zenon
<1>9. Rows(k, b)'
  <2>1. m \in Nat /\ q + m <= MemWords
    BY <1>1 DEF Channels!MemWordsAssumption
  <2>2. Dealing(k, b, q, m, v)
    BY <1>1, <1>6, <1>7, <1>8, Zenon DEF Dealing
  <2> QED BY <2>1, <2>2, DealIs, Zenon
<1>10. /\ q + m \in Nat /\ n - m \in Nat /\ (q + m) + (n - m) = q + n /\ 32 * (q + m) = 32 * q + 32 * m
       /\ 32 * n - 32 * m = 32 * (n - m)
  OBVIOUS
<1>11. Piece(channelsWords, k, b, 32 * (q + m))' /\ Len(channelsWords)' = 32 * (n - m)
  <2>1. Piece(g, k, b, 32 * (q + m)) /\ Len(g) = 32 * (n - m)
    BY <1>1, <1>6, <1>10, Zenon
  <2> QED BY <1>7, <2>1, Zenon DEF Piece
<1>12. Piece(fifo, k, b, 32 * (q + n))' /\ Len(fifo)' = Len(fifo)
  BY <1>1, <1>3, Zenon DEF Piece
<1>13. indata_q_i' = Channels!Bus(t)' /\ t' = t /\ chMask' = chMask /\ SEL' = SEL
  <2>1. indata_q_i' = indata_q_i /\ t' = t
    BY <1>3
  <2>2. Channels!Bus(t') = Channels!Bus(t)
    BY <2>1, Zenon
  <2> QED BY <1>1, <1>3, <2>1, <2>2, Zenon
<1>14. 32 * ((q + m) + (n - m)) + Len(fifo)' = 2 * k * t' /\ Len(fifo)' < 32 /\ (q + m) + (n - m) <= MemWords
  BY <1>1, <1>10, <1>12, <1>13, Zenon
<1>15. Piece(fifo, k, b, 32 * ((q + m) + (n - m)))'
  BY <1>10, <1>12, Zenon
<1>16. ChannelsFrom(k, b, q + m, n - m)'
  BY <1>1, <1>8, <1>9, <1>10, <1>11, <1>13, <1>14, <1>15, Zenon DEF ChannelsFrom
<1> QED BY <1>16, Zenon

(* The points that are filled are points of the event.                     *)
LEMMA InsideOf ==
  ASSUME Channels!MemWordsAssumption, NEW k \in Sizes, NEW q \in Nat, NEW n \in Nat, q + n <= MemWords
  PROVE  /\ q * (16 \div k) <= MemWords * (16 \div k)
         /\ \A j \in 0 .. k - 1, p \in 0 .. q * (16 \div k) - 1 :
              j * (MemWords * (16 \div k)) + p \in 0 .. k * (MemWords * (16 \div k)) - 1
<1> DEFINE w == MemWords * (16 \div k)
           z == q * (16 \div k)
<1>1. MemWords \in Nat /\ q <= MemWords
  BY DEF Channels!MemWordsAssumption
<1>2. z <= w /\ z \in Nat /\ w \in Nat
  BY <1>1, PointsOf
<1> HIDE DEF w, z
<1>3. ASSUME NEW j \in 0 .. k - 1, NEW p \in 0 .. z - 1 PROVE j * w + p \in 0 .. k * w - 1
  <2>1. k \in Nat /\ p \in 0 .. w - 1
    BY <1>2 DEF Sizes
  <2> QED BY <1>2, <2>1, PointInside, Zenon
<1> QED BY <1>2, <1>3, Zenon DEF w, z

LEMMA RowsFrom ==
  ASSUME NEW k \in Sizes, NEW b \in 0 .. 15, NEW q \in Nat, NEW n \in Nat, ChannelsFrom(k, b, q, n)
  PROVE  Channels!RowsAreChannels
<1>1. chMask = b .. b + k - 1
  BY DEF ChannelsFrom
<1>2. \A j \in 0 .. k - 1, p \in 0 .. iP - 1 :
           wavBuf[j * (MemWords * (16 \div k)) + p] =
             [low |-> Channels!Byte(b + j, p, "low"), high |-> Channels!Byte(b + j, p, "high")]
  BY DEF Rows, ChannelsFrom
<1>3. Channels!nCh = k /\ Channels!nPt = MemWords * (16 \div k)
  <2>1. Channels!nCh = k
    BY <1>1, SizeOf, Zenon
  <2> QED BY <2>1, Zenon DEF Channels!nPt, Channels!SCOPE_NCH
<1>4. \A j \in 0 .. k - 1 : Channels!RowChannel(j) = b + j
  BY <1>1, RowIs, Zenon
<1> QED BY <1>2, <1>3, <1>4, Zenon DEF Channels!RowsAreChannels

LEMMA StepChannels ==
  ASSUME Channels!MemWordsAssumption, ChannelsInv, [Channels!Next]_(Channels!vars)
  PROVE  ChannelsInv' /\ Channels!InsideEvent
<1>1. PICK k \in Sizes, b \in 0 .. 15, q \in Nat, n \in Nat : ChannelsFrom(k, b, q, n)
  BY Zenon DEF ChannelsInv
<1>2. ASSUME UNCHANGED Channels!vars PROVE ChannelsFrom(k, b, q, n)'
  <2>1. /\ chMask' = chMask /\ SEL' = SEL /\ indata_q_i' = indata_q_i /\ fifo' = fifo
        /\ channelsWords' = channelsWords
        /\ t' = t /\ wavBuf' = wavBuf /\ iP' = iP
    BY <1>2 DEF Channels!vars
  <2>2. Channels!Bus(t') = Channels!Bus(t)
    BY <2>1, Zenon
  <2>3. Rows(k, b)'
    <3>1. Rows(k, b)
      BY <1>1, Zenon DEF ChannelsFrom
    <3> QED BY <2>1, <3>1 DEF Rows
  <2> QED BY <1>1, <2>1, <2>2, <2>3, Zenon DEF ChannelsFrom, Piece
<1>3. PICK c \in Nat, d \in Nat : ChannelsFrom(k, b, c, d)'
  <2>1. CASE Channels!Clock
    <3>1. n + 1 \in Nat
      OBVIOUS
    <3> QED BY <1>1, <2>1, <3>1, StepClock, Zenon
  <2>2. CASE Channels!Fill
    <3>1. PICK m \in 1 .. n : ChannelsFrom(k, b, q + m, n - m)'
      BY <1>1, <2>2, StepFill, Zenon
    <3>2. q + m \in Nat /\ n - m \in Nat
      OBVIOUS
    <3> QED BY <3>1, <3>2, Zenon
  <2>3. CASE UNCHANGED Channels!vars
    BY <1>2, <2>3, Zenon
  <2> QED BY <2>1, <2>2, <2>3, Zenon DEF Channels!Next
<1>4. /\ iP' = c * (16 \div k) /\ c + d <= MemWords
      /\ DOMAIN wavBuf' = {j * (MemWords * (16 \div k)) + p : j \in 0 .. k - 1, p \in 0 .. iP' - 1}
  BY <1>3 DEF ChannelsFrom, Rows
<1>5. Channels!nCh = k /\ Channels!nPt = MemWords * (16 \div k)
  <2>1. chMask = b .. b + k - 1
    BY <1>1 DEF ChannelsFrom
  <2>2. Channels!nCh = k
    BY <2>1, SizeOf, Zenon
  <2> QED BY <2>2, Zenon DEF Channels!nPt, Channels!SCOPE_NCH
<1>6. /\ iP' <= MemWords * (16 \div k)
      /\ \A j \in 0 .. k - 1, p \in 0 .. iP' - 1 :
            j * (MemWords * (16 \div k)) + p \in 0 .. k * (MemWords * (16 \div k)) - 1
  BY <1>4, InsideOf, Zenon
<1>7. Channels!InsideEvent
  BY <1>4, <1>5, <1>6 DEF Channels!InsideEvent
<1> QED BY <1>3, <1>7, Zenon DEF ChannelsInv
-----------------------------------------------------------------------------
(* The tools in a behaviour of MCPcTools: a tool is kept for ever, and its *)
(* steps are those of its module.                                          *)
LEMMA Steps ==
  ASSUME [Next]_vars
  PROVE  /\ tool' = tool
         /\ tool = "connect" => [Connect!Next]_(Connect!vars)
         /\ tool = "prepare" => [Prepare!Next]_(Prepare!vars)
         /\ tool = "udptest" => [Udp!Next]_(Udp!vars)
         /\ tool = "file"    => [File!Next]_(File!vars)
         /\ tool = "query"   => [Query!Next]_(Query!vars)
         /\ tool = "waveview" => [View!Next]_(View!vars)
         /\ tool = "channels" => [Channels!Next]_(Channels!vars)
<1>1. CASE UNCHANGED vars
  BY <1>1 DEF vars, connectVars, prepareVars, udptestVars, fileVars, queryVars, waveviewVars, channelsVars,
              Connect!vars,
              Prepare!vars, Prepare!program, Prepare!fmc, Udp!vars, Udp!board, Udp!main,
              File!vars, File!writer, File!reader, Query!vars, Query!program, Query!board, Query!meant,
              View!vars, View!shown, Channels!vars
<1>2. CASE Next
  BY <1>2 DEF Next, connectNext, prepareNext, queryNext, fileNext, waveviewNext, udptestNext, channelsNext
<1> QED BY <1>1, <1>2

ToolsInv ==
  /\ tool = "connect" => ConnectInv
  /\ tool = "udptest" => UdpInv
  /\ tool = "file"    => FileInv
  /\ tool = "query"   => QueryInv

LEMMA InitTools == Init => ToolsInv
<1> SUFFICES ASSUME Init PROVE ToolsInv
  OBVIOUS
<1>1. /\ Connect!NAddrAssumption /\ Udp!ReadsAssumption /\ Udp!CountsAssumption
      /\ File!SizesAssumption /\ File!WritesAssumption /\ Query!CallsAssumption
  BY ConstantsAssumption
<1>2. /\ tool = "connect" => Connect!Init
      /\ tool = "udptest" => Udp!Init
      /\ tool = "file" => File!Init
      /\ tool = "query" => Query!Init
  BY DEF Init
<1> QED BY <1>1, <1>2, InitConnect, InitUdp, InitFile, QueryInitial DEF ToolsInv

LEMMA StepTools == ToolsInv /\ [Next]_vars => ToolsInv'
<1> SUFFICES ASSUME ToolsInv, [Next]_vars PROVE ToolsInv'
  OBVIOUS
<1>1. /\ Connect!NAddrAssumption /\ Udp!ReadsAssumption /\ Udp!CountsAssumption
      /\ File!SizesAssumption /\ File!WritesAssumption /\ Query!CallsAssumption
  BY ConstantsAssumption
<1>2. CASE tool = "connect"
  BY <1>1, <1>2, Steps, StepConnect DEF ToolsInv
<1>3. CASE tool = "udptest"
  BY <1>1, <1>3, Steps, StepUdp DEF ToolsInv
<1>4. CASE tool = "file"
  BY <1>1, <1>4, Steps, StepFile DEF ToolsInv
<1>5. CASE tool = "query"
  BY <1>5, Steps, QueryStep, QuerySame DEF ToolsInv
<1>6. CASE tool \notin {"connect", "udptest", "file", "query"}
  BY <1>6, Steps DEF ToolsInv
<1> QED BY <1>2, <1>3, <1>4, <1>5, <1>6

(* However many addresses there are and however each of them fails, a      *)
(* descriptor that fmc112 or tcpio gets is a connected socket, fmc112 and  *)
(* udptest close no standard stream, and fmc112 leaves no other socket     *)
(* open and gives up no address that accepts (fmc112.c 89-156, tcpio.c     *)
(* 75-137, udptest.c 48-94).                                               *)
THEOREM SocketsRightHolds == Spec => []SocketsRight
<1>1. ToolsInv => SocketsRight
  BY SocketsAreRight DEF ToolsInv, SocketsRight, SocketReady, StandardStreams, NothingLeftOpen, GivenUpOnlyWhenRefused
<1> QED BY <1>1, InitTools, StepTools, PTL DEF Spec

(* However many packets are lost, wherever, the number of errors is that   *)
(* of the runs of lost packets and of the reads that timed out             *)
(* (udptest.c 131-146).                                                    *)
THEOREM ErrorsAreGapsHolds == Spec => []ErrorsAreGaps
<1>1. ToolsInv => ErrorsAreGaps
  BY ErrorsCounted DEF ToolsInv, ErrorsAreGaps
<1> QED BY <1>1, InitTools, StepTools, PTL DEF Spec

(* For every length of event, every number of events in a data set, and    *)
(* every sequence of events that counts up, what was written is found      *)
(* again, and so is its number, wherever the writer was stopped            *)
(* (hdf5rawWaveformIo.c 187-296).                                          *)
THEOREM FileRightHolds == Spec => []FileRight
<1>1. ToolsInv => FileRight
  BY FileIsRight DEF ToolsInv, FileRight, ReadBack, CountIsWritten
<1> QED BY <1>1, InitTools, StepTools, PTL DEF Spec

(* For every list of requests with arguments that the board has room for,  *)
(* and whenever the connection is lost, what query_response returns is the *)
(* whole answer to its own request, or, when the connection was lost, the  *)
(* beginning of it (fmc112.c 158-199, tcpio.c 139-186, command.c 39-179,   *)
(* control_interface.vhd).                                                 *)
THEOREM AnswersRightHolds == Spec => []AnswersRight
<1>1. ToolsInv => AnswersRight
  BY QueryGives DEF ToolsInv, AnswersRight, AnswerRight, AnswerPrefix
<1> QED BY <1>1, InitTools, StepTools, PTL DEF Spec

LEMMA InitPreparation == Init => (tool = "prepare" => PrepareInv)
<1> SUFFICES ASSUME Init, tool = "prepare" PROVE PrepareInv
  OBVIOUS
<1>1. Prepare!StarsAssumption /\ Prepare!BoundsAssumption
  BY ConstantsAssumption
<1>2. Prepare!Init
  BY DEF Init
<1> QED BY <1>1, <1>2, InitPrepare

(* For every number of stars, every place of the two that the program      *)
(* uses, and every number of settings of the clock tree; the firmware      *)
(* answers for the registers that the program does not sleep for in the    *)
(* four blank commands that sip_send_recv_command leaves it, and for the   *)
(* others at any time until the program wakes, so that the first reply may *)
(* be old or torn.  As long as no query was lost, every write goes to the  *)
(* star that it is meant for, whose base was read over the same link,      *)
(* every read gives the content of the register it asked for, the inputs   *)
(* are trained with every ADC sending its pattern, and none is left with   *)
(* it (fmc112.c 293-318, 356-678, sip.c 41-175).                           *)
THEOREM PreparationRightHolds == AnswersInTime /\ Spec => PreparationRight
<1> SUFFICES ASSUME AnswersInTime PROVE Spec => PreparationRight
  OBVIOUS
<1> DEFINE Inv == tool = "prepare" => PrepareInv
<1>1. Prepare!StarsAssumption /\ Prepare!BoundsAssumption
  BY ConstantsAssumption
<1>2. Init => Inv
  BY InitPreparation
<1>3. Inv /\ [Next]_vars => Inv'
  <2> SUFFICES ASSUME Inv, [Next]_vars, tool' = "prepare" PROVE PrepareInv'
    OBVIOUS
  <2>1. tool = "prepare" /\ [Prepare!Next]_(Prepare!vars)
    BY Steps
  <2> QED BY <1>1, <2>1, StepPrepare
<1>4. Inv => WritesHitTheirStar /\ LeftReady
  BY <1>1, PreparationHolds DEF WritesHitTheirStar, LeftReady
<1>5. Inv /\ [Next]_vars =>
        [tool = "prepare" /\ timeouts' = 0 => Prepare!AnswerIsForThisRead /\ Prepare!TrainedOnPattern]_vars
  <2> SUFFICES ASSUME Inv, [Next]_vars, tool = "prepare", timeouts' = 0
               PROVE  Prepare!AnswerIsForThisRead /\ Prepare!TrainedOnPattern
    OBVIOUS
  <2>1. [Prepare!Next]_(Prepare!vars)
    BY Steps
  <2>2. timeouts = 0 /\ Prepare!AnswerIsForThisRead
    BY <1>1, <2>1, AnswersTheRead
  <2> QED BY <1>1, <2>1, <2>2, TrainsOnPattern
<1> HIDE DEF Inv
<1> QED BY <1>2, <1>3, <1>4, <1>5, PTL DEF Spec, PreparationRight

(* For every event that doubles can count, whatever its length, its        *)
(* channels and its samples, and every number of columns: no sequence of   *)
(* keys takes the window of an event that is longer than it outside the    *)
(* event or turns it round, nor that of a shorter one more than a sample   *)
(* beyond; an arrow keeps its width; however the step of the digest is     *)
(* rounded, the columns leave no sample out and only the last may read one *)
(* too many; and what is read of the buffer stays in the scale that the    *)
(* digest is drawn with (waveview.c 70-257).                               *)
THEOREM ViewRightHolds == Spec => ViewRight
<1> DEFINE Inv == tool = "waveview" => ViewInv
<1>1. View!WavesAssumption /\ View!LengthsAssumption /\ View!DoublesAssumption
  BY ConstantsAssumption
<1>2. Init => Inv
  <2> SUFFICES ASSUME Init, tool = "waveview" PROVE ViewInv
    OBVIOUS
  <2>1. View!Init
    BY DEF Init
  <2> QED BY <1>1, <2>1, InitView
<1>3. Inv /\ [Next]_vars => Inv'
  <2> SUFFICES ASSUME Inv, [Next]_vars, tool' = "waveview" PROVE ViewInv'
    OBVIOUS
  <2>1. tool = "waveview" /\ [View!Next]_(View!vars)
    BY Steps
  <2> QED BY <1>1, <2>1, StepView
<1>4. Inv => WindowInside /\ DigestCovers /\ DigestInScale
  BY <1>1, ViewGives DEF WindowInside, DigestCovers, DigestInScale
<1>5. Inv /\ [Next]_vars => [tool = "waveview" => View!WidthKept]_vars
  <2> SUFFICES ASSUME Inv, [Next]_vars, tool = "waveview" PROVE View!WidthKept
    OBVIOUS
  <2>1. [View!Next]_(View!vars)
    BY Steps
  <2> QED BY <1>1, <2>1, StepView
<1> HIDE DEF Inv
<1> QED BY <1>2, <1>3, <1>4, <1>5, PTL DEF Spec, ViewRight

(* For every size of the memory and every mask of neighbouring channels:   *)
(* each row of the event holds, point by point in time, the channel that   *)
(* it is saved as, every sample with its bytes in their places, however    *)
(* the words come in blocks, and filling the event never leaves it         *)
(* (fmc112.c 643-668, 803-834, channel_sel.vhd).                           *)
THEOREM ChannelsRightHolds == Spec => ChannelsRight
<1> DEFINE Inv == tool = "channels" => ChannelsInv
<1>1. Channels!MemWordsAssumption
  BY ConstantsAssumption
<1>2. Init => Inv
  <2> SUFFICES ASSUME Init, tool = "channels" PROVE ChannelsInv
    OBVIOUS
  <2>1. Channels!Init
    BY DEF Init
  <2> QED BY <1>1, <2>1, InitChannels
<1>3. Inv /\ [Next]_vars => Inv'
  <2> SUFFICES ASSUME Inv, [Next]_vars, tool' = "channels" PROVE ChannelsInv'
    OBVIOUS
  <2>1. tool = "channels" /\ [Channels!Next]_(Channels!vars)
    BY Steps
  <2> QED BY <1>1, <2>1, StepChannels
<1>4. Inv => (tool = "channels" => Channels!RowsAreChannels)
  <2> SUFFICES ASSUME ChannelsInv PROVE Channels!RowsAreChannels
    OBVIOUS
  <2> QED BY RowsFrom, Zenon DEF ChannelsInv
<1>5. Inv /\ [Next]_vars => [tool = "channels" => Channels!InsideEvent]_vars
  <2> SUFFICES ASSUME Inv, [Next]_vars, tool = "channels" PROVE Channels!InsideEvent
    OBVIOUS
  <2>1. [Channels!Next]_(Channels!vars)
    BY Steps
  <2> QED BY <1>1, <2>1, StepChannels
<1> HIDE DEF Inv
<1> QED BY <1>2, <1>3, <1>4, <1>5, PTL DEF Spec, ChannelsRight
=============================================================================
