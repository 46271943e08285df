------------------------ MODULE CompactTargetProofs -------------------------
(***************************************************************************)
(* Comparing the arrays of bytes is comparing the numbers they stand for,  *)
(* and the array made from the compact form stands for the number it is    *)
(* meant to be, for every base, width, exponent and mantissa.              *)
(*                                                                         *)
(* Both are about recursive functions.  The library has no induction       *)
(* principle without an operator parameter; the first lemmas derive one    *)
(* over sets of numbers, and from it that functions defined by recursion   *)
(* on 0 .. n exist, which is what unfolding them takes.                    *)
(***************************************************************************)
EXTENDS CompactTarget, FiniteSetTheorems, TLAPS

(* The intervals 0 .. (m - 1), m in T, have a smallest one under inclusion.*)
LEMMA LeastNumber ==
  ASSUME NEW T \in SUBSET Nat, T # {}
  PROVE  \E m \in T : \A k \in T : m <= k
<1> DEFINE F == {0 .. (m - 1) : m \in T}
           R == StrictSubsetOrdering(Nat)
<1>1. F \subseteq FiniteSubsetsOf(Nat) /\ F # {}
  <2>1. ASSUME NEW m \in T
        PROVE  IsFiniteSet(0 .. (m - 1)) /\ 0 .. (m - 1) \subseteq Nat
    <3>1. m - 1 \in Int  OBVIOUS
    <3> QED  BY <3>1, FS_Interval
  <2> QED  BY <2>1 DEF FiniteSubsetsOf
<1>2. IsWellFoundedOn(R, FiniteSubsetsOf(Nat))
  BY FS_StrictSubsetOrderingWellFounded
<1>3. \E x \in F : \A y \in F : ~(<<y, x>> \in R)
  <2> HIDE DEF F, R
  <2> QED  BY <1>1, <1>2, WFMin
<1>4. PICK m \in T : \A y \in F : ~(<<y, 0 .. (m - 1)>> \in R)
  BY <1>3
<1>5. ASSUME NEW k \in T, k < m PROVE FALSE
  <2>1. k \in Nat /\ m \in Nat  OBVIOUS
  <2>2. 0 .. (k - 1) \subseteq 0 .. (m - 1)  BY <2>1, <1>5
  <2>3. k \in 0 .. (m - 1) /\ k \notin 0 .. (k - 1)  BY <2>1, <1>5
  <2>4. <<0 .. (k - 1), 0 .. (m - 1)>> \in R
    BY <2>1, <2>2, <2>3 DEF StrictSubsetOrdering
  <2> QED  BY <2>4, <1>4
<1> QED  BY <1>5

LEMMA InductUpTo ==
  ASSUME NEW n \in Nat, NEW S, 0 \in S,
         \A k \in 0 .. (n - 1) : k \in S => k + 1 \in S
  PROVE  0 .. n \subseteq S
<1> SUFFICES ASSUME (0 .. n) \ S # {} PROVE FALSE
  OBVIOUS
<1>1. PICK m \in (0 .. n) \ S : \A k \in (0 .. n) \ S : m <= k
  <2> DEFINE T == (0 .. n) \ S
  <2>1. T \in SUBSET Nat /\ T # {}  OBVIOUS
  <2>2. \E m \in T : \A k \in T : m <= k
    <3> HIDE DEF T
    <3> QED  BY <2>1, LeastNumber
  <2> QED  BY <2>2
<1>2. m - 1 \in 0 .. (n - 1) /\ m - 1 \in S
  BY <1>1
<1> QED  BY <1>1, <1>2

(* Functions defined by recursion on 0 .. n, with a step for each index.   *)
Iterates(n, S, a, step) ==
  {g \in [0 .. n -> S] : g[0] = a /\ \A i \in 1 .. n : g[i] = step[i][g[i - 1]]}

LEMMA Recursion ==
  ASSUME NEW n \in Nat, NEW S, NEW a \in S, NEW step \in [1 .. n -> [S -> S]]
  PROVE  Iterates(n, S, a, step) # {}
<1> DEFINE Upto(k) == {g \in [0 .. k -> S] :
                         \A i \in 0 .. k : g[i] = IF i = 0 THEN a ELSE step[i][g[i - 1]]}
           T == {k \in 0 .. n : Upto(k) # {}}
<1>1. 0 \in T
  <2>1. [i \in 0 .. 0 |-> a] \in Upto(0)  OBVIOUS
  <2> QED  BY <2>1
<1>2. ASSUME NEW k \in 0 .. (n - 1), k \in T PROVE k + 1 \in T
  <2>1. PICK g \in Upto(k) : TRUE  BY <1>2
  <2>2. step[k + 1] \in [S -> S] /\ g[k] \in S  OBVIOUS
  <2> DEFINE f == [i \in 0 .. (k + 1) |-> IF i <= k THEN g[i] ELSE step[k + 1][g[k]]]
  <2>3. f \in [0 .. (k + 1) -> S]  BY <2>2
  <2>4. ASSUME NEW i \in 0 .. (k + 1)
        PROVE  f[i] = IF i = 0 THEN a ELSE step[i][f[i - 1]]
    <3>1. CASE i <= k  BY <3>1
    <3>2. CASE i = k + 1  BY <3>2
    <3> QED  BY <3>1, <3>2
  <2>5. f \in Upto(k + 1)
    <3> HIDE DEF f
    <3> QED  BY <2>3, <2>4
  <2>6. k + 1 \in 0 .. n  OBVIOUS
  <2> HIDE DEF Upto
  <2> QED  BY <2>5, <2>6
<1>3. n \in T
  <2> HIDE DEF T
  <2>1. 0 .. n \subseteq T  BY <1>1, <1>2, InductUpTo
  <2> QED  BY <2>1
<1>4. PICK g \in Upto(n) : TRUE  BY <1>3
<1> QED  BY <1>4 DEF Iterates

-----------------------------------------------------------------------------
(* Powers and sums, unfolded.                                              *)
LEMMA PowerIs ==
  /\ Power \in [0 .. Width -> Nat \ {0}]
  /\ Power[0] = 1
  /\ \A i \in 1 .. Width : Power[i] = Base * Power[i - 1]
<1> USE CompactTargetAssumption
<1> DEFINE step == [i \in 1 .. Width |-> [x \in Nat \ {0} |-> Base * x]]
<1>1. \A x \in Nat \ {0} : Base * x \in Nat \ {0}
  OBVIOUS
<1>2. step \in [1 .. Width -> [Nat \ {0} -> Nat \ {0}]]  BY <1>1
<1>3. \E g \in [0 .. Width -> Nat \ {0}] :
        g[0] = 1 /\ \A i \in 1 .. Width : g[i] = step[i][g[i - 1]]
  <2> DEFINE P == Nat \ {0}
  <2>1. Width \in Nat /\ 1 \in P /\ step \in [1 .. Width -> [P -> P]]
    BY <1>2
  <2>2. Iterates(Width, P, 1, step) # {}
    <3> HIDE DEF step, P
    <3> QED  BY <2>1, Recursion
  <2> QED  BY <2>2 DEF Iterates
<1>4. \E g : g = [i \in 0 .. Width |-> IF i = 0 THEN 1 ELSE Base * g[i - 1]]
  <2>1. PICK g \in [0 .. Width -> Nat \ {0}] :
          g[0] = 1 /\ \A i \in 1 .. Width : g[i] = step[i][g[i - 1]]
    BY <1>3
  <2>2. ASSUME NEW i \in 1 .. Width
        PROVE  g[i] = Base * g[i - 1]
    <3>1. g[i - 1] \in Nat \ {0}  OBVIOUS
    <3> QED  BY <2>1, <3>1
  <2> HIDE DEF step
  <2>3. ASSUME NEW i \in 0 .. Width
        PROVE  g[i] = IF i = 0 THEN 1 ELSE Base * g[i - 1]
    BY <2>1, <2>2
  <2>4. g = [i \in 0 .. Width |-> IF i = 0 THEN 1 ELSE Base * g[i - 1]]
    BY <2>3
  <2> QED  BY <2>4
<1>5. Power = [i \in 0 .. Width |-> IF i = 0 THEN 1 ELSE Base * Power[i - 1]]
  BY <1>4 DEF Power
<1>6. Power[0] = 1 /\ \A i \in 1 .. Width : Power[i] = Base * Power[i - 1]
  <2> HIDE DEF step
  <2>1. ASSUME NEW i \in 0 .. Width
        PROVE  Power[i] = IF i = 0 THEN 1 ELSE Base * Power[i - 1]
    BY <1>5
  <2>2. 0 \in 0 .. Width /\ \A i \in 1 .. Width : i \in 0 .. Width /\ i # 0
    OBVIOUS
  <2> QED  BY <2>1, <2>2
<1>7. \A i \in 0 .. Width : Power[i] \in Nat \ {0}
  <2> DEFINE T == {i \in 0 .. Width : Power[i] \in Nat \ {0}}
  <2>1. 0 \in T  BY <1>6
  <2>2. ASSUME NEW k \in 0 .. (Width - 1), k \in T PROVE k + 1 \in T
    <3>1. k + 1 \in 1 .. Width /\ (k + 1) - 1 = k  OBVIOUS
    <3>2. Power[k + 1] = Base * Power[k]  BY <1>6, <3>1
    <3> QED  BY <1>1, <2>2, <3>1, <3>2
  <2>3. 0 .. Width \subseteq T
    <3> HIDE DEF T
    <3> QED  BY <2>1, <2>2, InductUpTo
  <2> QED  BY <2>3
<1> QED  BY <1>5, <1>6, <1>7

LEMMA DigitIs ==
  ASSUME NEW d \in Digits, NEW i \in 0 .. (Width - 1)
  PROVE  d[i] \in 0 .. (Base - 1) /\ d[i] \in Nat
BY CompactTargetAssumption DEF Digits

LEMMA SumsAre ==
  ASSUME NEW d \in Digits
  PROVE  /\ Sums(d) \in [0 .. Width -> Nat]
         /\ Sums(d)[0] = 0
         /\ \A i \in 1 .. Width : Sums(d)[i] = Sums(d)[i - 1] + d[i - 1] * Power[i - 1]
<1> USE CompactTargetAssumption
<1> DEFINE w == [i \in 1 .. Width |-> d[i - 1] * Power[i - 1]]
           step == [i \in 1 .. Width |-> [x \in Nat |-> x + w[i]]]
           s == Sums(d)
<1>1. w \in [1 .. Width -> Nat]
  <2>1. ASSUME NEW i \in 1 .. Width PROVE d[i - 1] * Power[i - 1] \in Nat
    <3>1. i - 1 \in 0 .. (Width - 1) /\ i - 1 \in 0 .. Width  OBVIOUS
    <3>2. d[i - 1] \in Nat /\ Power[i - 1] \in Nat
      BY <3>1, DigitIs, PowerIs
    <3> QED  BY <3>2
  <2> QED  BY <2>1
<1>2. step \in [1 .. Width -> [Nat -> Nat]]
  <2> HIDE DEF w
  <2> QED  BY <1>1
<1>3. Iterates(Width, Nat, 0, step) # {}
  <2> HIDE DEF step
  <2> QED  BY <1>2, Recursion
<1>4. \E g : g = [i \in 0 .. Width |->
                  IF i = 0 THEN 0 ELSE g[i - 1] + d[i - 1] * Power[i - 1]]
  <2>1. PICK g \in [0 .. Width -> Nat] :
          g[0] = 0 /\ \A i \in 1 .. Width : g[i] = step[i][g[i - 1]]
    <3> HIDE DEF step
    <3> QED  BY <1>3 DEF Iterates
  <2>2. ASSUME NEW i \in 1 .. Width
        PROVE  g[i] = g[i - 1] + w[i]
    <3> HIDE DEF w
    <3>1. g[i - 1] \in Nat  OBVIOUS
    <3> QED  BY <2>1, <3>1
  <2> HIDE DEF step
  <2>3. ASSUME NEW i \in 0 .. Width
        PROVE  g[i] = IF i = 0 THEN 0 ELSE g[i - 1] + d[i - 1] * Power[i - 1]
    BY <2>1, <2>2
  <2>4. g = [i \in 0 .. Width |->
               IF i = 0 THEN 0 ELSE g[i - 1] + d[i - 1] * Power[i - 1]]
    BY <2>3
  <2> QED  BY <2>4
<1>5. s = [i \in 0 .. Width |->
             IF i = 0 THEN 0 ELSE s[i - 1] + d[i - 1] * Power[i - 1]]
  BY <1>4 DEF Sums
<1> HIDE DEF step, s
<1>6. s[0] = 0 /\ \A i \in 1 .. Width : s[i] = s[i - 1] + w[i]
  <2>1. ASSUME NEW i \in 0 .. Width
        PROVE  s[i] = IF i = 0 THEN 0 ELSE s[i - 1] + d[i - 1] * Power[i - 1]
    BY <1>5
  <2>2. 0 \in 0 .. Width /\ \A i \in 1 .. Width : i \in 0 .. Width /\ i # 0
    OBVIOUS
  <2> QED  BY <2>1, <2>2
<1>7. \A i \in 0 .. Width : s[i] \in Nat
  <2> DEFINE T == {i \in 0 .. Width : s[i] \in Nat}
  <2> HIDE DEF w
  <2>1. 0 \in T  BY <1>6
  <2>2. ASSUME NEW k \in 0 .. (Width - 1), k \in T PROVE k + 1 \in T
    <3>1. k + 1 \in 1 .. Width /\ (k + 1) - 1 = k  OBVIOUS
    <3>2. s[k + 1] = s[k] + w[k + 1]  BY <1>6, <3>1
    <3> QED  BY <1>1, <2>2, <3>1, <3>2
  <2>3. 0 .. Width \subseteq T
    <3> HIDE DEF T
    <3> QED  BY <2>1, <2>2, InductUpTo
  <2> QED  BY <2>3
<1>8. s \in [0 .. Width -> Nat]
  BY <1>5, <1>7
<1> QED  BY <1>6, <1>8 DEF s

(* One byte more.                                                          *)
LEMMA NextSum ==
  ASSUME NEW d \in Digits, NEW k \in 0 .. (Width - 1)
  PROVE  /\ Sums(d)[k + 1] = Sums(d)[k] + d[k] * Power[k]
         /\ Power[k + 1] = Base * Power[k]
         /\ Sums(d)[k] \in Nat /\ Power[k] \in Nat \ {0} /\ d[k] \in 0 .. (Base - 1)
<1> USE CompactTargetAssumption
<1>1. k + 1 \in 1 .. Width /\ (k + 1) - 1 = k /\ k \in 0 .. Width  OBVIOUS
<1> QED  BY <1>1, SumsAre, PowerIs, DigitIs

(* The lower bytes together weigh less than one unit of the next.          *)
LEMMA SumsBelow ==
  ASSUME NEW d \in Digits
  PROVE  \A k \in 0 .. Width : Sums(d)[k] < Power[k]
<1> USE CompactTargetAssumption
<1> DEFINE T == {k \in 0 .. Width : Sums(d)[k] < Power[k]}
<1>1. 0 \in T
  <2>1. Sums(d)[0] = 0  BY SumsAre
  <2>2. Power[0] = 1 /\ 0 \in 0 .. Width  BY PowerIs
  <2> QED  BY <2>1, <2>2
<1>2. ASSUME NEW k \in 0 .. (Width - 1), k \in T PROVE k + 1 \in T
  <2> DEFINE p == Power[k]
             c == d[k]
             t == Sums(d)[k]
  <2>1. Sums(d)[k + 1] = t + c * p /\ Power[k + 1] = Base * p  BY NextSum
  <2>2. t \in Nat /\ p \in Nat \ {0} /\ c \in 0 .. (Base - 1) /\ t < p
    BY <1>2, NextSum
  <2> HIDE DEF p, c, t
  <2>3. c * p <= (Base - 1) * p  BY <2>2
  <2>4. (Base - 1) * p = Base * p - p  BY <2>2
  <2>5. t + c * p < Base * p
    <3>1. c * p \in Int /\ Base * p \in Int /\ (Base - 1) * p \in Int  BY <2>2
    <3> HIDE DEF T
    <3> QED  BY <2>2, <2>3, <2>4, <3>1
  <2>6. k + 1 \in 0 .. Width  OBVIOUS
  <2> QED  BY <2>1, <2>5, <2>6
<1>3. 0 .. Width \subseteq T
  <2> HIDE DEF T
  <2> QED  BY <1>1, <1>2, InductUpTo
<1> QED  BY <1>3

(* Where two arrays agree their sums grow alike.                           *)
LEMMA AgreeAbove ==
  ASSUME NEW a \in Digits, NEW b \in Digits, NEW i \in 0 .. Width,
         \A j \in i .. (Width - 1) : a[j] = b[j]
  PROVE  NumberOf(a) - NumberOf(b) = Sums(a)[i] - Sums(b)[i]
<1> USE CompactTargetAssumption
<1> DEFINE T == {k \in 0 .. (Width - i) :
                   Sums(a)[i + k] - Sums(b)[i + k] = Sums(a)[i] - Sums(b)[i]}
<1>1. 0 \in T
  <2>1. i + 0 = i /\ 0 \in 0 .. (Width - i)  OBVIOUS
  <2> QED  BY <2>1
<1>2. ASSUME NEW k \in 0 .. ((Width - i) - 1), k \in T PROVE k + 1 \in T
  <2>1. i + k \in 0 .. (Width - 1) /\ i + k \in i .. (Width - 1)
        /\ i + (k + 1) = (i + k) + 1 /\ k + 1 \in 0 .. (Width - i)
    OBVIOUS
  <2> DEFINE n == i + k
  <2>2. Sums(a)[n + 1] = Sums(a)[n] + a[n] * Power[n]
        /\ Sums(b)[n + 1] = Sums(b)[n] + b[n] * Power[n]
        /\ a[n] = b[n]
        /\ Sums(a)[n] \in Nat /\ Sums(b)[n] \in Nat
        /\ a[n] \in Nat /\ Power[n] \in Nat
    BY <2>1, NextSum
  <2>3. a[n] * Power[n] \in Int  BY <2>2
  <2>4. Sums(a)[n + 1] - Sums(b)[n + 1] = Sums(a)[n] - Sums(b)[n]
    <3> HIDE DEF T, n
    <3> QED  BY <2>2, <2>3
  <2> QED  BY <1>2, <2>1, <2>4
<1>3. Width - i \in T
  <2> HIDE DEF T
  <2>1. Width - i \in Nat  OBVIOUS
  <2>2. 0 .. (Width - i) \subseteq T  BY <1>1, <1>2, <2>1, InductUpTo
  <2> QED  BY <2>1, <2>2
<1> QED  BY <1>3 DEF NumberOf

(* The highest byte in which they differ settles it.                       *)
LEMMA LessGivesLess ==
  ASSUME NEW a \in Digits, NEW b \in Digits, Less(a, b)
  PROVE  NumberOf(a) < NumberOf(b)
<1> USE CompactTargetAssumption
<1>1. PICK i \in 0 .. (Width - 1) :
        a[i] < b[i] /\ \A j \in (i + 1) .. (Width - 1) : a[j] = b[j]
  BY DEF Less
<1>2. i + 1 \in 0 .. Width /\ i \in 0 .. Width  OBVIOUS
<1>3. NumberOf(a) - NumberOf(b) = Sums(a)[i + 1] - Sums(b)[i + 1]
  BY <1>1, <1>2, AgreeAbove
<1> DEFINE p == Power[i]
           s == Sums(a)[i]
           t == Sums(b)[i]
           x == a[i]
           y == b[i]
<1>4. Sums(a)[i + 1] = s + x * p /\ Sums(b)[i + 1] = t + y * p
      /\ s \in Nat /\ t \in Nat /\ p \in Nat /\ x \in Nat /\ y \in Nat
  BY NextSum
<1>5. s < p  BY <1>2, SumsBelow
<1>6. NumberOf(a) \in Int /\ NumberOf(b) \in Int  BY SumsAre DEF NumberOf
<1>7. x + 1 <= y  BY <1>1, <1>4
<1> HIDE DEF p, s, t, x, y
<1>8. (x + 1) * p <= y * p /\ (x + 1) * p = x * p + p  BY <1>4, <1>7
<1>9. x * p \in Int /\ y * p \in Int  BY <1>4
<1>10. s + x * p < t + y * p  BY <1>4, <1>5, <1>8, <1>9
<1> QED  BY <1>3, <1>4, <1>6, <1>9, <1>10

LEMMA DifferSomewhere ==
  ASSUME NEW a \in Digits, NEW b \in Digits
  PROVE  a = b \/ Less(a, b) \/ Less(b, a)
<1> USE CompactTargetAssumption
<1> SUFFICES ASSUME a # b PROVE Less(a, b) \/ Less(b, a)
  OBVIOUS
<1> DEFINE T == {k \in 0 .. (Width - 1) : a[Width - 1 - k] # b[Width - 1 - k]}
<1>1. T # {}
  <2>1. PICK i \in 0 .. (Width - 1) : a[i] # b[i]  BY DEF Digits
  <2>2. Width - 1 - i \in 0 .. (Width - 1) /\ Width - 1 - (Width - 1 - i) = i
    OBVIOUS
  <2>3. Width - 1 - i \in T  BY <2>1, <2>2
  <2> QED  BY <2>3
<1>2. PICK m \in T : \A k \in T : m <= k
  <2>1. T \in SUBSET Nat  OBVIOUS
  <2> HIDE DEF T
  <2> QED  BY <1>1, <2>1, LeastNumber
<1> DEFINE i == Width - 1 - m
<1>3. i \in 0 .. (Width - 1) /\ a[i] # b[i]  OBVIOUS
<1>4. ASSUME NEW j \in (i + 1) .. (Width - 1) PROVE a[j] = b[j]
  <2>1. Width - 1 - j \in 0 .. (Width - 1) /\ Width - 1 - (Width - 1 - j) = j
        /\ ~(m <= Width - 1 - j)
    OBVIOUS
  <2> QED  BY <1>2, <2>1
<1>5. a[i] \in Nat /\ b[i] \in Nat  BY <1>3, DigitIs
<1>6. CASE a[i] < b[i]  BY <1>3, <1>4, <1>6 DEF Less
<1>7. CASE b[i] < a[i]  BY <1>3, <1>4, <1>7 DEF Less
<1> QED  BY <1>3, <1>5, <1>6, <1>7

(***************************************************************************)
(* le_bytes_lt: comparing the bytes from the highest down says which of    *)
(* the two numbers is smaller, whatever the width.                         *)
(***************************************************************************)
THEOREM LessComparesNumbers ==
  ASSUME NEW a \in Digits, NEW b \in Digits
  PROVE  Less(a, b) <=> NumberOf(a) < NumberOf(b)
<1>1. NumberOf(a) \in Nat /\ NumberOf(b) \in Nat
  BY SumsAre, CompactTargetAssumption DEF NumberOf
<1>2. CASE a = b
  <2>1. ~(NumberOf(a) < NumberOf(b))  BY <1>1, <1>2
  <2> QED  BY <1>2, <2>1, LessGivesLess
<1>3. CASE Less(a, b)  BY <1>3, LessGivesLess
<1>4. CASE Less(b, a)
  <2>1. NumberOf(b) < NumberOf(a)  BY <1>4, LessGivesLess
  <2>2. ~(NumberOf(a) < NumberOf(b))  BY <1>1, <2>1
  <2> QED  BY <2>2, LessGivesLess
<1> QED  BY <1>2, <1>3, <1>4, DifferSomewhere

-----------------------------------------------------------------------------
(* Bytes that are zero add nothing.                                        *)
LEMMA ZeroAdds ==
  ASSUME NEW d \in Digits, NEW i \in 0 .. Width, NEW n \in i .. Width,
         \A j \in i .. (n - 1) : d[j] = 0
  PROVE  Sums(d)[n] = Sums(d)[i]
<1> USE CompactTargetAssumption
<1> DEFINE T == {k \in 0 .. (n - i) : Sums(d)[i + k] = Sums(d)[i]}
<1>1. 0 \in T
  <2>1. i + 0 = i /\ 0 \in 0 .. (n - i)  OBVIOUS
  <2> QED  BY <2>1
<1>2. ASSUME NEW k \in 0 .. ((n - i) - 1), k \in T PROVE k + 1 \in T
  <2> DEFINE m == i + k
  <2>1. m \in 0 .. (Width - 1) /\ m \in i .. (n - 1)
        /\ i + (k + 1) = m + 1 /\ k + 1 \in 0 .. (n - i)
    OBVIOUS
  <2>2. Sums(d)[m + 1] = Sums(d)[m] + d[m] * Power[m] /\ d[m] = 0
        /\ Sums(d)[m] \in Nat /\ Power[m] \in Nat
    BY <2>1, NextSum
  <2>3. Sums(d)[m + 1] = Sums(d)[m]
    <3> HIDE DEF T, m
    <3> QED  BY <2>2
  <2> QED  BY <1>2, <2>1, <2>3
<1>3. n - i \in T
  <2> HIDE DEF T
  <2>1. n - i \in Nat  OBVIOUS
  <2>2. 0 .. (n - i) \subseteq T  BY <1>1, <1>2, <2>1, InductUpTo
  <2> QED  BY <2>1, <2>2
<1> QED  BY <1>3

LEMMA SmallPowers ==
  Power[0] = 1 /\ Power[1] = Base /\ Power[2] = Base * Base
  /\ Power[3] = Base * (Base * Base)
<1> USE CompactTargetAssumption
<1>1. /\ 1 \in 1 .. Width /\ 2 \in 1 .. Width /\ 3 \in 1 .. Width
      /\ 1 - 1 = 0 /\ 2 - 1 = 1 /\ 3 - 1 = 2
  OBVIOUS
<1>2. Power[0] = 1 /\ Power[1] = Base * Power[0] /\ Power[2] = Base * Power[1]
      /\ Power[3] = Base * Power[2]
  BY <1>1, PowerIs
<1> QED  BY <1>2

(* A number of three bytes is the sum of them.                             *)
LEMMA ThreeBytes ==
  ASSUME NEW m \in 0 .. (Power[3] - 1)
  PROVE  /\ m \in Nat
         /\ \A i \in 0 .. 2 : Byte(m, i) \in 0 .. (Base - 1)
         /\ m = Byte(m, 0) + Base * Byte(m, 1) + Base * Base * Byte(m, 2)
<1> USE CompactTargetAssumption
<1>1. Power[0] = 1 /\ Power[1] = Base /\ Power[2] = Base * Base
      /\ Power[3] = Base * (Base * Base)
  BY SmallPowers
<1>2. m \in Nat /\ m < Base * (Base * Base)  BY <1>1
<1> DEFINE q == m \div Base
           r == q \div Base
<1>3. q \in Nat /\ m = Base * q + (m % Base) /\ (m % Base) \in 0 .. (Base - 1)
  BY <1>2
<1> HIDE DEF q
<1>4. r \in Nat /\ q = Base * r + (q % Base) /\ (q % Base) \in 0 .. (Base - 1)
  BY <1>3
<1> HIDE DEF r
<1>5. m = (m % Base) + Base * (q % Base) + (Base * Base) * r
  <2> DEFINE x == (m % Base)
             y == (q % Base)
  <2>1. q = Base * r + y /\ m = Base * q + x /\ x \in Nat /\ y \in Nat
    BY <1>3, <1>4
  <2> HIDE DEF x, y
  <2>2. Base * (Base * r + y) = (Base * Base) * r + Base * y
    BY <1>4, <2>1
  <2> QED  BY <1>4, <2>1, <2>2 DEF x, y
<1>6. r < Base
  <2> SUFFICES ASSUME Base <= r PROVE FALSE
    BY <1>4
  <2>1. (Base * Base) * Base <= (Base * Base) * r  BY <1>4
  <2>2. (Base * Base) * r <= m
    <3>1. Base * (q % Base) \in Nat /\ (Base * Base) * r \in Nat  BY <1>4
    <3> QED  BY <1>2, <1>3, <1>5, <3>1
  <2>3. (Base * Base) * Base = Base * (Base * Base)  OBVIOUS
  <2> DEFINE c == Base * (Base * Base)
             d == (Base * Base) * r
  <2>4. c <= d /\ d <= m /\ m < c /\ c \in Int /\ d \in Int /\ m \in Int
    BY <1>2, <1>4, <2>1, <2>2, <2>3
  <2> HIDE DEF c, d
  <2> QED  BY <2>4
<1>7. Byte(m, 0) = (m % Base)
  <2>1. m \div 1 = m  BY <1>2
  <2> QED  BY <1>1, <2>1 DEF Byte
<1>8. Byte(m, 1) = (q % Base)  BY <1>1 DEF Byte, q
<1>9. Byte(m, 2) = r
  <2>1. m \div (Base * Base) = r
    <3> DEFINE u == (m % Base) + Base * (q % Base)
               bb == Base * Base
    <3>1. u \in Nat /\ bb \in Nat \ {0} /\ m = bb * r + u /\ u < bb
      <4>1. Base * (q % Base) <= Base * (Base - 1)  BY <1>4
      <4>2. Base * (Base - 1) = bb - Base  OBVIOUS
      <4>3. Base * (q % Base) \in Nat /\ bb * r \in Nat /\ bb \in Nat \ {0}
        BY <1>4
      <4> QED  BY <1>3, <1>5, <4>1, <4>2, <4>3
    <3> HIDE DEF u, bb
    <3>2. m \div bb = r  BY <1>2, <1>4, <3>1
    <3> QED  BY <3>2 DEF bb
  <2>2. (r % Base) = r  BY <1>4, <1>6
  <2> QED  BY <1>1, <2>1, <2>2 DEF Byte
<1>10. r \in 0 .. (Base - 1)  BY <1>4, <1>6
<1>11. \A i \in 0 .. 2 : i = 0 \/ i = 1 \/ i = 2  OBVIOUS
<1>12. \A i \in 0 .. 2 : Byte(m, i) \in 0 .. (Base - 1)
  BY <1>3, <1>4, <1>7, <1>8, <1>9, <1>10, <1>11
<1> QED  BY <1>2, <1>5, <1>7, <1>8, <1>9, <1>12

(* Three bytes placed from s on, between zeros, weigh Power[s] times more. *)
LEMMA PlacedBytes ==
  ASSUME NEW d \in Digits, NEW s \in 0 .. (Width - 3), NEW m \in 0 .. (Power[3] - 1),
         \A i \in 0 .. (Width - 1) :
           d[i] = IF i \in s .. (s + 2) THEN Byte(m, i - s) ELSE 0
  PROVE  NumberOf(d) = m * Power[s]
<1> USE CompactTargetAssumption
<1> DEFINE p == Power[s]
           x == Byte(m, 0)
           y == Byte(m, 1)
           z == Byte(m, 2)
<1>1. /\ s \in 0 .. (Width - 1) /\ s + 1 \in 0 .. (Width - 1)
      /\ s + 2 \in 0 .. (Width - 1) /\ s + 3 \in 0 .. Width
      /\ (s + 1) + 1 = s + 2 /\ (s + 2) + 1 = s + 3 /\ Width \in (s + 3) .. Width
      /\ s \in 0 .. Width /\ 0 \in 0 .. Width
  OBVIOUS
<1>2. Sums(d)[s] = 0
  <2>1. \A j \in 0 .. (s - 1) : d[j] = 0  OBVIOUS
  <2>2. Sums(d)[s] = Sums(d)[0]  BY <1>1, <2>1, ZeroAdds
  <2> QED  BY <2>2, SumsAre
<1>3. d[s] = x /\ d[s + 1] = y /\ d[s + 2] = z
  <2>1. s - s = 0 /\ (s + 1) - s = 1 /\ (s + 2) - s = 2  OBVIOUS
  <2> QED  BY <1>1, <2>1
<1>4. /\ Power[s + 1] = Base * p /\ Power[s + 2] = Base * (Base * p) /\ p \in Nat
      /\ Sums(d)[s + 1] = x * p
      /\ Sums(d)[s + 2] = x * p + y * (Base * p)
      /\ Sums(d)[s + 3] = x * p + y * (Base * p) + z * (Base * (Base * p))
  <2>1. /\ Sums(d)[s + 1] = Sums(d)[s] + d[s] * Power[s]
        /\ Power[s + 1] = Base * Power[s] /\ Power[s] \in Nat
        /\ d[s] \in Nat
    BY <1>1, NextSum
  <2>2. /\ Sums(d)[s + 2] = Sums(d)[s + 1] + d[s + 1] * Power[s + 1]
        /\ Power[s + 2] = Base * Power[s + 1]
    BY <1>1, NextSum
  <2>3. Sums(d)[s + 3] = Sums(d)[s + 2] + d[s + 2] * Power[s + 2]
    BY <1>1, NextSum
  <2>4. Sums(d)[s + 1] = x * p
    <3>1. x * p \in Int  BY <1>3, <2>1
    <3> QED  BY <1>2, <1>3, <2>1, <3>1
  <2> QED  BY <1>3, <2>1, <2>2, <2>3, <2>4
<1>5. Sums(d)[s + 3] = m * p
  <2>1. m = x + Base * y + Base * Base * z /\ m \in Nat
        /\ x \in Nat /\ y \in Nat /\ z \in Nat
    <3>1. 0 \in 0 .. 2 /\ 1 \in 0 .. 2 /\ 2 \in 0 .. 2  OBVIOUS
    <3> QED  BY <3>1, ThreeBytes
  <2>2. p \in Nat  BY <1>4
  <2> HIDE DEF p, x, y, z
  <2>3. m * p = x * p + (Base * y) * p + (Base * Base * z) * p
    BY <2>1, <2>2
  <2>4. (Base * y) * p = y * (Base * p)  BY <2>1, <2>2
  <2>5. (Base * Base * z) * p = z * (Base * (Base * p))  BY <2>1, <2>2
  <2> QED  BY <1>4, <2>3, <2>4, <2>5
<1>6. NumberOf(d) = Sums(d)[s + 3]
  <2>1. \A j \in (s + 3) .. (Width - 1) : d[j] = 0  OBVIOUS
  <2> QED  BY <1>1, <2>1, ZeroAdds DEF NumberOf
<1> QED  BY <1>5, <1>6

LEMMA MantissaIs ==
  ASSUME NEW bits \in Bits
  PROVE  /\ Mantissa(bits) \in 0 .. (Power[3] - 1)
         /\ Mantissa(bits) \in Nat
         /\ \A n \in Nat \ {0} :
              /\ (Mantissa(bits) \div n) \in 0 .. (Power[3] - 1)
              /\ (Mantissa(bits) \div n) \in Nat
<1> USE CompactTargetAssumption
<1> DEFINE p == Power[3]
           h == p \div 2
           m == Mantissa(bits)
<1>1. p \in Nat /\ p >= 8
  <2>1. p = Base * (Base * Base)  BY SmallPowers
  <2>2. Base * Base >= 4 /\ Base * Base \in Nat
    <3>1. Base * Base >= 2 * Base  OBVIOUS
    <3> QED  BY <3>1
  <2>3. Base * (Base * Base) >= 2 * (Base * Base)  BY <2>2
  <2> QED  BY <2>1, <2>2, <2>3
<1> HIDE DEF p
<1>2. h \in Nat /\ h > 0 /\ h < p  BY <1>1
<1>3. bits.mant \in Nat  BY <1>1 DEF Bits, p
<1> HIDE DEF h
<1>4. (bits.mant % h) \in 0 .. (h - 1)  BY <1>2, <1>3
<1>5. m = bits.mant % h  BY DEF Mantissa, h, p
<1>6. m \in Nat /\ m < p  BY <1>1, <1>2, <1>4, <1>5
<1> HIDE DEF m
<1>7. ASSUME NEW n \in Nat \ {0} PROVE (m \div n) \in Nat /\ m \div n <= m
  BY <1>6
<1>8. m \in 0 .. (p - 1) /\ \A n \in Nat \ {0} : (m \div n) \in 0 .. (p - 1)
  BY <1>1, <1>6, <1>7
<1> QED  BY <1>6, <1>7, <1>8 DEF m, p

(* The value of each byte is one.                                          *)
LEMMA TargetTyped ==
  ASSUME NEW bits \in Bits
  PROVE  Target(bits) \in Digits
<1> USE CompactTargetAssumption
<1>1. ASSUME NEW n \in Nat, NEW i \in 0 .. 2 PROVE Byte(n, i) \in 0 .. (Base - 1)
  <2>1. Power[i] \in Nat \ {0}
    <3>1. i \in 0 .. Width  OBVIOUS
    <3> QED  BY <3>1, PowerIs
  <2> DEFINE q == n \div Power[i]
  <2>2. q \in Nat  BY <2>1
  <2> HIDE DEF q
  <2>3. (q % Base) \in 0 .. (Base - 1)  BY <2>2
  <2> QED  BY <2>3 DEF Byte, q
<1>2. bits.exp \in Nat  BY DEF Bits
<1> DEFINE m == Mantissa(bits)
           shift == bits.exp - 3
<1>3. CASE shift <= 0
  <2>1. -shift \in 0 .. Width  BY <1>2, <1>3
  <2>2. (m \div Power[-shift]) \in Nat  BY <2>1, PowerIs, MantissaIs
  <2> DEFINE q == m \div Power[-shift]
  <2>3. ASSUME NEW i \in 0 .. (Width - 1)
        PROVE  (IF i < 3 THEN Byte(q, i) ELSE 0) \in 0 .. (Base - 1)
    <3>1. i < 3 => i \in 0 .. 2  OBVIOUS
    <3> HIDE DEF q
    <3>2. q \in Nat  BY <2>2 DEF q
    <3> QED  BY <1>1, <3>1, <3>2
  <2> QED  BY <1>3, <2>3 DEF Target, Digits
<1>4. CASE ~(shift <= 0)
  <2>1. ASSUME NEW i \in 0 .. (Width - 1)
        PROVE  (IF shift + 3 <= Width /\ i \in shift .. (shift + 2)
                  THEN Byte(m, i - shift) ELSE 0) \in 0 .. (Base - 1)
    <3>1. i \in shift .. (shift + 2) => i - shift \in 0 .. 2  BY <1>2
    <3>2. m \in Nat  BY MantissaIs
    <3> HIDE DEF m, shift
    <3> QED  BY <1>1, <3>1, <3>2
  <2> QED  BY <1>4, <2>1 DEF Target, Digits
<1> QED  BY <1>3, <1>4

(***************************************************************************)
(* target_from_bits: the array stands for mantissa * Base^(exp - 3), the   *)
(* mantissa losing its lower bytes below that, and for zero beyond the     *)
(* width, for every exponent and mantissa.                                 *)
(***************************************************************************)
THEOREM TargetStandsForBits ==
  ASSUME NEW bits \in Bits
  PROVE  NumberOf(Target(bits)) = CompactNumber(bits)
<1> USE CompactTargetAssumption
<1> DEFINE d == Target(bits)
           m == Mantissa(bits)
           e == bits.exp
<1>1. e \in Nat  BY DEF Bits
<1>2. d \in Digits  BY TargetTyped
<1>3. CASE e <= 3
  <2> DEFINE q == m \div Power[3 - e]
  <2>1. 3 - e \in 0 .. Width /\ -(e - 3) = 3 - e /\ e - 3 <= 0  BY <1>1, <1>3
  <2>2. q \in 0 .. (Power[3] - 1) /\ q \in Nat
    BY <2>1, PowerIs, MantissaIs
  <2>3. d = [i \in 0 .. (Width - 1) |-> IF i < 3 THEN Byte(q, i) ELSE 0]
    BY <2>1 DEF Target
  <2> HIDE DEF q, d
  <2>4. ASSUME NEW i \in 0 .. (Width - 1)
        PROVE  d[i] = IF i \in 0 .. (0 + 2) THEN Byte(q, i - 0) ELSE 0
    <3>1. (i < 3 <=> i \in 0 .. (0 + 2)) /\ i - 0 = i  OBVIOUS
    <3> QED  BY <2>3, <3>1
  <2>5. 0 \in 0 .. (Width - 3)  OBVIOUS
  <2>6. NumberOf(d) = q * Power[0]  BY <1>2, <2>2, <2>4, <2>5, PlacedBytes
  <2>7. NumberOf(d) = q  BY <2>2, <2>6, PowerIs
  <2>8. CompactNumber(bits) = q
    <3>1. CASE e = 3
      <4>1. q = m \div 1 /\ Power[e - 3] = 1  BY <3>1, PowerIs DEF q
      <4>2. m \div 1 = m /\ m * 1 = m  BY MantissaIs
      <4>3. ~(e > Width) /\ e >= 3  BY <3>1
      <4> QED  BY <4>1, <4>2, <4>3 DEF CompactNumber
    <3>2. CASE e < 3
      <4>1. ~(e > Width) /\ ~(e >= 3)  BY <1>1, <3>2
      <4> QED  BY <4>1 DEF CompactNumber, q
    <3> QED  BY <1>1, <1>3, <3>1, <3>2
  <2> QED  BY <2>7, <2>8 DEF d
<1>4. CASE e > 3 /\ e <= Width
  <2> DEFINE s == e - 3
  <2>1. s \in 0 .. (Width - 3) /\ ~(e - 3 <= 0) /\ s + 3 <= Width  BY <1>1, <1>4
  <2>2. d = [i \in 0 .. (Width - 1) |->
               IF i \in s .. (s + 2) THEN Byte(m, i - s) ELSE 0]
    BY <2>1 DEF Target
  <2>3. m \in 0 .. (Power[3] - 1)  BY MantissaIs
  <2>4. NumberOf(d) = m * Power[s]
    <3> HIDE DEF d, m, s
    <3>1. \A i \in 0 .. (Width - 1) :
            d[i] = IF i \in s .. (s + 2) THEN Byte(m, i - s) ELSE 0
      BY <2>2
    <3> QED  BY <1>2, <2>1, <2>3, <3>1, PlacedBytes
  <2>5. ~(e > Width) /\ e >= 3  BY <1>1, <1>4
  <2> QED  BY <2>4, <2>5 DEF CompactNumber
<1>5. CASE e > Width
  <2>1. ~(e - 3 <= 0) /\ ~((e - 3) + 3 <= Width)  BY <1>1, <1>5
  <2>2. d = [i \in 0 .. (Width - 1) |-> 0]  BY <2>1 DEF Target
  <2>3. \A j \in 0 .. (Width - 1) : d[j] = 0
    <3> HIDE DEF d
    <3> QED  BY <2>2
  <2>4. 0 \in 0 .. Width /\ Width \in 0 .. Width  OBVIOUS
  <2>5. Sums(d)[Width] = Sums(d)[0]
    <3> HIDE DEF d
    <3> QED  BY <1>2, <2>3, <2>4, ZeroAdds
  <2>6. NumberOf(d) = 0
    <3> HIDE DEF d
    <3> QED  BY <1>2, <2>5, SumsAre DEF NumberOf
  <2> QED  BY <1>5, <2>6 DEF CompactNumber
<1> QED  BY <1>1, <1>3, <1>4, <1>5
=============================================================================
