------------------------ MODULE JoystickReport_proofs ------------------------
(***************************************************************************)
(* Theorems about joystick reports, for every reading: the laws of the     *)
(* exclusive or, what the CRC-16 detects, and what is read back from a     *)
(* report.                                                                 *)
(***************************************************************************)
EXTENDS JoystickReport, SequenceInduction

-----------------------------------------------------------------------------
(* The exclusive or exists *)

\* the exclusive or of m with every number, from those of smaller numbers
XorBody(f, m) ==
    IF m = 0 THEN [n \in Nat |-> n]
    ELSE [n \in Nat |-> 2 * f[m \div 2][n \div 2] + ((m + n) % 2)]

\* f has the exclusive or of each number up to k
XorUpTo(f, k) == \A m \in Nat : m <= k => f[m] = XorBody(f, m)

\* A number and the half of it.
LEMMA HalfOf ==
    \A m \in Nat : /\ m \div 2 \in Nat
                   /\ m # 0 => m \div 2 < m
                   /\ m = 2 * (m \div 2) + (m % 2)
                   /\ m % 2 \in {0, 1}
  OBVIOUS

\* The recursion of BitXor has a solution up to any number ...
LEMMA XorExists ==
    ASSUME NEW n \in Nat
    PROVE  \E f : XorUpTo(f, n)
  <1> DEFINE T == {k \in Nat : \E f : XorUpTo(f, k)}
  <1>1. 0 \in T
    <2> DEFINE f == [m \in Nat |-> [b \in Nat |-> b]]
    <2>1. XorUpTo(f, 0)
      BY DEF XorUpTo, XorBody
    <2>2. QED
      BY <2>1
  <1>2. ASSUME NEW k \in Nat, k \in T PROVE k + 1 \in T
    <2>1. PICK f : XorUpTo(f, k)
      BY <1>2
    <2> DEFINE g == [m \in Nat |-> IF m = k + 1 THEN XorBody(f, m) ELSE f[m]]
    <2>2. ASSUME NEW m \in Nat, m <= k + 1
          PROVE  g[m] = XorBody(g, m)
      <3>1. m = 0 \/ g[m \div 2] = f[m \div 2]
        BY <2>2, HalfOf
      <3>2. XorBody(g, m) = XorBody(f, m)
        <4> HIDE DEF g
        <4> QED BY <3>1, Zenon DEF XorBody
      <3>3. CASE m = k + 1
        BY <3>2, <3>3
      <3>4. CASE m # k + 1
        <4>1. m <= k /\ g[m] = f[m]
          BY <2>2, <3>4
        <4>2. f[m] = XorBody(f, m)
          BY <2>1, <4>1 DEF XorUpTo
        <4>3. QED
          BY <3>2, <4>1, <4>2
      <3>5. QED
        BY <3>3, <3>4
    <2>3. XorUpTo(g, k + 1)
      <3> HIDE DEF g
      <3> QED BY <2>2 DEF XorUpTo
    <2>4. QED
      BY <2>3
  <1>3. Nat \subseteq T
    <2> HIDE DEF T
    <2> QED BY <1>1, <1>2, SetInduction
  <1>4. QED
    BY <1>3

\* ... and no two that differ.
LEMMA XorUnique ==
    ASSUME NEW j \in Nat, NEW k \in Nat, NEW f, XorUpTo(f, j),
           NEW g, XorUpTo(g, k)
    PROVE  \A m \in Nat : m <= j /\ m <= k => f[m] = g[m]
  <1> DEFINE T == {b \in Nat : \A m \in Nat :
                        m <= b /\ m <= j /\ m <= k => f[m] = g[m]}
  <1>1. 0 \in T
    <2>1. ASSUME NEW m \in Nat, m <= 0 PROVE f[m] = g[m]
      <3>1. m = 0 /\ 0 <= j /\ 0 <= k
        BY <2>1
      <3>2. f[0] = XorBody(f, 0) /\ g[0] = XorBody(g, 0)
        BY <3>1 DEF XorUpTo
      <3>3. XorBody(f, 0) = XorBody(g, 0)
        BY Zenon DEF XorBody
      <3>4. QED
        BY <3>1, <3>2, <3>3
    <2>2. QED
      BY <2>1
  <1>2. ASSUME NEW b \in Nat, b \in T PROVE b + 1 \in T
    <2>1. ASSUME NEW m \in Nat, m <= b + 1, m <= j, m <= k
          PROVE  f[m] = g[m]
      <3>1. m = 0 \/ (m \div 2 \in Nat /\ m \div 2 <= b
                      /\ m \div 2 <= j /\ m \div 2 <= k)
        BY <2>1, HalfOf
      <3>2. m = 0 \/ f[m \div 2] = g[m \div 2]
        BY <1>2, <3>1
      <3>3. f[m] = XorBody(f, m) /\ g[m] = XorBody(g, m)
        BY <2>1 DEF XorUpTo
      <3>4. XorBody(f, m) = XorBody(g, m)
        BY <3>2, Zenon DEF XorBody
      <3>5. QED
        BY <3>3, <3>4
    <2>2. QED
      BY <2>1
  <1>3. Nat \subseteq T
    <2> HIDE DEF T
    <2> QED BY <1>1, <1>2, SetInduction
  <1>4. ASSUME NEW m \in Nat, m <= j, m <= k PROVE f[m] = g[m]
    <2>1. m \in T
      BY <1>3
    <2>2. QED
      BY <1>4, <2>1
  <1>5. QED
    BY <1>4

\* The function that BitXor chooses is the recursion it is written as.
LEMMA XorFunction ==
    \E f : /\ f = [m \in Nat |-> XorBody(f, m)]
           /\ \A a, b : BitXor(a, b) = f[a][b]
  <1> DEFINE upTo(k) == CHOOSE f : XorUpTo(f, k)
             p == [k \in Nat |-> upTo(k)[k]]
             x == CHOOSE f : f = [m \in Nat |-> XorBody(f, m)]
  <1>1. \A k \in Nat : XorUpTo(upTo(k), k)
    BY XorExists
  <1> HIDE DEF upTo
  <1>2. ASSUME NEW m \in Nat PROVE p[m] = XorBody(p, m)
    <2>1. upTo(m)[m] = XorBody(upTo(m), m)
      BY <1>1 DEF XorUpTo
    <2>2. m = 0 \/ upTo(m)[m \div 2] = upTo(m \div 2)[m \div 2]
      <3>1. SUFFICES ASSUME m # 0
                     PROVE  upTo(m)[m \div 2] = upTo(m \div 2)[m \div 2]
        OBVIOUS
      <3>2. m \div 2 \in Nat /\ m \div 2 <= m /\ m \div 2 <= m \div 2
        BY <3>1, HalfOf
      <3>3. XorUpTo(upTo(m \div 2), m \div 2) /\ XorUpTo(upTo(m), m)
        BY <1>1, <3>2
      <3>4. QED
        BY <3>2, <3>3, XorUnique
    <2>3. m = 0 \/ p[m \div 2] = upTo(m)[m \div 2]
      BY <2>2, HalfOf
    <2>4. p[m] = upTo(m)[m]
      OBVIOUS
    <2>5. XorBody(p, m) = XorBody(upTo(m), m)
      <3> HIDE DEF p
      <3> QED BY <2>3, Zenon DEF XorBody
    <2>6. QED
      BY <2>1, <2>4, <2>5
  <1>3. p = [m \in Nat |-> XorBody(p, m)]
    <2>1. p = [m \in Nat |-> p[m]]
      OBVIOUS
    <2> HIDE DEF p
    <2>2. QED
      BY <1>2, <2>1
  <1>4. x = [m \in Nat |-> XorBody(x, m)]
    <2> HIDE DEF p
    <2> QED BY <1>3
  <1>5. ASSUME NEW a, NEW b PROVE BitXor(a, b) = x[a][b]
    BY Zenon DEF BitXor, XorBody
  <1>6. QED
    BY <1>4, <1>5

\* The exclusive or with nothing, and bit by bit.
LEMMA XorEquations ==
    /\ \A b \in Nat : BitXor(0, b) = b
    /\ \A a, b \in Nat : a # 0 =>
          BitXor(a, b) = 2 * BitXor(a \div 2, b \div 2) + ((a + b) % 2)
  <1>1. PICK f : /\ f = [m \in Nat |-> XorBody(f, m)]
                 /\ \A a, b : BitXor(a, b) = f[a][b]
    BY XorFunction
  <1>2. \A m \in Nat : f[m] = XorBody(f, m)
    BY <1>1, Zenon
  <1>3. ASSUME NEW b \in Nat PROVE BitXor(0, b) = b
    BY <1>1, <1>2 DEF XorBody
  <1>4. ASSUME NEW a \in Nat, NEW b \in Nat, a # 0
        PROVE  BitXor(a, b) = 2 * BitXor(a \div 2, b \div 2) + ((a + b) % 2)
    <2>1. f[a] = [n \in Nat |-> 2 * f[a \div 2][n \div 2] + ((a + n) % 2)]
      BY <1>2, <1>4, Zenon DEF XorBody
    <2>2. f[a][b] = 2 * f[a \div 2][b \div 2] + ((a + b) % 2)
      BY <2>1, Zenon
    <2>3. QED
      BY <1>1, <2>2, Zenon
  <1>5. QED
    BY <1>3, <1>4, Zenon

-----------------------------------------------------------------------------
(* The laws of the exclusive or *)

LEMMA XorType == \A a, b \in Nat : BitXor(a, b) \in Nat
  <1> DEFINE T == {n \in Nat : \A a, b \in Nat : a <= n => BitXor(a, b) \in Nat}
  <1>1. 0 \in T
    BY XorEquations
  <1>2. ASSUME NEW n \in Nat, n \in T PROVE n + 1 \in T
    <2>1. ASSUME NEW a \in Nat, NEW b \in Nat, a <= n + 1
          PROVE  BitXor(a, b) \in Nat
      <3>1. CASE a = 0
        BY <3>1, XorEquations
      <3>2. CASE a # 0
        <4>1. a \div 2 \in Nat /\ a \div 2 <= n /\ b \div 2 \in Nat
          BY <2>1, <3>2, HalfOf
        <4>2. BitXor(a \div 2, b \div 2) \in Nat
          BY <1>2, <4>1
        <4>3. BitXor(a, b) = 2 * BitXor(a \div 2, b \div 2) + ((a + b) % 2)
          BY <3>2, XorEquations
        <4>4. QED
          BY <4>2, <4>3
      <3>3. QED
        BY <3>1, <3>2
    <2>2. QED
      BY <2>1
  <1>3. Nat \subseteq T
    <2> HIDE DEF T
    <2> QED BY <1>1, <1>2, SetInduction
  <1>4. ASSUME NEW a \in Nat, NEW b \in Nat PROVE BitXor(a, b) \in Nat
    <2>1. a \in T /\ a <= a
      BY <1>3
    <2>2. QED
      BY <2>1
  <1>5. QED
    BY <1>4

\* The last bit of an exclusive or, and the others.
LEMMA XorHalves ==
    \A a, b \in Nat :
        /\ BitXor(a, b) \in Nat
        /\ BitXor(a, b) = 2 * BitXor(a \div 2, b \div 2) + ((a + b) % 2)
        /\ BitXor(a, b) \div 2 = BitXor(a \div 2, b \div 2)
        /\ BitXor(a, b) % 2 = (a + b) % 2
  <1> SUFFICES ASSUME NEW a \in Nat, NEW b \in Nat
               PROVE  /\ BitXor(a, b) \in Nat
                      /\ BitXor(a, b) = 2 * BitXor(a \div 2, b \div 2)
                                            + ((a + b) % 2)
                      /\ BitXor(a, b) \div 2 = BitXor(a \div 2, b \div 2)
                      /\ BitXor(a, b) % 2 = (a + b) % 2
    OBVIOUS
  <1>1. a \div 2 \in Nat /\ b \div 2 \in Nat
    OBVIOUS
  <1>2. BitXor(a, b) \in Nat /\ BitXor(a \div 2, b \div 2) \in Nat
    BY <1>1, XorType
  <1>3. BitXor(a, b) = 2 * BitXor(a \div 2, b \div 2) + ((a + b) % 2)
    <2>1. CASE a = 0
      <3>1. a \div 2 = 0
        BY <2>1
      <3>2. BitXor(a, b) = b /\ BitXor(a \div 2, b \div 2) = b \div 2
        BY <1>1, <2>1, <3>1, XorEquations
      <3>3. (a + b) % 2 = b % 2
        BY <2>1
      <3>4. QED
        BY <3>2, <3>3, HalfOf
    <2>2. CASE a # 0
      BY <2>2, XorEquations
    <2>3. QED
      BY <2>1, <2>2
  <1>4. (a + b) % 2 \in {0, 1}
    OBVIOUS
  <1>5. QED
    BY <1>2, <1>3, <1>4

\* Order and grouping do not matter, and a number is its own inverse.
LEMMA XorCommutes == \A a, b \in Nat : BitXor(a, b) = BitXor(b, a)
  <1> DEFINE T == {n \in Nat : \A a, b \in Nat :
                        a <= n /\ b <= n => BitXor(a, b) = BitXor(b, a)}
  <1>1. 0 \in T
    OBVIOUS
  <1>2. ASSUME NEW n \in Nat, n \in T PROVE n + 1 \in T
    <2>1. ASSUME NEW a \in Nat, NEW b \in Nat, a <= n + 1, b <= n + 1
          PROVE  BitXor(a, b) = BitXor(b, a)
      <3>1. /\ a \div 2 \in Nat /\ a \div 2 <= n
            /\ b \div 2 \in Nat /\ b \div 2 <= n
        BY <2>1, HalfOf
      <3>2. BitXor(a \div 2, b \div 2) = BitXor(b \div 2, a \div 2)
        BY <1>2, <3>1
      <3>3. BitXor(a, b) = 2 * BitXor(a \div 2, b \div 2) + ((a + b) % 2)
        BY XorHalves
      <3>4. BitXor(b, a) = 2 * BitXor(b \div 2, a \div 2) + ((b + a) % 2)
        BY XorHalves
      <3>5. a + b = b + a
        OBVIOUS
      <3>6. QED
        BY <3>2, <3>3, <3>4, <3>5
    <2>2. QED
      BY <2>1
  <1>3. Nat \subseteq T
    <2> HIDE DEF T
    <2> QED BY <1>1, <1>2, SetInduction
  <1>4. ASSUME NEW a \in Nat, NEW b \in Nat PROVE BitXor(a, b) = BitXor(b, a)
    <2>1. /\ a + b \in T /\ a <= a + b /\ b <= a + b
      BY <1>3
    <2>2. QED
      BY <2>1
  <1>5. QED
    BY <1>4

LEMMA XorAssociates ==
    \A a, b, c \in Nat : BitXor(BitXor(a, b), c) = BitXor(a, BitXor(b, c))
  <1> DEFINE T == {n \in Nat : \A a, b, c \in Nat : a <= n /\ b <= n /\ c <= n =>
                        BitXor(BitXor(a, b), c) = BitXor(a, BitXor(b, c))}
  <1>1. 0 \in T
    <2>1. ASSUME NEW a \in Nat, NEW b \in Nat, NEW c \in Nat,
                 a <= 0, b <= 0, c <= 0
          PROVE  BitXor(BitXor(a, b), c) = BitXor(a, BitXor(b, c))
      <3>1. a = 0 /\ b = 0 /\ c = 0
        BY <2>1
      <3>2. QED
        BY <3>1, XorEquations
    <2>2. QED
      BY <2>1
  <1>2. ASSUME NEW n \in Nat, n \in T PROVE n + 1 \in T
    <2>1. ASSUME NEW a \in Nat, NEW b \in Nat, NEW c \in Nat,
                 a <= n + 1, b <= n + 1, c <= n + 1
          PROVE  BitXor(BitXor(a, b), c) = BitXor(a, BitXor(b, c))
      <3> DEFINE p == a \div 2
                 q == b \div 2
                 r == c \div 2
                 ab == BitXor(a, b)
                 bc == BitXor(b, c)
      <3>1. /\ p \in Nat /\ p <= n /\ q \in Nat /\ q <= n
            /\ r \in Nat /\ r <= n
        BY <2>1, HalfOf
      <3>2. BitXor(BitXor(p, q), r) = BitXor(p, BitXor(q, r))
        BY <1>2, <3>1
      <3>3. /\ ab \in Nat /\ ab \div 2 = BitXor(p, q) /\ ab % 2 = (a + b) % 2
            /\ bc \in Nat /\ bc \div 2 = BitXor(q, r) /\ bc % 2 = (b + c) % 2
        BY XorHalves
      <3>4. /\ BitXor(ab, c) = 2 * BitXor(ab \div 2, r) + ((ab + c) % 2)
            /\ BitXor(a, bc) = 2 * BitXor(p, bc \div 2) + ((a + bc) % 2)
        BY <3>3, XorHalves
      <3> HIDE DEF ab, bc, p, q, r
      <3>5. (ab + c) % 2 = (a + bc) % 2
        BY <3>3
      <3>6. QED
        BY <3>2, <3>3, <3>4, <3>5 DEF ab, bc
    <2>2. QED
      BY <2>1
  <1>3. Nat \subseteq T
    <2> HIDE DEF T
    <2> QED BY <1>1, <1>2, SetInduction
  <1>4. ASSUME NEW a \in Nat, NEW b \in Nat, NEW c \in Nat
        PROVE  BitXor(BitXor(a, b), c) = BitXor(a, BitXor(b, c))
    <2>1. /\ a + b + c \in T /\ a <= a + b + c /\ b <= a + b + c
          /\ c <= a + b + c
      BY <1>3
    <2>2. QED
      BY <2>1
  <1>5. QED
    BY <1>4

LEMMA XorSelf == \A a \in Nat : BitXor(a, a) = 0 /\ BitXor(a, 0) = a
  <1> DEFINE T == {n \in Nat : \A a \in Nat : a <= n => BitXor(a, a) = 0}
  <1>1. 0 \in T
    BY XorEquations
  <1>2. ASSUME NEW n \in Nat, n \in T PROVE n + 1 \in T
    <2>1. ASSUME NEW a \in Nat, a <= n + 1 PROVE BitXor(a, a) = 0
      <3>1. a = 0 \/ (a \div 2 \in Nat /\ a \div 2 <= n)
        BY <2>1, HalfOf
      <3>2. a = 0 \/ BitXor(a \div 2, a \div 2) = 0
        BY <1>2, <3>1
      <3>3. (a + a) % 2 = 0
        OBVIOUS
      <3>4. BitXor(a, a) = 2 * BitXor(a \div 2, a \div 2) + ((a + a) % 2)
        BY XorHalves
      <3>5. CASE a = 0
        BY <3>5, XorEquations
      <3>6. CASE a # 0
        BY <3>2, <3>3, <3>4, <3>6
      <3>7. QED
        BY <3>5, <3>6
    <2>2. QED
      BY <2>1
  <1>3. Nat \subseteq T
    <2> HIDE DEF T
    <2> QED BY <1>1, <1>2, SetInduction
  <1>4. ASSUME NEW a \in Nat PROVE BitXor(a, a) = 0
    <2>1. a \in T /\ a <= a
      BY <1>3
    <2>2. QED
      BY <2>1
  <1>5. QED
    BY <1>4, XorCommutes, XorEquations

\* A difference put on twice is gone.
LEMMA XorBack == \A a, b \in Nat : BitXor(a, BitXor(a, b)) = b
  <1> SUFFICES ASSUME NEW a \in Nat, NEW b \in Nat
               PROVE  BitXor(a, BitXor(a, b)) = b
    OBVIOUS
  <1>1. BitXor(a, BitXor(a, b)) = BitXor(BitXor(a, a), b)
    BY XorAssociates
  <1>2. QED
    BY <1>1, XorSelf, XorEquations

\* What is equal has no difference, and only that.
LEMMA XorZero == \A a, b \in Nat : BitXor(a, b) = 0 <=> a = b
  <1> SUFFICES ASSUME NEW a \in Nat, NEW b \in Nat
               PROVE  BitXor(a, b) = 0 <=> a = b
    OBVIOUS
  <1>1. BitXor(a, BitXor(a, b)) = b
    BY XorBack
  <1>2. QED
    BY <1>1, XorSelf

\* a difference of sums is the sum of the differences
LEMMA XorSwap ==
    \A a, b, c, d \in Nat :
        BitXor(BitXor(a, b), BitXor(c, d)) = BitXor(BitXor(a, c), BitXor(b, d))
  <1> SUFFICES ASSUME NEW a \in Nat, NEW b \in Nat, NEW c \in Nat, NEW d \in Nat
               PROVE  BitXor(BitXor(a, b), BitXor(c, d))
                          = BitXor(BitXor(a, c), BitXor(b, d))
    OBVIOUS
  <1>1. /\ BitXor(c, d) \in Nat /\ BitXor(b, d) \in Nat /\ BitXor(b, c) \in Nat
        /\ BitXor(c, b) \in Nat
    BY XorType
  <1>2. BitXor(BitXor(a, b), BitXor(c, d)) = BitXor(a, BitXor(BitXor(b, c), d))
    BY <1>1, XorAssociates
  <1>3. BitXor(BitXor(a, c), BitXor(b, d)) = BitXor(a, BitXor(BitXor(c, b), d))
    BY <1>1, XorAssociates
  <1>4. BitXor(b, c) = BitXor(c, b)
    BY XorCommutes
  <1>5. QED
    BY <1>2, <1>3, <1>4

-----------------------------------------------------------------------------
(* Widths *)

\* numbers below n stay below n
Closed(n) == \A a, b \in Nat : a < n /\ b < n => BitXor(a, b) < n

\* a bit above n stays when what is below n is flipped
Tops(n) == \A a, b \in Nat : a < n /\ n <= b => n <= BitXor(a, b)

\* what is above n and what is below it do not meet
Apart(n) == \A a, b \in Nat : b < n => BitXor(n * a, b) = n * a + b

LEMMA WidthOfOne == Closed(1) /\ Tops(1) /\ Apart(1)
  <1>1. ASSUME NEW a \in Nat, NEW b \in Nat, a < 1, b < 1
        PROVE  BitXor(a, b) < 1
    <2>1. a = 0 /\ b = 0
      BY <1>1
    <2>2. QED
      BY <2>1, XorEquations
  <1>2. ASSUME NEW a \in Nat, NEW b \in Nat, a < 1, 1 <= b
        PROVE  1 <= BitXor(a, b)
    <2>1. a = 0
      BY <1>2
    <2>2. QED
      BY <1>2, <2>1, XorEquations
  <1>3. ASSUME NEW a \in Nat, NEW b \in Nat, b < 1
        PROVE  BitXor(1 * a, b) = 1 * a + b
    <2>1. b = 0 /\ 1 * a = a
      BY <1>3
    <2>2. QED
      BY <2>1, XorSelf
  <1>4. QED
    BY <1>1, <1>2, <1>3 DEF Closed, Tops, Apart

\* What holds of numbers below n holds below its double.
LEMMA WidthDoubles ==
    ASSUME NEW n \in Nat
    PROVE  /\ Closed(n) => Closed(2 * n)
           /\ Tops(n) => Tops(2 * n)
           /\ Apart(n) => Apart(2 * n)
  <1>1. ASSUME Closed(n), NEW a \in Nat, NEW b \in Nat, a < 2 * n, b < 2 * n
        PROVE  BitXor(a, b) < 2 * n
    <2>1. /\ a \div 2 \in Nat /\ a \div 2 < n
          /\ b \div 2 \in Nat /\ b \div 2 < n
      BY <1>1, HalfOf
    <2>2. BitXor(a \div 2, b \div 2) < n /\ BitXor(a \div 2, b \div 2) \in Nat
      BY <1>1, <2>1, XorType DEF Closed
    <2>3. BitXor(a, b) = 2 * BitXor(a \div 2, b \div 2) + ((a + b) % 2)
      BY XorHalves
    <2>4. (a + b) % 2 \in {0, 1}
      OBVIOUS
    <2>5. QED
      BY <2>2, <2>3, <2>4
  <1>2. ASSUME Tops(n), NEW a \in Nat, NEW b \in Nat, a < 2 * n, 2 * n <= b
        PROVE  2 * n <= BitXor(a, b)
    <2>1. /\ a \div 2 \in Nat /\ a \div 2 < n
          /\ b \div 2 \in Nat /\ n <= b \div 2
      BY <1>2, HalfOf
    <2>2. n <= BitXor(a \div 2, b \div 2) /\ BitXor(a \div 2, b \div 2) \in Nat
      BY <1>2, <2>1, XorType DEF Tops
    <2>3. BitXor(a, b) = 2 * BitXor(a \div 2, b \div 2) + ((a + b) % 2)
      BY XorHalves
    <2>4. (a + b) % 2 \in {0, 1}
      OBVIOUS
    <2>5. QED
      BY <2>2, <2>3, <2>4
  <1>3. ASSUME Apart(n), NEW a \in Nat, NEW b \in Nat, b < 2 * n
        PROVE  BitXor((2 * n) * a, b) = (2 * n) * a + b
    <2> DEFINE m == n * a
    <2>1. /\ m \in Nat /\ (2 * n) * a = 2 * m
          /\ b \div 2 \in Nat /\ b \div 2 < n
      BY <1>3, HalfOf
    <2>2. BitXor(m, b \div 2) = m + (b \div 2)
      BY <1>3, <2>1 DEF Apart
    <2> HIDE DEF m
    <2>3. (2 * m) \div 2 = m /\ (2 * m + b) % 2 = b % 2 /\ 2 * m \in Nat
      BY <2>1
    <2>4. BitXor(2 * m, b) = 2 * BitXor((2 * m) \div 2, b \div 2)
                                + ((2 * m + b) % 2)
      BY <2>3, XorHalves
    <2>5. b = 2 * (b \div 2) + (b % 2)
      BY HalfOf
    <2>6. QED
      BY <2>1, <2>2, <2>3, <2>4, <2>5
  <1>4. QED
    BY <1>1, <1>2, <1>3 DEF Closed, Tops, Apart

LEMMA Widths ==
    /\ Closed(256) /\ Closed(65536)
    /\ Tops(32768)
    /\ Apart(256) /\ Apart(65536)
  <1>1. Closed(1) /\ Tops(1) /\ Apart(1)
    BY WidthOfOne
  <1>2. Closed(2) /\ Tops(2) /\ Apart(2)
    <2>1. 1 \in Nat /\ 2 * 1 = 2
      OBVIOUS
    <2>2. QED
      BY <1>1, <2>1, WidthDoubles
  <1>3. Closed(4) /\ Tops(4) /\ Apart(4)
    <2>1. 2 \in Nat /\ 2 * 2 = 4
      OBVIOUS
    <2>2. QED
      BY <1>2, <2>1, WidthDoubles
  <1>4. Closed(8) /\ Tops(8) /\ Apart(8)
    <2>1. 4 \in Nat /\ 2 * 4 = 8
      OBVIOUS
    <2>2. QED
      BY <1>3, <2>1, WidthDoubles
  <1>5. Closed(16) /\ Tops(16) /\ Apart(16)
    <2>1. 8 \in Nat /\ 2 * 8 = 16
      OBVIOUS
    <2>2. QED
      BY <1>4, <2>1, WidthDoubles
  <1>6. Closed(32) /\ Tops(32) /\ Apart(32)
    <2>1. 16 \in Nat /\ 2 * 16 = 32
      OBVIOUS
    <2>2. QED
      BY <1>5, <2>1, WidthDoubles
  <1>7. Closed(64) /\ Tops(64) /\ Apart(64)
    <2>1. 32 \in Nat /\ 2 * 32 = 64
      OBVIOUS
    <2>2. QED
      BY <1>6, <2>1, WidthDoubles
  <1>8. Closed(128) /\ Tops(128) /\ Apart(128)
    <2>1. 64 \in Nat /\ 2 * 64 = 128
      OBVIOUS
    <2>2. QED
      BY <1>7, <2>1, WidthDoubles
  <1>9. Closed(256) /\ Tops(256) /\ Apart(256)
    <2>1. 128 \in Nat /\ 2 * 128 = 256
      OBVIOUS
    <2>2. QED
      BY <1>8, <2>1, WidthDoubles
  <1>10. Closed(512) /\ Tops(512) /\ Apart(512)
    <2>1. 256 \in Nat /\ 2 * 256 = 512
      OBVIOUS
    <2>2. QED
      BY <1>9, <2>1, WidthDoubles
  <1>11. Closed(1024) /\ Tops(1024) /\ Apart(1024)
    <2>1. 512 \in Nat /\ 2 * 512 = 1024
      OBVIOUS
    <2>2. QED
      BY <1>10, <2>1, WidthDoubles
  <1>12. Closed(2048) /\ Tops(2048) /\ Apart(2048)
    <2>1. 1024 \in Nat /\ 2 * 1024 = 2048
      OBVIOUS
    <2>2. QED
      BY <1>11, <2>1, WidthDoubles
  <1>13. Closed(4096) /\ Tops(4096) /\ Apart(4096)
    <2>1. 2048 \in Nat /\ 2 * 2048 = 4096
      OBVIOUS
    <2>2. QED
      BY <1>12, <2>1, WidthDoubles
  <1>14. Closed(8192) /\ Tops(8192) /\ Apart(8192)
    <2>1. 4096 \in Nat /\ 2 * 4096 = 8192
      OBVIOUS
    <2>2. QED
      BY <1>13, <2>1, WidthDoubles
  <1>15. Closed(16384) /\ Tops(16384) /\ Apart(16384)
    <2>1. 8192 \in Nat /\ 2 * 8192 = 16384
      OBVIOUS
    <2>2. QED
      BY <1>14, <2>1, WidthDoubles
  <1>16. Closed(32768) /\ Tops(32768) /\ Apart(32768)
    <2>1. 16384 \in Nat /\ 2 * 16384 = 32768
      OBVIOUS
    <2>2. QED
      BY <1>15, <2>1, WidthDoubles
  <1>17. Closed(65536) /\ Tops(65536) /\ Apart(65536)
    <2>1. 32768 \in Nat /\ 2 * 32768 = 65536
      OBVIOUS
    <2>2. QED
      BY <1>16, <2>1, WidthDoubles
  <1>18. QED
    BY <1>9, <1>16, <1>17

-----------------------------------------------------------------------------
(* One bit and one byte of the CRC *)

LEMMA WordIs == \A n : n \in Word16 <=> n \in Nat /\ n < 65536
  <1> DEFINE top == 65535
  <1>1. Word16 = 0 .. top
    BY DEF Word16
  <1>2. top \in Nat
    OBVIOUS
  <1> HIDE DEF top
  <1>3. \A n : n \in 0 .. top <=> n \in Nat /\ n <= top
    BY <1>2
  <1>4. \A n \in Nat : n <= top <=> n < 65536
    BY DEF top
  <1>5. QED
    BY <1>1, <1>3, <1>4

\* differences that a CRC can see
Flaws == {n \in Nat : 0 < n /\ n < 65536}

\* ShiftCrc, by the lowest bit.
LEMMA ShiftCases ==
    \A n \in Nat :
        /\ ShiftCrc(n) \in Nat
        /\ n % 2 = 0 => ShiftCrc(n) = n \div 2
        /\ n % 2 = 1 => ShiftCrc(n) = BitXor(n \div 2, 40961)
  BY XorType DEF ShiftCrc

LEMMA ShiftDoubled == \A n \in Nat : ShiftCrc(2 * n) = n
  BY DEF ShiftCrc

\* The shift of a difference is the difference of the shifts.
LEMMA ShiftLinear ==
    \A a, b \in Nat :
        ShiftCrc(BitXor(a, b)) = BitXor(ShiftCrc(a), ShiftCrc(b))
  <1> SUFFICES ASSUME NEW a \in Nat, NEW b \in Nat
               PROVE  ShiftCrc(BitXor(a, b)) = BitXor(ShiftCrc(a), ShiftCrc(b))
    OBVIOUS
  <1> DEFINE p == a \div 2
             q == b \div 2
             x == BitXor(a, b)
             c == 40961
  <1>1. p \in Nat /\ q \in Nat /\ c \in Nat
    OBVIOUS
  <1>2. x \in Nat /\ x \div 2 = BitXor(p, q) /\ x % 2 = (a + b) % 2
    BY XorHalves
  <1> HIDE DEF p, q, x, c
  <1>3. CASE a % 2 = 0 /\ b % 2 = 0
    <2>1. x % 2 = 0
      BY <1>2, <1>3
    <2>2. ShiftCrc(x) = BitXor(p, q)
      BY <1>2, <2>1, ShiftCases
    <2>3. ShiftCrc(a) = p /\ ShiftCrc(b) = q
      BY <1>3, ShiftCases DEF p, q
    <2>4. QED
      BY <2>2, <2>3 DEF x
  <1>4. CASE a % 2 = 1 /\ b % 2 = 0
    <2>1. x % 2 = 1
      BY <1>2, <1>4
    <2>2. ShiftCrc(x) = BitXor(BitXor(p, q), c)
      BY <1>2, <2>1, ShiftCases DEF c
    <2>3. ShiftCrc(a) = BitXor(p, c) /\ ShiftCrc(b) = q
      BY <1>4, ShiftCases DEF p, q, c
    <2>4. BitXor(BitXor(p, q), BitXor(c, 0)) = BitXor(BitXor(p, c), BitXor(q, 0))
      BY <1>1, XorSwap
    <2>5. BitXor(c, 0) = c /\ BitXor(q, 0) = q
      BY <1>1, XorSelf
    <2>6. QED
      BY <2>2, <2>3, <2>4, <2>5 DEF x
  <1>5. CASE a % 2 = 0 /\ b % 2 = 1
    <2>1. x % 2 = 1
      BY <1>2, <1>5
    <2>2. ShiftCrc(x) = BitXor(BitXor(p, q), c)
      BY <1>2, <2>1, ShiftCases DEF c
    <2>3. ShiftCrc(a) = p /\ ShiftCrc(b) = BitXor(q, c)
      BY <1>5, ShiftCases DEF p, q, c
    <2>4. QED
      BY <1>1, <2>2, <2>3, XorAssociates DEF x
  <1>6. CASE a % 2 = 1 /\ b % 2 = 1
    <2>1. x % 2 = 0
      BY <1>2, <1>6
    <2>2. ShiftCrc(x) = BitXor(p, q)
      BY <1>2, <2>1, ShiftCases
    <2>3. ShiftCrc(a) = BitXor(p, c) /\ ShiftCrc(b) = BitXor(q, c)
      BY <1>6, ShiftCases DEF p, q, c
    <2>4. BitXor(BitXor(p, q), BitXor(c, c)) = BitXor(BitXor(p, c), BitXor(q, c))
      BY <1>1, XorSwap
    <2>5. BitXor(c, c) = 0 /\ BitXor(BitXor(p, q), 0) = BitXor(p, q)
      BY <1>1, XorSelf, XorType
    <2>6. QED
      BY <2>2, <2>3, <2>4, <2>5 DEF x
  <1>7. QED
    BY <1>3, <1>4, <1>5, <1>6

\* A register of sixteen bits keeps its width, and a difference is not lost:
\* the polynomial has its highest bit, which no even register gets.
LEMMA ShiftKeeps ==
    /\ \A n \in Word16 : ShiftCrc(n) \in Word16
    /\ \A n \in Flaws : ShiftCrc(n) \in Flaws
  <1>1. ASSUME NEW n \in Nat, n < 65536
        PROVE  ShiftCrc(n) \in Nat /\ ShiftCrc(n) < 65536
    <2>1. n \div 2 \in Nat /\ n \div 2 < 65536 /\ 40961 < 65536
      BY <1>1
    <2>2. BitXor(n \div 2, 40961) < 65536
      BY <2>1, Widths DEF Closed
    <2>3. QED
      BY <2>1, <2>2, ShiftCases, HalfOf
  <1>2. ASSUME NEW n \in Nat, n < 65536, 0 < n
        PROVE  0 < ShiftCrc(n)
    <2>1. CASE n % 2 = 0
      BY <1>2, <2>1, ShiftCases
    <2>2. CASE n % 2 = 1
      <3>1. /\ n \div 2 \in Nat /\ n \div 2 < 32768
            /\ 40961 \in Nat /\ 32768 <= 40961
        BY <1>2
      <3>2. \A a, b \in Nat : a < 32768 /\ 32768 <= b => 32768 <= BitXor(a, b)
        BY Widths DEF Tops
      <3>3. 32768 <= BitXor(n \div 2, 40961) /\ BitXor(n \div 2, 40961) \in Nat
        BY <3>1, <3>2, XorType
      <3>4. ShiftCrc(n) = BitXor(n \div 2, 40961)
        BY <2>2, ShiftCases
      <3>5. QED
        BY <3>3, <3>4
    <2>3. QED
      BY <2>1, <2>2, HalfOf
  <1>3. QED
    BY <1>1, <1>2, WordIs DEF Flaws

\* The same of a byte.
LEMMA ByteLinear ==
    \A a, b \in Nat :
        /\ ShiftByte(a) \in Nat
        /\ ShiftByte(BitXor(a, b)) = BitXor(ShiftByte(a), ShiftByte(b))
  <1>1. ASSUME NEW a \in Nat, NEW b \in Nat
        PROVE  /\ ShiftFourBits(a) \in Nat
               /\ ShiftFourBits(BitXor(a, b))
                      = BitXor(ShiftFourBits(a), ShiftFourBits(b))
    <2> DEFINE a1 == ShiftCrc(a)
               a2 == ShiftCrc(a1)
               a3 == ShiftCrc(a2)
               b1 == ShiftCrc(b)
               b2 == ShiftCrc(b1)
               b3 == ShiftCrc(b2)
    <2>1. a1 \in Nat /\ b1 \in Nat
      BY ShiftCases
    <2> HIDE DEF a1, b1
    <2>2. a2 \in Nat /\ b2 \in Nat
      BY <2>1, ShiftCases
    <2> HIDE DEF a2, b2
    <2>3. a3 \in Nat /\ b3 \in Nat
      BY <2>2, ShiftCases
    <2> HIDE DEF a3, b3
    <2>4. ShiftCrc(a3) \in Nat
      BY <2>3, ShiftCases
    <2>5. ShiftCrc(BitXor(a, b)) = BitXor(a1, b1)
      BY ShiftLinear DEF a1, b1
    <2>6. ShiftCrc(BitXor(a1, b1)) = BitXor(a2, b2)
      BY <2>1, ShiftLinear DEF a2, b2
    <2>7. ShiftCrc(BitXor(a2, b2)) = BitXor(a3, b3)
      BY <2>2, ShiftLinear DEF a3, b3
    <2>8. ShiftCrc(BitXor(a3, b3)) = BitXor(ShiftCrc(a3), ShiftCrc(b3))
      BY <2>3, ShiftLinear
    <2>9. ShiftFourBits(a) = ShiftCrc(a3) /\ ShiftFourBits(b) = ShiftCrc(b3)
      BY DEF ShiftFourBits, a1, a2, a3, b1, b2, b3
    <2>10. QED
      BY <2>4, <2>5, <2>6, <2>7, <2>8, <2>9 DEF ShiftFourBits
  <1>2. QED
    BY <1>1 DEF ShiftByte

\* Eight shifts stay within sixteen bits, and take only zero to zero.
LEMMA ByteKeeps ==
    /\ \A n \in Word16 : ShiftByte(n) \in Word16
    /\ \A n \in Flaws : ShiftByte(n) \in Flaws
    /\ ShiftByte(0) = 0
  <1>1. \A n \in Word16 : ShiftByte(n) \in Word16
    BY ShiftKeeps DEF ShiftByte, ShiftFourBits
  <1>2. \A n \in Flaws : ShiftByte(n) \in Flaws
    BY ShiftKeeps DEF ShiftByte, ShiftFourBits
  <1>3. ShiftCrc(0) = 0
    BY ShiftDoubled
  <1>4. ShiftByte(0) = 0
    BY <1>3 DEF ShiftByte, ShiftFourBits
  <1>5. QED
    BY <1>1, <1>2, <1>4

\* A byte of zeros below leaves what is above.
LEMMA ByteAbove == \A n \in Nat : ShiftByte(256 * n) = n
  <1> SUFFICES ASSUME NEW n \in Nat PROVE ShiftByte(256 * n) = n
    OBVIOUS
  <1>1. /\ ShiftCrc(256 * n) = 128 * n /\ ShiftCrc(128 * n) = 64 * n
        /\ ShiftCrc(64 * n) = 32 * n /\ ShiftCrc(32 * n) = 16 * n
    BY DEF ShiftCrc
  <1>2. /\ ShiftCrc(16 * n) = 8 * n /\ ShiftCrc(8 * n) = 4 * n
        /\ ShiftCrc(4 * n) = 2 * n /\ ShiftCrc(2 * n) = n
    BY DEF ShiftCrc
  <1>3. QED
    BY <1>1, <1>2 DEF ShiftByte, ShiftFourBits

\* A burst that starts anywhere in a byte is seen when that byte is through.
LEMMA ByteBurst ==
    ASSUME NEW n \in Flaws, NEW s \in {1, 2, 4, 8, 16, 32, 64, 128}
    PROVE  n * s \in Nat /\ ShiftByte(n * s) \in Flaws
  <1>1. n \in Nat
    BY DEF Flaws
  <1>2. /\ ShiftCrc(n * 128) = n * 64 /\ ShiftCrc(n * 64) = n * 32
        /\ ShiftCrc(n * 32) = n * 16 /\ ShiftCrc(n * 16) = n * 8
    BY <1>1 DEF ShiftCrc
  <1>3. /\ ShiftCrc(n * 8) = n * 4 /\ ShiftCrc(n * 4) = n * 2
        /\ ShiftCrc(n * 2) = n * 1 /\ n * 1 = n
    BY <1>1 DEF ShiftCrc
  <1>4. /\ ShiftByte(n * 128) \in Flaws /\ ShiftByte(n * 64) \in Flaws
        /\ ShiftByte(n * 32) \in Flaws /\ ShiftByte(n * 16) \in Flaws
        /\ ShiftByte(n * 8) \in Flaws /\ ShiftByte(n * 4) \in Flaws
        /\ ShiftByte(n * 2) \in Flaws /\ ShiftByte(n * 1) \in Flaws
    BY <1>2, <1>3, ShiftKeeps DEF ShiftByte, ShiftFourBits
  <1>5. QED
    BY <1>1, <1>4

-----------------------------------------------------------------------------
(* The CRC of a half, byte by byte *)

LEMMA ByteIsNumber == \A b : b \in Byte <=> b \in Nat /\ b < 256
  BY DEF Byte

LEMMA XorOfBytes == \A a, b \in Byte : BitXor(a, b) \in Byte
  BY XorType, Widths, ByteIsNumber DEF Closed

Fed(crc, byte) == ShiftByte(BitXor(crc, byte))

\* f holds the register after each of the n bytes that follow the first ones
Feeds(f, bytes, from, n) ==
    f[0] = 0 /\ \A i \in 1 .. n : f[i] = Fed(f[i - 1], bytes[from + i])

LEMMA FedIsWord ==
    \A c \in Word16, b \in Byte : BitXor(c, b) \in Word16 /\ Fed(c, b) \in Word16
  <1> SUFFICES ASSUME NEW c \in Word16, NEW b \in Byte
               PROVE  BitXor(c, b) \in Word16 /\ Fed(c, b) \in Word16
    OBVIOUS
  <1>1. c \in Nat /\ c < 65536 /\ b \in Nat /\ b < 65536
    BY WordIs, ByteIsNumber
  <1>2. BitXor(c, b) \in Nat /\ BitXor(c, b) < 65536
    BY <1>1, XorType, Widths DEF Closed
  <1>3. BitXor(c, b) \in Word16
    BY <1>2, WordIs
  <1>4. QED
    BY <1>3, ByteKeeps DEF Fed

\* The register can be followed over any bytes.
LEMMA FeedsExists ==
    ASSUME NEW data, NEW n \in Nat
    PROVE  \E f : f = [i \in 0 .. n |->
                          IF i = 0 THEN 0 ELSE Fed(f[i - 1], data[i])]
  <1> DEFINE Is(f, k) == f = [i \in 0 .. k |->
                                IF i = 0 THEN 0 ELSE Fed(f[i - 1], data[i])]
             T == {k \in Nat : \E f : Is(f, k)}
  <1>1. 0 \in T
    <2> DEFINE f == [i \in 0 .. 0 |-> 0]
    <2>1. Is(f, 0)
      OBVIOUS
    <2>2. QED
      BY <2>1
  <1>2. ASSUME NEW k \in Nat, k \in T PROVE k + 1 \in T
    <2>1. PICK f : Is(f, k)
      BY <1>2
    <2> DEFINE g == [i \in 0 .. k + 1 |->
                        IF i = k + 1 THEN Fed(f[k], data[i]) ELSE f[i]]
    <2>2. ASSUME NEW i \in 0 .. k + 1
          PROVE  g[i] = IF i = 0 THEN 0 ELSE Fed(g[i - 1], data[i])
      <3>1. i # 0 => g[i - 1] = f[i - 1]
        OBVIOUS
      <3>2. CASE i = k + 1
        <4>1. i # 0 /\ i - 1 = k /\ g[i] = Fed(f[k], data[i])
          BY <3>2
        <4>2. QED
          BY <3>1, <4>1
      <3>3. CASE i # k + 1
        <4>1. i \in 0 .. k /\ g[i] = f[i]
          BY <3>3
        <4>2. f[i] = IF i = 0 THEN 0 ELSE Fed(f[i - 1], data[i])
          BY <2>1, <4>1, Zenon
        <4>3. QED
          BY <3>1, <4>1, <4>2
      <3>4. QED
        BY <3>2, <3>3
    <2>3. g = [i \in 0 .. k + 1 |-> g[i]]
      OBVIOUS
    <2> HIDE DEF g
    <2>4. Is(g, k + 1)
      BY <2>2, <2>3
    <2>5. QED
      BY <2>4
  <1>3. Nat \subseteq T
    <2> HIDE DEF T
    <2> QED BY <1>1, <1>2, SetInduction
  <1>4. QED
    BY <1>3

\* The recursive function of compute_crc16 feeds the bytes one by one.
LEMMA CrcFeeds ==
    ASSUME NEW data, Len(data) \in Nat
    PROVE  \E f : Feeds(f, data, 0, Len(data)) /\ compute_crc16(data) = f[Len(data)]
  <1> DEFINE n == Len(data)
             x == CHOOSE f : f = [i \in 0 .. n |->
                                    IF i = 0 THEN 0 ELSE Fed(f[i - 1], data[i])]
  <1>1. x = [i \in 0 .. n |-> IF i = 0 THEN 0 ELSE Fed(x[i - 1], data[i])]
    BY FeedsExists
  <1>2. compute_crc16(data) = x[n]
    BY Zenon DEF compute_crc16, Fed
  <1> HIDE DEF x
  <1>3. \A i \in 0 .. n : x[i] = IF i = 0 THEN 0 ELSE Fed(x[i - 1], data[i])
    BY <1>1, Zenon
  <1>4. 0 \in 0 .. n /\ \A i \in 1 .. n : i \in 0 .. n /\ i # 0 /\ 0 + i = i
    OBVIOUS
  <1>5. Feeds(x, data, 0, n)
    BY <1>3, <1>4, Zenon DEF Feeds
  <1>6. QED
    BY <1>2, <1>5

LEMMA FeedsWords ==
    ASSUME NEW bytes, NEW from \in Nat, NEW n \in Nat,
           \A i \in 1 .. n : bytes[from + i] \in Byte,
           NEW f, Feeds(f, bytes, from, n)
    PROVE  \A i \in 0 .. n : f[i] \in Word16
  <1> DEFINE T == {i \in Nat : i <= n => f[i] \in Word16}
  <1>1. 0 \in T
    BY WordIs DEF Feeds
  <1>2. ASSUME NEW i \in Nat, i \in T PROVE i + 1 \in T
    <2>1. SUFFICES ASSUME i + 1 <= n PROVE f[i + 1] \in Word16
      OBVIOUS
    <2>2. i + 1 \in 1 .. n /\ (i + 1) - 1 = i /\ f[i] \in Word16
      BY <1>2, <2>1
    <2>3. f[i + 1] = Fed(f[i], bytes[from + (i + 1)])
      BY <2>2 DEF Feeds
    <2>4. QED
      BY <2>2, <2>3, FedIsWord
  <1>3. Nat \subseteq T
    <2> HIDE DEF T
    <2> QED BY <1>1, <1>2, SetInduction
  <1>4. QED
    BY <1>3

\* The stored CRC, fed after the bytes it guards, clears the register.
LEMMA CrcClears ==
    ASSUME NEW low \in Byte, NEW high \in Byte
    PROVE  Fed(Fed(low + 256 * high, low), high) = 0
  <1>1. low \in Nat /\ low < 256 /\ high \in Nat /\ 256 * high \in Nat
    BY ByteIsNumber
  <1>2. BitXor(256 * high, low) = low + 256 * high
    BY <1>1, Widths DEF Apart
  <1>3. BitXor(BitXor(256 * high, low), low) = 256 * high
    BY <1>1, XorAssociates, XorSelf
  <1>4. Fed(low + 256 * high, low) = high
    BY <1>1, <1>2, <1>3, ByteAbove DEF Fed
  <1>5. Fed(high, high) = 0
    BY <1>1, XorSelf, ByteKeeps DEF Fed
  <1>6. QED
    BY <1>4, <1>5

\* a half: n bytes and their CRC behind the first ones of a report
HalfValid(bytes, from, n) ==
    compute_crc16(SubSeq(bytes, from + 1, from + n)) = Word(bytes, from + n + 1)

\* The register of a half followed by its own CRC ends with zero.
LEMMA HalfFeeds ==
    ASSUME NEW bytes \in Seq(Byte), NEW from \in Nat, NEW n \in Nat,
           from + n + 2 <= Len(bytes), HalfValid(bytes, from, n)
    PROVE  \E f : Feeds(f, bytes, from, n + 2) /\ f[n + 2] = 0
  <1> DEFINE data == SubSeq(bytes, from + 1, from + n)
             low  == bytes[from + n + 1]
             high == bytes[from + n + 2]
  <1>1. /\ Len(data) = n /\ \A i \in 1 .. n : data[i] = bytes[from + i]
        /\ low \in Byte /\ high \in Byte
    OBVIOUS
  <1>2. compute_crc16(data) = low + 256 * high
    BY DEF HalfValid, Word
  <1> HIDE DEF data, low, high
  <1>3. PICK f : Feeds(f, data, 0, n) /\ f[n] = low + 256 * high
    BY <1>1, <1>2, CrcFeeds
  <1> DEFINE g == [i \in 0 .. n + 2 |->
                      IF i = n + 2 THEN Fed(Fed(f[n], low), high)
                      ELSE IF i = n + 1 THEN Fed(f[n], low) ELSE f[i]]
  <1>4. g[0] = 0
    BY <1>3 DEF Feeds
  <1>5. ASSUME NEW i \in 1 .. n + 2
        PROVE  g[i] = Fed(g[i - 1], bytes[from + i])
    <2>1. CASE i <= n
      <3>1. i \in 1 .. n /\ g[i] = f[i] /\ g[i - 1] = f[i - 1] /\ 0 + i = i
        BY <2>1
      <3>2. f[i] = Fed(f[i - 1], data[0 + i])
        BY <1>3, <3>1, Zenon DEF Feeds
      <3>3. QED
        BY <1>1, <3>1, <3>2
    <2>2. CASE i = n + 1
      <3>1. g[i] = Fed(f[n], low) /\ g[i - 1] = f[n] /\ from + i = from + n + 1
        BY <2>2
      <3>2. QED
        BY <3>1 DEF low
    <2>3. CASE i = n + 2
      <3>1. /\ g[i] = Fed(Fed(f[n], low), high) /\ g[i - 1] = Fed(f[n], low)
            /\ from + i = from + n + 2
        BY <2>3
      <3>2. QED
        BY <3>1 DEF high
    <2>4. QED
      BY <2>1, <2>2, <2>3
  <1>6. g[n + 2] = 0
    <2>1. g[n + 2] = Fed(Fed(f[n], low), high)
      OBVIOUS
    <2>2. QED
      BY <1>1, <1>3, <2>1, CrcClears
  <1> HIDE DEF g
  <1>7. QED
    BY <1>4, <1>5, <1>6 DEF Feeds

-----------------------------------------------------------------------------
(* What a burst does to a half *)

\* One byte: the difference of the results is the result of the difference.
LEMMA FedLinear ==
    \A c, e, a, b \in Nat :
        BitXor(Fed(c, a), Fed(e, b)) = Fed(BitXor(c, e), BitXor(a, b))
  <1> SUFFICES ASSUME NEW c \in Nat, NEW e \in Nat, NEW a \in Nat, NEW b \in Nat
               PROVE  BitXor(Fed(c, a), Fed(e, b))
                          = Fed(BitXor(c, e), BitXor(a, b))
    OBVIOUS
  <1>1. BitXor(c, a) \in Nat /\ BitXor(e, b) \in Nat
    BY XorType
  <1>2. BitXor(BitXor(c, a), BitXor(e, b)) = BitXor(BitXor(c, e), BitXor(a, b))
    BY XorSwap
  <1>3. QED
    BY <1>1, <1>2, ByteLinear DEF Fed

\* v has, in the n bytes after the first ones, what u has with d put on
Differs(u, v, from, n, d) ==
    \A i \in 1 .. n : /\ u[from + i] \in Byte /\ v[from + i] \in Byte
                      /\ d[i] \in Byte
                      /\ v[from + i] = BitXor(u[from + i], d[i])

\* The difference of two registers is the register of the difference.
LEMMA FeedsLinear ==
    ASSUME NEW u, NEW v, NEW from \in Nat, NEW n \in Nat,
           NEW f, Feeds(f, u, from, n), NEW g, Feeds(g, v, from, n),
           NEW d, Differs(u, v, from, n, d)
    PROVE  \E h : Feeds(h, d, 0, n) /\ h[n] = BitXor(f[n], g[n])
  <1> DEFINE h == [i \in 0 .. n |-> BitXor(f[i], g[i])]
  <1>1. /\ \A i \in 1 .. n : u[from + i] \in Byte
        /\ \A i \in 1 .. n : v[from + i] \in Byte
    BY DEF Differs
  <1>2. \A i \in 0 .. n : f[i] \in Word16 /\ g[i] \in Word16
    BY <1>1, FeedsWords
  <1>3. h[0] = 0
    BY XorEquations DEF Feeds
  <1>4. ASSUME NEW i \in 1 .. n PROVE h[i] = Fed(h[i - 1], d[0 + i])
    <2>1. /\ i - 1 \in 0 .. n /\ i \in 0 .. n /\ 0 + i = i
      OBVIOUS
    <2>2. /\ f[i - 1] \in Nat /\ g[i - 1] \in Nat
          /\ u[from + i] \in Nat /\ v[from + i] \in Nat
      BY <1>1, <1>2, <2>1, WordIs, ByteIsNumber
    <2>3. /\ f[i] = Fed(f[i - 1], u[from + i])
          /\ g[i] = Fed(g[i - 1], v[from + i])
      BY DEF Feeds
    <2>4. h[i] = BitXor(f[i], g[i]) /\ h[i - 1] = BitXor(f[i - 1], g[i - 1])
      BY <2>1
    <2>5. d[i] = BitXor(u[from + i], v[from + i])
      <3>1. d[i] \in Nat /\ v[from + i] = BitXor(u[from + i], d[i])
        BY ByteIsNumber DEF Differs
      <3>2. QED
        BY <2>2, <3>1, XorBack
    <2> HIDE DEF h
    <2>6. QED
      BY <2>1, <2>2, <2>3, <2>4, <2>5, FedLinear
  <1>5. h[n] = BitXor(f[n], g[n])
    OBVIOUS
  <1> HIDE DEF h
  <1>6. QED
    BY <1>3, <1>4, <1>5 DEF Feeds

\* Two and three bytes one after the other, as one number.
LEMMA FedJoined ==
    ASSUME NEW a \in Byte, NEW b \in Byte, NEW c \in Byte
    PROVE  /\ Fed(0, a) = ShiftByte(a)
           /\ Fed(Fed(0, a), b) = ShiftByte(ShiftByte(a + 256 * b))
           /\ Fed(Fed(Fed(0, a), b), c)
                  = ShiftByte(ShiftByte(ShiftByte(a + 256 * b + 65536 * c)))
  <1>1. /\ a \in Nat /\ a < 256 /\ b \in Nat /\ b < 256 /\ c \in Nat
    BY ByteIsNumber
  <1> DEFINE ab == a + 256 * b
             b1 == 256 * b
             c1 == 256 * c
             c2 == 65536 * c
  <1>2. /\ ab \in Nat /\ ab < 65536 /\ b1 \in Nat /\ c1 \in Nat /\ c2 \in Nat
        /\ c2 = 256 * c1 /\ b1 + a = ab /\ c2 + ab = a + 256 * b + 65536 * c
    BY <1>1
  <1>3. BitXor(b1, a) = ab
    BY <1>1, Widths DEF Apart
  <1>4. BitXor(c2, ab) = c2 + ab
    BY <1>1, <1>2, Widths DEF Apart
  <1>5. ShiftByte(b1) = b /\ ShiftByte(c1) = c
    BY <1>1, ByteAbove
  <1> HIDE DEF ab, b1, c1, c2
  <1>6. ShiftByte(c2) = c1
    BY <1>2, ByteAbove
  <1>7. Fed(0, a) = ShiftByte(a)
    BY <1>1, XorEquations DEF Fed
  <1>8. ShiftByte(ab) = BitXor(ShiftByte(a), b) /\ ShiftByte(a) \in Nat
    <2>1. ShiftByte(BitXor(b1, a)) = BitXor(ShiftByte(b1), ShiftByte(a))
          /\ ShiftByte(a) \in Nat
      BY <1>1, <1>2, ByteLinear
    <2>2. QED
      BY <1>1, <1>3, <1>5, <2>1, XorCommutes
  <1>9. Fed(Fed(0, a), b) = ShiftByte(ShiftByte(ab))
    BY <1>7, <1>8 DEF Fed
  <1>10. ShiftByte(c2 + ab) = BitXor(c1, ShiftByte(ab)) /\ ShiftByte(ab) \in Nat
    BY <1>2, <1>4, <1>6, ByteLinear
  <1>11. /\ ShiftByte(BitXor(c1, ShiftByte(ab)))
                = BitXor(c, ShiftByte(ShiftByte(ab)))
         /\ ShiftByte(ShiftByte(ab)) \in Nat
    BY <1>2, <1>5, <1>10, ByteLinear
  <1>12. BitXor(c, ShiftByte(ShiftByte(ab))) = BitXor(ShiftByte(ShiftByte(ab)), c)
    BY <1>1, <1>11, XorCommutes
  <1>13. Fed(Fed(Fed(0, a), b), c) = ShiftByte(ShiftByte(ShiftByte(c2 + ab)))
    BY <1>9, <1>10, <1>11, <1>12 DEF Fed
  <1>14. QED
    BY <1>2, <1>7, <1>9, <1>13 DEF ab

Shifts == {1, 2, 4, 8, 16, 32, 64, 128}

\* the number is a pattern of up to sixteen bits, shifted within a byte
Burst(number) == \E p \in Flaws, s \in Shifts : number = p * s

LEMMA FeedsSteps ==
    ASSUME NEW d, NEW n \in Nat, NEW h, Feeds(h, d, 0, n)
    PROVE  /\ h[0] = 0
           /\ \A i \in Nat : i + 1 <= n => h[i + 1] = Fed(h[i], d[i + 1])
  <1>1. ASSUME NEW i \in Nat, i + 1 <= n
        PROVE  h[i + 1] = Fed(h[i], d[i + 1])
    <2>1. i + 1 \in 1 .. n /\ (i + 1) - 1 = i /\ 0 + (i + 1) = i + 1
      BY <1>1
    <2>2. h[i + 1] = Fed(h[(i + 1) - 1], d[0 + (i + 1)])
      BY <2>1 DEF Feeds
    <2>3. QED
      BY <2>1, <2>2
  <1>2. QED
    BY <1>1 DEF Feeds

\* the differences in n bytes from the (k+1)-st on, as one number
FlawAt(d, n, k) ==
    d[k + 1] + (IF k + 2 <= n THEN 256 * d[k + 2] ELSE 0)
             + (IF k + 3 <= n THEN 65536 * d[k + 3] ELSE 0)

\* of the n differences, only three from the (k+1)-st on need not be zero
OnlyAt(d, n, k) ==
    /\ k \in Nat /\ k < n
    /\ \A i \in 1 .. n : d[i] \in Byte /\ (i <= k \/ i > k + 3 => d[i] = 0)

\* A register that has seen no difference but one burst ends with one.
LEMMA BurstStays ==
    ASSUME NEW d, NEW n \in Nat, NEW h, Feeds(h, d, 0, n),
           NEW k, OnlyAt(d, n, k), Burst(FlawAt(d, n, k))
    PROVE  h[n] \in Flaws
  <1> USE DEF OnlyAt
  <1>1. /\ h[0] = 0
        /\ \A i \in Nat : i + 1 <= n => h[i + 1] = Fed(h[i], d[i + 1])
    BY FeedsSteps
  <1>2. h[k] = 0
    <2> DEFINE T == {i \in Nat : i <= k => h[i] = 0}
    <2>1. 0 \in T
      BY <1>1
    <2>2. ASSUME NEW i \in Nat, i \in T PROVE i + 1 \in T
      <3>1. SUFFICES ASSUME i + 1 <= k PROVE h[i + 1] = 0
        OBVIOUS
      <3>2. h[i] = 0 /\ d[i + 1] = 0 /\ i + 1 <= n
        BY <2>2, <3>1
      <3>3. h[i + 1] = Fed(0, 0)
        BY <1>1, <3>2
      <3>4. QED
        BY <3>3, XorEquations, ByteKeeps DEF Fed
    <2>3. Nat \subseteq T
      <3> HIDE DEF T
      <3> QED BY <2>1, <2>2, SetInduction
    <2>4. QED
      BY <2>3
  <1>3. PICK p \in Flaws, s \in Shifts :
            d[k + 1] + (IF k + 2 <= n THEN 256 * d[k + 2] ELSE 0)
                     + (IF k + 3 <= n THEN 65536 * d[k + 3] ELSE 0) = p * s
    BY DEF Burst, FlawAt
  <1>4. ShiftByte(p * s) \in Flaws
    BY ByteBurst DEF Shifts
  <1>5. h[k + 1] = Fed(0, d[k + 1]) /\ d[k + 1] \in Byte
    BY <1>1, <1>2
  <1>6. 0 \in Byte
    BY ByteIsNumber
  <1>7. CASE k + 1 = n
    <2>1. d[k + 1] = p * s
      BY <1>3, <1>5, <1>7, ByteIsNumber
    <2>2. h[n] = ShiftByte(p * s)
      BY <1>5, <1>6, <1>7, <2>1, FedJoined
    <2>3. QED
      BY <1>4, <2>2
  <1>8. CASE k + 2 = n
    <2>1. d[k + 2] \in Byte /\ (k + 1) + 1 = k + 2 /\ k + 1 \in Nat
      BY <1>8
    <2>2. h[k + 2] = Fed(Fed(0, d[k + 1]), d[k + 2])
      BY <1>1, <1>5, <1>8, <2>1
    <2>3. d[k + 1] + 256 * d[k + 2] = p * s
      BY <1>3, <1>5, <1>8, <2>1, ByteIsNumber
    <2>4. h[n] = ShiftByte(ShiftByte(p * s))
      BY <1>5, <1>6, <1>8, <2>1, <2>2, <2>3, FedJoined
    <2>5. QED
      BY <1>4, <2>4, ByteKeeps
  <1>9. CASE k + 3 <= n
    <2>1. /\ d[k + 2] \in Byte /\ (k + 1) + 1 = k + 2 /\ k + 1 \in Nat
          /\ d[k + 3] \in Byte /\ (k + 2) + 1 = k + 3 /\ k + 2 \in Nat
          /\ k + 2 <= n
      BY <1>9
    <2>2. h[k + 2] = Fed(Fed(0, d[k + 1]), d[k + 2])
      BY <1>1, <1>5, <2>1
    <2>3. h[k + 3] = Fed(Fed(Fed(0, d[k + 1]), d[k + 2]), d[k + 3])
      BY <1>1, <1>9, <2>1, <2>2
    <2>4. d[k + 1] + 256 * d[k + 2] + 65536 * d[k + 3] = p * s
      BY <1>3, <1>9, <2>1
    <2>5. h[k + 3] = ShiftByte(ShiftByte(ShiftByte(p * s)))
      BY <1>5, <2>1, <2>3, <2>4, FedJoined
    <2>6. h[k + 3] \in Flaws
      BY <1>4, <2>5, ByteKeeps
    <2> DEFINE T == {i \in Nat : k + 3 <= i /\ i <= n => h[i] \in Flaws}
    <2>7. 0 \in T
      OBVIOUS
    <2>8. ASSUME NEW i \in Nat, i \in T PROVE i + 1 \in T
      <3>1. SUFFICES ASSUME k + 3 <= i + 1, i + 1 <= n
                     PROVE  h[i + 1] \in Flaws
        OBVIOUS
      <3>2. CASE k + 3 = i + 1
        BY <2>6, <3>2
      <3>3. CASE k + 3 # i + 1
        <4>1. h[i] \in Flaws /\ d[i + 1] = 0
          BY <2>8, <3>1, <3>3
        <4>2. h[i + 1] = Fed(h[i], 0)
          BY <1>1, <3>1, <4>1
        <4>3. BitXor(h[i], 0) = h[i]
          BY <4>1, XorSelf DEF Flaws
        <4>4. QED
          BY <4>1, <4>2, <4>3, ByteKeeps DEF Fed
      <3>4. QED
        BY <3>2, <3>3
    <2>9. Nat \subseteq T
      <3> HIDE DEF T
      <3> QED BY <2>7, <2>8, SetInduction
    <2>10. QED
      BY <1>9, <2>9
  <1>10. QED
    BY <1>7, <1>8, <1>9

\* A half that a burst went through is not valid any more.
LEMMA HalfDetects ==
    ASSUME NEW u \in Seq(Byte), NEW v \in Seq(Byte), NEW from \in Nat, NEW n \in Nat,
           from + n + 2 <= Len(u), from + n + 2 <= Len(v),
           NEW d, Differs(u, v, from, n + 2, d),
           NEW k, OnlyAt(d, n + 2, k), Burst(FlawAt(d, n + 2, k)),
           HalfValid(u, from, n)
    PROVE  ~HalfValid(v, from, n)
  <1> SUFFICES ASSUME HalfValid(v, from, n) PROVE FALSE
    OBVIOUS
  <1>1. n + 2 \in Nat
    OBVIOUS
  <1>2. PICK f : Feeds(f, u, from, n + 2) /\ f[n + 2] = 0
    BY HalfFeeds
  <1>3. PICK g : Feeds(g, v, from, n + 2) /\ g[n + 2] = 0
    BY HalfFeeds
  <1>4. PICK h : Feeds(h, d, 0, n + 2) /\ h[n + 2] = BitXor(f[n + 2], g[n + 2])
    BY <1>1, <1>2, <1>3, FeedsLinear
  <1>5. h[n + 2] \in Flaws
    BY <1>1, <1>4, BurstStays
  <1>6. h[n + 2] = 0
    BY <1>2, <1>3, <1>4, XorEquations
  <1>7. QED
    BY <1>5, <1>6 DEF Flaws

\* A burst is a number other than zero, and sixteen bits are one.
LEMMA BurstValues ==
    /\ \A n : Burst(n) => n \in Nat /\ n # 0
    /\ \A n \in Nat : n # 0 /\ n < 65536 => Burst(n)
  <1>1. ASSUME NEW n, Burst(n) PROVE n \in Nat /\ n # 0
    <2>1. PICK p \in Flaws, s \in Shifts : n = p * s
      BY <1>1 DEF Burst
    <2>2. p \in Nat /\ p > 0
      BY DEF Flaws
    <2>3. QED
      BY <2>1, <2>2 DEF Shifts
  <1>2. ASSUME NEW n \in Nat, n # 0, n < 65536 PROVE Burst(n)
    <2>1. n \in Flaws /\ 1 \in Shifts /\ n = n * 1
      BY <1>2 DEF Flaws, Shifts
    <2>2. QED
      BY <2>1 DEF Burst
  <1>3. QED
    BY <1>1, <1>2

\* The two halves of a report, and what of a burst is in each.
LEMMA HalvesDiffer ==
    ASSUME NEW u, NEW v, NEW e, Differs(u, v, 0, 18, e), NEW k, OnlyAt(e, 18, k),
           NEW d, d = [i \in 1 .. 14 |-> e[4 + i]]
    PROVE  /\ Differs(u, v, 0, 4, e) /\ Differs(u, v, 4, 14, d)
           /\ k < 4 => OnlyAt(e, 4, k)
           /\ k \in {2, 3} => OnlyAt(d, 14, 0)
           /\ k >= 4 => OnlyAt(d, 14, k - 4)
  <1>1. Differs(u, v, 0, 4, e)
    <2>1. ASSUME NEW i \in 1 .. 4 PROVE i \in 1 .. 18
      OBVIOUS
    <2>2. QED
      BY <2>1 DEF Differs
  <1>2. ASSUME NEW i \in 1 .. 14
        PROVE  4 + i \in 1 .. 18 /\ 0 + (4 + i) = 4 + i /\ d[i] = e[4 + i]
    OBVIOUS
  <1>3. Differs(u, v, 4, 14, d)
    <2>1. ASSUME NEW i \in 1 .. 14
          PROVE  /\ u[4 + i] \in Byte /\ v[4 + i] \in Byte /\ d[i] \in Byte
                 /\ v[4 + i] = BitXor(u[4 + i], d[i])
      <3> DEFINE j == 4 + i
      <3>1. j \in 1 .. 18 /\ 0 + j = j /\ d[i] = e[j]
        BY <1>2
      <3> HIDE DEF j
      <3>2. /\ u[j] \in Byte /\ v[j] \in Byte /\ e[j] \in Byte
            /\ v[j] = BitXor(u[j], e[j])
        BY <3>1 DEF Differs
      <3>3. QED
        BY <3>1, <3>2 DEF j
    <2>2. QED
      BY <2>1 DEF Differs
  <1>4. ASSUME k < 4 PROVE OnlyAt(e, 4, k)
    BY <1>4 DEF OnlyAt
  <1>5. ASSUME k \in {2, 3} PROVE OnlyAt(d, 14, 0)
    <2>1. ASSUME NEW i \in 1 .. 14
          PROVE  d[i] \in Byte /\ (i <= 0 \/ i > 0 + 3 => d[i] = 0)
      <3>1. 4 + i \in 1 .. 18 /\ d[i] = e[4 + i] /\ i > 0
            /\ (i > 3 => 4 + i > k + 3)
        BY <1>2, <1>5
      <3>2. QED
        BY <3>1 DEF OnlyAt
    <2>2. QED
      BY <2>1 DEF OnlyAt
  <1>6. ASSUME k >= 4 PROVE OnlyAt(d, 14, k - 4)
    <2>1. k \in Nat /\ k < 18 /\ k - 4 \in Nat /\ k - 4 < 14
      BY <1>6 DEF OnlyAt
    <2>2. ASSUME NEW i \in 1 .. 14
          PROVE  d[i] \in Byte /\ (i <= k - 4 \/ i > (k - 4) + 3 => d[i] = 0)
      <3>1. 4 + i \in 1 .. 18 /\ d[i] = e[4 + i]
            /\ (i <= k - 4 => 4 + i <= k) /\ (i > (k - 4) + 3 => 4 + i > k + 3)
        BY <1>2, <2>1
      <3>2. QED
        BY <3>1 DEF OnlyAt
    <2>3. QED
      BY <2>1, <2>2 DEF OnlyAt
  <1>7. QED
    BY <1>1, <1>3, <1>4, <1>5, <1>6

\* A burst leaves a flaw in one of the halves.
LEMMA FlawInHalf ==
    ASSUME NEW e, NEW k, OnlyAt(e, 18, k), Burst(FlawAt(e, 18, k)),
           NEW d, d = [i \in 1 .. 14 |-> e[4 + i]]
    PROVE  \/ k < 4 /\ Burst(FlawAt(e, 4, k))
           \/ k \in {2, 3} /\ Burst(FlawAt(d, 14, 0))
           \/ k >= 4 /\ Burst(FlawAt(d, 14, k - 4))
  <1>1. /\ k \in Nat /\ k < 18
        /\ \A i \in 1 .. 18 : e[i] \in Nat /\ e[i] < 256
        /\ \A i \in 1 .. 18 : i <= k \/ i > k + 3 => e[i] = 0
    BY ByteIsNumber DEF OnlyAt
  <1>2. \A i \in 1 .. 14 : d[i] = e[4 + i]
    OBVIOUS
  <1>3. CASE k < 2
    <2>1. FlawAt(e, 4, k) = FlawAt(e, 18, k)
      BY <1>1, <1>3 DEF FlawAt
    <2>2. QED
      BY <1>1, <1>3, <2>1
  <1>4. CASE k = 2 \/ k = 3
    <2> DEFINE a == e[k + 1]
               b == e[k + 2]
               c == e[k + 3]
    <2>1. /\ a \in Nat /\ a < 256 /\ b \in Nat /\ b < 256
          /\ c \in Nat /\ c < 256
      BY <1>1, <1>4
    <2>2. FlawAt(e, 18, k) = a + 256 * b + 65536 * c
      BY <1>4 DEF FlawAt
    <2>3. FlawAt(e, 18, k) # 0
      BY BurstValues
    <2>4. d[1] = e[5] /\ d[2] = e[6] /\ d[3] = e[7] /\ e[7] = 0
      BY <1>1, <1>2, <1>4
    <2>5. CASE k = 2
      <3>1. FlawAt(e, 4, k) = a + 256 * b
        BY <2>1, <2>5 DEF FlawAt
      <3>2. b = e[4] /\ c = e[5] /\ e[6] = 0
        BY <1>1, <2>5
      <3> HIDE DEF a, b, c
      <3>3. FlawAt(d, 14, 0) = c
        BY <2>1, <2>4, <3>2 DEF FlawAt
      <3>4. \/ a + 256 * b # 0 /\ a + 256 * b < 65536 /\ a + 256 * b \in Nat
            \/ c # 0 /\ c < 65536
        BY <2>1, <2>2, <2>3
      <3>5. Burst(a + 256 * b) \/ Burst(c)
        BY <2>1, <3>4, BurstValues
      <3>6. QED
        BY <2>5, <3>1, <3>3, <3>5
    <2>6. CASE k = 3
      <3>1. FlawAt(e, 4, k) = a
        BY <2>1, <2>6 DEF FlawAt
      <3>2. b = e[5] /\ c = e[6]
        BY <2>6
      <3> HIDE DEF a, b, c
      <3>3. FlawAt(d, 14, 0) = b + 256 * c
        BY <2>1, <2>4, <3>2 DEF FlawAt
      <3>4. \/ b + 256 * c # 0 /\ b + 256 * c < 65536 /\ b + 256 * c \in Nat
            \/ a # 0 /\ a < 65536
        BY <2>1, <2>2, <2>3
      <3>5. Burst(b + 256 * c) \/ Burst(a)
        BY <2>1, <3>4, BurstValues
      <3>6. QED
        BY <2>6, <3>1, <3>3, <3>5
    <2>7. QED
      BY <1>4, <2>5, <2>6
  <1>5. CASE k >= 4
    <2> DEFINE j == k - 4
    <2>1. j \in Nat /\ j < 14 /\ k = j + 4
      BY <1>1, <1>5
    <2>2. /\ d[j + 1] = e[k + 1]
          /\ j + 2 <= 14 => d[j + 2] = e[k + 2]
          /\ j + 3 <= 14 => d[j + 3] = e[k + 3]
          /\ j + 2 <= 14 <=> k + 2 <= 18
          /\ j + 3 <= 14 <=> k + 3 <= 18
      BY <1>2, <2>1
    <2>3. FlawAt(d, 14, j) = FlawAt(e, 18, k)
      <3> HIDE DEF j
      <3> QED BY <2>2 DEF FlawAt
    <2>4. QED
      BY <1>5, <2>3
  <1>6. QED
    BY <1>1, <1>3, <1>4, <1>5

\* A burst in a valid report is seen by the CRC of the half it is in, or by
\* one of the two when it runs across them.
LEMMA ReportDetects ==
    ASSUME NEW u \in Seq(Byte), NEW v \in Seq(Byte), Len(u) >= 18, Len(v) >= 18,
           NEW e, Differs(u, v, 0, 18, e),
           NEW k, OnlyAt(e, 18, k), Burst(FlawAt(e, 18, k)),
           HalfValid(u, 0, 2), HalfValid(u, 4, 12)
    PROVE  ~(HalfValid(v, 0, 2) /\ HalfValid(v, 4, 12))
  <1> DEFINE d == [i \in 1 .. 14 |-> e[4 + i]]
  <1>1. d = [i \in 1 .. 14 |-> e[4 + i]]
    OBVIOUS
  <1>2. /\ 2 + 2 = 4 /\ 12 + 2 = 14
        /\ 0 + 2 + 2 <= Len(u) /\ 0 + 2 + 2 <= Len(v)
        /\ 4 + 12 + 2 <= Len(u) /\ 4 + 12 + 2 <= Len(v)
        /\ 0 \in Nat /\ 2 \in Nat /\ 4 \in Nat /\ 12 \in Nat
    OBVIOUS
  <1> HIDE DEF d
  <1>3. /\ Differs(u, v, 0, 4, e) /\ Differs(u, v, 4, 14, d)
        /\ k < 4 => OnlyAt(e, 4, k)
        /\ k \in {2, 3} => OnlyAt(d, 14, 0)
        /\ k >= 4 => OnlyAt(d, 14, k - 4)
    BY <1>1, HalvesDiffer
  <1>4. ASSUME OnlyAt(e, 4, k), Burst(FlawAt(e, 4, k)) PROVE ~HalfValid(v, 0, 2)
    BY <1>2, <1>3, <1>4, HalfDetects
  <1>5. ASSUME NEW j, OnlyAt(d, 14, j), Burst(FlawAt(d, 14, j))
        PROVE  ~HalfValid(v, 4, 12)
    BY <1>2, <1>3, <1>5, HalfDetects
  <1>6. QED
    BY <1>1, <1>3, <1>4, <1>5, FlawInHalf

-----------------------------------------------------------------------------
(* The report of a reading *)

\* A word is read back from its two bytes.
LEMMA WordBytes ==
    ASSUME NEW w \in Word16
    PROVE  /\ Bytes(w) \in Seq(Byte) /\ Len(Bytes(w)) = 2
           /\ Bytes(w)[1] + 256 * Bytes(w)[2] = w
  <1>1. /\ w \in Nat /\ w % 256 \in Nat /\ w % 256 < 256
        /\ w \div 256 \in Nat /\ w \div 256 < 256
        /\ (w % 256) + 256 * (w \div 256) = w
    <2>1. w \in Nat /\ w < 65536
      BY WordIs
    <2>2. QED
      BY <2>1
  <1>2. w % 256 \in Byte /\ w \div 256 \in Byte
    BY <1>1, ByteIsNumber
  <1>3. QED
    BY <1>1, <1>2 DEF Bytes

\* The range of an axis, and its two fields.
LEMMA AxisIs ==
    ASSUME NEW axis \in AxisValues
    PROVE  /\ axis.data \in Int /\ -2048 <= axis.data /\ axis.data <= 2047
           /\ axis.dataOK \in BOOLEAN
           /\ axis = [data |-> axis.data, dataOK |-> axis.dataOK]
  <1> DEFINE first == -2048
             last  == 2047
  <1>1. axis \in [data : first .. last, dataOK : BOOLEAN]
    BY DEF AxisValues
  <1>2. first \in Int /\ last \in Int
    OBVIOUS
  <1> HIDE DEF first, last
  <1>3. /\ axis.data \in Int /\ first <= axis.data /\ axis.data <= last
        /\ axis.dataOK \in BOOLEAN
    BY <1>1, <1>2
  <1>4. axis = [data |-> axis.data, dataOK |-> axis.dataOK]
    BY <1>1
  <1>5. QED
    BY <1>3, <1>4 DEF first, last

\* The twelve bits and the flag of an axis come through.
LEMMA AxisRead ==
    ASSUME NEW axis \in AxisValues
    PROVE  AxisWord(axis) \in Word16 /\ Axis(AxisWord(axis)) = axis
  <1> DEFINE data == axis.data
             low  == (data + 4096) % 4096
             flag == IF axis.dataOK THEN 4096 ELSE 0
             word == AxisWord(axis)
  <1>1. /\ data \in Int /\ -2048 <= data /\ data <= 2047
        /\ axis.dataOK \in BOOLEAN
        /\ axis = [data |-> data, dataOK |-> axis.dataOK]
    BY AxisIs
  <1>2. /\ low \in Nat /\ low < 4096
        /\ data >= 0 => low = data
        /\ data < 0 => low = data + 4096
    BY <1>1
  <1>3. flag \in {0, 4096} /\ (flag = 4096 <=> axis.dataOK)
    OBVIOUS
  <1>4. word = low + flag
    BY DEF AxisWord
  <1> HIDE DEF data, low, flag, word
  <1>5. /\ word \in Nat /\ word < 65536 /\ word % 4096 = low
        /\ (word \div 4096) % 2 = 1 <=> flag = 4096
    BY <1>2, <1>3, <1>4
  <1>6. (IF word % 4096 >= 2048 THEN (word % 4096) - 4096 ELSE word % 4096) = data
    BY <1>1, <1>2, <1>5
  <1>7. ((word \div 4096) % 2 = 1) = axis.dataOK
    BY <1>1, <1>3, <1>5
  <1>8. Axis(word) = [data |-> data, dataOK |-> axis.dataOK]
    <2> DEFINE d == IF word % 4096 >= 2048 THEN (word % 4096) - 4096
                    ELSE word % 4096
               f == (word \div 4096) % 2 = 1
    <2>1. Axis(word) = [data |-> d, dataOK |-> f]
      BY DEF Axis
    <2>2. d = data
      BY <1>6
    <2>3. f = axis.dataOK
      BY <1>7
    <2> HIDE DEF d, f
    <2>4. QED
      BY <2>1, <2>2, <2>3
  <1>9. QED
    BY <1>1, <1>5, <1>8, WordIs DEF word

LEMMA PairAppended ==
    ASSUME NEW S, NEW a \in Seq(S), NEW b \in Seq(S), Len(b) = 2
    PROVE  /\ a \o b \in Seq(S) /\ Len(a \o b) = Len(a) + 2
           /\ \A i \in 1 .. Len(a) : (a \o b)[i] = a[i]
           /\ (a \o b)[Len(a) + 1] = b[1] /\ (a \o b)[Len(a) + 2] = b[2]
  <1>1. /\ a \o b \in Seq(S) /\ Len(a \o b) = Len(a) + Len(b)
        /\ \A i \in 1 .. Len(a) : (a \o b)[i] = a[i]
        /\ \A i \in 1 .. Len(b) : (a \o b)[Len(a) + i] = b[i]
    BY TwoParts
  <1>2. 1 \in 1 .. Len(b) /\ 2 \in 1 .. Len(b)
    OBVIOUS
  <1>3. QED
    BY <1>1, <1>2

\* flat has the first k pairs, one after the other
Pairs(flat, pairs, k) ==
    /\ Len(flat) = 2 * k
    /\ \A i \in 1 .. k : /\ flat[2 * i - 1] = pairs[i][1]
                         /\ flat[2 * i] = pairs[i][2]

LEMMA PairAdded ==
    ASSUME NEW S, NEW k \in Nat, NEW pairs, NEW flat \in Seq(S), Pairs(flat, pairs, k),
           NEW last \in Seq(S), Len(last) = 2, last = pairs[k + 1]
    PROVE  flat \o last \in Seq(S) /\ Pairs(flat \o last, pairs, k + 1)
  <1> DEFINE c == flat \o last
  <1>1. Len(flat) = 2 * k
    BY DEF Pairs
  <1>2. /\ c \in Seq(S) /\ Len(c) = 2 * k + 2
        /\ \A i \in 1 .. 2 * k : c[i] = flat[i]
        /\ c[2 * k + 1] = last[1] /\ c[2 * k + 2] = last[2]
    BY <1>1, PairAppended
  <1> HIDE DEF c
  <1>3. ASSUME NEW i \in 1 .. k + 1
        PROVE  c[2 * i - 1] = pairs[i][1] /\ c[2 * i] = pairs[i][2]
    <2>1. CASE i <= k
      <3>1. i \in 1 .. k /\ 2 * i - 1 \in 1 .. 2 * k /\ 2 * i \in 1 .. 2 * k
        BY <2>1
      <3>2. QED
        BY <1>2, <3>1 DEF Pairs
    <2>2. CASE i = k + 1
      <3>1. 2 * i - 1 = 2 * k + 1 /\ 2 * i = 2 * k + 2
        BY <2>2
      <3>2. QED
        BY <1>2, <2>2, <3>1
    <2>3. QED
      BY <2>1, <2>2
  <1>4. Len(c) = 2 * (k + 1)
    BY <1>2
  <1>5. QED
    BY <1>2, <1>3, <1>4 DEF c, Pairs

\* Flattened pairs are read back two by two.
LEMMA PairsFlattened ==
    ASSUME NEW S, NEW pairs \in Seq(Seq(S)),
           \A i \in 1 .. Len(pairs) : Len(pairs[i]) = 2
    PROVE  /\ FlattenSeq(pairs) \in Seq(S)
           /\ Pairs(FlattenSeq(pairs), pairs, Len(pairs))
  <1> DEFINE flat(k) == FlattenSeq(SubSeq(pairs, 1, k))
             T == {k \in Nat : k <= Len(pairs) =>
                                   flat(k) \in Seq(S) /\ Pairs(flat(k), pairs, k)}
  <1>1. 0 \in T
    <2>1. flat(0) = <<>>
      BY WholeFront, FlattenEmpty
    <2>2. <<>> \in Seq(S) /\ Len(<<>>) = 2 * 0
      BY EmptySeq
    <2> HIDE DEF flat
    <2>3. Pairs(flat(0), pairs, 0)
      BY <2>1, <2>2 DEF Pairs
    <2>4. QED
      BY <2>1, <2>2, <2>3
  <1>2. ASSUME NEW k \in Nat, k \in T PROVE k + 1 \in T
    <2>1. SUFFICES ASSUME k + 1 <= Len(pairs)
                   PROVE  /\ flat(k + 1) \in Seq(S)
                          /\ Pairs(flat(k + 1), pairs, k + 1)
      OBVIOUS
    <2>2. /\ SubSeq(pairs, 1, k) \in Seq(Seq(S)) /\ pairs[k + 1] \in Seq(S)
          /\ SubSeq(pairs, 1, k + 1) = Append(SubSeq(pairs, 1, k), pairs[k + 1])
      BY <2>1, FrontStep
    <2>3. flat(k + 1) = flat(k) \o pairs[k + 1]
      BY <2>2, FlattenAppend
    <2>4. flat(k) \in Seq(S) /\ Pairs(flat(k), pairs, k)
      BY <1>2, <2>1
    <2>5. Len(pairs[k + 1]) = 2
      BY <2>1
    <2> HIDE DEF flat
    <2>6. /\ flat(k) \o pairs[k + 1] \in Seq(S)
          /\ Pairs(flat(k) \o pairs[k + 1], pairs, k + 1)
      <3> DEFINE last == pairs[k + 1]
      <3>1. last \in Seq(S) /\ Len(last) = 2 /\ last = pairs[k + 1]
        BY <2>2, <2>5
      <3> HIDE DEF last
      <3>2. flat(k) \o last \in Seq(S) /\ Pairs(flat(k) \o last, pairs, k + 1)
        BY <2>4, <3>1, PairAdded
      <3>3. QED
        BY <3>1, <3>2
    <2>7. QED
      BY <2>3, <2>6
  <1>3. Nat \subseteq T
    <2> HIDE DEF T
    <2> QED BY <1>1, <1>2, SetInduction
  <1>4. Len(pairs) \in Nat /\ Len(pairs) <= Len(pairs)
    OBVIOUS
  <1>5. SubSeq(pairs, 1, Len(pairs)) = pairs
    BY WholeFront
  <1> HIDE DEF flat
  <1>6. flat(Len(pairs)) \in Seq(S) /\ Pairs(flat(Len(pairs)), pairs, Len(pairs))
    BY <1>3, <1>4
  <1>7. QED
    BY <1>5, <1>6 DEF flat

\* The CRC fits its two bytes.
LEMMA CrcIsWord ==
    ASSUME NEW data \in Seq(Byte)
    PROVE  compute_crc16(data) \in Word16
  <1>1. Len(data) \in Nat /\ \A i \in 1 .. Len(data) : data[0 + i] \in Byte
    OBVIOUS
  <1>2. PICK f : Feeds(f, data, 0, Len(data)) /\ compute_crc16(data) = f[Len(data)]
    BY <1>1, CrcFeeds
  <1>3. \A i \in 0 .. Len(data) : f[i] \in Word16
    BY <1>1, <1>2, FeedsWords
  <1>4. QED
    BY <1>1, <1>2, <1>3

\* A guarded half: the bytes, and the CRC that is right for them.
LEMMA GuardedHalf ==
    ASSUME NEW data \in Seq(Byte)
    PROVE  /\ Guarded(data) \in Seq(Byte) /\ Len(Guarded(data)) = Len(data) + 2
           /\ \A i \in 1 .. Len(data) : Guarded(data)[i] = data[i]
           /\ Word(Guarded(data), Len(data) + 1) = compute_crc16(data)
  <1> DEFINE crc == compute_crc16(data)
             tail == Bytes(crc)
  <1>1. crc \in Word16
    BY CrcIsWord
  <1> HIDE DEF crc
  <1>2. tail \in Seq(Byte) /\ Len(tail) = 2 /\ tail[1] + 256 * tail[2] = crc
    BY <1>1, WordBytes
  <1>3. Guarded(data) = data \o tail
    BY DEF Guarded, crc
  <1> HIDE DEF tail
  <1>4. /\ data \o tail \in Seq(Byte) /\ Len(data \o tail) = Len(data) + 2
        /\ \A i \in 1 .. Len(data) : (data \o tail)[i] = data[i]
        /\ (data \o tail)[Len(data) + 1] = tail[1]
        /\ (data \o tail)[Len(data) + 2] = tail[2]
    BY <1>2, PairAppended
  <1>5. (Len(data) + 1) + 1 = Len(data) + 2
    OBVIOUS
  <1>6. QED
    BY <1>2, <1>3, <1>4, <1>5 DEF Word, crc

\* The bytes of the six axes, and their words.
LEMMA AxesWritten ==
    ASSUME NEW axes \in [1 .. 6 -> AxisValues]
    PROVE  LET flat == FlattenSeq([k \in 1 .. 6 |-> Bytes(AxisWord(axes[k]))])
           IN  /\ flat \in Seq(Byte) /\ Len(flat) = 12
               /\ \A k \in 1 .. 6 :
                     flat[2 * k - 1] + 256 * flat[2 * k] = AxisWord(axes[k])
  <1> DEFINE pairs == [k \in 1 .. 6 |-> Bytes(AxisWord(axes[k]))]
             flat  == FlattenSeq(pairs)
  <1>1. ASSUME NEW k \in 1 .. 6
        PROVE  /\ pairs[k] = Bytes(AxisWord(axes[k]))
               /\ pairs[k] \in Seq(Byte) /\ Len(pairs[k]) = 2
               /\ pairs[k][1] + 256 * pairs[k][2] = AxisWord(axes[k])
    <2>1. AxisWord(axes[k]) \in Word16
      BY AxisRead
    <2>2. pairs[k] = Bytes(AxisWord(axes[k]))
      OBVIOUS
    <2> HIDE DEF pairs
    <2>3. QED
      BY <2>1, <2>2, WordBytes
  <1>2. pairs = [k \in 1 .. 6 |-> pairs[k]]
    OBVIOUS
  <1> HIDE DEF pairs
  <1>3. pairs \in Seq(Seq(Byte)) /\ Len(pairs) = 6
    BY <1>1, <1>2
  <1>4. flat \in Seq(Byte) /\ Pairs(flat, pairs, 6)
    BY <1>1, <1>3, PairsFlattened
  <1>5. /\ flat \in Seq(Byte) /\ Len(flat) = 2 * 6
        /\ \A k \in 1 .. 6 : /\ flat[2 * k - 1] = pairs[k][1]
                             /\ flat[2 * k] = pairs[k][2]
    BY <1>4, Zenon DEF Pairs
  <1> HIDE DEF flat
  <1>6. \A k \in 1 .. 6 :
            flat[2 * k - 1] + 256 * flat[2 * k] = AxisWord(axes[k])
    BY <1>1, <1>5, Zenon
  <1>7. Len(flat) = 12
    BY <1>5
  <1>8. QED
    BY <1>5, <1>6, <1>7 DEF flat, pairs

\* A part of a sequence, by its length and its elements.
LEMMA PartIsThis ==
    ASSUME NEW S, NEW w \in Seq(S), NEW m \in Nat, NEW n \in Nat, m + n <= Len(w),
           NEW t \in Seq(S), Len(t) = n, \A i \in 1 .. n : w[m + i] = t[i]
    PROVE  SubSeq(w, m + 1, m + n) = t
  <1>1. \A i \in 1 .. Len(t) : w[(m + 1) + i - 1] = t[i]
    OBVIOUS
  <1>2. SubSeq(w, m + 1, m + Len(t)) = t
    BY <1>1
  <1>3. QED
    BY <1>2

\* A half is valid when it has the data and their CRC.
LEMMA HalfIsValid ==
    ASSUME NEW w \in Seq(Byte), NEW from \in Nat, NEW n \in Nat, from + n <= Len(w),
           NEW data \in Seq(Byte), Len(data) = n,
           \A i \in 1 .. n : w[from + i] = data[i],
           w[from + n + 1] + 256 * w[from + n + 2] = compute_crc16(data)
    PROVE  HalfValid(w, from, n)
  <1>1. SubSeq(w, from + 1, from + n) = data
    BY PartIsThis
  <1>2. from + n + 2 = (from + n + 1) + 1
    OBVIOUS
  <1>3. QED
    BY <1>1, <1>2 DEF HalfValid, Word

\* A report that was written is valid in both halves, and the reading in it is
\* the one it was written for.
LEMMA ReportWritten ==
    ASSUME NEW reading \in ReadingValues
    PROVE  /\ WriteReport(reading) \in Seq(Byte) /\ Len(WriteReport(reading)) = 18
           /\ HalfValid(WriteReport(reading), 0, 2)
           /\ HalfValid(WriteReport(reading), 4, 12)
           /\ Reading(WriteReport(reading)) = reading
  <1> DEFINE axes == reading.axes
             keys == Bytes(reading.buttons)
             flat == FlattenSeq([k \in 1 .. 6 |-> Bytes(AxisWord(axes[k]))])
             a    == Guarded(keys)
             b    == Guarded(flat)
             w    == a \o b
  <1>1. /\ reading.buttons \in Word16 /\ axes \in [1 .. 6 -> AxisValues]
        /\ reading = [buttons |-> reading.buttons, axes |-> axes]
    BY DEF ReadingValues
  <1>2. WriteReport(reading) = w
    BY DEF WriteReport
  <1> HIDE DEF axes
  <1>3. /\ keys \in Seq(Byte) /\ Len(keys) = 2
        /\ keys[1] + 256 * keys[2] = reading.buttons
    BY <1>1, WordBytes
  <1>4. /\ flat \in Seq(Byte) /\ Len(flat) = 12
        /\ \A k \in 1 .. 6 : flat[2 * k - 1] + 256 * flat[2 * k] = AxisWord(axes[k])
    BY <1>1, AxesWritten
  <1> HIDE DEF keys, flat
  <1>5. /\ a \in Seq(Byte) /\ Len(a) = 4
        /\ \A i \in 1 .. 2 : a[i] = keys[i]
        /\ a[3] + 256 * a[4] = compute_crc16(keys)
    <2>1. Word(a, 2 + 1) = compute_crc16(keys)
      BY <1>3, GuardedHalf
    <2>2. /\ a \in Seq(Byte) /\ Len(a) = 2 + 2
          /\ \A i \in 1 .. 2 : a[i] = keys[i]
      BY <1>3, GuardedHalf
    <2>3. QED
      BY <2>1, <2>2 DEF Word
  <1>6. /\ b \in Seq(Byte) /\ Len(b) = 14
        /\ \A i \in 1 .. 12 : b[i] = flat[i]
        /\ b[13] + 256 * b[14] = compute_crc16(flat)
    <2>1. Word(b, 12 + 1) = compute_crc16(flat)
      BY <1>4, GuardedHalf
    <2>2. /\ b \in Seq(Byte) /\ Len(b) = 12 + 2
          /\ \A i \in 1 .. 12 : b[i] = flat[i]
      BY <1>4, GuardedHalf
    <2>3. QED
      BY <2>1, <2>2 DEF Word
  <1> HIDE DEF a, b
  <1>7. /\ w \in Seq(Byte) /\ Len(w) = 18
        /\ \A i \in 1 .. 4 : w[i] = a[i]
        /\ \A i \in 1 .. 14 : w[4 + i] = b[i]
    <2>1. /\ w \in Seq(Byte) /\ Len(w) = Len(a) + Len(b)
          /\ \A i \in 1 .. Len(a) : w[i] = a[i]
          /\ \A i \in 1 .. Len(b) : w[Len(a) + i] = b[i]
      <3>1. a \in Seq(Byte) /\ b \in Seq(Byte)
        BY <1>5, <1>6
      <3>2. QED
        BY <3>1, TwoParts
    <2> HIDE DEF w
    <2>2. QED
      BY <1>5, <1>6, <2>1
  <1> HIDE DEF w
  <1>8. /\ \A i \in 1 .. 2 : w[i] = keys[i]
        /\ w[3] + 256 * w[4] = compute_crc16(keys)
    BY <1>5, <1>7
  <1>9. /\ \A i \in 1 .. 12 : w[4 + i] = flat[i]
        /\ w[17] + 256 * w[18] = compute_crc16(flat)
    <2>1. w[4 + 13] = b[13] /\ w[4 + 14] = b[14] /\ 4 + 13 = 17 /\ 4 + 14 = 18
      BY <1>7
    <2>2. QED
      BY <1>6, <1>7, <2>1
  <1>10. HalfValid(w, 0, 2)
    <2>1. /\ 0 + 2 <= Len(w) /\ \A i \in 1 .. 2 : w[0 + i] = keys[i]
          /\ w[0 + 2 + 1] + 256 * w[0 + 2 + 2] = compute_crc16(keys)
      BY <1>7, <1>8
    <2>2. QED
      BY <1>3, <1>7, <2>1, HalfIsValid
  <1>11. HalfValid(w, 4, 12)
    <2>1. /\ 4 + 12 <= Len(w)
          /\ w[4 + 12 + 1] + 256 * w[4 + 12 + 2] = compute_crc16(flat)
      BY <1>7, <1>9
    <2>2. QED
      BY <1>4, <1>7, <1>9, <2>1, HalfIsValid
  <1>12. ASSUME NEW k \in 1 .. 6 PROVE Axis(Word(w, 3 + 2 * k)) = axes[k]
    <2>1. /\ 2 * k - 1 \in 1 .. 12 /\ 2 * k \in 1 .. 12
          /\ 4 + (2 * k - 1) = 3 + 2 * k /\ 4 + 2 * k = (3 + 2 * k) + 1
      OBVIOUS
    <2>2. w[3 + 2 * k] = flat[2 * k - 1] /\ w[(3 + 2 * k) + 1] = flat[2 * k]
      BY <1>9, <2>1
    <2>3. Word(w, 3 + 2 * k) = AxisWord(axes[k])
      BY <1>4, <2>2 DEF Word
    <2>4. axes[k] \in AxisValues
      BY <1>1
    <2>5. QED
      BY <2>3, <2>4, AxisRead
  <1>13. Word(w, 1) = reading.buttons
    BY <1>3, <1>8 DEF Word
  <1>14. [k \in 1 .. 6 |-> Axis(Word(w, 3 + 2 * k))] = axes
    BY <1>1, <1>12
  <1>15. Reading(w) = reading
    BY <1>1, <1>13, <1>14 DEF Reading
  <1>16. QED
    BY <1>2, <1>7, <1>10, <1>11, <1>15

\* What decode_combined_payload accepts.
LEMMA DecodesHalves ==
    ASSUME NEW payload
    PROVE  decode_combined_payload(payload) <=>
               /\ Len(payload) >= 18
               /\ HalfValid(payload, 0, 2) /\ HalfValid(payload, 4, 12)
  <1>1. /\ 0 + 1 = 1 /\ 0 + 2 = 2 /\ 2 + 1 = 3
        /\ 4 + 1 = 5 /\ 4 + 12 = 16 /\ 16 + 1 = 17
    OBVIOUS
  <1>2. HalfValid(payload, 0, 2) <=>
            compute_crc16(Keypad(payload)) = Word(payload, 3)
    BY <1>1 DEF HalfValid, Keypad
  <1>3. HalfValid(payload, 4, 12) <=>
            compute_crc16(Axes(payload)) = Word(payload, 17)
    BY <1>1 DEF HalfValid, Axes
  <1>4. QED
    BY <1>2, <1>3, Zenon DEF decode_combined_payload, ReportSize

\* The service loop reads, in a report as it was written, the reading of the
\* handheld: sign and flag of every axis and all buttons survive the packing
\* (frc_combined_data_t, jsCal_t).
THEOREM ReadingsReadBack ==
    ASSUME NEW reading \in ReadingValues
    PROVE  /\ decode_combined_payload(WriteReport(reading))
           /\ Reading(SubSeq(WriteReport(reading), 1, ReportSize)) = reading
  <1> DEFINE u == WriteReport(reading)
  <1>1. /\ u \in Seq(Byte) /\ Len(u) = 18 /\ Reading(u) = reading
        /\ HalfValid(u, 0, 2) /\ HalfValid(u, 4, 12)
    BY ReportWritten
  <1> HIDE DEF u
  <1>2. Len(u) >= 18
    BY <1>1
  <1>3. decode_combined_payload(u)
    BY <1>1, <1>2, DecodesHalves
  <1>4. SubSeq(u, 1, 18) = u
    BY <1>1, WholeFront
  <1>5. QED
    BY <1>1, <1>3, <1>4 DEF ReportSize, u

\* No burst of up to sixteen bits, wherever it strikes a report, is missed by
\* the two CRCs (compute_crc16, decode_combined_payload): e is what it flips
\* in each byte, from the (k+1)-st on.
THEOREM BurstsDetected ==
    ASSUME NEW reading \in ReadingValues, NEW v \in Seq(Byte), Len(v) >= 18,
           NEW e, Differs(WriteReport(reading), v, 0, 18, e),
           NEW k, OnlyAt(e, 18, k), Burst(FlawAt(e, 18, k))
    PROVE  ~decode_combined_payload(v)
  <1> DEFINE u == WriteReport(reading)
  <1>1. /\ u \in Seq(Byte) /\ Len(u) = 18
        /\ HalfValid(u, 0, 2) /\ HalfValid(u, 4, 12)
    BY ReportWritten
  <1> HIDE DEF u
  <1>2. Len(u) >= 18
    BY <1>1
  <1>3. Differs(u, v, 0, 18, e)
    BY DEF u
  <1>4. QED
    BY <1>1, <1>2, <1>3, ReportDetects, DecodesHalves

=============================================================================
