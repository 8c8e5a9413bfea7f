------------------------- MODULE NscExchange_proofs -------------------------
(***************************************************************************)
(* Theorems about the bytes of an exchange, for every list of options,     *)
(* every text and every payload: what the agent builds is what a CoAP peer *)
(* reads, the simplified readers of the agent read what they are meant to, *)
(* and the builders of coapSRCPro fit their rooms.                         *)
(***************************************************************************)
EXTENDS NscExchange, JoystickReport_proofs

-----------------------------------------------------------------------------
(* The loop of a reader, turn by turn *)

Start(from) == [at |-> from, number |-> 0, options |-> <<>>, path |-> <<>>]

Turned(bytes, size, s) ==
    IF AtEnd(bytes, s.at) THEN s ELSE ReadOption(bytes, size, s)

\* f holds the states of the loop up to the k-th turn
Runs(f, bytes, size, from, k) ==
    /\ f[0] = Start(from)
    /\ \A i \in 0 .. k - 1 : f[i + 1] = Turned(bytes, size, f[i])

LEMMA RunExists ==
    ASSUME NEW bytes, NEW size, NEW from, NEW n \in Nat
    PROVE  \E f : Runs(f, bytes, size, from, n)
  <1> DEFINE T == {k \in Nat : \E f : Runs(f, bytes, size, from, k)}
  <1>1. 0 \in T
    <2>1. Runs([i \in Nat |-> Start(from)], bytes, size, from, 0)
      BY DEF Runs
    <2>2. QED
      BY <2>1
  <1>2. ASSUME NEW k \in Nat, k \in T PROVE k + 1 \in T
    <2>1. PICK f : Runs(f, bytes, size, from, k)
      BY <1>2
    <2> DEFINE g == [i \in Nat |->
                        IF i = k + 1 THEN Turned(bytes, size, f[k]) ELSE f[i]]
    <2>2. g[0] = Start(from)
      BY <2>1 DEF Runs
    <2>3. ASSUME NEW i \in 0 .. (k + 1) - 1
          PROVE  g[i + 1] = Turned(bytes, size, g[i])
      <3>1. g[i] = f[i] /\ i \in Nat /\ i + 1 \in Nat
        OBVIOUS
      <3>2. CASE i = k
        BY <3>1, <3>2
      <3>3. CASE i # k
        <4>1. g[i + 1] = f[i + 1] /\ i \in 0 .. k - 1
          BY <3>1, <3>3
        <4>2. f[i + 1] = Turned(bytes, size, f[i])
          BY <2>1, <4>1 DEF Runs
        <4>3. QED
          BY <3>1, <4>1, <4>2
      <3>4. QED
        BY <3>2, <3>3
    <2>4. Runs(g, bytes, size, from, k + 1)
      <3> HIDE DEF g
      <3> QED BY <2>2, <2>3 DEF Runs
    <2>5. QED
      BY <2>4
  <1>3. Nat \subseteq T
    <2> HIDE DEF T
    <2> QED BY <1>1, <1>2, SetInduction
  <1>4. QED
    BY <1>3

LEMMA RunUnique ==
    ASSUME NEW bytes, NEW size, NEW from, NEW n \in Nat, NEW m \in Nat, m <= n,
           NEW f, Runs(f, bytes, size, from, n),
           NEW g, Runs(g, bytes, size, from, m)
    PROVE  f[m] = g[m]
  <1> DEFINE T == {k \in Nat : k <= m => f[k] = g[k]}
  <1>1. 0 \in T
    BY DEF Runs
  <1>2. ASSUME NEW k \in Nat, k \in T PROVE k + 1 \in T
    <2>1. SUFFICES ASSUME k + 1 <= m PROVE f[k + 1] = g[k + 1]
      OBVIOUS
    <2>2. k \in 0 .. n - 1 /\ k \in 0 .. m - 1 /\ k <= m
      BY <2>1
    <2>3. /\ f[k + 1] = Turned(bytes, size, f[k])
          /\ g[k + 1] = Turned(bytes, size, g[k])
      BY <2>2 DEF Runs
    <2>4. f[k] = g[k]
      BY <1>2, <2>2
    <2>5. QED
      BY <2>3, <2>4
  <1>3. Nat \subseteq T
    <2> HIDE DEF T
    <2> QED BY <1>1, <1>2, SetInduction
  <1>4. QED
    BY <1>3

\* The recursive function of Turns exists: it starts and proceeds as written.
LEMMA TurnsDef ==
    ASSUME NEW bytes, NEW size, NEW from
    PROVE  /\ Turns(bytes, size, from)[0] = Start(from)
           /\ \A k \in Nat :
                  Turns(bytes, size, from)[k + 1] =
                      Turned(bytes, size, Turns(bytes, size, from)[k])
  <1> DEFINE upTo(k) == CHOOSE f : Runs(f, bytes, size, from, k)
             p == [k \in Nat |-> upTo(k)[k]]
             turn == Turns(bytes, size, from)
  <1>1. \A k \in Nat : Runs(upTo(k), bytes, size, from, k)
    BY RunExists
  <1> HIDE DEF upTo
  <1>2. p[0] = Start(from)
    BY <1>1 DEF Runs
  <1>3. ASSUME NEW k \in Nat PROVE p[k + 1] = Turned(bytes, size, p[k])
    <2>1. k + 1 \in Nat /\ k <= k + 1 /\ k \in 0 .. (k + 1) - 1
      OBVIOUS
    <2>2. /\ Runs(upTo(k + 1), bytes, size, from, k + 1)
          /\ Runs(upTo(k), bytes, size, from, k)
      BY <1>1, <2>1
    <2>3. upTo(k + 1)[k] = upTo(k)[k]
      BY <2>1, <2>2, RunUnique
    <2>4. upTo(k + 1)[k + 1] = Turned(bytes, size, upTo(k + 1)[k])
      BY <2>1, <2>2, Zenon DEF Runs
    <2>5. QED
      BY <2>1, <2>3, <2>4
  <1>4. p = [k \in Nat |-> IF k = 0 THEN Start(from)
                           ELSE Turned(bytes, size, p[k - 1])]
    <2>1. ASSUME NEW k \in Nat
          PROVE  p[k] = IF k = 0 THEN Start(from)
                        ELSE Turned(bytes, size, p[k - 1])
      <3>1. CASE k = 0
        BY <1>2, <3>1
      <3>2. CASE k # 0
        <4>1. k - 1 \in Nat /\ (k - 1) + 1 = k
          BY <3>2
        <4> HIDE DEF p
        <4>2. p[(k - 1) + 1] = Turned(bytes, size, p[k - 1])
          BY <1>3, <4>1
        <4>3. QED
          BY <3>2, <4>1, <4>2
      <3>3. QED
        BY <3>1, <3>2
    <2>2. p = [k \in Nat |-> p[k]]
      OBVIOUS
    <2> HIDE DEF p
    <2>3. QED
      BY <2>1, <2>2
  <1>5. turn = [k \in Nat |-> IF k = 0 THEN Start(from)
                              ELSE Turned(bytes, size, turn[k - 1])]
    <2> HIDE DEF p
    <2>1. QED
      BY <1>4, Zenon DEF Turns, Turned, Start
  <1> HIDE DEF turn
  <1>6. \A k \in Nat : turn[k] = IF k = 0 THEN Start(from)
                                 ELSE Turned(bytes, size, turn[k - 1])
    BY <1>5, Zenon
  <1>7. ASSUME NEW k \in Nat
        PROVE  turn[k + 1] = Turned(bytes, size, turn[k])
    <2>1. k + 1 \in Nat /\ k + 1 # 0 /\ (k + 1) - 1 = k
      OBVIOUS
    <2>2. turn[k + 1] = Turned(bytes, size, turn[(k + 1) - 1])
      BY <1>6, <2>1, Zenon
    <2>3. QED
      BY <2>1, <2>2
  <1>8. turn[0] = Start(from)
    BY <1>6
  <1>9. QED
    BY <1>7, <1>8 DEF turn

-----------------------------------------------------------------------------
(* One option *)

LEMMA ByteIs == \A b : b \in Byte <=> b \in Nat /\ b < 256
  BY DEF Byte

LEMMA ShortIs ==
    /\ ShortSize = 65536
    /\ \A n : n \in Short <=> n \in Nat /\ n < 65536
  BY DEF Short, ShortSize

LEMMA ShortFacts ==
    /\ ShortSize \in Nat
    /\ \A n \in Short : n \in Nat /\ n < ShortSize /\ n % ShortSize = n
    /\ \A n \in Short : \A m \in Nat : m <= n => m \in Short
  BY ShortIs

\* the deltas and lengths a reader with variables of that size understands
Limit(size) == IF size = 16 THEN 13 ELSE size

Sizes == {16, 256, ShortSize}

LEMMA LimitBound ==
    ASSUME NEW size \in Sizes
    PROVE  /\ size \in Nat /\ Limit(size) \in Nat /\ Limit(size) <= ShortSize
           /\ size = 16 => Limit(size) = 13
           /\ size # 16 => Limit(size) = size
           /\ \A n \in Nat : n < Limit(size) => n \in Short
  BY ShortIs DEF Sizes, Limit

\* The two bytes of a number.
LEMMA DivMod ==
    ASSUME NEW m \in Short
    PROVE  /\ m \div 256 \in Byte /\ m % 256 \in Byte
           /\ 256 * (m \div 256) + (m % 256) = m
  <1>1. /\ m \div 256 \in Int /\ m % 256 \in Nat /\ m % 256 < 256
        /\ m = 256 * (m \div 256) + (m % 256)
    BY ShortFacts
  <1>2. m \div 256 >= 0 /\ m \div 256 <= 255
    BY <1>1, ShortIs
  <1>3. QED
    BY <1>1, <1>2, ByteIs

\* Nibble and Extended of the three kinds of numbers.
LEMMA FieldCases ==
    ASSUME NEW n \in Short
    PROVE  \/ n < 13 /\ Nibble(n) = n /\ Extended(n) = <<>>
           \/ /\ ~(n < 13) /\ n < 269 /\ Nibble(n) = 13
              /\ \E a \in Byte : Extended(n) = <<a>> /\ n = 13 + a
           \/ /\ ~(n < 269) /\ Nibble(n) = 14
              /\ \E a, b \in Byte :
                    Extended(n) = <<a, b>> /\ n = 269 + 256 * a + b
  <1> n \in Nat
    BY ShortFacts
  <1>1. CASE n < 13
    BY <1>1 DEF Nibble, Extended
  <1>2. CASE ~(n < 13) /\ n < 269
    <2>1. n - 13 \in Byte /\ n = 13 + (n - 13)
      BY <1>2, ByteIs
    <2>2. Nibble(n) = 13 /\ Extended(n) = <<n - 13>>
      BY <1>2 DEF Nibble, Extended
    <2>3. QED
      BY <1>2, <2>1, <2>2
  <1>3. CASE ~(n < 269)
    <2> DEFINE m == n - 269
               a == m \div 256
               b == m % 256
    <2>1. Nibble(n) = 14 /\ Extended(n) = <<a, b>>
      BY <1>3 DEF Nibble, Extended
    <2>2. m \in Short /\ n = 269 + m
      BY <1>3, ShortIs
    <2> HIDE DEF m
    <2>3. a \in Byte /\ b \in Byte /\ m = 256 * a + b
      BY <2>2, DivMod
    <2> HIDE DEF a, b
    <2>4. n = 269 + 256 * a + b
      BY <2>2, <2>3, ByteIs, ShortFacts
    <2>5. QED
      BY <1>3, <2>1, <2>3, <2>4
  <1>4. QED
    BY <1>1, <1>2, <1>3

\* What encodeOption writes of a delta or a length has this form.
LEMMA FieldWritten ==
    ASSUME NEW n \in Short
    PROVE  /\ Nibble(n) \in Nat /\ Nibble(n) < 15
           /\ Extended(n) \in Seq(Byte)
  <1>1. CASE n < 13 /\ Nibble(n) = n /\ Extended(n) = <<>>
    BY <1>1, EmptySeq, ShortFacts
  <1>2. ASSUME NEW a \in Byte, Nibble(n) = 13, Extended(n) = <<a>>
        PROVE  /\ Nibble(n) \in Nat /\ Nibble(n) < 15
               /\ Extended(n) \in Seq(Byte)
    BY <1>2
  <1>3. ASSUME NEW a \in Byte, NEW b \in Byte,
               Nibble(n) = 14, Extended(n) = <<a, b>>
        PROVE  /\ Nibble(n) \in Nat /\ Nibble(n) < 15
               /\ Extended(n) \in Seq(Byte)
    BY <1>3
  <1>4. QED
    BY <1>1, <1>2, <1>3, FieldCases

\* part is found in bytes, from byte at on
Found(bytes, at, part) ==
    \A i \in 1 .. Len(part) : bytes[at - 1 + i] = part[i]

\* A reader gets back from it what was written.
LEMMA FieldRead ==
    ASSUME NEW size \in Sizes, NEW n \in Nat, n < Limit(size),
           NEW bytes, NEW j \in Nat, Found(bytes, j, Extended(n))
    PROVE  /\ Width(size, Nibble(n)) = Len(Extended(n))
           /\ Field(bytes, size, Nibble(n), j) = n
  <1>1. n \in Short
    BY LimitBound
  <1>2. CASE n < 13 /\ Nibble(n) = n /\ Extended(n) = <<>>
    <2>1. Width(size, n) = 0 /\ Len(<<>>) = 0
      BY <1>2 DEF Width
    <2>2. Field(bytes, size, n, j) = n
      BY <2>1 DEF Field
    <2>3. QED
      BY <1>2, <2>1, <2>2
  <1>3. ASSUME ~(n < 13) PROVE size # 16 /\ n < size /\ n % size = n
    <2>1. size # 16 /\ n < size /\ size \in Nat
      BY <1>3, LimitBound
    <2>2. QED
      BY <2>1
  <1>4. ASSUME ~(n < 13), Nibble(n) = 13,
               NEW a \in Byte, Extended(n) = <<a>>, n = 13 + a
        PROVE  /\ Width(size, Nibble(n)) = Len(Extended(n))
               /\ Field(bytes, size, Nibble(n), j) = n
    <2>1. Len(Extended(n)) = 1 /\ Extended(n)[1] = a /\ j - 1 + 1 = j
      BY <1>4
    <2>2. bytes[j] = a
      <3>1. 1 \in 1 .. Len(Extended(n))
        BY <2>1
      <3>2. bytes[j - 1 + 1] = Extended(n)[1]
        BY <3>1, Zenon DEF Found
      <3>3. QED
        BY <2>1, <3>2
    <2>3. Width(size, 13) = 1
      BY <1>3, <1>4 DEF Width
    <2>4. Field(bytes, size, 13, j) = n
      BY <1>3, <1>4, <2>2, <2>3 DEF Field
    <2>5. QED
      BY <1>4, <2>1, <2>3, <2>4
  <1>5. ASSUME ~(n < 13), Nibble(n) = 14, NEW a \in Byte, NEW b \in Byte,
               Extended(n) = <<a, b>>, n = 269 + 256 * a + b
        PROVE  /\ Width(size, Nibble(n)) = Len(Extended(n))
               /\ Field(bytes, size, Nibble(n), j) = n
    <2>1. /\ Len(Extended(n)) = 2 /\ Extended(n)[1] = a /\ Extended(n)[2] = b
          /\ j - 1 + 1 = j /\ j - 1 + 2 = j + 1
      BY <1>5
    <2>2. bytes[j] = a /\ bytes[j + 1] = b
      <3>1. 1 \in 1 .. Len(Extended(n)) /\ 2 \in 1 .. Len(Extended(n))
        BY <2>1
      <3>2. /\ bytes[j - 1 + 1] = Extended(n)[1]
            /\ bytes[j - 1 + 2] = Extended(n)[2]
        BY <3>1, Zenon DEF Found
      <3>3. QED
        BY <2>1, <3>2
    <2>3. Width(size, 14) = 2
      BY <1>3, <1>5 DEF Width
    <2>4. Field(bytes, size, 14, j) = n
      BY <1>3, <1>5, <2>2, <2>3 DEF Field
    <2>5. QED
      BY <1>5, <2>1, <2>3, <2>4
  <1>6. n < 269 => ~(n < 13) \/ n < 13
    OBVIOUS
  <1>7. ~(n < 269) => ~(n < 13)
    OBVIOUS
  <1>8. QED
    BY <1>1, <1>2, <1>4, <1>5, <1>7, FieldCases

\* s consists of four parts
Parts(s, a, b, c, d) ==
    /\ Len(s) = Len(a) + Len(b) + Len(c) + Len(d)
    /\ \A i \in 1 .. Len(a) : s[i] = a[i]
    /\ \A i \in 1 .. Len(b) : s[Len(a) + i] = b[i]
    /\ \A i \in 1 .. Len(c) : s[Len(a) + Len(b) + i] = c[i]
    /\ \A i \in 1 .. Len(d) : s[Len(a) + Len(b) + Len(c) + i] = d[i]

\* Where the parts of a concatenation of four are.
LEMMA FourParts ==
    ASSUME NEW S, NEW a \in Seq(S), NEW b \in Seq(S), NEW c \in Seq(S),
           NEW d \in Seq(S)
    PROVE  a \o b \o c \o d \in Seq(S) /\ Parts(a \o b \o c \o d, a, b, c, d)
  <1> DEFINE ab == a \o b
             abc == ab \o c
             s == abc \o d
  <1>1. /\ ab \in Seq(S) /\ Len(ab) = Len(a) + Len(b)
        /\ \A i \in 1 .. Len(a) : ab[i] = a[i]
        /\ \A i \in 1 .. Len(b) : ab[Len(a) + i] = b[i]
    BY TwoParts
  <1> HIDE DEF ab
  <1>2. /\ abc \in Seq(S) /\ Len(abc) = Len(ab) + Len(c)
        /\ \A i \in 1 .. Len(ab) : abc[i] = ab[i]
        /\ \A i \in 1 .. Len(c) : abc[Len(ab) + i] = c[i]
    <2>1. \A x, y \in Seq(S) :
              /\ x \o y \in Seq(S) /\ Len(x \o y) = Len(x) + Len(y)
              /\ \A i \in 1 .. Len(x) : (x \o y)[i] = x[i]
              /\ \A i \in 1 .. Len(y) : (x \o y)[Len(x) + i] = y[i]
      BY TwoParts
    <2>2. QED
      BY <1>1, <2>1, Zenon
  <1> HIDE DEF abc
  <1>3. /\ s \in Seq(S) /\ Len(s) = Len(abc) + Len(d)
        /\ \A i \in 1 .. Len(abc) : s[i] = abc[i]
        /\ \A i \in 1 .. Len(d) : s[Len(abc) + i] = d[i]
    <2>1. \A x, y \in Seq(S) :
              /\ x \o y \in Seq(S) /\ Len(x \o y) = Len(x) + Len(y)
              /\ \A i \in 1 .. Len(x) : (x \o y)[i] = x[i]
              /\ \A i \in 1 .. Len(y) : (x \o y)[Len(x) + i] = y[i]
      BY TwoParts
    <2>2. QED
      BY <1>2, <2>1, Zenon
  <1> HIDE DEF s
  <1>4. Len(a) \in Nat /\ Len(b) \in Nat /\ Len(c) \in Nat /\ Len(d) \in Nat
    OBVIOUS
  <1>5. ASSUME NEW i \in 1 .. Len(a) PROVE s[i] = a[i]
    <2>1. i \in 1 .. Len(ab) /\ i \in 1 .. Len(abc)
      BY <1>1, <1>2, <1>4
    <2>2. QED
      BY <1>1, <1>2, <1>3, <2>1
  <1>6. ASSUME NEW i \in 1 .. Len(b) PROVE s[Len(a) + i] = b[i]
    <2>1. Len(a) + i \in 1 .. Len(ab) /\ Len(a) + i \in 1 .. Len(abc)
      BY <1>1, <1>2, <1>4
    <2>2. QED
      BY <1>1, <1>2, <1>3, <2>1
  <1>7. ASSUME NEW i \in 1 .. Len(c) PROVE s[Len(a) + Len(b) + i] = c[i]
    <2>1. Len(ab) + i \in 1 .. Len(abc) /\ Len(ab) + i = Len(a) + Len(b) + i
      BY <1>1, <1>2, <1>4
    <2>2. s[Len(ab) + i] = c[i]
      BY <1>2, <1>3, <2>1
    <2>3. QED
      BY <2>1, <2>2
  <1>8. ASSUME NEW i \in 1 .. Len(d)
        PROVE  s[Len(a) + Len(b) + Len(c) + i] = d[i]
    <2>1. Len(abc) + i = Len(a) + Len(b) + Len(c) + i
      BY <1>1, <1>2, <1>4
    <2>2. s[Len(abc) + i] = d[i]
      BY <1>3
    <2>3. QED
      BY <2>1, <2>2
  <1>9. Len(s) = Len(a) + Len(b) + Len(c) + Len(d)
    BY <1>1, <1>2, <1>3, <1>4
  <1>10. s \in Seq(S)
    BY <1>3
  <1>11. a \o b \o c \o d = s
    BY DEF s, abc, ab
  <1>12. QED
    BY <1>5, <1>6, <1>7, <1>8, <1>9, <1>10, <1>11, Zenon DEF Parts


\* e consists of a byte b and of d, l and v
OptionParts(e, d, l, v, b) ==
    /\ e \in Seq(Byte)
    /\ Len(d) \in Nat /\ Len(l) \in Nat /\ Len(v) \in Nat
    /\ Len(e) = 1 + Len(d) + Len(l) + Len(v) /\ Len(e) >= 1
    /\ e[1] = b
    /\ \A i \in 1 .. Len(d) : e[1 + i] = d[i]
    /\ \A i \in 1 .. Len(l) : e[1 + Len(d) + i] = l[i]
    /\ \A i \in 1 .. Len(v) : e[1 + Len(d) + Len(l) + i] = v[i]

\* What encodeOption writes.
LEMMA OptionWritten ==
    ASSUME NEW delta \in Short, NEW value \in Seq(Byte), Len(value) \in Short
    PROVE  OptionParts(encodeOption(delta, value), Extended(delta),
                       Extended(Len(value)), value,
                       16 * Nibble(delta) + Nibble(Len(value)))
  <1> DEFINE b == 16 * Nibble(delta) + Nibble(Len(value))
             d == Extended(delta)
             l == Extended(Len(value))
  <1>1. Len(value) \in Nat
    OBVIOUS
  <1>2. d \in Seq(Byte) /\ l \in Seq(Byte)
    BY FieldWritten, Zenon
  <1>3. b \in Byte
    <2>1. Nibble(delta) \in Nat /\ Nibble(delta) < 15
      BY FieldWritten, Zenon
    <2>2. Nibble(Len(value)) \in Nat /\ Nibble(Len(value)) < 15
      BY FieldWritten, Zenon
    <2>3. b \in Nat /\ b < 256
      BY <2>1, <2>2
    <2>4. QED
      BY <2>3, ByteIs
  <1>4. <<b>> \in Seq(Byte) /\ Len(<<b>>) = 1 /\ <<b>>[1] = b
        /\ 1 \in 1 .. Len(<<b>>)
    BY <1>3
  <1>5. encodeOption(delta, value) = <<b>> \o d \o l \o value
    BY DEF encodeOption
  <1>6. Len(d) \in Nat /\ Len(l) \in Nat
    BY <1>2
  <1> DEFINE one == <<b>>
             e == one \o d \o l \o value
  <1> HIDE DEF d, l, one
  <1>7. e \in Seq(Byte) /\ Parts(e, one, d, l, value)
    <2>1. one \in Seq(Byte) /\ d \in Seq(Byte) /\ l \in Seq(Byte)
      BY <1>2, <1>4 DEF one
    <2>2. QED
      BY <2>1, FourParts, Zenon
  <1> HIDE DEF e
  <1>8. Len(one) = 1 /\ 1 \in 1 .. Len(one) /\ one[1] = b
    BY <1>4 DEF one
  <1>9. OptionParts(e, d, l, value, b)
    <2>1. e[1] = b
      BY <1>7, <1>8, Zenon DEF Parts
    <2>2. Len(e) = 1 + Len(d) + Len(l) + Len(value)
      BY <1>7, <1>8, Zenon DEF Parts
    <2>5. Len(e) >= 1
      BY <1>1, <1>6, <2>2
    <2>3. /\ \A i \in 1 .. Len(d) : e[1 + i] = d[i]
          /\ \A i \in 1 .. Len(l) : e[1 + Len(d) + i] = l[i]
          /\ \A i \in 1 .. Len(value) : e[1 + Len(d) + Len(l) + i] = value[i]
      BY <1>7, <1>8, Zenon DEF Parts
    <2>4. QED
      BY <1>1, <1>6, <1>7, <2>1, <2>2, <2>3, <2>5, Zenon DEF OptionParts
  <1>10. encodeOption(delta, value) = e
    BY <1>5 DEF e, one
  <1>11. QED
    BY <1>9, <1>10, Zenon DEF d, l, b

LEMMA MinOf ==
    ASSUME NEW a \in Int, NEW b \in Int, a <= b
    PROVE  Min({a, b}) = a
  <1>1. a \in {a, b} /\ \A y \in {a, b} : a <= y
    OBVIOUS
  <1>2. \A x \in {a, b} : (\A y \in {a, b} : x <= y) => x = a
    OBVIOUS
  <1>3. QED
    BY <1>1, <1>2 DEF Min

LEMMA Nibbles ==
    ASSUME NEW h \in Nat, NEW l \in Nat, l < 16
    PROVE  (16 * h + l) \div 16 = h /\ (16 * h + l) % 16 = l
  OBVIOUS

\* the state of the loop behind an option that follows s
After(s, at, number, value) ==
    [at |-> at, number |-> number,
     options |-> Append(s.options, Option(number, value)),
     path |-> IF number = UriPath THEN Append(s.path, value) ELSE s.path]

\* s is at an option that a reader of that size understands
OptionAt(bytes, size, s, delta, value) ==
    /\ delta \in Nat /\ delta < Limit(size)
    /\ value \in Seq(Byte) /\ Len(value) < Limit(size)
    /\ s.at \in Nat \ {0} /\ s.number \in Nat /\ s.number + delta \in Short
    /\ s.at - 1 + Len(encodeOption(delta, value)) <= Len(bytes)
    /\ Found(bytes, s.at, encodeOption(delta, value))

\* A turn of the loop at a written option reads that option and stops behind
\* it; the first byte of an option is never taken for the payload marker.
LEMMA OptionRead ==
    ASSUME NEW size \in Sizes, NEW bytes \in Seq(Byte), NEW delta, NEW value,
           NEW s, OptionAt(bytes, size, s, delta, value)
    PROVE  Turned(bytes, size, s) =
               After(s, s.at + Len(encodeOption(delta, value)),
                     s.number + delta, value)
  <1> DEFINE e == encodeOption(delta, value)
             d == Extended(delta)
             l == Extended(Len(value))
             high == Nibble(delta)
             low == Nibble(Len(value))
             at == s.at
  <1>0. /\ delta \in Nat /\ delta < Limit(size)
        /\ value \in Seq(Byte) /\ Len(value) < Limit(size)
        /\ at \in Nat \ {0} /\ s.number \in Nat /\ s.number + delta \in Short
        /\ at - 1 + Len(e) <= Len(bytes) /\ Found(bytes, at, e)
    BY Zenon DEF OptionAt
  <1>1. Len(value) \in Nat /\ delta \in Short /\ Len(value) \in Short
    BY <1>0, LimitBound
  <1>a. OptionParts(e, d, l, value, 16 * high + low)
    BY <1>0, <1>1, OptionWritten, Zenon
  <1>3. high \in Nat /\ high < 15 /\ low \in Nat /\ low < 15
    BY <1>1, FieldWritten, Zenon
  <1>4. at \in Nat \ {0} /\ Len(bytes) \in Nat /\ at - 1 + Len(e) <= Len(bytes)
        /\ \A i \in 1 .. Len(e) : bytes[at - 1 + i] = e[i]
    BY <1>0 DEF Found
  <1> HIDE DEF e, d, l, high, low, at
  <1>2. /\ Len(d) \in Nat /\ Len(l) \in Nat
        /\ Len(e) = 1 + Len(d) + Len(l) + Len(value)
        /\ e[1] = 16 * high + low
        /\ \A i \in 1 .. Len(d) : e[1 + i] = d[i]
        /\ \A i \in 1 .. Len(l) : e[1 + Len(d) + i] = l[i]
        /\ \A i \in 1 .. Len(value) : e[1 + Len(d) + Len(l) + i] = value[i]
    BY <1>a, Zenon DEF OptionParts
  <1>5. bytes[at] = 16 * high + low
    <2>1. 1 \in 1 .. Len(e) /\ at - 1 + 1 = at
      BY <1>1, <1>2, <1>4
    <2>2. QED
      BY <1>2, <1>4, <2>1
  <1>6. ~AtEnd(bytes, at)
    <2>1. bytes[at] # 255 /\ ~(at > Len(bytes))
      BY <1>1, <1>2, <1>3, <1>4, <1>5
    <2>2. QED
      BY <2>1 DEF AtEnd, PayloadMarker
  <1>7. bytes[at] \div 16 = high /\ bytes[at] % 16 = low
    BY <1>3, <1>5, Nibbles
  <1>8. Width(size, high) = Len(d) /\ Field(bytes, size, high, at + 1) = delta
    <2>1. ASSUME NEW i \in 1 .. Len(d) PROVE bytes[(at + 1) - 1 + i] = d[i]
      <3>1. 1 + i \in 1 .. Len(e) /\ (at + 1) - 1 + i = at - 1 + (1 + i)
        BY <1>1, <1>2, <1>4
      <3>2. QED
        BY <1>2, <1>4, <3>1
    <2>2. at + 1 \in Nat
      BY <1>4
    <2>3. Found(bytes, at + 1, d)
      BY <2>1, Zenon DEF Found
    <2>4. /\ Width(size, Nibble(delta)) = Len(Extended(delta))
          /\ Field(bytes, size, Nibble(delta), at + 1) = delta
      <3>1. Found(bytes, at + 1, Extended(delta))
        BY <2>3 DEF d
      <3>2. QED
        BY <1>0, <2>2, <3>1, FieldRead
    <2>5. QED
      BY <2>4 DEF d, high
  <1> DEFINE lowAt == at + 1 + Len(d)
  <1>9. Width(size, low) = Len(l) /\ Field(bytes, size, low, lowAt) = Len(value)
    <2>1. ASSUME NEW i \in 1 .. Len(l) PROVE bytes[lowAt - 1 + i] = l[i]
      <3>1. /\ 1 + Len(d) + i \in 1 .. Len(e)
            /\ lowAt - 1 + i = at - 1 + (1 + Len(d) + i)
        BY <1>1, <1>2, <1>4
      <3>2. QED
        BY <1>2, <1>4, <3>1
    <2>2. lowAt \in Nat
      BY <1>2, <1>4
    <2> HIDE DEF lowAt
    <2>3. Found(bytes, lowAt, l)
      BY <2>1, Zenon DEF Found
    <2>4. /\ Width(size, Nibble(Len(value))) = Len(Extended(Len(value)))
          /\ Field(bytes, size, Nibble(Len(value)), lowAt) = Len(value)
      <3>1. Found(bytes, lowAt, Extended(Len(value)))
        BY <2>3 DEF l
      <3>2. QED
        BY <1>0, <1>1, <2>2, <3>1, FieldRead
    <2>5. QED
      BY <2>4 DEF l, low
  <1> DEFINE start == lowAt + Len(l)
             end == start + Len(value) - 1
  <1>10. /\ start \in Nat \ {0} /\ end \in Nat /\ end <= Len(bytes)
         /\ end - start + 1 = Len(value) /\ start + Len(value) = at + Len(e)
    BY <1>1, <1>2, <1>4
  <1>11. \A i \in 1 .. Len(value) : bytes[start + i - 1] = value[i]
    <2>1. ASSUME NEW i \in 1 .. Len(value)
          PROVE  bytes[start + i - 1] = value[i]
      <3>1. /\ 1 + Len(d) + Len(l) + i \in 1 .. Len(e)
            /\ start + i - 1 = at - 1 + (1 + Len(d) + Len(l) + i)
        BY <1>1, <1>2, <1>4
      <3>2. QED
        BY <1>2, <1>4, <3>1
    <2>2. QED
      BY <2>1
  <1> HIDE DEF lowAt, start, end
  <1>12. SubSeq(bytes, start, end) = value
    BY <1>0, <1>10, <1>11
  <1>13. Min({end, Len(bytes)}) = end
    <2>1. end \in Int /\ Len(bytes) \in Int
      BY <1>4, <1>10
    <2>2. QED
      BY <1>10, <2>1, MinOf, Zenon
  <1>14. (s.number + delta) % ShortSize = s.number + delta
    BY <1>0, ShortFacts
  <1>15. ReadOption(bytes, size, s) =
            [at |-> start + Len(value), number |-> s.number + delta,
             options |-> Append(s.options, Option(s.number + delta, value)),
             path |-> IF s.number + delta = UriPath THEN Append(s.path, value)
                      ELSE s.path]
    <2>1. at + 1 + Width(size, high) = lowAt
      BY <1>8 DEF lowAt
    <2>2. lowAt + Width(size, low) = start
      BY <1>9 DEF start
    <2>3. start + Len(value) - 1 = end
      BY DEF end
    <2> DEFINE n == (s.number + delta) % ShortSize
               v == SubSeq(bytes, start, Min({end, Len(bytes)}))
    <2>4. ReadOption(bytes, size, s) =
              [at |-> start + Len(value), number |-> n,
               options |-> Append(s.options, Option(n, v)),
               path |-> IF n = UriPath THEN Append(s.path, v) ELSE s.path]
      BY <1>7, <1>8, <1>9, <2>1, <2>2, <2>3 DEF ReadOption, at
    <2>5. v = value /\ n = s.number + delta
      BY <1>12, <1>13, <1>14
    <2> HIDE DEF v, n
    <2>6. QED
      BY <2>4, <2>5
  <1>16. QED
    BY <1>6, <1>10, <1>15, Zenon DEF Turned, After, e, at

-----------------------------------------------------------------------------
(* A list of options *)

OptionType == [number : Short, value : Seq(Byte)]

Delta(options, i) ==
    options[i].number - (IF i = 1 THEN 0 ELSE options[i - 1].number)

\* numbers do not fall, and deltas and lengths are below the limit
Writable(options, limit) ==
    \A i \in 1 .. Len(options) :
        /\ Delta(options, i) \in Nat /\ Delta(options, i) < limit
        /\ Len(options[i].value) < limit

Encoded1(options, i) == encodeOption(Delta(options, i), options[i].value)

\* the encoded options, one by one
Written(options) == [i \in DOMAIN options |-> Encoded1(options, i)]

LEMMA OptionFacts ==
    ASSUME NEW options \in Seq(OptionType), NEW i \in 1 .. Len(options)
    PROVE  /\ options[i] \in OptionType
           /\ options[i].number \in Short /\ options[i].number \in Nat
           /\ options[i].value \in Seq(Byte) /\ Len(options[i].value) \in Nat
           /\ options[i] = Option(options[i].number, options[i].value)
  <1>1. options[i] \in OptionType
    OBVIOUS
  <1>2. /\ options[i].number \in Short /\ options[i].value \in Seq(Byte)
        /\ options[i] = Option(options[i].number, options[i].value)
    BY <1>1 DEF OptionType, Option
  <1>3. QED
    BY <1>1, <1>2, ShortFacts

LEMMA WrittenFacts ==
    ASSUME NEW size \in Sizes, NEW options \in Seq(OptionType),
           Writable(options, Limit(size))
    PROVE  /\ Written(options) \in Seq(Seq(Byte))
           /\ Len(Written(options)) = Len(options)
           /\ \A i \in 1 .. Len(options) :
                  /\ Written(options)[i] = Encoded1(options, i)
                  /\ Len(Written(options)[i]) >= 1
           /\ encodeOptions(options) = FlattenSeq(Written(options))
           /\ encodeOptions(options) \in Seq(Byte)
           /\ Len(options) <= Len(encodeOptions(options))
  <1>1. DOMAIN options = 1 .. Len(options) /\ Len(options) \in Nat
    OBVIOUS
  <1>2. ASSUME NEW i \in 1 .. Len(options)
        PROVE  Encoded1(options, i) \in Seq(Byte) /\ Len(Encoded1(options, i)) >= 1
    <2>1. /\ Delta(options, i) \in Short /\ options[i].value \in Seq(Byte)
          /\ Len(options[i].value) \in Short
      BY LimitBound, OptionFacts DEF Writable
    <2> DEFINE d == Extended(Delta(options, i))
               l == Extended(Len(options[i].value))
               b == 16 * Nibble(Delta(options, i)) + Nibble(Len(options[i].value))
    <2>2. OptionParts(Encoded1(options, i), d, l, options[i].value, b)
      BY <2>1, OptionWritten, Zenon DEF Encoded1
    <2> HIDE DEF d, l, b
    <2>3. QED
      BY <2>2, Zenon DEF OptionParts
  <1>3. \A i \in 1 .. Len(options) : Written(options)[i] = Encoded1(options, i)
    BY <1>1 DEF Written
  <1>4. Written(options) \in Seq(Seq(Byte)) /\ Len(Written(options)) = Len(options)
    <2>1. Written(options) = [i \in 1 .. Len(options) |-> Encoded1(options, i)]
      BY <1>1 DEF Written
    <2>2. QED
      BY <1>1, <1>2, <2>1
  <1>5. encodeOptions(options) = FlattenSeq(Written(options))
    BY Zenon DEF encodeOptions, Written, Encoded1, Delta
  <1>6. encodeOptions(options) \in Seq(Byte)
    BY <1>4, <1>5, FlattenType
  <1>7. Len(options) <= Len(encodeOptions(options))
    <2>1. \A i \in 1 .. Len(Written(options)) : Len(Written(options)[i]) >= 1
      BY <1>2, <1>3, <1>4
    <2>2. QED
      BY <1>4, <1>5, <2>1, FlattenLength
  <1>8. QED
    BY <1>2, <1>3, <1>4, <1>5, <1>6, <1>7

\* the state of a reader that has read the first k options
ReadUpTo(t, from, options, k) ==
    /\ t.at = from + Len(FlattenSeq(SubSeq(Written(options), 1, k)))
    /\ t.number = IF k = 0 THEN 0 ELSE options[k].number
    /\ t.options = SubSeq(options, 1, k)

\* bytes hold the options from byte from on, and the next byte ends them
Carries(bytes, size, from, options) ==
    /\ bytes \in Seq(Byte) /\ from \in Nat \ {0}
    /\ options \in Seq(OptionType) /\ Writable(options, Limit(size))
    /\ Found(bytes, from, encodeOptions(options))
    /\ from - 1 + Len(encodeOptions(options)) <= Len(bytes)
    /\ AtEnd(bytes, from + Len(encodeOptions(options)))

\* the turn from t to next reads option k + 1
TurnTaken(t, next, bytes, from, options, k) ==
    /\ ~AtEnd(bytes, t.at)
    /\ ReadUpTo(next, from, options, k + 1)
    /\ next.path = IF options[k + 1].number = UriPath
                   THEN Append(t.path, options[k + 1].value) ELSE t.path

LEMMA OneTurn ==
    ASSUME NEW size \in Sizes, NEW bytes, NEW from, NEW options,
           Carries(bytes, size, from, options),
           NEW k \in Nat, k < Len(options),
           NEW t, ReadUpTo(t, from, options, k)
    PROVE  TurnTaken(t, Turned(bytes, size, t), bytes, from, options, k)
  <1> DEFINE seqs == Written(options)
             e == Encoded1(options, k + 1)
             before == Len(FlattenSeq(SubSeq(seqs, 1, k)))
             delta == Delta(options, k + 1)
             number == options[k + 1].number
             value == options[k + 1].value
  <1>0. /\ bytes \in Seq(Byte) /\ from \in Nat \ {0}
        /\ options \in Seq(OptionType) /\ Writable(options, Limit(size))
        /\ Found(bytes, from, encodeOptions(options))
        /\ from - 1 + Len(encodeOptions(options)) <= Len(bytes)
    BY Zenon DEF Carries
  <1>1. k + 1 \in 1 .. Len(options) /\ Len(options) \in Nat
    BY <1>0
  <1>2. /\ number \in Short /\ number \in Nat /\ value \in Seq(Byte)
        /\ Len(value) \in Nat /\ options[k + 1] = Option(number, value)
    BY <1>0, <1>1, OptionFacts
  <1>3. /\ delta \in Nat /\ delta < Limit(size) /\ Len(value) < Limit(size)
    BY <1>0, <1>1 DEF Writable
  <1>4. t.number \in Nat /\ t.number + delta = number
    <2>1. CASE k = 0
      <3>1. t.number = 0 /\ delta = number - 0
        BY <2>1 DEF ReadUpTo, Delta
      <3>2. QED
        BY <1>2, <3>1
    <2>2. CASE k # 0
      <3>1. k \in 1 .. Len(options) /\ k + 1 # 1 /\ (k + 1) - 1 = k
        BY <1>1, <2>2
      <3>2. options[k].number \in Nat
        BY <1>0, <3>1, OptionFacts
      <3>3. t.number = options[k].number
        BY <2>2 DEF ReadUpTo
      <3>4. delta = number - options[k].number
        BY <3>1 DEF Delta
      <3>5. QED
        BY <1>2, <3>2, <3>3, <3>4
    <2>3. QED
      BY <2>1, <2>2
  <1>5. /\ seqs \in Seq(Seq(Byte)) /\ Len(seqs) = Len(options)
        /\ seqs[k + 1] = e /\ encodeOptions(options) = FlattenSeq(seqs)
    BY <1>0, <1>1, WrittenFacts
  <1> DEFINE behind == Len(FlattenSeq(SubSeq(seqs, 1, k + 1)))
             all == encodeOptions(options)
  <1>6. /\ before \in Nat /\ behind = before + Len(e) /\ behind <= Len(all)
        /\ \A i \in 1 .. Len(e) : all[before + i] = e[i]
    <2> HIDE DEF seqs, e
    <2>1. k < Len(seqs)
      BY <1>5
    <2>2. /\ before \in Nat /\ behind = before + Len(seqs[k + 1])
          /\ behind <= Len(FlattenSeq(seqs))
          /\ \A i \in 1 .. Len(seqs[k + 1]) :
                 FlattenSeq(seqs)[before + i] = seqs[k + 1][i]
      BY <1>5, <2>1, FlattenPiece
    <2> HIDE DEF before, behind
    <2>3. QED
      BY <1>5, <2>2, Zenon
  <1>7. t.at = from + before /\ Len(all) \in Nat /\ Len(e) \in Nat
    <2>1. e \in Seq(Byte)
      BY <1>0, <1>1, <1>5
    <2>2. all \in Seq(Byte)
      BY <1>0, WrittenFacts
    <2>3. QED
      BY <1>0, <2>1, <2>2 DEF ReadUpTo
  <1> HIDE DEF before, behind, all, seqs, e
  <1>8. t.at \in Nat \ {0} /\ t.at - 1 + Len(e) <= Len(bytes)
    <2>1. from - 1 + Len(all) <= Len(bytes)
      BY <1>0 DEF all
    <2>2. QED
      BY <1>0, <1>6, <1>7, <2>1
  <1>9. Found(bytes, t.at, e)
    <2>1. ASSUME NEW i \in 1 .. Len(e) PROVE bytes[t.at - 1 + i] = e[i]
      <3>1. /\ before + i \in 1 .. Len(all)
            /\ t.at - 1 + i = from - 1 + (before + i)
        <4>1. i \in Nat /\ 1 <= i /\ i <= Len(e) /\ from \in Nat
          BY <1>0, <1>7
        <4>2. QED
          BY <1>6, <1>7, <4>1
      <3>2. bytes[from - 1 + (before + i)] = all[before + i]
        BY <1>0, <3>1, Zenon DEF Found, all
      <3>3. QED
        BY <1>6, <3>1, <3>2
    <2>2. QED
      BY <2>1, Zenon DEF Found
  <1> HIDE DEF delta, number, value
  <1>10. e = encodeOption(delta, value)
    BY DEF e, Encoded1, delta, value
  <1>11. Turned(bytes, size, t) = After(t, t.at + Len(e), number, value)
    <2>1. t.number + delta \in Short
      BY <1>2, <1>4
    <2>2. Turned(bytes, size, t) =
              After(t, t.at + Len(encodeOption(delta, value)),
                    t.number + delta, value)
      <3>1. /\ t.at - 1 + Len(encodeOption(delta, value)) <= Len(bytes)
            /\ Found(bytes, t.at, encodeOption(delta, value))
            /\ t.at \in Nat \ {0}
        BY <1>8, <1>9, <1>10, Zenon
      <3>2. OptionAt(bytes, size, t, delta, value)
        BY <1>2, <1>3, <1>4, <2>1, <3>1, Zenon DEF OptionAt
      <3>3. QED
        BY <1>0, <3>2, OptionRead
    <2>3. QED
      BY <1>4, <1>10, <2>2, Zenon
  <1>12. ~AtEnd(bytes, t.at)
    <2>1. SUFFICES ASSUME AtEnd(bytes, t.at) PROVE FALSE
      OBVIOUS
    <2>2. Turned(bytes, size, t) = t
      BY <2>1 DEF Turned
    <2>3. Turned(bytes, size, t).at = t.at + Len(e)
      BY <1>11 DEF After
    <2>4. Len(e) >= 1
      BY <1>0, <1>1, <1>5, WrittenFacts DEF seqs
    <2>5. QED
      BY <1>7, <1>8, <2>2, <2>3, <2>4
  <1>13. ReadUpTo(Turned(bytes, size, t), from, options, k + 1)
    <2>1. t.at + Len(e) = from + behind
      BY <1>0, <1>6, <1>7
    <2>2. Append(t.options, Option(number, value)) = SubSeq(options, 1, k + 1)
      <3>1. t.options = SubSeq(options, 1, k)
        BY DEF ReadUpTo
      <3>2. SubSeq(options, 1, k + 1) = Append(SubSeq(options, 1, k), options[k + 1])
        BY <1>0, FrontStep
      <3>3. QED
        BY <1>2, <3>1, <3>2, Zenon
    <2>3. k + 1 # 0
      OBVIOUS
    <2>4. number = options[k + 1].number
      BY DEF number
    <2>5. QED
      BY <1>11, <2>1, <2>2, <2>3, <2>4 DEF ReadUpTo, After, behind, seqs
  <1>14. Turned(bytes, size, t).path =
            IF number = UriPath THEN Append(t.path, value) ELSE t.path
    BY <1>11 DEF After
  <1>15. QED
    BY <1>12, <1>13, <1>14, Zenon DEF TurnTaken, number, value

Reads(turn, bytes, from, options, k) ==
    /\ k <= Len(options) => ReadUpTo(turn[k], from, options, k)
    /\ k < Len(options) =>
          TurnTaken(turn[k], turn[k + 1], bytes, from, options, k)
    /\ k >= Len(options) => turn[k] = turn[Len(options)]

\* The loop of a reader, turn by turn: after k turns it has read k options,
\* and it ends with the last one.
LEMMA EveryTurn ==
    ASSUME NEW size \in Sizes, NEW bytes, NEW from, NEW options,
           Carries(bytes, size, from, options), NEW k \in Nat
    PROVE  Reads(Turns(bytes, size, from), bytes, from, options, k)
  <1> DEFINE turn == Turns(bytes, size, from)
             n == Len(options)
  <1>0. /\ bytes \in Seq(Byte) /\ from \in Nat \ {0}
        /\ options \in Seq(OptionType) /\ Writable(options, Limit(size))
        /\ Found(bytes, from, encodeOptions(options))
        /\ from - 1 + Len(encodeOptions(options)) <= Len(bytes)
        /\ AtEnd(bytes, from + Len(encodeOptions(options)))
    BY Zenon DEF Carries
  <1>1. n \in Nat
    BY <1>0
  <1>2. /\ turn[0] = Start(from)
        /\ \A i \in Nat : turn[i + 1] = Turned(bytes, size, turn[i])
    BY TurnsDef
  <1>3. /\ Written(options) \in Seq(Seq(Byte)) /\ Len(Written(options)) = n
        /\ encodeOptions(options) = FlattenSeq(Written(options))
    BY <1>0, WrittenFacts
  <1> HIDE DEF turn, n
  <1>4. ASSUME NEW i \in Nat, i < n, ReadUpTo(turn[i], from, options, i)
        PROVE  TurnTaken(turn[i], turn[i + 1], bytes, from, options, i)
    <2>1. turn[i + 1] = Turned(bytes, size, turn[i])
      BY <1>2
    <2>2. i < Len(options)
      BY <1>4 DEF n
    <2>3. TurnTaken(turn[i], Turned(bytes, size, turn[i]), bytes, from,
                    options, i)
      BY <1>4, <2>2, OneTurn, Zenon
    <2>4. QED
      BY <2>1, <2>3, Zenon
  <1> DEFINE T == {i \in Nat : i <= n => ReadUpTo(turn[i], from, options, i)}
  <1>5. Nat \subseteq T
    <2>1. 0 \in T
      <3>1. /\ SubSeq(Written(options), 1, 0) = <<>> /\ SubSeq(options, 1, 0) = <<>>
            /\ Len(<<>>) = 0 /\ from + 0 = from
        BY <1>0
      <3>2. ReadUpTo(Start(from), from, options, 0)
        <4>1. Len(FlattenSeq(SubSeq(Written(options), 1, 0))) = 0
          BY <3>1, FlattenEmpty
        <4>2. /\ Start(from).at = from /\ Start(from).number = 0
              /\ Start(from).options = <<>>
          BY DEF Start
        <4>3. QED
          BY <3>1, <4>1, <4>2, Zenon DEF ReadUpTo
      <3>3. QED
        BY <1>2, <3>2
    <2>2. ASSUME NEW i \in Nat, i \in T PROVE i + 1 \in T
      <3>1. SUFFICES ASSUME i + 1 <= n
                     PROVE  ReadUpTo(turn[i + 1], from, options, i + 1)
        OBVIOUS
      <3>2. i < n /\ i <= n
        BY <1>1, <3>1
      <3>3. ReadUpTo(turn[i], from, options, i)
        BY <2>2, <3>2
      <3>4. TurnTaken(turn[i], turn[i + 1], bytes, from, options, i)
        BY <1>4, <3>2, <3>3, Zenon
      <3>5. QED
        BY <3>4, Zenon DEF TurnTaken
    <2> HIDE DEF T
    <2>3. QED
      BY <2>1, <2>2, SetInduction
  <1>6. ASSUME NEW i \in Nat, i <= n
        PROVE  ReadUpTo(turn[i], from, options, i)
    BY <1>5, <1>6
  <1>7. AtEnd(bytes, turn[n].at)
    <2>1. ReadUpTo(turn[n], from, options, n)
      BY <1>1, <1>6
    <2>2. SubSeq(Written(options), 1, n) = Written(options)
      BY <1>1, <1>3
    <2>3. turn[n].at = from + Len(encodeOptions(options))
      BY <1>3, <2>1, <2>2, Zenon DEF ReadUpTo
    <2>4. QED
      BY <1>0, <2>3, Zenon
  <1> DEFINE U == {i \in Nat : turn[n + i] = turn[n]}
  <1>8. Nat \subseteq U
    <2>1. 0 \in U
      BY <1>1
    <2>2. ASSUME NEW i \in Nat, i \in U PROVE i + 1 \in U
      <3>1. n + i \in Nat /\ n + (i + 1) = (n + i) + 1
        BY <1>1
      <3>2. turn[n + (i + 1)] = Turned(bytes, size, turn[n + i])
        BY <1>2, <3>1
      <3>3. turn[n + i] = turn[n]
        BY <2>2
      <3>4. QED
        BY <1>7, <3>2, <3>3 DEF Turned
    <2> HIDE DEF U
    <2>3. QED
      BY <2>1, <2>2, SetInduction
  <1>9. k <= n => ReadUpTo(turn[k], from, options, k)
    BY <1>6
  <1>10. ASSUME k < n
         PROVE  TurnTaken(turn[k], turn[k + 1], bytes, from, options, k)
    <2>1. ReadUpTo(turn[k], from, options, k)
      BY <1>1, <1>6, <1>10
    <2>2. QED
      BY <1>4, <1>10, <2>1, Zenon
  <1>11. ASSUME k >= n PROVE turn[k] = turn[n]
    <2>1. k - n \in Nat /\ n + (k - n) = k
      BY <1>1, <1>11
    <2>2. QED
      BY <1>8, <2>1
  <1>12. QED
    BY <1>9, <1>10, <1>11, Zenon DEF Reads, turn, n

\* What a reader makes of a list of options that somebody has written: the
\* options, and the place behind them. The path is that of the last turn.
LEMMA OptionsReadBack ==
    ASSUME NEW size \in Sizes, NEW bytes, NEW from, NEW options,
           Carries(bytes, size, from, options)
    PROVE  /\ ReadOptions(bytes, size, from).options = options
           /\ ReadOptions(bytes, size, from).at
                  = from + Len(encodeOptions(options))
           /\ ReadOptions(bytes, size, from)
                  = Turns(bytes, size, from)[Len(options)]
  <1> DEFINE turn == Turns(bytes, size, from)
             n == Len(options)
             last == CHOOSE k \in 0 .. Len(bytes) : AtEnd(bytes, turn[k].at)
  <1>0. /\ bytes \in Seq(Byte) /\ from \in Nat \ {0}
        /\ options \in Seq(OptionType) /\ Writable(options, Limit(size))
        /\ from - 1 + Len(encodeOptions(options)) <= Len(bytes)
        /\ AtEnd(bytes, from + Len(encodeOptions(options)))
    BY Zenon DEF Carries
  <1>1. /\ Written(options) \in Seq(Seq(Byte)) /\ Len(Written(options)) = n
        /\ encodeOptions(options) = FlattenSeq(Written(options))
        /\ encodeOptions(options) \in Seq(Byte)
        /\ n <= Len(encodeOptions(options))
    BY <1>0, WrittenFacts
  <1>2. n \in 0 .. Len(bytes) /\ n \in Nat
    <2>1. n \in Nat /\ Len(bytes) \in Nat /\ Len(encodeOptions(options)) \in Nat
      BY <1>0, <1>1
    <2>2. QED
      BY <1>0, <1>1, <2>1
  <1>3. \A k \in Nat :
            /\ k <= n => ReadUpTo(turn[k], from, options, k)
            /\ k < n => ~AtEnd(bytes, turn[k].at)
            /\ k >= n => turn[k] = turn[n]
    <2>1. \A k \in Nat : Reads(turn, bytes, from, options, k)
      BY EveryTurn, Zenon
    <2>2. QED
      BY <2>1, Zenon DEF Reads, TurnTaken
  <1> HIDE DEF turn
  <1>4. ReadUpTo(turn[n], from, options, n)
    BY <1>2, <1>3
  <1>5. turn[n].options = options
    <2>1. turn[n].options = SubSeq(options, 1, n)
      BY <1>4, Zenon DEF ReadUpTo
    <2>2. SubSeq(options, 1, n) = options
      BY <1>0, WholeFront
    <2>3. QED
      BY <2>1, <2>2
  <1>6. turn[n].at = from + Len(encodeOptions(options))
    <2>1. SubSeq(Written(options), 1, n) = Written(options)
      BY <1>1, WholeFront
    <2>2. QED
      BY <1>1, <1>4, <2>1, Zenon DEF ReadUpTo
  <1>7. last \in 0 .. Len(bytes) /\ AtEnd(bytes, turn[last].at)
    <2>1. AtEnd(bytes, turn[n].at)
      BY <1>0, <1>6, Zenon
    <2> HIDE DEF n
    <2>2. QED
      BY <1>2, <2>1, Zenon
  <1> HIDE DEF last, n
  <1>8. turn[last] = turn[n]
    <2>1. last \in Nat
      BY <1>7
    <2>2. last >= n
      BY <1>2, <1>3, <1>7, <2>1
    <2>3. QED
      BY <1>3, <2>1, <2>2
  <1>9. ReadOptions(bytes, size, from) = turn[last]
    BY Zenon DEF ReadOptions, turn, last
  <1>10. QED
    BY <1>5, <1>6, <1>8, <1>9 DEF turn, n

-----------------------------------------------------------------------------
(* A message *)

Message(first, code, mid, token, rest) ==
    <<first, code>> \o TwoBytes(mid) \o token \o rest

PayloadPart(payload) == IF payload = <<>> THEN <<>> ELSE <<PayloadMarker>> \o payload

\* Where the parts of a message are.
Layout(m, first, code, mid, token, rest) ==
    /\ m \in Seq(Byte) /\ Len(m) = 4 + Len(token) + Len(rest)
    /\ m[1] = first /\ m[2] = code /\ getMid(m) = mid
    /\ m[3] = mid \div 256 /\ m[4] = mid % 256
    /\ \A i \in 1 .. Len(token) : m[4 + i] = token[i]
    /\ \A i \in 1 .. Len(rest) : m[4 + Len(token) + i] = rest[i]

LEMMA MessageParts ==
    ASSUME NEW first \in Byte, NEW code \in Byte, NEW mid \in Short,
           NEW token \in Seq(Byte), NEW rest \in Seq(Byte)
    PROVE  Layout(Message(first, code, mid, token, rest),
                  first, code, mid, token, rest)
  <1> DEFINE m == Message(first, code, mid, token, rest)
             a == mid \div 256
             b == mid % 256
             h == <<first, code>> \o <<a, b>>
  <1>1. a \in Byte /\ b \in Byte /\ 256 * a + b = mid
    BY DivMod
  <1>2. m = (h \o token) \o rest
    BY DEF Message, TwoBytes
  <1> HIDE DEF a, b, m
  <1>3. /\ h \in Seq(Byte) /\ Len(h) = 4
        /\ h[1] = first /\ h[2] = code /\ h[3] = a /\ h[4] = b
    BY <1>1
  <1> HIDE DEF h
  <1>4. Len(token) \in Nat /\ Len(rest) \in Nat
    OBVIOUS
  <1>0. \A x, y \in Seq(Byte) :
            /\ x \o y \in Seq(Byte) /\ Len(x \o y) = Len(x) + Len(y)
            /\ \A i \in 1 .. Len(x) : (x \o y)[i] = x[i]
            /\ \A i \in 1 .. Len(y) : (x \o y)[Len(x) + i] = y[i]
    BY TwoParts
  <1>5. /\ h \o token \in Seq(Byte) /\ Len(h \o token) = 4 + Len(token)
        /\ \A i \in 1 .. 4 : (h \o token)[i] = h[i]
        /\ \A i \in 1 .. Len(token) : (h \o token)[4 + i] = token[i]
    <2>1. /\ h \o token \in Seq(Byte) /\ Len(h \o token) = Len(h) + Len(token)
          /\ \A i \in 1 .. Len(h) : (h \o token)[i] = h[i]
          /\ \A i \in 1 .. Len(token) : (h \o token)[Len(h) + i] = token[i]
      BY <1>0, <1>3, Zenon
    <2>2. QED
      BY <1>3, <2>1
  <1>6. /\ m \in Seq(Byte) /\ Len(m) = 4 + Len(token) + Len(rest)
        /\ \A i \in 1 .. 4 + Len(token) : m[i] = (h \o token)[i]
        /\ \A i \in 1 .. Len(rest) : m[4 + Len(token) + i] = rest[i]
    <2> DEFINE x == h \o token
    <2>1. x \in Seq(Byte) /\ Len(x) = 4 + Len(token) /\ m = x \o rest
      BY <1>2, <1>5
    <2> HIDE DEF x
    <2>2. /\ m \in Seq(Byte) /\ Len(m) = Len(x) + Len(rest)
          /\ \A i \in 1 .. Len(x) : m[i] = x[i]
          /\ \A i \in 1 .. Len(rest) : m[Len(x) + i] = rest[i]
      BY <1>0, <2>1, Zenon
    <2>3. QED
      BY <2>1, <2>2 DEF x
  <1>7. \A i \in 1 .. 4 : m[i] = h[i]
    BY <1>4, <1>5, <1>6
  <1>8. ASSUME NEW i \in 1 .. Len(token) PROVE m[4 + i] = token[i]
    <2>1. 4 + i \in 1 .. 4 + Len(token)
      BY <1>4
    <2>2. QED
      BY <1>5, <1>6, <2>1
  <1>9. getMid(m) = mid
    BY <1>1, <1>3, <1>7 DEF getMid
  <1>10. QED
    <2>1. /\ m[1] = first /\ m[2] = code
          /\ m[3] = mid \div 256 /\ m[4] = mid % 256
      BY <1>3, <1>7 DEF a, b
    <2>2. QED
      BY <1>6, <1>8, <1>9, <2>1, Zenon DEF Layout, m

\* What a sequence has at a place is the part that is found there.
LEMMA PartIs ==
    ASSUME NEW S, NEW s \in Seq(S), NEW part \in Seq(S), NEW d \in Nat,
           d + Len(part) <= Len(s),
           \A i \in 1 .. Len(part) : s[d + i] = part[i]
    PROVE  SubSeq(s, d + 1, d + Len(part)) = part
  <1>1. \A i \in 1 .. Len(part) : s[(d + 1) + i - 1] = part[i]
    OBVIOUS
  <1>2. QED
    BY <1>1

\* The options and the payload of a message, for the readers that start
\* behind its token.
Holds(m, size, at, options, payload) ==
    /\ Carries(m, size, at, options)
    /\ SubSeq(m, at + Len(encodeOptions(options)) + 1, Len(m)) = payload

LEMMA MessageCarries ==
    ASSUME NEW size \in Sizes,
           NEW first \in Byte, NEW code \in Byte, NEW mid \in Short,
           NEW token \in Seq(Byte), NEW payload \in Seq(Byte),
           NEW options \in Seq(OptionType), Writable(options, Limit(size))
    PROVE  Holds(Message(first, code, mid, token,
                         encodeOptions(options) \o PayloadPart(payload)),
                 size, 5 + Len(token), options, payload)
  <1> DEFINE e == encodeOptions(options)
             t == PayloadPart(payload)
             m == Message(first, code, mid, token, e \o t)
             from == 5 + Len(token)
  <1>1. e \in Seq(Byte) /\ t \in Seq(Byte)
    <2>1. PayloadMarker \in Byte
      BY DEF PayloadMarker, Byte
    <2>2. QED
      BY <2>1, WrittenFacts, ConcatFacts, EmptySeq DEF PayloadPart
  <1>2. \/ payload = <<>> /\ Len(t) = 0 /\ Len(payload) = 0
        \/ /\ Len(t) = Len(payload) + 1 /\ t[1] = PayloadMarker
           /\ \A i \in 1 .. Len(payload) : t[1 + i] = payload[i]
    <2>1. CASE payload = <<>>
      BY <2>1 DEF PayloadPart
    <2>2. CASE payload # <<>>
      <3>1. t = <<PayloadMarker>> \o payload
        BY <2>2 DEF PayloadPart
      <3>2. <<PayloadMarker>> \in Seq({PayloadMarker} \cup Byte)
            /\ Len(<<PayloadMarker>>) = 1 /\ <<PayloadMarker>>[1] = PayloadMarker
            /\ payload \in Seq({PayloadMarker} \cup Byte)
        OBVIOUS
      <3> HIDE DEF t
      <3>3. QED
        BY <3>1, <3>2, TwoParts
    <2>3. QED
      BY <2>1, <2>2
  <1>3. m = Message(first, code, mid, token, e \o t)
    OBVIOUS
  <1> HIDE DEF e, t, m
  <1>4. /\ Len(e) \in Nat /\ Len(t) \in Nat /\ Len(token) \in Nat
        /\ Len(payload) \in Nat
    BY <1>1
  <1>5. /\ e \o t \in Seq(Byte) /\ Len(e \o t) = Len(e) + Len(t)
        /\ \A i \in 1 .. Len(e) : (e \o t)[i] = e[i]
        /\ \A i \in 1 .. Len(t) : (e \o t)[Len(e) + i] = t[i]
    BY <1>1, TwoParts
  <1>6. /\ m \in Seq(Byte) /\ Len(m) = 4 + Len(token) + Len(e) + Len(t)
        /\ \A i \in 1 .. Len(e \o t) : m[4 + Len(token) + i] = (e \o t)[i]
    <2>1. /\ m \in Seq(Byte) /\ Len(m) = 4 + Len(token) + Len(e \o t)
          /\ \A i \in 1 .. Len(e \o t) : m[4 + Len(token) + i] = (e \o t)[i]
      <3>1. Layout(Message(first, code, mid, token, e \o t),
                   first, code, mid, token, e \o t)
        BY <1>5, MessageParts
      <3>2. QED
        BY <1>3, <3>1, Zenon DEF Layout
    <2>2. QED
      BY <1>4, <1>5, <2>1
  <1>7. ASSUME NEW i \in 1 .. Len(e) PROVE m[4 + Len(token) + i] = e[i]
    <2>1. i \in 1 .. Len(e \o t)
      BY <1>4, <1>5
    <2>2. QED
      BY <1>5, <1>6, <2>1
  <1>8. \A i \in 1 .. Len(t) : m[4 + Len(token) + Len(e) + i] = t[i]
    <2>1. ASSUME NEW i \in 1 .. Len(t)
          PROVE  m[4 + Len(token) + Len(e) + i] = t[i]
      <3>1. /\ Len(e) + i \in 1 .. Len(e \o t)
            /\ 4 + Len(token) + (Len(e) + i) = 4 + Len(token) + Len(e) + i
        BY <1>4, <1>5
      <3>2. m[4 + Len(token) + (Len(e) + i)] = (e \o t)[Len(e) + i]
        BY <1>6, <3>1
      <3>3. QED
        BY <1>5, <3>1, <3>2
    <2>2. QED
      BY <2>1
  <1>9. Carries(m, size, from, options)
    <2>1. from \in Nat \ {0} /\ from - 1 = 4 + Len(token)
      BY <1>4
    <2>2. Found(m, from, e)
      BY <1>7, <2>1 DEF Found
    <2>3. from - 1 + Len(e) <= Len(m)
      BY <1>4, <1>6, <2>1
    <2>4. AtEnd(m, from + Len(e))
      <3>1. CASE Len(t) = 0
        <4>1. from + Len(e) > Len(m)
          BY <1>4, <1>6, <3>1
        <4>2. QED
          BY <4>1 DEF AtEnd
      <3>2. CASE Len(t) # 0
        <4>1. 1 \in 1 .. Len(t) /\ from + Len(e) = 4 + Len(token) + Len(e) + 1
          BY <1>4, <3>2
        <4>2. t[1] = PayloadMarker
          BY <1>2, <3>2
        <4>3. m[from + Len(e)] = PayloadMarker
          BY <1>8, <4>1, <4>2
        <4>4. QED
          BY <4>3 DEF AtEnd
      <3>3. QED
        BY <3>1, <3>2
    <2> HIDE DEF from
    <2>5. QED
      BY <1>6, <2>1, <2>2, <2>3, <2>4, Zenon DEF Carries, e
  <1>10. SubSeq(m, from + Len(e) + 1, Len(m)) = payload
    <2>1. CASE payload = <<>> /\ Len(t) = 0
      <3>1. from + Len(e) + 1 > Len(m) /\ from + Len(e) + 1 \in Nat
        BY <1>4, <1>6, <2>1
      <3> HIDE DEF from
      <3>2. SubSeq(m, from + Len(e) + 1, Len(m)) = <<>>
        BY <1>6, <3>1
      <3>3. QED
        BY <2>1, <3>2
    <2>2. CASE /\ Len(t) = Len(payload) + 1
               /\ \A i \in 1 .. Len(payload) : t[1 + i] = payload[i]
      <3> DEFINE d == from + Len(e)
      <3>1. d \in Nat /\ Len(m) = d + Len(payload)
        BY <1>4, <1>6, <2>2
      <3>2. ASSUME NEW i \in 1 .. Len(payload) PROVE m[d + i] = payload[i]
        <4>1. /\ 1 + i \in 1 .. Len(t)
              /\ 4 + Len(token) + Len(e) + (1 + i) = d + i
          BY <1>4, <2>2
        <4>2. m[4 + Len(token) + Len(e) + (1 + i)] = t[1 + i]
          BY <1>8, <4>1
        <4>3. QED
          BY <2>2, <4>1, <4>2
      <3> HIDE DEF d
      <3>3. d + Len(payload) <= Len(m)
        BY <1>4, <3>1
      <3>4. SubSeq(m, d + 1, d + Len(payload)) = payload
        BY <1>6, <3>1, <3>2, <3>3, PartIs, Zenon
      <3>5. QED
        BY <3>1, <3>4 DEF d
    <2>3. QED
      BY <1>2, <2>1, <2>2
  <1>11. QED
    BY <1>9, <1>10, Zenon DEF Holds, e, t, m, from

-----------------------------------------------------------------------------
(* The tracking bytes *)

LEMMA MarkerIsByte ==
    ASSUME NEW low \in Byte, NEW high \in Byte
    PROVE  markerByte(low, high) \in Byte
  <1>1. ASSUME NEW c \in Byte PROVE ShiftMarker(c) \in Byte
    <2>1. (2 * c) % 256 \in Byte /\ 7 \in Byte
      BY ByteIs DEF Byte
    <2>2. BitXor((2 * c) % 256, 7) \in Byte
      BY <2>1, XorOfBytes
    <2>3. ~(c >= 128) => 2 * c \in Byte
      BY ByteIs
    <2>4. QED
      BY <2>2, <2>3 DEF ShiftMarker
  <1>2. \A c \in Byte : ShiftFour(c) \in Byte
    BY <1>1, Zenon DEF ShiftFour
  <1>3. \A c \in Byte : ShiftEight(c) \in Byte
    BY <1>2, Zenon DEF ShiftEight
  <1>4. BitXor(ShiftEight(low), high) \in Byte
    BY <1>3, XorOfBytes
  <1>5. QED
    BY <1>3, <1>4, Zenon DEF markerByte

\* The tracking bytes hold the port, and their marker fits.
LEMMA TrackingFacts ==
    ASSUME NEW port \in Short
    PROVE  /\ Tracking(port) \in Seq(Byte) /\ Len(Tracking(port)) = 3
           /\ Tracking(port)[1] = markerByte(Tracking(port)[2], Tracking(port)[3])
           /\ Tracking(port)[2] + 256 * Tracking(port)[3] = port
  <1> DEFINE a == port \div 256
             b == port % 256
  <1>1. a \in Byte /\ b \in Byte /\ 256 * a + b = port
    BY DivMod
  <1>2. Tracking(port) = <<markerByte(b, a), b, a>>
    BY DEF Tracking
  <1> HIDE DEF a, b
  <1>3. markerByte(b, a) \in Byte
    BY <1>1, MarkerIsByte
  <1>4. b + 256 * a = port
    BY <1>1, ByteIs
  <1>5. QED
    BY <1>1, <1>2, <1>3, <1>4

\* The first four bytes, with another first byte, and what follows the token.
Cuts(m, x, code, mid, token, rest) ==
    /\ <<x>> \o SubSeq(m, 2, 4) = <<x, code>> \o TwoBytes(mid)
    /\ SubSeq(m, 5, 4 + Len(token)) = token
    /\ SubSeq(m, 5 + Len(token), Len(m)) = rest

LEMMA MessageCut ==
    ASSUME NEW first \in Byte, NEW code \in Byte, NEW mid \in Short,
           NEW token \in Seq(Byte), NEW rest \in Seq(Byte), NEW x \in Byte,
           NEW m, Layout(m, first, code, mid, token, rest)
    PROVE  Cuts(m, x, code, mid, token, rest)
  <1>1. /\ m \in Seq(Byte) /\ Len(m) = 4 + Len(token) + Len(rest)
        /\ m[2] = code /\ m[3] = mid \div 256 /\ m[4] = mid % 256
        /\ \A i \in 1 .. Len(token) : m[4 + i] = token[i]
        /\ \A i \in 1 .. Len(rest) : m[4 + Len(token) + i] = rest[i]
    BY Zenon DEF Layout
  <1>2. Len(token) \in Nat /\ Len(rest) \in Nat
    OBVIOUS
  <1>3. <<x>> \o SubSeq(m, 2, 4) = <<x, code>> \o TwoBytes(mid)
    <2> DEFINE a == mid \div 256
               b == mid % 256
    <2>1. a \in Byte /\ b \in Byte
      BY DivMod
    <2>2. TwoBytes(mid) = <<a, b>> /\ m[3] = a /\ m[4] = b
      BY <1>1 DEF TwoBytes
    <2> HIDE DEF a, b
    <2>3. 4 <= Len(m)
      BY <1>1, <1>2
    <2>4. SubSeq(m, 2, 4) = <<code, a, b>>
      <3>1. <<code, a, b>> \in Seq(Byte) /\ Len(<<code, a, b>>) = 3
        BY <2>1
      <3>2. ASSUME NEW i \in 1 .. 3 PROVE m[1 + i] = <<code, a, b>>[i]
        BY <1>1, <2>2
      <3> DEFINE p == <<code, a, b>>
      <3> HIDE DEF p
      <3>3. SubSeq(m, 1 + 1, 1 + Len(p)) = p
        <4>1. 1 \in Nat /\ 1 + Len(p) <= Len(m)
          BY <2>3, <3>1 DEF p
        <4>2. \A i \in 1 .. Len(p) : m[1 + i] = p[i]
          BY <3>1, <3>2 DEF p
        <4>3. p \in Seq(Byte)
          BY <3>1 DEF p
        <4>4. QED
          BY <1>1, <4>1, <4>2, <4>3, PartIs, Zenon
      <3>4. QED
        BY <3>1, <3>3 DEF p
    <2>5. QED
      <3>1. <<x>> \o <<code, a, b>> = <<x, code>> \o <<a, b>>
        <4>1. <<x>> \in Seq(Byte) /\ <<code, a, b>> \in Seq(Byte)
          BY <2>1
        <4>2. <<x, code>> \in Seq(Byte) /\ <<a, b>> \in Seq(Byte)
          BY <2>1
        <4>3. QED
          BY <4>1, <4>2
      <3>2. QED
        BY <2>2, <2>4, <3>1
  <1>4. SubSeq(m, 5, 4 + Len(token)) = token
    <2>1. 4 \in Nat /\ 4 + Len(token) <= Len(m)
      BY <1>1, <1>2
    <2>2. SubSeq(m, 4 + 1, 4 + Len(token)) = token
      BY <1>1, <2>1, PartIs, Zenon
    <2>3. QED
      BY <2>2
  <1>5. SubSeq(m, 5 + Len(token), Len(m)) = rest
    <2> DEFINE d == 4 + Len(token)
    <2>1. d \in Nat /\ d + Len(rest) = Len(m) /\ d + 1 = 5 + Len(token)
          /\ d + Len(rest) <= Len(m)
      BY <1>1, <1>2
    <2>2. \A i \in 1 .. Len(rest) : m[d + i] = rest[i]
      BY <1>1
    <2> HIDE DEF d
    <2>3. SubSeq(m, d + 1, d + Len(rest)) = rest
      BY <1>1, <2>1, <2>2, PartIs, Zenon
    <2>4. QED
      BY <2>1, <2>3
  <1>6. QED
    BY <1>3, <1>4, <1>5, Zenon DEF Cuts

\* The tracker puts its bytes where the token is ...
LEMMA TrackingInserted ==
    ASSUME NEW first \in Byte, first + 3 \in Byte, NEW code \in Byte,
           NEW mid \in Short, NEW rest \in Seq(Byte), NEW port \in Short
    PROVE  InsertTracking(Message(first, code, mid, <<>>, rest), port)
               = Message(first + 3, code, mid, Tracking(port), rest)
  <1> DEFINE m == Message(first, code, mid, <<>>, rest)
  <1>1. <<>> \in Seq(Byte) /\ Len(<<>>) = 0
    BY EmptySeq
  <1>2. Layout(m, first, code, mid, <<>>, rest)
    BY <1>1, MessageParts
  <1> HIDE DEF m
  <1>3. Cuts(m, first + 3, code, mid, <<>>, rest)
    BY <1>1, <1>2, MessageCut
  <1>4. /\ <<first + 3>> \o SubSeq(m, 2, 4) = <<first + 3, code>> \o TwoBytes(mid)
        /\ SubSeq(m, 5 + Len(<<>>), Len(m)) = rest
    BY <1>3, Zenon DEF Cuts
  <1>5. SubSeq(m, 5, Len(m)) = rest
    <2>1. 5 + Len(<<>>) = 5
      BY <1>1
    <2>2. QED
      BY <1>4, <2>1
  <1>6. m[1] = first
    BY <1>2, Zenon DEF Layout
  <1>7. QED
    BY <1>4, <1>5, <1>6, Zenon DEF InsertTracking, Message, m

\* ... and takes them out again.
LEMMA TrackingRemoved ==
    ASSUME NEW first \in Byte, first - 3 \in Byte, NEW code \in Byte,
           NEW mid \in Short, NEW rest \in Seq(Byte), NEW port \in Short
    PROVE  RemoveTracking(Message(first, code, mid, Tracking(port), rest))
               = Message(first - 3, code, mid, <<>>, rest)
  <1> DEFINE m == Message(first, code, mid, Tracking(port), rest)
             token == Tracking(port)
  <1>1. token \in Seq(Byte) /\ Len(token) = 3
    BY TrackingFacts
  <1>2. Layout(m, first, code, mid, token, rest)
    BY <1>1, MessageParts
  <1> HIDE DEF m, token
  <1>3. Cuts(m, first - 3, code, mid, token, rest)
    BY <1>1, <1>2, MessageCut
  <1>4. /\ <<first - 3>> \o SubSeq(m, 2, 4) = <<first - 3, code>> \o TwoBytes(mid)
        /\ SubSeq(m, 5 + Len(token), Len(m)) = rest
    BY <1>3, Zenon DEF Cuts
  <1>5. SubSeq(m, 8, Len(m)) = rest
    <2>1. 5 + Len(token) = 8
      BY <1>1
    <2>2. QED
      BY <1>4, <2>1
  <1>6. m[1] = first
    BY <1>2, Zenon DEF Layout
  <1>7. (<<first - 3, code>> \o TwoBytes(mid)) \o <<>>
            = <<first - 3, code>> \o TwoBytes(mid)
    <2> DEFINE h == <<first - 3, code>> \o TwoBytes(mid)
    <2>1. h \in Seq(Byte)
      <3>1. TwoBytes(mid) \in Seq(Byte)
        <4>1. mid \div 256 \in Byte /\ mid % 256 \in Byte
          BY DivMod
        <4>2. QED
          BY <4>1 DEF TwoBytes
      <3>2. <<first - 3, code>> \in Seq(Byte)
        OBVIOUS
      <3>3. QED
        BY <3>1, <3>2, ConcatFacts
    <2> HIDE DEF h
    <2>2. h \o <<>> = h
      BY <2>1, ConcatFacts
    <2>3. QED
      BY <2>2 DEF h
  <1>8. QED
    BY <1>4, <1>5, <1>6, <1>7, Zenon DEF RemoveTracking, Message, m

-----------------------------------------------------------------------------
(* The options of a request *)

\* a list whose numbers do not fall, are low to high, with lengths below limit
Band(s, low, high, limit) ==
    /\ s \in Seq(OptionType)
    /\ \A i \in 1 .. Len(s) :
          /\ low <= s[i].number /\ s[i].number <= high
          /\ Len(s[i].value) < limit
    /\ \A i \in 2 .. Len(s) : s[i - 1].number <= s[i].number

\* such a list can be read by a reader with enough room for the highest number
LEMMA BandWritable ==
    ASSUME NEW s, NEW high \in Nat, NEW limit \in Nat, high < limit,
           NEW low \in Nat, Band(s, low, high, limit)
    PROVE  Writable(s, limit)
  <1>1. /\ s \in Seq(OptionType)
        /\ \A i \in 1 .. Len(s) :
              /\ low <= s[i].number /\ s[i].number <= high
              /\ Len(s[i].value) < limit
        /\ \A i \in 2 .. Len(s) : s[i - 1].number <= s[i].number
    BY Zenon DEF Band
  <1>2. SUFFICES ASSUME NEW i \in 1 .. Len(s)
                 PROVE  /\ Delta(s, i) \in Nat /\ Delta(s, i) < limit
                        /\ Len(s[i].value) < limit
    BY DEF Writable
  <1>3. s[i].number \in Nat /\ s[i].number <= high /\ Len(s[i].value) < limit
    BY <1>1, OptionFacts
  <1>4. CASE i = 1
    <2>1. Delta(s, i) = s[i].number - 0
      BY <1>4 DEF Delta
    <2>2. QED
      BY <1>3, <2>1
  <1>5. CASE i # 1
    <2>1. i \in 2 .. Len(s) /\ i - 1 \in 1 .. Len(s)
      BY <1>1, <1>5
    <2>2. s[i - 1].number \in Nat /\ s[i - 1].number <= s[i].number
      BY <1>1, <2>1, OptionFacts
    <2>3. Delta(s, i) = s[i].number - s[i - 1].number
      BY <1>5 DEF Delta
    <2>4. QED
      BY <1>3, <2>2, <2>3
  <1>6. QED
    BY <1>4, <1>5

LEMMA BandJoin ==
    ASSUME NEW a, NEW b, NEW low \in Nat, NEW middle \in Nat,
           NEW upper \in Nat, NEW high \in Nat, NEW limit,
           low <= upper, middle <= upper, upper <= high, low <= middle,
           Band(a, low, middle, limit), Band(b, upper, high, limit)
    PROVE  Band(a \o b, low, high, limit)
  <1> DEFINE s == a \o b
  <1>1. /\ a \in Seq(OptionType)
        /\ \A i \in 1 .. Len(a) :
              /\ low <= a[i].number /\ a[i].number <= middle
              /\ Len(a[i].value) < limit
        /\ \A i \in 2 .. Len(a) : a[i - 1].number <= a[i].number
    BY Zenon DEF Band
  <1>2. /\ b \in Seq(OptionType)
        /\ \A i \in 1 .. Len(b) :
              /\ upper <= b[i].number /\ b[i].number <= high
              /\ Len(b[i].value) < limit
        /\ \A i \in 2 .. Len(b) : b[i - 1].number <= b[i].number
    BY Zenon DEF Band
  <1>3. /\ s \in Seq(OptionType) /\ Len(s) = Len(a) + Len(b)
        /\ \A i \in 1 .. Len(a) : s[i] = a[i]
        /\ \A i \in 1 .. Len(b) : s[Len(a) + i] = b[i]
    BY <1>1, <1>2, TwoParts
  <1>4. Len(a) \in Nat /\ Len(b) \in Nat
    BY <1>1, <1>2
  <1> HIDE DEF s
  <1>5. ASSUME NEW i \in 1 .. Len(s)
        PROVE  \/ i \in 1 .. Len(a) /\ s[i] = a[i]
               \/ /\ i - Len(a) \in 1 .. Len(b) /\ s[i] = b[i - Len(a)]
                  /\ i > Len(a)
    <2>1. CASE i <= Len(a)
      BY <1>3, <1>4, <2>1
    <2>2. CASE i > Len(a)
      <3>1. i - Len(a) \in 1 .. Len(b) /\ Len(a) + (i - Len(a)) = i
        BY <1>3, <1>4, <2>2
      <3>2. s[Len(a) + (i - Len(a))] = b[i - Len(a)]
        BY <1>3, <3>1
      <3>3. QED
        BY <2>2, <3>1, <3>2
    <2>3. QED
      BY <1>4, <2>1, <2>2
  <1>6. \A i \in 1 .. Len(s) : s[i].number \in Nat
    BY <1>3, OptionFacts
  <1>7. ASSUME NEW i \in 1 .. Len(s)
        PROVE  /\ low <= s[i].number /\ s[i].number <= high
               /\ Len(s[i].value) < limit
    <2>1. CASE i \in 1 .. Len(a) /\ s[i] = a[i]
      <3>1. low <= a[i].number /\ a[i].number <= middle /\ Len(a[i].value) < limit
        BY <1>1, <2>1
      <3>2. QED
        BY <1>6, <2>1, <3>1
    <2>2. CASE i - Len(a) \in 1 .. Len(b) /\ s[i] = b[i - Len(a)]
      <3>1. /\ upper <= b[i - Len(a)].number /\ b[i - Len(a)].number <= high
            /\ Len(b[i - Len(a)].value) < limit
        BY <1>2, <2>2
      <3>2. QED
        BY <1>6, <2>2, <3>1
    <2>3. QED
      BY <1>5, <2>1, <2>2
  <1>8. ASSUME NEW i \in 2 .. Len(s) PROVE s[i - 1].number <= s[i].number
    <2>0. i \in 1 .. Len(s) /\ i - 1 \in 1 .. Len(s) /\ Len(s) \in Nat
      BY <1>3, <1>4
    <2>1. CASE i \in 1 .. Len(a) /\ s[i] = a[i]
      <3>1. i \in 2 .. Len(a) /\ i - 1 \in 1 .. Len(a)
        BY <1>4, <2>0, <2>1
      <3>2. QED
        BY <1>1, <1>3, <2>1, <3>1
    <2>2. CASE /\ i - Len(a) \in 1 .. Len(b) /\ s[i] = b[i - Len(a)]
               /\ i = Len(a) + 1
      <3>1. i - 1 \in 1 .. Len(a) /\ s[i - 1] = a[i - 1]
        BY <1>3, <1>4, <2>0, <2>2
      <3>2. a[i - 1].number <= middle /\ upper <= b[i - Len(a)].number
        BY <1>1, <1>2, <2>2, <3>1
      <3>3. QED
        BY <1>6, <2>0, <2>2, <3>1, <3>2
    <2>3. CASE /\ i - Len(a) \in 1 .. Len(b) /\ s[i] = b[i - Len(a)]
               /\ i > Len(a) + 1
      <3> DEFINE j == i - Len(a)
      <3>1. /\ j \in 2 .. Len(b) /\ j - 1 \in 1 .. Len(b)
            /\ Len(a) + (j - 1) = i - 1
        BY <1>4, <2>0, <2>3
      <3>2. s[i] = b[j]
        BY <2>3
      <3> HIDE DEF j
      <3>3. s[i - 1] = b[j - 1]
        BY <1>3, <3>1
      <3>4. b[j - 1].number <= b[j].number
        BY <1>2, <3>1
      <3>5. QED
        BY <3>2, <3>3, <3>4
    <2>4. QED
      BY <1>4, <1>5, <2>0, <2>1, <2>2, <2>3
  <1>9. QED
    BY <1>3, <1>7, <1>8, Zenon DEF Band, s

LEMMA BandEmpty ==
    ASSUME NEW low, NEW high, NEW limit
    PROVE  Band(<<>>, low, high, limit)
  <1>1. <<>> \in Seq(OptionType) /\ Len(<<>>) = 0
    BY EmptySeq
  <1>2. 1 .. 0 = {} /\ 2 .. 0 = {}
    OBVIOUS
  <1>3. QED
    BY <1>1, <1>2 DEF Band

\* the same number for every value
Same(number, values) == [i \in DOMAIN values |-> Option(number, values[i])]

LEMMA BandSame ==
    ASSUME NEW n \in Short, NEW values \in Seq(Seq(Byte)), NEW limit,
           \A i \in 1 .. Len(values) : Len(values[i]) < limit
    PROVE  /\ Band(Same(n, values), n, n, limit)
           /\ Len(Same(n, values)) = Len(values)
           /\ \A i \in 1 .. Len(values) : Same(n, values)[i] = Option(n, values[i])
  <1> DEFINE s == Same(n, values)
  <1>0. DOMAIN values = 1 .. Len(values) /\ Len(values) \in Nat
    OBVIOUS
  <1>1. s = [i \in 1 .. Len(values) |-> Option(n, values[i])]
    BY <1>0 DEF Same
  <1>2. ASSUME NEW i \in 1 .. Len(values)
        PROVE  /\ Option(n, values[i]) \in OptionType
               /\ Option(n, values[i]).number = n
               /\ Option(n, values[i]).value = values[i]
    BY DEF Option, OptionType
  <1> HIDE DEF s
  <1>3. s \in Seq(OptionType) /\ Len(s) = Len(values)
    BY <1>0, <1>1, <1>2
  <1>4. \A i \in 1 .. Len(values) : s[i] = Option(n, values[i])
    BY <1>1
  <1>5. n \in Nat
    BY ShortFacts
  <1>6. ASSUME NEW i \in 1 .. Len(s)
        PROVE  /\ n <= s[i].number /\ s[i].number <= n
               /\ Len(s[i].value) < limit /\ s[i].number = n
    <2>1. s[i].number = n /\ s[i].value = values[i] /\ Len(values[i]) < limit
      BY <1>2, <1>3, <1>4
    <2>2. QED
      BY <1>5, <2>1
  <1>7. ASSUME NEW i \in 2 .. Len(s) PROVE s[i - 1].number <= s[i].number
    <2>1. i \in 1 .. Len(s) /\ i - 1 \in 1 .. Len(s)
      BY <1>0, <1>3
    <2>2. QED
      BY <1>5, <1>6, <2>1
  <1>8. Band(s, n, n, limit)
    BY <1>3, <1>6, <1>7, Zenon DEF Band
  <1>9. QED
    BY <1>3, <1>4, <1>8 DEF s

LEMMA UintBytes ==
    ASSUME NEW n \in Short
    PROVE  UintValue(n) \in Seq(Byte) /\ Len(UintValue(n)) <= 2
  <1> DEFINE a == n \div 256
             b == n % 256
  <1>1. a \in Byte /\ b \in Byte
    BY DivMod
  <1>2. TwoBytes(n) = <<a, b>>
    BY DEF TwoBytes
  <1> HIDE DEF a, b
  <1>3. n <= 255 => n \in Byte
    BY ShortFacts, ByteIs
  <1>4. n \in Nat
    BY ShortFacts
  <1>5. QED
    BY <1>1, <1>2, <1>3, <1>4, EmptySeq DEF UintValue

LEMMA BandOne ==
    ASSUME NEW n \in Short, NEW value \in Seq(Byte), NEW limit,
           Len(value) < limit
    PROVE  /\ Band(<<Option(n, value)>>, n, n, limit)
           /\ Len(<<Option(n, value)>>) = 1
  <1> DEFINE one == <<Option(n, value)>>
  <1>1. one \in Seq(OptionType) /\ Len(one) = 1 /\ one[1] = Option(n, value)
    BY DEF Option, OptionType
  <1>2. one[1].number = n /\ one[1].value = value
    BY DEF Option
  <1>3. n \in Nat
    BY ShortFacts
  <1>4. ASSUME NEW i \in 1 .. Len(one)
        PROVE  /\ n <= one[i].number /\ one[i].number <= n
               /\ Len(one[i].value) < limit
    <2>1. i = 1
      BY <1>1
    <2>2. QED
      BY <1>2, <1>3, <2>1
  <1>5. ASSUME NEW i \in 2 .. Len(one) PROVE FALSE
    BY <1>1
  <1> HIDE DEF one
  <1>6. Band(one, n, n, limit)
    BY <1>1, <1>4, <1>5, Zenon DEF Band
  <1>7. QED
    BY <1>1, <1>6 DEF one

RequestType(r) ==
    /\ r.port \in Short /\ r.method \in {GET, POST}
    /\ r.observe \in BOOLEAN /\ r.value \in Short /\ r.format \in Short
    /\ r.segments \in Seq(Seq(Byte)) /\ r.queries \in Seq(Seq(Byte))
    /\ \A i \in 1 .. Len(r.segments) : Len(r.segments[i]) < ShortSize
    /\ \A i \in 1 .. Len(r.queries) : Len(r.queries[i]) < ShortSize
    /\ r.payload \in Seq(Byte) /\ Payload(r) \in Seq(Byte)

LEMMA RequestTyped ==
    ASSUME NEW r \in Requests
    PROVE  RequestType(r)
  <1>1. /\ r.port \in Short /\ r.method \in {GET, POST}
        /\ r.observe \in BOOLEAN /\ r.value \in Short /\ r.format \in Short
        /\ r.payload \in Seq(Byte)
    BY RequestsAssumption
  <1>2. ASSUME NEW parts \in {r.segments, r.queries}
        PROVE  /\ parts \in Seq(Seq(Byte))
               /\ \A i \in 1 .. Len(parts) : Len(parts[i]) < ShortSize
    <2>1. /\ parts \in Seq(Seq(Byte))
          /\ \A i \in DOMAIN parts : Len(parts[i]) \in Short
      BY RequestsAssumption
    <2>2. DOMAIN parts = 1 .. Len(parts)
      BY <2>1
    <2>3. QED
      BY <2>1, <2>2, ShortFacts
  <1>3. Payload(r) \in Seq(Byte)
    BY <1>1, EmptySeq DEF Payload
  <1>4. QED
    BY <1>1, <1>2, <1>3 DEF RequestType

Observed(r) == IF r.observe THEN <<Option(Observe, UintValue(r.value))>> ELSE <<>>
Formatted(r) == IF r.format = NONE THEN <<>>
                ELSE <<Option(ContentFormat, UintValue(r.format))>>

LEMMA OptionsParts ==
    ASSUME NEW r
    PROVE  Options(r) = Observed(r) \o Same(UriPath, r.segments)
                        \o Formatted(r) \o Same(UriQuery, r.queries)
  BY Zenon DEF Options, Observed, Formatted, Same

LEMMA OptionNumbers ==
    /\ Observe = 6 /\ UriPath = 11 /\ ContentFormat = 12 /\ UriQuery = 15
    /\ Observe \in Short /\ UriPath \in Short /\ ContentFormat \in Short
    /\ UriQuery \in Short
  BY ShortIs DEF Observe, UriPath, ContentFormat, UriQuery

\* The parts of the list of options.
LEMMA RequestParts ==
    ASSUME NEW r, RequestType(r)
    PROVE  /\ Band(Observed(r), 6, 6, ShortSize) /\ Len(Observed(r)) <= 1
           /\ Band(Same(UriPath, r.segments), 11, 11, ShortSize)
           /\ Band(Formatted(r), 12, 12, ShortSize) /\ Len(Formatted(r)) <= 1
           /\ Band(Same(UriQuery, r.queries), 15, 15, ShortSize)
  <1>1. /\ r.observe \in BOOLEAN /\ r.value \in Short /\ r.format \in Short
        /\ r.segments \in Seq(Seq(Byte)) /\ r.queries \in Seq(Seq(Byte))
        /\ \A i \in 1 .. Len(r.segments) : Len(r.segments[i]) < ShortSize
        /\ \A i \in 1 .. Len(r.queries) : Len(r.queries[i]) < ShortSize
    BY Zenon DEF RequestType
  <1>2. ASSUME NEW n \in Short
        PROVE  UintValue(n) \in Seq(Byte) /\ Len(UintValue(n)) < ShortSize
    <2>1. UintValue(n) \in Seq(Byte) /\ Len(UintValue(n)) <= 2
      BY UintBytes
    <2>2. Len(UintValue(n)) \in Nat
      BY <2>1
    <2>3. QED
      BY <2>1, <2>2, ShortIs
  <1>3. Len(<<>>) = 0
    OBVIOUS
  <1>4. Band(Observed(r), 6, 6, ShortSize) /\ Len(Observed(r)) <= 1
    <2>1. CASE r.observe
      <3>1. /\ Band(<<Option(Observe, UintValue(r.value))>>, Observe, Observe,
                    ShortSize)
            /\ Len(<<Option(Observe, UintValue(r.value))>>) = 1
        BY <1>1, <1>2, OptionNumbers, BandOne
      <3>2. QED
        BY <2>1, <3>1, OptionNumbers DEF Observed
    <2>2. CASE ~r.observe
      BY <1>3, <2>2, BandEmpty DEF Observed
    <2>3. QED
      BY <2>1, <2>2
  <1>5. Band(Formatted(r), 12, 12, ShortSize) /\ Len(Formatted(r)) <= 1
    <2>1. CASE r.format # NONE
      <3>1. /\ Band(<<Option(ContentFormat, UintValue(r.format))>>,
                    ContentFormat, ContentFormat, ShortSize)
            /\ Len(<<Option(ContentFormat, UintValue(r.format))>>) = 1
        BY <1>1, <1>2, OptionNumbers, BandOne
      <3>2. QED
        BY <2>1, <3>1, OptionNumbers DEF Formatted
    <2>2. CASE r.format = NONE
      BY <1>3, <2>2, BandEmpty DEF Formatted
    <2>3. QED
      BY <2>1, <2>2
  <1>6. Band(Same(UriPath, r.segments), UriPath, UriPath, ShortSize)
    BY <1>1, OptionNumbers, BandSame
  <1>7. Band(Same(UriQuery, r.queries), UriQuery, UriQuery, ShortSize)
    BY <1>1, OptionNumbers, BandSame
  <1>8. QED
    BY <1>4, <1>5, <1>6, <1>7, OptionNumbers

LEMMA RequestBand ==
    ASSUME NEW r, RequestType(r)
    PROVE  Band(Options(r), 6, 15, ShortSize)
  <1> DEFINE a == Observed(r)
             b == Same(UriPath, r.segments)
             c == Formatted(r)
             d == Same(UriQuery, r.queries)
  <1>1. /\ Band(a, 6, 6, ShortSize) /\ Band(b, 11, 11, ShortSize)
        /\ Band(c, 12, 12, ShortSize) /\ Band(d, 15, 15, ShortSize)
    BY RequestParts
  <1>2. Options(r) = a \o b \o c \o d
    BY OptionsParts
  <1> HIDE DEF a, b, c, d
  <1>3. Band(a \o b, 6, 11, ShortSize)
    BY <1>1, BandJoin
  <1>4. Band(a \o b \o c, 6, 12, ShortSize)
    BY <1>1, <1>3, BandJoin
  <1>5. Band(a \o b \o c \o d, 6, 15, ShortSize)
    BY <1>1, <1>4, BandJoin
  <1>6. QED
    BY <1>2, <1>5

LEMMA BytesAssociative ==
    \A a, b, c \in Seq(Byte) : (a \o b) \o c = a \o (b \o c)
  BY ConcatAssociative

\* What the agent sends for a request.
LEMMA RequestBytes ==
    ASSUME NEW r, RequestType(r)
    PROVE  InsertTracking(buildMessage(r, JS_MID), r.port)
               = Message(67, r.method, JS_MID, Tracking(r.port),
                         encodeOptions(Options(r)) \o PayloadPart(Payload(r)))
  <1> DEFINE e == encodeOptions(Options(r))
             t == PayloadPart(Payload(r))
  <1>1. /\ r.port \in Short /\ r.method \in {GET, POST}
        /\ Payload(r) \in Seq(Byte)
    BY Zenon DEF RequestType
  <1>2. r.method \in Byte /\ JS_MID \in Short /\ 64 \in Byte /\ 64 + 3 \in Byte
        /\ 64 + 3 = 67
    BY <1>1, ShortIs DEF GET, POST, JS_MID, Byte
  <1>3. e \in Seq(Byte) /\ t \in Seq(Byte)
    <2>1. Band(Options(r), 6, 15, ShortSize)
      BY RequestBand
    <2>2. Writable(Options(r), ShortSize) /\ Options(r) \in Seq(OptionType)
      <3>1. 15 < ShortSize /\ ShortSize \in Nat
        BY ShortIs
      <3>2. Writable(Options(r), ShortSize)
        BY <2>1, <3>1, BandWritable
      <3>3. QED
        BY <2>1, <3>2, Zenon DEF Band
    <2>3. ShortSize \in Sizes /\ Limit(ShortSize) = ShortSize
      BY ShortIs DEF Sizes, Limit
    <2>4. e \in Seq(Byte)
      BY <2>2, <2>3, WrittenFacts
    <2>5. PayloadMarker \in Byte
      BY DEF PayloadMarker, Byte
    <2>6. <<PayloadMarker>> \in Seq(Byte)
      BY <2>5
    <2>7. t \in Seq(Byte)
      BY <1>1, <2>6, ConcatFacts, EmptySeq DEF PayloadPart
    <2>8. QED
      BY <2>4, <2>7
  <1> DEFINE h == <<64, r.method>> \o TwoBytes(JS_MID)
  <1>4. h \in Seq(Byte)
    <2>1. JS_MID \div 256 \in Byte /\ JS_MID % 256 \in Byte
      BY <1>2, DivMod
    <2>2. <<64, r.method>> \in Seq(Byte) /\ TwoBytes(JS_MID) \in Seq(Byte)
      BY <1>2, <2>1 DEF TwoBytes
    <2>3. QED
      BY <2>2, ConcatFacts
  <1>5. Header(CON, r.method, JS_MID, <<>>) = h \o <<>>
    <2>1. Len(<<>>) % 16 = 0 /\ 64 + 16 * CON + 0 = 64
      BY DEF CON
    <2>2. QED
      BY <2>1 DEF Header
  <1>6. buildMessage(r, JS_MID) = (h \o <<>>) \o e \o t
    BY <1>5 DEF buildMessage, PayloadPart
  <1> HIDE DEF h, e, t
  <1>7. ((h \o <<>>) \o e) \o t = (h \o <<>>) \o (e \o t)
    <2>1. h \o <<>> \in Seq(Byte)
      BY <1>4, ConcatFacts
    <2>2. QED
      BY <1>3, <2>1, BytesAssociative, Zenon
  <1>8. buildMessage(r, JS_MID) = Message(64, r.method, JS_MID, <<>>, e \o t)
    BY <1>6, <1>7, Zenon DEF Message, h
  <1>9. e \o t \in Seq(Byte)
    BY <1>3, ConcatFacts
  <1>10. InsertTracking(Message(64, r.method, JS_MID, <<>>, e \o t), r.port)
            = Message(64 + 3, r.method, JS_MID, Tracking(r.port), e \o t)
    <2>1. ASSUME NEW f \in Byte, f + 3 \in Byte, NEW code \in Byte,
                 NEW mid \in Short, NEW rest \in Seq(Byte), NEW port \in Short
          PROVE  InsertTracking(Message(f, code, mid, <<>>, rest), port)
                     = Message(f + 3, code, mid, Tracking(port), rest)
      BY <2>1, TrackingInserted, ZenonT(40)
    <2> DEFINE f == 64
    <2>2. /\ f \in Byte /\ f + 3 \in Byte
          /\ r.method \in Byte /\ JS_MID \in Short /\ r.port \in Short
      BY <1>1, <1>2
    <2> HIDE DEF f
    <2>3. InsertTracking(Message(f, r.method, JS_MID, <<>>, e \o t), r.port)
              = Message(f + 3, r.method, JS_MID, Tracking(r.port), e \o t)
      BY <1>9, <2>1, <2>2, ZenonT(40)
    <2>4. QED
      BY <2>3 DEF f
  <1>11. QED
    BY <1>2, <1>8, <1>10 DEF e, t

-----------------------------------------------------------------------------
(* What the peers read *)

\* The head of a message with a token of that length.
Heads(m, first, code, mid, token) ==
    /\ looksLikeCoap(m)
    /\ TokenLength(m) = Len(token) /\ Token(m) = token
    /\ getMid(m) = mid /\ m[1] = first /\ m[2] = code

LEMMA HeadRead ==
    ASSUME NEW first \in Byte, NEW code \in Byte, NEW mid \in Short,
           NEW token \in Seq(Byte), NEW rest \in Seq(Byte),
           first % 16 = Len(token), first \div 64 = 1, Len(token) <= 8
    PROVE  Heads(Message(first, code, mid, token, rest),
                 first, code, mid, token)
  <1> DEFINE m == Message(first, code, mid, token, rest)
  <1>1. Layout(m, first, code, mid, token, rest)
    BY MessageParts
  <1>2. first \in Byte
    OBVIOUS
  <1> HIDE DEF m
  <1>3. Cuts(m, first, code, mid, token, rest)
    BY <1>1, MessageCut
  <1>4. /\ Len(m) = 4 + Len(token) + Len(rest) /\ getMid(m) = mid
        /\ m[1] = first /\ m[2] = code
    BY <1>1, Zenon DEF Layout
  <1>5. SubSeq(m, 5, 4 + Len(token)) = token
    BY <1>3, Zenon DEF Cuts
  <1>6. TokenLength(m) = Len(token)
    BY <1>4 DEF TokenLength
  <1>7. Token(m) = token
    BY <1>5, <1>6 DEF Token
  <1>8. looksLikeCoap(m)
    <2>1. Len(token) \in Nat /\ Len(rest) \in Nat
      OBVIOUS
    <2>2. Len(m) >= 4 + Len(token)
      BY <1>4, <2>1
    <2>3. QED
      BY <1>4, <1>6, <2>2 DEF looksLikeCoap
  <1>9. QED
    BY <1>4, <1>6, <1>7, <1>8, Zenon DEF Heads, m

Understood(r, bytes) ==
    /\ looksLikeCoap(bytes)
    /\ ReadMessage(bytes).code = r.method
    /\ ReadMessage(bytes).mid = JS_MID
    /\ ReadMessage(bytes).token = Tracking(r.port)
    /\ ReadMessage(bytes).options = Options(r)
    /\ ReadMessage(bytes).payload = Payload(r)

Sent(r) == InsertTracking(buildMessage(r, JS_MID), r.port)

\* The head of what the agent sends, and the options in it.
LEMMA SentCarries ==
    ASSUME NEW r, RequestType(r), NEW size \in Sizes,
           Writable(Options(r), Limit(size))
    PROVE  /\ Heads(Sent(r), 67, r.method, JS_MID, Tracking(r.port))
           /\ Carries(Sent(r), size, 8, Options(r))
           /\ SubSeq(Sent(r), 8 + Len(encodeOptions(Options(r))) + 1,
                     Len(Sent(r))) = Payload(r)
  <1> DEFINE e == encodeOptions(Options(r))
             t == PayloadPart(Payload(r))
             first == 67
             token == Tracking(r.port)
             m == Message(first, r.method, JS_MID, token, e \o t)
  <1>1. /\ r.port \in Short /\ r.method \in {GET, POST}
        /\ Payload(r) \in Seq(Byte)
    BY Zenon DEF RequestType
  <1>2. Sent(r) = m
    BY RequestBytes DEF Sent
  <1>3. /\ r.method \in Byte /\ JS_MID \in Short /\ first \in Byte
        /\ first % 16 = 3 /\ first \div 64 = 1
    BY <1>1, ShortIs DEF GET, POST, JS_MID, Byte
  <1>4. token \in Seq(Byte) /\ Len(token) = 3
    BY <1>1, TrackingFacts
  <1>5. Options(r) \in Seq(OptionType)
    BY RequestBand, Zenon DEF Band
  <1>6. e \o t \in Seq(Byte)
    <2>1. e \in Seq(Byte)
      BY <1>5, WrittenFacts
    <2>2. PayloadMarker \in Byte
      BY DEF PayloadMarker, Byte
    <2>3. <<PayloadMarker>> \in Seq(Byte)
      BY <2>2
    <2>4. t \in Seq(Byte)
      BY <1>1, <2>3, ConcatFacts, EmptySeq DEF PayloadPart
    <2>5. QED
      BY <2>1, <2>4, ConcatFacts
  <1>7. Holds(m, size, 5 + Len(token), Options(r), Payload(r))
    <2> HIDE DEF first, token
    <2>1. QED
      BY <1>1, <1>3, <1>4, <1>5, MessageCarries
  <1>8. Heads(m, first, r.method, JS_MID, token)
    <2>1. first % 16 = Len(token) /\ Len(token) <= 8
      BY <1>3, <1>4
    <2> HIDE DEF first, token, e, t
    <2>2. QED
      BY <1>3, <1>4, <1>6, <2>1, HeadRead
  <1>9. 5 + Len(token) = 8
    BY <1>4
  <1> HIDE DEF m
  <1>10. QED
    BY <1>2, <1>7, <1>8, <1>9 DEF Holds, first, token

\* The NSC understands what the agent sends.
LEMMA RequestRead ==
    ASSUME NEW r, RequestType(r)
    PROVE  Understood(r, Sent(r))
  <1> DEFINE m == Sent(r)
             e == encodeOptions(Options(r))
  <1>1. ShortSize \in Sizes /\ Writable(Options(r), Limit(ShortSize))
    <2>1. 15 < ShortSize /\ ShortSize \in Nat
      BY ShortIs
    <2>2. Writable(Options(r), ShortSize)
      BY <2>1, RequestBand, BandWritable
    <2>3. ShortSize \in Sizes /\ Limit(ShortSize) = ShortSize
      BY ShortIs DEF Sizes, Limit
    <2>4. QED
      BY <2>2, <2>3
  <1>2. /\ Heads(m, 67, r.method, JS_MID, Tracking(r.port))
        /\ Carries(m, ShortSize, 8, Options(r))
        /\ SubSeq(m, 8 + Len(e) + 1, Len(m)) = Payload(r)
    BY <1>1, SentCarries
  <1> DEFINE read == ReadOptions(m, ShortSize, 8)
  <1>3. read.options = Options(r) /\ read.at = 8 + Len(e)
    BY <1>1, <1>2, OptionsReadBack
  <1>4. /\ looksLikeCoap(m) /\ TokenLength(m) = Len(Tracking(r.port))
        /\ Token(m) = Tracking(r.port) /\ getMid(m) = JS_MID /\ m[2] = r.method
    BY <1>2, Zenon DEF Heads
  <1>5. 5 + TokenLength(m) = 8
    <2>1. r.port \in Short
      BY Zenon DEF RequestType
    <2>2. Len(Tracking(r.port)) = 3
      BY <2>1, TrackingFacts
    <2>3. QED
      BY <1>4, <2>2
  <1> HIDE DEF m, e
  <1>6. ReadMessage(m) =
            [code |-> m[2], mid |-> getMid(m), token |-> Token(m),
             options |-> read.options,
             payload |-> SubSeq(m, read.at + 1, Len(m))]
    BY <1>5 DEF ReadMessage
  <1> HIDE DEF read
  <1>7. SubSeq(m, read.at + 1, Len(m)) = Payload(r)
    BY <1>2, <1>3
  <1>8. QED
    BY <1>3, <1>4, <1>6, <1>7 DEF Understood, m

\* the segments are the options with the number of a Uri-Path
PathOptions(r) ==
    LET o == Len(Observed(r))
        s == Len(r.segments)
    IN /\ o + s <= Len(Options(r))
       /\ \A i \in 1 .. Len(Options(r)) :
            IF o < i /\ i <= o + s
            THEN Options(r)[i] = Option(UriPath, r.segments[i - o])
            ELSE Options(r)[i].number # UriPath

LEMMA PathOptionsFound ==
    ASSUME NEW r, RequestType(r)
    PROVE  PathOptions(r)
  <1> DEFINE a == Observed(r)
             b == Same(UriPath, r.segments)
             c == Formatted(r)
             d == Same(UriQuery, r.queries)
             all == Options(r)
  <1>1. /\ Band(a, 6, 6, ShortSize) /\ Band(b, 11, 11, ShortSize)
        /\ Band(c, 12, 12, ShortSize) /\ Band(d, 15, 15, ShortSize)
    BY RequestParts
  <1>2. all = a \o b \o c \o d
    BY OptionsParts
  <1>3. /\ Len(b) = Len(r.segments) /\ Len(r.segments) \in Nat
        /\ \A i \in 1 .. Len(r.segments) : b[i] = Option(UriPath, r.segments[i])
    <2>1. /\ r.segments \in Seq(Seq(Byte)) /\ UriPath \in Short
          /\ \A i \in 1 .. Len(r.segments) : Len(r.segments[i]) < ShortSize
      BY OptionNumbers, Zenon DEF RequestType
    <2>2. /\ Band(b, UriPath, UriPath, ShortSize)
          /\ Len(b) = Len(r.segments)
          /\ \A i \in 1 .. Len(r.segments) :
                 b[i] = Option(UriPath, r.segments[i])
      BY <2>1, BandSame
    <2>3. QED
      BY <2>1, <2>2
  <1> HIDE DEF a, b, c, d, all
  <1>4. /\ a \in Seq(OptionType) /\ b \in Seq(OptionType)
        /\ c \in Seq(OptionType) /\ d \in Seq(OptionType)
    BY <1>1 DEF Band
  <1>5. Parts(all, a, b, c, d)
    BY <1>2, <1>4, FourParts
  <1>6. /\ Len(all) = Len(a) + Len(b) + Len(c) + Len(d)
        /\ \A i \in 1 .. Len(a) : all[i] = a[i]
        /\ \A i \in 1 .. Len(b) : all[Len(a) + i] = b[i]
        /\ \A i \in 1 .. Len(c) : all[Len(a) + Len(b) + i] = c[i]
        /\ \A i \in 1 .. Len(d) : all[Len(a) + Len(b) + Len(c) + i] = d[i]
    BY <1>5, Zenon DEF Parts
  <1>7. Len(a) \in Nat /\ Len(b) \in Nat /\ Len(c) \in Nat /\ Len(d) \in Nat
    BY <1>4
  <1>8. /\ \A i \in 1 .. Len(a) : a[i].number # 11
        /\ \A i \in 1 .. Len(c) : c[i].number # 11
        /\ \A i \in 1 .. Len(d) : d[i].number # 11
    <2>1. /\ \A i \in 1 .. Len(a) : a[i].number \in Nat /\ a[i].number <= 6
          /\ \A i \in 1 .. Len(c) : c[i].number \in Nat /\ 12 <= c[i].number
          /\ \A i \in 1 .. Len(d) : d[i].number \in Nat /\ 15 <= d[i].number
      BY <1>1, <1>4, OptionFacts DEF Band
    <2>2. QED
      BY <2>1
  <1>9. ASSUME NEW i \in 1 .. Len(all)
        PROVE  IF Len(a) < i /\ i <= Len(a) + Len(b)
               THEN all[i] = b[i - Len(a)]
               ELSE all[i].number # 11
    <2>1. CASE i <= Len(a)
      <3>1. i \in 1 .. Len(a)
        BY <1>7, <2>1
      <3>2. all[i] = a[i] /\ a[i].number # 11
        BY <1>6, <1>8, <3>1
      <3>3. QED
        BY <1>7, <2>1, <3>2
    <2>2. CASE Len(a) < i /\ i <= Len(a) + Len(b)
      <3>1. i - Len(a) \in 1 .. Len(b) /\ Len(a) + (i - Len(a)) = i
        BY <1>7, <2>2
      <3>2. all[Len(a) + (i - Len(a))] = b[i - Len(a)]
        BY <1>6, <3>1
      <3>3. QED
        BY <2>2, <3>1, <3>2
    <2>3. CASE Len(a) + Len(b) < i /\ i <= Len(a) + Len(b) + Len(c)
      <3> DEFINE j == i - Len(a) - Len(b)
      <3>1. j \in 1 .. Len(c) /\ Len(a) + Len(b) + j = i
        BY <1>7, <2>3
      <3> HIDE DEF j
      <3>2. all[Len(a) + Len(b) + j] = c[j] /\ c[j].number # 11
        BY <1>6, <1>8, <3>1
      <3>3. all[i].number # 11
        BY <3>1, <3>2
      <3>4. QED
        BY <1>7, <2>3, <3>3
    <2>4. CASE Len(a) + Len(b) + Len(c) < i
      <3> DEFINE j == i - Len(a) - Len(b) - Len(c)
      <3>1. j \in 1 .. Len(d) /\ Len(a) + Len(b) + Len(c) + j = i
        BY <1>6, <1>7, <2>4
      <3> HIDE DEF j
      <3>2. all[Len(a) + Len(b) + Len(c) + j] = d[j] /\ d[j].number # 11
        BY <1>6, <1>8, <3>1
      <3>3. all[i].number # 11
        BY <3>1, <3>2
      <3>4. QED
        BY <1>7, <2>4, <3>3
    <2>5. QED
      BY <1>7, <2>1, <2>2, <2>3, <2>4
  <1> DEFINE o == Len(a)
             s == Len(b)
  <1>10. o + s <= Len(all)
    BY <1>6, <1>7
  <1>11. ASSUME NEW i \in 1 .. Len(all)
         PROVE  IF o < i /\ i <= o + s
                THEN all[i] = Option(UriPath, r.segments[i - o])
                ELSE all[i].number # UriPath
    <2>1. CASE o < i /\ i <= o + s
      <3>1. i - o \in 1 .. Len(r.segments)
        BY <1>3, <1>7, <2>1
      <3>2. all[i] = b[i - o] /\ b[i - o] = Option(UriPath, r.segments[i - o])
        BY <1>3, <1>9, <2>1, <3>1
      <3>3. QED
        BY <2>1, <3>2
    <2>2. CASE ~(o < i /\ i <= o + s)
      BY <1>9, <2>2, OptionNumbers
    <2>3. QED
      BY <2>1, <2>2
  <1>12. o = Len(Observed(r)) /\ s = Len(r.segments)
    BY <1>3 DEF a
  <1> HIDE DEF o, s
  <1>13. QED
    BY <1>10, <1>11, <1>12, Zenon DEF PathOptions, all

\* The tracker reads the path of what the agent sends.
LEMMA PathRead ==
    ASSUME NEW r, RequestType(r), FitsOneByte(Options(r))
    PROVE  extractUriPath(Sent(r)) = r.segments
  <1> DEFINE m == Sent(r)
             options == Options(r)
             n == Len(options)
             o == Len(Observed(r))
             s == Len(r.segments)
             turn == Turns(m, 256, 8)
             shown(k) == IF k <= o THEN 0 ELSE IF k <= o + s THEN k - o ELSE s
             Path(k) == turn[k].path = SubSeq(r.segments, 1, shown(k))
             T == {k \in Nat : k <= n => Path(k)}
  <1>1. options \in Seq(OptionType) /\ n \in Nat
    BY RequestBand DEF Band
  <1>2. 256 \in Sizes /\ Limit(256) = 256 /\ Writable(options, 256)
    <2>1. Band(options, 6, 15, 256)
      <3>1. Band(options, 6, 15, ShortSize)
        BY RequestBand
      <3>2. \A i \in 1 .. Len(options) : Len(options[i].value) < 256
        BY <1>1 DEF FitsOneByte
      <3>3. QED
        BY <3>1, <3>2 DEF Band
    <2> HIDE DEF options
    <2>2. Writable(options, 256)
      BY <2>1, BandWritable
    <2>3. QED
      BY <2>2 DEF Sizes, Limit
  <1>3. /\ Heads(m, 67, r.method, JS_MID, Tracking(r.port))
        /\ Carries(m, 256, 8, options)
    BY <1>2, SentCarries
  <1>4. ReadOptions(m, 256, 8) = turn[n]
    BY <1>2, <1>3, OptionsReadBack
  <1>5. extractUriPath(m) = turn[n].path
    <2>1. r.port \in Short
      BY Zenon DEF RequestType
    <2>2. Len(Tracking(r.port)) = 3
      BY <2>1, TrackingFacts
    <2>3. 5 + TokenLength(m) = 8
      BY <1>3, <2>2 DEF Heads
    <2>4. QED
      BY <1>4, <2>3 DEF extractUriPath
  <1>6. /\ o + s <= n /\ r.segments \in Seq(Seq(Byte))
        /\ s \in Nat /\ o \in Nat
        /\ \A i \in 1 .. n :
              IF o < i /\ i <= o + s
              THEN options[i] = Option(UriPath, r.segments[i - o])
              ELSE options[i].number # UriPath
    <2>1. PathOptions(r)
      BY PathOptionsFound
    <2>2. r.segments \in Seq(Seq(Byte))
      BY Zenon DEF RequestType
    <2>3. Observed(r) \in Seq(OptionType)
      BY RequestParts DEF Band
    <2>4. QED
      BY <2>1, <2>2, <2>3 DEF PathOptions
  <1>7. \A k \in Nat : Reads(turn, m, 8, options, k)
    BY <1>2, <1>3, EveryTurn
  <1>8. turn[0].path = <<>>
    <2>1. \A size, from : Turns(m, size, from)[0] = Start(from)
      BY TurnsDef, Zenon
    <2>2. turn[0] = Start(8)
      BY <2>1
    <2>3. QED
      BY <2>2 DEF Start
  <1> HIDE DEF m, options, n, o, s, turn
  <1>9. 0 \in T
    <2>1. shown(0) = 0
      BY <1>6
    <2>2. SubSeq(r.segments, 1, 0) = <<>>
      BY <1>6, WholeFront
    <2>3. QED
      BY <1>8, <2>1, <2>2
  <1>10. ASSUME NEW k \in Nat, k \in T PROVE k + 1 \in T
    <2>1. SUFFICES ASSUME k + 1 <= n PROVE Path(k + 1)
      OBVIOUS
    <2>2. Path(k) /\ k < n /\ k + 1 \in 1 .. n
      BY <1>1, <1>10, <2>1
    <2>3. turn[k + 1].path = IF options[k + 1].number = UriPath
                             THEN Append(turn[k].path, options[k + 1].value)
                             ELSE turn[k].path
      BY <1>7, <2>2 DEF Reads, TurnTaken, n
    <2>4. CASE o < k + 1 /\ k + 1 <= o + s
      <3> DEFINE j == k - o
      <3>1. /\ j \in Nat /\ j < Len(r.segments) /\ (k + 1) - o = j + 1
            /\ shown(k) = j /\ shown(k + 1) = j + 1
        BY <1>6, <2>4 DEF s
      <3>2. /\ options[k + 1].number = UriPath
            /\ options[k + 1].value = r.segments[(k + 1) - o]
        <4>1. options[k + 1] = Option(UriPath, r.segments[(k + 1) - o])
          BY <1>6, <2>2, <2>4
        <4>2. QED
          BY <4>1 DEF Option
      <3> HIDE DEF j
      <3>3. SubSeq(r.segments, 1, j + 1)
                = Append(SubSeq(r.segments, 1, j), r.segments[j + 1])
        BY <1>6, <3>1, FrontStep
      <3>4. QED
        BY <2>2, <2>3, <3>1, <3>2, <3>3
    <2>5. CASE ~(o < k + 1 /\ k + 1 <= o + s)
      <3>1. options[k + 1].number # UriPath
        BY <1>6, <2>2, <2>5
      <3>2. shown(k + 1) = shown(k)
        BY <1>6, <2>5
      <3>3. turn[k + 1].path = turn[k].path
        BY <2>3, <3>1
      <3>4. QED
        BY <2>2, <3>2, <3>3
    <2>6. QED
      BY <2>4, <2>5
  <1>11. Nat \subseteq T
    <2> HIDE DEF T
    <2>1. QED
      BY <1>9, <1>10, SetInduction
  <1>12. turn[n].path = SubSeq(r.segments, 1, shown(n))
    BY <1>1, <1>11
  <1>13. shown(n) = s
    BY <1>1, <1>6
  <1>14. SubSeq(r.segments, 1, s) = r.segments
    BY <1>6, WholeFront DEF s
  <1>15. QED
    BY <1>5, <1>12, <1>13, <1>14 DEF m

\* An answer whose options are plain, as the agent reads it: the port of its
\* token and, once the tracking bytes are out, its payload.
ReadBack(bytes, port, content) ==
    /\ TrackedPort(bytes) = port
    /\ parseObserveReply(RemoveTracking(bytes)).payload = content

PlainOptions(options) ==
    /\ options \in Seq(OptionType) /\ Writable(options, 13)
    /\ encodeOptions(options) \in Seq(Byte)

\* Plain options of an answer are what the readers of nibbles can read.
LEMMA OptionsPlain ==
    ASSUME NEW options \in ReplyOptions, Plain(options)
    PROVE  PlainOptions(options)
  <1>1. /\ options \in Seq(OptionType)
        /\ \A i \in 2 .. Len(options) :
              options[i - 1].number <= options[i].number
    BY AnswersAssumption DEF OptionType
  <1>2. ASSUME NEW i \in 1 .. Len(options)
        PROVE  /\ Delta(options, i) \in Nat /\ Delta(options, i) < 13
               /\ Len(options[i].value) < 13
    <2>1. /\ Len(options[i].value) < 13 /\ Delta(options, i) < 13
      BY <1>1 DEF Plain, Delta
    <2>2. options[i].number \in Nat
      BY <1>1, OptionFacts
    <2>3. CASE i = 1
      BY <2>1, <2>2, <2>3 DEF Delta
    <2>4. CASE i # 1
      <3>1. i \in 2 .. Len(options) /\ i - 1 \in 1 .. Len(options)
        BY <1>1, <2>4
      <3>2. /\ options[i - 1].number \in Nat
            /\ options[i - 1].number <= options[i].number
        BY <1>1, <3>1, OptionFacts
      <3>3. QED
        BY <2>1, <2>2, <2>4, <3>2 DEF Delta
    <2>5. QED
      BY <2>3, <2>4
  <1>3. 16 \in Sizes /\ Limit(16) = 13 /\ Writable(options, 13)
    BY <1>2 DEF Sizes, Limit, Writable
  <1>4. encodeOptions(options) \in Seq(Byte)
    BY <1>1, <1>3, WrittenFacts
  <1>5. QED
    BY <1>1, <1>3, <1>4 DEF PlainOptions

\* The agent reads port and payload of any such answer.
LEMMA ReplyRead ==
    ASSUME NEW port \in Short, NEW options \in ReplyOptions, Plain(options),
           NEW content \in Seq(Byte)
    PROVE  ReadBack(WriteReply(JS_MID, Tracking(port), options, content),
                    port, content)
  <1> DEFINE e == encodeOptions(options)
             t == PayloadPart(content)
             token == Tracking(port)
             first == 99
             code == 69
             m == Message(first, code, JS_MID, token, e \o t)
             plain == Message(first - 3, code, JS_MID, <<>>, e \o t)
  <1>1. options \in Seq(OptionType) /\ encodeOptions(options) \in Seq(Byte)
    BY OptionsPlain DEF PlainOptions
  <1>2. 16 \in Sizes /\ Limit(16) = 13 /\ Writable(options, 13)
    BY OptionsPlain DEF PlainOptions, Sizes, Limit
  <1>3. token \in Seq(Byte) /\ Len(token) = 3 /\ token[2] + 256 * token[3] = port
    BY TrackingFacts
  <1>4. /\ e \in Seq(Byte) /\ t \in Seq(Byte) /\ e \o t \in Seq(Byte)
    <2>1. e \in Seq(Byte)
      BY <1>1
    <2>2. PayloadMarker \in Byte
      BY DEF PayloadMarker, Byte
    <2>3. <<PayloadMarker>> \in Seq(Byte)
      BY <2>2
    <2>4. t \in Seq(Byte)
      BY <2>3, ConcatFacts, EmptySeq DEF PayloadPart
    <2>5. QED
      BY <2>1, <2>4, ConcatFacts
  <1>5. /\ first \in Byte /\ code \in Byte /\ JS_MID \in Short
        /\ first - 3 \in Byte /\ (first - 3) % 16 = 0 /\ (first - 3) \div 64 = 1
    BY ShortIs DEF Byte, JS_MID
  <1>6. WriteReply(JS_MID, token, options, content) = m
    <2> DEFINE h == <<first, code>> \o TwoBytes(JS_MID) \o token
    <2>1. h \in Seq(Byte)
      <3>1. JS_MID \div 256 \in Byte /\ JS_MID % 256 \in Byte
        BY <1>5, DivMod
      <3>2. <<first, code>> \in Seq(Byte) /\ TwoBytes(JS_MID) \in Seq(Byte)
        BY <1>5, <3>1 DEF TwoBytes
      <3> HIDE DEF first, code, token
      <3>3. QED
        BY <1>3, <3>2, ConcatFacts
    <2>2. Header(ACK, 69, JS_MID, token) = h
      <3>1. 64 + 16 * ACK + (Len(token) % 16) = 99
        BY <1>3 DEF ACK
      <3> HIDE DEF token
      <3>2. QED
        BY <3>1 DEF Header
    <2>3. WriteReply(JS_MID, token, options, content) = (h \o e) \o t
      BY <2>2, Zenon DEF WriteReply, PayloadPart
    <2>4. (h \o e) \o t = h \o (e \o t)
      <3> HIDE DEF h, e, t
      <3>1. QED
        BY <1>4, <2>1, BytesAssociative, Zenon
    <2>5. QED
      BY <2>3, <2>4, Zenon DEF Message
  <1>7. RemoveTracking(m) = plain
    <2> HIDE DEF first, code, e, t
    <2>1. ASSUME NEW f \in Byte, f - 3 \in Byte, NEW c \in Byte,
                 NEW mid \in Short, NEW rest \in Seq(Byte)
          PROVE  RemoveTracking(Message(f, c, mid, Tracking(port), rest))
                     = Message(f - 3, c, mid, <<>>, rest)
      BY <2>1, TrackingRemoved
    <2>2. QED
      BY <1>4, <1>5, <2>1, Zenon
  <1>8. TrackedPort(m) = port
    <2> HIDE DEF first, code, e, t, token
    <2>1. Layout(m, first, code, JS_MID, token, e \o t)
      BY <1>3, <1>4, <1>5, MessageParts
    <2> HIDE DEF m
    <2>2. m[4 + 2] = token[2] /\ m[4 + 3] = token[3]
      BY <1>3, <2>1 DEF Layout
    <2>3. QED
      BY <1>3, <2>2 DEF TrackedPort
  <1>9. Heads(plain, first - 3, code, JS_MID, <<>>)
    <2> DEFINE f == first - 3
    <2>1. /\ <<>> \in Seq(Byte) /\ Len(<<>>) = 0 /\ f % 16 = Len(<<>>)
          /\ f \in Byte /\ f \div 64 = 1 /\ Len(<<>>) <= 8
      BY <1>5, EmptySeq
    <2> HIDE DEF f, code, e, t
    <2>2. Heads(Message(f, code, JS_MID, <<>>, e \o t), f, code, JS_MID, <<>>)
      BY <1>4, <1>5, <2>1, HeadRead
    <2>3. QED
      BY <2>2 DEF f
  <1>10. Holds(plain, 16, 5, options, content)
    <2> DEFINE f == first - 3
               size == 16
    <2>1. /\ <<>> \in Seq(Byte) /\ f \in Byte /\ size \in Sizes
          /\ Writable(options, Limit(size))
      BY <1>2, <1>5, EmptySeq
    <2> HIDE DEF f, code, size
    <2>2. Holds(Message(f, code, JS_MID, <<>>, e \o t), size, 5 + Len(<<>>),
                options, content)
      BY <1>1, <1>5, <2>1, MessageCarries
    <2>3. 5 + Len(<<>>) = 5
      OBVIOUS
    <2>4. QED
      BY <2>2, <2>3 DEF f, size
  <1> HIDE DEF plain, m
  <1>11. /\ Carries(plain, 16, 5, options)
         /\ SubSeq(plain, 5 + Len(e) + 1, Len(plain)) = content
    BY <1>10 DEF Holds
  <1>12. ReadOptions(plain, 16, 5).at = 5 + Len(e)
    BY <1>2, <1>11, OptionsReadBack
  <1>13. looksLikeCoap(plain) /\ 5 + TokenLength(plain) = 5
    <2>1. Len(<<>>) = 0
      OBVIOUS
    <2>2. QED
      BY <1>9, <2>1 DEF Heads
  <1>14. parseObserveReply(plain).payload = content
    BY <1>11, <1>12, <1>13 DEF parseObserveReply
  <1>15. QED
    BY <1>6, <1>7, <1>8, <1>14 DEF ReadBack

-----------------------------------------------------------------------------
(* A damaged answer *)

\* numbers of three bytes, and where a burst may begin
Triples == {n \in Nat : n < 16777216}
Offsets == 0 .. 128

\* A number of three bytes, from its bytes.
LEMMA ThreeBytes ==
    ASSUME NEW q \in Triples
    PROVE  /\ q % 256 \in Byte /\ (q \div 256) % 256 \in Byte
           /\ (q \div 65536) % 256 \in Byte
           /\ (q % 256) + 256 * ((q \div 256) % 256)
                  + 65536 * ((q \div 65536) % 256) = q
           /\ q < 65536 => (q \div 65536) % 256 = 0
  <1>1. /\ q = 256 * (q \div 256) + (q % 256) /\ q % 256 \in 0 .. 255
        /\ q \div 256 \in Nat
    BY DEF Triples
  <1>2. q \div 65536 = (q \div 256) \div 256 /\ q \div 65536 \in 0 .. 255
    BY DEF Triples
  <1>3. (q \div 65536) % 256 = q \div 65536
    BY <1>2
  <1>4. /\ q \div 256 = 256 * (q \div 65536) + ((q \div 256) % 256)
        /\ (q \div 256) % 256 \in 0 .. 255
    BY DEF Triples
  <1>5. q < 65536 => q \div 65536 = 0
    BY DEF Triples
  <1>6. (q % 256) + 256 * ((q \div 256) % 256) + 65536 * (q \div 65536) = q
    BY <1>1, <1>2, <1>4 DEF Triples
  <1>7. /\ q % 256 \in Byte /\ (q \div 256) % 256 \in Byte
        /\ q \div 65536 \in Byte
    BY <1>1, <1>2, <1>4 DEF Byte
  <1>8. QED
    BY <1>3, <1>5, <1>6, <1>7

\* A power of two below a byte is a shift, and a pattern of sixteen bits so
\* shifted fits three bytes.
LEMMA ShiftIs ==
    ASSUME NEW j \in 0 .. 7
    PROVE  2^j \in Shifts
  <1>1. /\ 2^0 = 1 /\ 2^1 = 2 /\ 2^2 = 4 /\ 2^3 = 8
        /\ 2^4 = 16 /\ 2^5 = 32 /\ 2^6 = 64 /\ 2^7 = 128
    OBVIOUS
  <1> DEFINE T == {n \in 0 .. 7 : 2^n \in Shifts}
  <1>2. /\ 0 \in T /\ 1 \in T /\ 2 \in T /\ 3 \in T
        /\ 4 \in T /\ 5 \in T /\ 6 \in T /\ 7 \in T
    BY <1>1 DEF Shifts
  <1>3. j \in {0, 1, 2, 3, 4, 5, 6, 7}
    OBVIOUS
  <1> HIDE DEF T
  <1>4. j \in T
    BY <1>2, <1>3, Zenon
  <1>5. QED
    BY <1>4 DEF T

\* A pattern of sixteen bits shifted within a byte has three bytes.
LEMMA ShiftedFits ==
    ASSUME NEW p \in Flaws, NEW s \in Shifts
    PROVE  p * s \in Triples
  <1> DEFINE T == {n \in Nat : p * n \in Triples}
  <1>1. /\ 1 \in T /\ 2 \in T /\ 4 \in T /\ 8 \in T
        /\ 16 \in T /\ 32 \in T /\ 64 \in T /\ 128 \in T
    BY DEF Flaws, Triples
  <1> HIDE DEF T
  <1>2. s \in T
    BY <1>1 DEF Shifts
  <1>3. QED
    BY <1>2 DEF T

Powers(q, j) ==
    /\ j = 0 => q \div 256^j = q
    /\ j = 1 => q \div 256^j = q \div 256
    /\ j = 2 => q \div 256^j = q \div 65536

LEMMA PowersHold ==
    ASSUME NEW q \in Nat, NEW j
    PROVE  Powers(q, j)
  <1>1. 256^0 = 1 /\ 256^1 = 256 /\ 256^2 = 65536
    OBVIOUS
  <1>2. q \div 1 = q
    OBVIOUS
  <1>3. \A a, b : 256^a = b => q \div 256^a = q \div b
    BY Zenon
  <1>4. q \div 256^0 = q \div 1 /\ q \div 256^1 = q \div 256
    BY <1>1, <1>3
  <1>5. q \div 256^2 = q \div 65536
    BY <1>1, <1>3
  <1>6. ASSUME NEW a, NEW b, NEW c, q \div 256^0 = a,
               q \div 256^1 = b, q \div 256^2 = c
        PROVE  /\ j = 0 => q \div 256^j = a
               /\ j = 1 => q \div 256^j = b
               /\ j = 2 => q \div 256^j = c
    BY <1>6, Zenon
  <1>7. QED
    BY <1>2, <1>4, <1>5, <1>6 DEF Powers

\* what the line flips in each of the 18 bytes
Flips(pattern, offset) == [i \in 1 .. 18 |-> PatternByte(pattern, offset, i)]

\* The three bytes a burst may touch, and the number they make.
LEMMA BurstTouches ==
    ASSUME NEW pattern \in Flaws, NEW offset \in Offsets
    PROVE  /\ OnlyAt(Flips(pattern, offset), 18, offset \div 8)
           /\ Burst(FlawAt(Flips(pattern, offset), 18, offset \div 8))
  <1> DEFINE k == offset \div 8
             s == 2^(offset % 8)
             q == pattern * s
             e == Flips(pattern, offset)
             Third == (q \div 65536) % 256
             Second == (q \div 256) % 256
  <1>1. /\ k \in 0 .. 16 /\ offset % 8 \in 0 .. 7
        /\ k = 16 => offset % 8 = 0
    BY DEF Offsets
  <1>2. s \in Shifts
    BY <1>1, ShiftIs
  <1>3. k = 16 => s = 1
    <2>1. 2^0 = 1
      OBVIOUS
    <2>2. QED
      BY <1>1, <2>1, Zenon
  <1>4. q \in Triples
    <2> HIDE DEF s
    <2>1. QED BY <1>2, ShiftedFits
  <1>5. /\ q % 256 \in Byte /\ Second \in Byte /\ Third \in Byte
        /\ (q % 256) + 256 * Second + 65536 * Third = q
        /\ q < 65536 => Third = 0
    <2> HIDE DEF q
    <2>1. QED BY <1>4, ThreeBytes
  <1>6. k = 16 => Third = 0
    <2> HIDE DEF s
    <2>1. k = 16 => q = pattern
      <3>1. pattern \in Nat
        BY DEF Flaws
      <3>2. s = 1 => q = pattern
        BY <3>1
      <3>3. QED
        BY <1>3, <3>2
    <2>2. pattern < 65536
      BY DEF Flaws
    <2> HIDE DEF q, Third
    <2>3. QED
      BY <1>5, <2>1, <2>2
  <1>7. ASSUME NEW i \in 1 .. 18
        PROVE  e[i] = IF i - 1 - k \in 0 .. 2
                      THEN (q \div 256^(i - 1 - k)) % 256 ELSE 0
    BY DEF Flips, PatternByte
  <1> HIDE DEF e
  <1>8. ASSUME NEW i \in 1 .. 18
        PROVE  /\ i = k + 1 => e[i] = q % 256
               /\ i = k + 2 => e[i] = Second
               /\ i = k + 3 => e[i] = Third
               /\ i <= k \/ i > k + 3 => e[i] = 0
    <2> HIDE DEF q, k
    <2>1. /\ i = k + 1 => i - 1 - k = 0
          /\ i = k + 2 => i - 1 - k = 1
          /\ i = k + 3 => i - 1 - k = 2
          /\ i - 1 - k \in 0 .. 2 <=> ~(i <= k \/ i > k + 3)
      BY <1>1
    <2>2. 0 \in 0 .. 2 /\ 1 \in 0 .. 2 /\ 2 \in 0 .. 2
      OBVIOUS
    <2>3. Powers(q, i - 1 - k)
      <3>1. q \in Nat
        BY <1>4 DEF Triples
      <3>2. QED
        BY <3>1, PowersHold
    <2>4. QED
      BY <1>7, <2>1, <2>2, <2>3 DEF Powers
  <1> HIDE DEF q, k, Second, Third
  <1>9. ASSUME NEW i \in 1 .. 18
        PROVE  e[i] \in Byte /\ (i <= k \/ i > k + 3 => e[i] = 0)
    <2>1. 0 \in Byte
      BY DEF Byte
    <2>2. i = k + 1 \/ i = k + 2 \/ i = k + 3 \/ i <= k \/ i > k + 3
      BY <1>1
    <2>3. QED
      BY <1>5, <1>8, <2>1, <2>2
  <1>10. OnlyAt(e, 18, k)
    BY <1>1, <1>9 DEF OnlyAt
  <1>11. FlawAt(e, 18, k) = q
    <2>1. e[k + 1] = q % 256 /\ e[k + 2] = Second /\ k + 2 <= 18
      <3>1. k + 1 \in 1 .. 18 /\ k + 2 \in 1 .. 18
        BY <1>1
      <3>2. QED
        BY <1>8, <3>1
    <2>2. k + 3 <= 18 => e[k + 3] = Third
      <3>1. k + 3 <= 18 => k + 3 \in 1 .. 18
        BY <1>1
      <3>2. QED
        BY <1>8, <3>1
    <2>3. ~(k + 3 <= 18) => Third = 0
      BY <1>1, <1>6
    <2>4. (IF k + 3 <= 18 THEN 65536 * e[k + 3] ELSE 0) = 65536 * Third
      <3>1. Third = 0 => 65536 * Third = 0
        OBVIOUS
      <3>2. QED
        BY <2>2, <2>3, <3>1
    <2>5. FlawAt(e, 18, k) = (q % 256) + 256 * Second + 65536 * Third
      BY <2>1, <2>4 DEF FlawAt
    <2>6. QED
      BY <1>5, <2>5
  <1>12. Burst(q)
    <2>1. QED
      BY <1>2, Zenon DEF Burst, q
  <1>13. QED
    BY <1>10, <1>11, <1>12 DEF e, k

LEMMA BytesIn == \A u \in Seq(Byte) : \A i \in 1 .. Len(u) : u[i] \in Byte
  OBVIOUS

LEMMA ReportBytes ==
    ASSUME NEW u \in Seq(Byte), Len(u) = 18
    PROVE  u # <<>> /\ \A i \in 1 .. 18 : u[i] \in Byte
  <1>1. Len(<<>>) = 0 /\ ~(0 = 18)
    OBVIOUS
  <1>2. \A i \in 1 .. 18 : u[i] \in Byte
    BY BytesIn, Zenon
  <1>3. u # <<>>
    BY <1>1, Zenon
  <1>4. QED
    BY <1>2, <1>3

\* Flipping keeps type and length, and the two reports differ by the flips.
LEMMA FlippedDiffers ==
    ASSUME NEW u \in Seq(Byte), Len(u) = 18,
           NEW pattern \in Flaws, NEW offset \in Offsets
    PROVE  /\ Flipped(u, pattern, offset) \in Seq(Byte)
           /\ Len(Flipped(u, pattern, offset)) = 18
           /\ Differs(u, Flipped(u, pattern, offset), 0, 18,
                      Flips(pattern, offset))
  <1> DEFINE e == Flips(pattern, offset)
             v == Flipped(u, pattern, offset)
  <1>1. \A i \in 1 .. 18 : e[i] \in Byte /\ u[i] \in Byte
    <2>1. \A i \in 1 .. 18 : e[i] \in Byte
      BY BurstTouches DEF OnlyAt
    <2> HIDE DEF e, v
    <2>2. \A i \in 1 .. 18 : u[i] \in Byte
      BY ReportBytes
    <2>3. QED
      BY <2>1, <2>2
  <1>2. v = [i \in 1 .. 18 |-> BitXor(u[i], e[i])]
    <2>1. DOMAIN u = 1 .. 18
      OBVIOUS
    <2>2. QED
      BY <2>1, Zenon DEF Flipped, Flips
  <1> HIDE DEF e, v
  <1>3. \A i \in 1 .. 18 : BitXor(u[i], e[i]) \in Byte
    BY <1>1, XorOfBytes
  <1>4. v \in Seq(Byte) /\ Len(v) = 18
    BY <1>2, <1>3
  <1>5. \A i \in 1 .. 18 : v[i] = BitXor(u[i], e[i]) /\ v[i] \in Byte
    BY <1>2, <1>3
  <1>6. \A i \in 1 .. 18 : 0 + i = i
    OBVIOUS
  <1>7. Differs(u, v, 0, 18, e)
    BY <1>1, <1>5, <1>6 DEF Differs
  <1>8. QED
    BY <1>4, <1>7 DEF e, v

\* No report is taken for one after the line has struck it once.
LEMMA DamageSeen ==
    ASSUME NEW reading \in ReadingValues,
           NEW pattern \in Flaws, NEW offset \in Offsets
    PROVE  ~decode_combined_payload(Flipped(WriteReport(reading), pattern, offset))
  <1> DEFINE u == WriteReport(reading)
             v == Flipped(u, pattern, offset)
             e == Flips(pattern, offset)
             k == offset \div 8
  <1>1. u \in Seq(Byte) /\ Len(u) = 18
    BY ReportWritten
  <1>2. OnlyAt(e, 18, k) /\ Burst(FlawAt(e, 18, k))
    BY BurstTouches
  <1>3. v \in Seq(Byte) /\ Len(v) = 18 /\ Differs(u, v, 0, 18, e)
    <2> HIDE DEF u
    <2>1. QED BY <1>1, FlippedDiffers
  <1> HIDE DEF v, e, k
  <1>4. Len(v) >= 18
    BY <1>3
  <1>5. Differs(WriteReport(reading), v, 0, 18, e)
    BY <1>3
  <1>6. QED
    BY <1>2, <1>3, <1>4, <1>5, BurstsDetected DEF v

\* what an answer has in front of its payload
ReplyHead(port, options) ==
    (Header(ACK, 69, JS_MID, Tracking(port)) \o encodeOptions(options))
    \o <<PayloadMarker>>

\* The payload is the end of an answer.
LEMMA ReplyTail ==
    ASSUME NEW port \in Short, NEW options \in ReplyOptions, Plain(options),
           NEW content \in Seq(Byte), content # <<>>
    PROVE  /\ ReplyHead(port, options) \in Seq(Byte)
           /\ WriteReply(JS_MID, Tracking(port), options, content)
                  = ReplyHead(port, options) \o content
  <1> DEFINE h == Header(ACK, 69, JS_MID, Tracking(port))
             e == encodeOptions(options)
             marker == <<PayloadMarker>>
  <1>1. e \in Seq(Byte)
    BY OptionsPlain DEF PlainOptions
  <1>2. marker \in Seq(Byte)
    <2>1. PayloadMarker \in Byte
      BY DEF PayloadMarker, Byte
    <2>2. QED
      BY <2>1
  <1>3. h \in Seq(Byte)
    <2>1. Tracking(port) \in Seq(Byte) /\ Len(Tracking(port)) = 3
      BY TrackingFacts
    <2>2. <<64 + 16 * ACK + (Len(Tracking(port)) % 16), 69>> \in Seq(Byte)
      BY <2>1 DEF ACK, Byte
    <2>3. TwoBytes(JS_MID) \in Seq(Byte)
      <3>1. JS_MID \in Short
        BY ShortIs DEF JS_MID
      <3>2. JS_MID \div 256 \in Byte /\ JS_MID % 256 \in Byte
        BY <3>1, DivMod
      <3>3. QED
        BY <3>2 DEF TwoBytes
    <2>4. QED
      BY <2>1, <2>2, <2>3, ConcatFacts DEF Header
  <1>4. WriteReply(JS_MID, Tracking(port), options, content)
            = (h \o e) \o (marker \o content)
    BY Zenon DEF WriteReply
  <1> HIDE DEF h, e, marker
  <1>5. h \o e \in Seq(Byte) /\ (h \o e) \o marker \in Seq(Byte)
    BY <1>1, <1>2, <1>3, ConcatFacts
  <1>6. (h \o e) \o (marker \o content) = ((h \o e) \o marker) \o content
    BY <1>2, <1>5, BytesAssociative, Zenon
  <1>7. QED
    BY <1>4, <1>5, <1>6, Zenon DEF ReplyHead, h, e, marker

LEMMA BytesInTwo ==
    \A a, b \in Seq(Byte) :
        /\ a \o b \in Seq(Byte) /\ Len(a \o b) = Len(a) + Len(b)
        /\ \A i \in 1 .. Len(a) : (a \o b)[i] = a[i]
        /\ \A i \in 1 .. Len(b) : (a \o b)[Len(a) + i] = b[i]
  BY TwoParts

\* The last 18 bytes, and what is in front of them.
LEMMA TailOf ==
    ASSUME NEW a \in Seq(Byte), NEW b \in Seq(Byte), Len(b) = 18
    PROVE  /\ SubSeq(a \o b, 1, Len(a \o b) - 18) = a
           /\ SubSeq(a \o b, Len(a \o b) - 18 + 1, Len(a \o b)) = b
  <1> DEFINE m == a \o b
  <1>1. /\ m \in Seq(Byte) /\ Len(m) = Len(a) + Len(b)
        /\ \A i \in 1 .. Len(a) : m[i] = a[i]
        /\ \A i \in 1 .. Len(b) : m[Len(a) + i] = b[i]
    BY BytesInTwo, Zenon
  <1> HIDE DEF m
  <1>2. Len(a) \in Nat /\ Len(m) - 18 = Len(a)
    BY <1>1
  <1>3. SubSeq(m, 0 + 1, 0 + Len(a)) = a
    <2>1. /\ 0 + Len(a) <= Len(m) /\ 0 \in Nat
          /\ \A i \in 1 .. Len(a) : m[0 + i] = a[i]
      BY <1>1
    <2>2. QED
      BY <1>1, <2>1, PartIs
  <1>4. SubSeq(m, Len(a) + 1, Len(a) + Len(b)) = b
    <2>1. Len(a) + Len(b) <= Len(m)
      BY <1>1
    <2>2. QED
      BY <1>1, <1>2, <2>1, PartIs
  <1>5. SubSeq(m, 1, Len(a)) = a
    <2>1. 0 + 1 = 1 /\ 0 + Len(a) = Len(a)
      BY <1>2
    <2>2. QED
      BY <1>3, <2>1
  <1>6. QED
    BY <1>1, <1>2, <1>4, <1>5 DEF m

\* what the line makes of an answer
Struck(bytes, pattern, offset) ==
    SubSeq(bytes, 1, Len(bytes) - ReportSize)
    \o Flipped(SubSeq(bytes, Len(bytes) - ReportSize + 1, Len(bytes)),
               pattern, offset)

\* A damaged answer is the one with the damaged report.
LEMMA StruckReply ==
    ASSUME NEW port \in Short, NEW options \in ReplyOptions, Plain(options),
           NEW content \in Seq(Byte), Len(content) = 18,
           NEW pattern \in Flaws, NEW offset \in Offsets
    PROVE  Struck(WriteReply(JS_MID, Tracking(port), options, content),
                  pattern, offset)
               = WriteReply(JS_MID, Tracking(port), options,
                            Flipped(content, pattern, offset))
  <1> DEFINE v == Flipped(content, pattern, offset)
             head == ReplyHead(port, options)
             Reply(c) == WriteReply(JS_MID, Tracking(port), options, c)
  <1>1. v \in Seq(Byte) /\ Len(v) = 18
    BY FlippedDiffers
  <1>2. content # <<>> /\ v # <<>>
    <2> HIDE DEF v
    <2>1. QED BY <1>1, ReportBytes
  <1>3. head \in Seq(Byte) /\ Reply(content) = head \o content
    BY <1>2, ReplyTail
  <1>4. Reply(v) = head \o v
    <2> HIDE DEF v
    <2>1. QED BY <1>1, <1>2, ReplyTail
  <1> HIDE DEF head, Reply
  <1>5. Struck(head \o content, pattern, offset) = head \o v
    BY <1>3, TailOf, Zenon DEF Struck, ReportSize, v
  <1>6. QED
    BY <1>3, <1>4, <1>5, Zenon DEF Reply, v

-----------------------------------------------------------------------------
(* The exchange *)

\* what an answer carries: a report of the reading, or something else
About(about, content) ==
    \/ about = {} /\ content \in Contents
    \/ \E reading \in Readings :
          about = {reading} /\ content = WriteReport(reading)

\* the payload on the line, which one burst may have struck
OnLine(content, struck, payload) ==
    IF struck
    THEN \E pattern \in Bursts, offset \in 0 .. 8 * ReportSize - 16 :
            payload = Flipped(content, pattern, offset)
    ELSE payload = content

Answer(request, options, content, struck, bytes) ==
    \E payload \in Seq(Byte) :
        /\ OnLine(content, struck, payload)
        /\ bytes = WriteReply(JS_MID, Tracking(request.port), options, payload)

\* The inductive invariant: what a step of the exchange leaves for the next.
\* The bytes of a request are those of a call; an answer is about a reading
\* or not, and its bytes are those the NSC wrote for that call, with the
\* payload as the line left it; only what threw has no room.
Left ==
    /\ exchange.step \in {"asked", "waiting", "answered", "evaluated"}
           => exchange.request \in Requests
    /\ exchange.step = "thrown"
           => exchange.request \in Requests /\ ~Built(exchange.request)
    /\ exchange.step = "asked" => exchange.bytes = Sent(exchange.request)
    /\ exchange.step = "answered" =>
          /\ exchange.options \in ReplyOptions
          /\ About(readings, exchange.content)
          /\ damaged => readings # {}
          /\ Plain(exchange.options) =>
                Answer(exchange.request, exchange.options, exchange.content,
                       damaged, exchange.bytes)

Shaped ==
    /\ exchange = [step    |-> exchange.step,    request |-> exchange.request,
                   bytes   |-> exchange.bytes,   options |-> exchange.options,
                   content |-> exchange.content]
    /\ damaged \in BOOLEAN

\* a payload of the NSC that looks like a report and passes for one
Forged(content) ==
    /\ decode_combined_payload(content)
    /\ PassedOn(Reading(SubSeq(content, 1, ReportSize)))

\* What is put into the queue comes from an answer that arrived whole: it is
\* the reading, unless the NSC itself sent something that passes for a report.
Posts ==
    Plain(exchange.options) /\ posted # {} =>
        /\ ~damaged
        /\ posted = readings \/ \E content \in Contents : Forged(content)

ExchangeInvariant == Shaped /\ Left /\ ReplyParsed /\ Posts

LEMMA OffsetsAre == 0 .. 8 * ReportSize - 16 = Offsets
  <1>1. 8 * 18 - 16 = 128
    OBVIOUS
  <1>2. QED
    BY <1>1 DEF ReportSize, Offsets

LEMMA BurstsAre == Bursts \subseteq Flaws
  <1>1. ASSUME NEW b \in Word16, ~(b = 0) PROVE b \in Flaws
    <2>1. b \in Nat /\ b < 65536
      BY WordIs
    <2>2. b > 0
      BY <1>1, <2>1
    <2>3. QED
      BY <2>1, <2>2 DEF Flaws
  <1>2. QED
    BY <1>1, BurstsAssumption, Zenon

\* The content of an answer, and that of a report.
LEMMA ContentTyped ==
    ASSUME NEW about, NEW content, About(about, content)
    PROVE  /\ content \in Seq(Byte)
           /\ about # {} => \E reading \in ReadingValues :
                  /\ about = {reading} /\ content = WriteReport(reading)
                  /\ Len(content) = 18
  <1>1. \A c \in Contents : c \in Seq(Byte)
    BY AnswersAssumption
  <1>2. \A r \in Readings :
            /\ r \in ReadingValues /\ WriteReport(r) \in Seq(Byte)
            /\ Len(WriteReport(r)) = 18
    <2>1. Readings \subseteq ReadingValues
      BY AnswersAssumption
    <2>2. QED
      BY <2>1, ReportWritten
  <1>3. QED
    BY <1>1, <1>2, Zenon DEF About

\* The burst of Damage turns an answer into one whose report was struck.
LEMMA StruckAnswer ==
    ASSUME NEW port \in Short, NEW options \in ReplyOptions, Plain(options),
           NEW content \in Seq(Byte), Len(content) = 18,
           NEW request, request.port = port,
           NEW bytes, Answer(request, options, content, FALSE, bytes),
           NEW pattern \in Bursts, NEW offset \in 0 .. 8 * ReportSize - 16
    PROVE  Answer(request, options, content, TRUE, Struck(bytes, pattern, offset))
  <1> DEFINE v == Flipped(content, pattern, offset)
  <1>1. pattern \in Flaws /\ offset \in Offsets
    BY OffsetsAre, BurstsAre
  <1>2. bytes = WriteReply(JS_MID, Tracking(port), options, content)
    BY Zenon DEF Answer, OnLine
  <1>3. v \in Seq(Byte)
    BY <1>1, FlippedDiffers
  <1>4. Struck(bytes, pattern, offset)
            = WriteReply(JS_MID, Tracking(port), options, v)
    BY <1>1, <1>2, StruckReply
  <1>5. OnLine(content, TRUE, v)
    BY Zenon DEF OnLine
  <1> HIDE DEF v
  <1>6. QED
    BY <1>3, <1>4, <1>5, Zenon DEF Answer

\* What is read in an answer is the payload that was on the line.
LEMMA AnswerRead ==
    ASSUME NEW request \in Requests, NEW options \in ReplyOptions,
           Plain(options), NEW content, NEW struck, NEW bytes,
           Answer(request, options, content, struck, bytes)
    PROVE  LET payload == parseObserveReply(RemoveTracking(bytes)).payload
           IN /\ TrackedPort(bytes) = request.port
              /\ OnLine(content, struck, payload)
  <1>1. PICK payload \in Seq(Byte) :
            /\ OnLine(content, struck, payload)
            /\ bytes = WriteReply(JS_MID, Tracking(request.port), options, payload)
    BY Zenon DEF Answer
  <1>2. request.port \in Short
    BY RequestsAssumption
  <1>3. ReadBack(bytes, request.port, payload)
    BY <1>1, <1>2, ReplyRead
  <1>4. QED
    BY <1>1, <1>3, Zenon DEF ReadBack

\* The payload of an answer, if it decodes, arrived whole: it is the report of
\* the reading, or a payload of the NSC that is none.
LEMMA WholeIfDecoded ==
    ASSUME NEW about, NEW content, About(about, content),
           NEW struck \in BOOLEAN, struck => about # {},
           NEW payload, OnLine(content, struck, payload),
           decode_combined_payload(payload)
    PROVE  /\ ~struck /\ payload = content
           /\ \/ about = {Reading(SubSeq(payload, 1, ReportSize))}
              \/ about = {} /\ payload \in Contents
  <1>1. ~struck
    <2>1. SUFFICES ASSUME struck PROVE FALSE
      BY Zenon
    <2>2. PICK reading \in ReadingValues : content = WriteReport(reading)
      BY <2>1, ContentTyped
    <2>3. PICK pattern \in Bursts, offset \in Offsets :
              payload = Flipped(content, pattern, offset)
      BY <2>1, OffsetsAre DEF OnLine
    <2>4. pattern \in Flaws
      BY BurstsAre
    <2>5. QED
      BY <2>2, <2>3, <2>4, DamageSeen
  <1>2. payload = content
    BY <1>1, Zenon DEF OnLine
  <1>3. CASE about # {}
    <2>1. PICK reading \in ReadingValues :
              about = {reading} /\ content = WriteReport(reading)
      BY <1>3, ContentTyped
    <2>2. Reading(SubSeq(WriteReport(reading), 1, ReportSize)) = reading
      BY ReadingsReadBack
    <2>3. QED
      BY <1>1, <1>2, <2>1, <2>2, Zenon
  <1>4. CASE about = {}
    <2>1. payload \in Contents
      BY <1>2, <1>4, Zenon DEF About
    <2>2. QED
      BY <1>1, <1>2, <1>4, <2>1, Zenon
  <1>5. QED
    BY <1>3, <1>4

\* The invariant holds at the start ...
LEMMA ExchangeInit == Init => ExchangeInvariant
  <1> SUFFICES ASSUME Init PROVE ExchangeInvariant
    OBVIOUS
  <1>1. exchange = Idle /\ damaged = FALSE /\ parsed = {} /\ posted = {}
    BY DEF Init
  <1>2. Shaped
    BY <1>1 DEF Shaped, Idle
  <1>3. Left
    BY <1>1 DEF Left, Idle
  <1>4. ReplyParsed
    BY <1>1 DEF ReplyParsed
  <1>5. Posts
    BY <1>1 DEF Posts
  <1>6. QED
    BY <1>2, <1>3, <1>4, <1>5 DEF ExchangeInvariant

\* Next names the arguments of its actions.
LEMMA ExchangeActions ==
    ASSUME Next
    PROVE  \/ \E r \in Requests : sendRequest(r)
           \/ \E r \in Requests : BuilderThrows(r)
           \/ \E options \in ReplyOptions : \E content, about :
                 About(about, content) /\ Answers(options, content, about)
           \/ \E pattern \in Bursts, offset \in 0 .. 8 * ReportSize - 16 :
                 Damage(pattern, offset)
           \/ serialDataReceived
           \/ Settles
           \/ Ends
  <1>1. ASSUME NEW options \in ReplyOptions, NEW reading \in Readings,
               Answers(options, WriteReport(reading), {reading})
        PROVE  \E o \in ReplyOptions : \E content, about :
                  About(about, content) /\ Answers(o, content, about)
    <2>1. About({reading}, WriteReport(reading))
      BY Zenon DEF About
    <2>2. QED
      BY <1>1, <2>1, Zenon
  <1>2. ASSUME NEW options \in ReplyOptions, NEW content \in Contents,
               Answers(options, content, {})
        PROVE  \E o \in ReplyOptions : \E c, about :
                  About(about, c) /\ Answers(o, c, about)
    <2>1. About({}, content)
      BY Zenon DEF About
    <2>2. QED
      BY <1>2, <2>1, Zenon
  <1>3. QED
    BY <1>1, <1>2, Zenon DEF Next

\* ... and every step keeps it.
LEMMA ExchangeStep == ExchangeInvariant /\ [Next]_vars => ExchangeInvariant'
  <1> SUFFICES ASSUME ExchangeInvariant, [Next]_vars PROVE ExchangeInvariant'
    OBVIOUS
  <1>0. Shaped /\ Left /\ ReplyParsed /\ Posts
    BY DEF ExchangeInvariant
  <1>1. ASSUME NEW r \in Requests, sendRequest(r) PROVE ExchangeInvariant'
    <2>1. /\ exchange' = [Idle EXCEPT !.step = "asked", !.request = r,
                                      !.bytes = Sent(r)]
          /\ damaged' = damaged /\ parsed' = {} /\ posted' = {}
      BY <1>1 DEF sendRequest, Quiet, Sent
    <2>2. Shaped'
      BY <1>0, <2>1 DEF Shaped, Idle
    <2>3. Left'
      BY <2>1 DEF Left, Idle
    <2>4. ReplyParsed' /\ Posts'
      BY <2>1 DEF ReplyParsed, Posts
    <2>5. QED
      BY <2>2, <2>3, <2>4 DEF ExchangeInvariant
  <1>2. ASSUME NEW r \in Requests, BuilderThrows(r) PROVE ExchangeInvariant'
    <2>1. /\ exchange' = [Idle EXCEPT !.step = "thrown", !.request = r]
          /\ ~Built(r) /\ damaged' = damaged /\ parsed' = {} /\ posted' = {}
      BY <1>2 DEF BuilderThrows, Quiet
    <2>2. Shaped'
      BY <1>0, <2>1 DEF Shaped, Idle
    <2>3. Left'
      <3>1. exchange'.step = "thrown" /\ exchange'.request = r
        BY <2>1 DEF Idle
      <3>2. QED
        BY <2>1, <3>1 DEF Left
    <2>4. ReplyParsed' /\ Posts'
      BY <2>1 DEF ReplyParsed, Posts
    <2>5. QED
      BY <2>2, <2>3, <2>4 DEF ExchangeInvariant
  <1>3. ASSUME NEW options \in ReplyOptions, NEW content, NEW about,
               About(about, content), Answers(options, content, about)
        PROVE  ExchangeInvariant'
    <2> DEFINE bytes == WriteReply(JS_MID, Tracking(exchange.request.port),
                                   options, content)
    <2>1. /\ exchange.step \in {"asked", "waiting"}
          /\ exchange' = [exchange EXCEPT !.step = "answered",
                 !.options = options, !.content = content, !.bytes = bytes]
          /\ readings' = about
          /\ damaged' = FALSE /\ parsed' = {} /\ posted' = {}
      BY <1>3 DEF Answers, Quiet
    <2>2. Answer(exchange.request, options, content, FALSE, bytes)
      <3>1. content \in Seq(Byte)
        BY <1>3, ContentTyped
      <3>2. OnLine(content, FALSE, content)
        BY Zenon DEF OnLine
      <3>3. QED
        BY <3>1, <3>2, Zenon DEF Answer
    <2> HIDE DEF bytes
    <2>3. /\ exchange'.step = "answered" /\ exchange'.request = exchange.request
          /\ exchange'.options = options /\ exchange'.content = content
          /\ exchange'.bytes = bytes
          /\ Shaped'
      BY <1>0, <2>1 DEF Shaped
    <2>4. exchange.request \in Requests
      BY <1>0, <2>1 DEF Left
    <2>5. Left'
      BY <1>3, <2>1, <2>2, <2>3, <2>4 DEF Left
    <2>6. ReplyParsed' /\ Posts'
      BY <2>1 DEF ReplyParsed, Posts
    <2>7. QED
      BY <2>3, <2>5, <2>6 DEF ExchangeInvariant
  <1>4. ASSUME NEW pattern \in Bursts, NEW offset \in 0 .. 8 * ReportSize - 16,
               Damage(pattern, offset)
        PROVE  ExchangeInvariant'
    <2> DEFINE bytes == Struck(exchange.bytes, pattern, offset)
    <2>1. /\ exchange.step = "answered" /\ ~damaged /\ readings # {}
          /\ damaged' = TRUE /\ readings' = readings
          /\ exchange' = [exchange EXCEPT !.bytes = bytes]
          /\ parsed' = {} /\ posted' = {}
      BY <1>4 DEF Damage, Quiet, Struck
    <2> HIDE DEF bytes
    <2>2. /\ exchange'.step = "answered" /\ exchange'.request = exchange.request
          /\ exchange'.options = exchange.options
          /\ exchange'.content = exchange.content
          /\ exchange'.bytes = bytes
          /\ Shaped'
      BY <1>0, <2>1 DEF Shaped
    <2>3. /\ exchange.request \in Requests /\ exchange.options \in ReplyOptions
          /\ About(readings, exchange.content)
          /\ Plain(exchange.options) =>
                Answer(exchange.request, exchange.options, exchange.content,
                       FALSE, exchange.bytes)
      BY <1>0, <2>1 DEF Left, Shaped
    <2>4. ASSUME Plain(exchange.options)
          PROVE  Answer(exchange.request, exchange.options, exchange.content,
                        TRUE, bytes)
      <3>1. exchange.content \in Seq(Byte) /\ Len(exchange.content) = 18
        BY <2>1, <2>3, ContentTyped
      <3>2. exchange.request.port \in Short
        BY <2>3, RequestsAssumption
      <3>3. QED
        BY <2>3, <2>4, <3>1, <3>2, StruckAnswer DEF bytes
    <2>5. Left'
      BY <2>1, <2>2, <2>3, <2>4 DEF Left
    <2>6. ReplyParsed' /\ Posts'
      BY <2>1 DEF ReplyParsed, Posts
    <2>7. QED
      BY <2>2, <2>5, <2>6 DEF ExchangeInvariant
  <1>5. ASSUME serialDataReceived PROVE ExchangeInvariant'
    <2> DEFINE port == TrackedPort(exchange.bytes)
               payload == parseObserveReply(RemoveTracking(exchange.bytes)).payload
               report == SubSeq(payload, 1, ReportSize)
    <2>1. /\ exchange.step = "answered" /\ damaged' = damaged
          /\ readings' = readings
          /\ exchange' = [exchange EXCEPT !.step = "evaluated", !.bytes = <<>>]
          /\ parsed' = {[port |-> port, payload |-> payload]}
      BY <1>5 DEF serialDataReceived, Evaluate
    <2>2. posted' # {} => /\ decode_combined_payload(payload)
                          /\ PassedOn(Reading(report))
                          /\ posted' = {Reading(report)}
      BY <1>5, Zenon DEF serialDataReceived, Evaluate
    <2> HIDE DEF port, payload, report
    <2>3. /\ exchange'.step = "evaluated" /\ exchange'.request = exchange.request
          /\ exchange'.options = exchange.options
          /\ exchange'.content = exchange.content
          /\ Shaped'
      BY <1>0, <2>1 DEF Shaped
    <2>4. /\ exchange.request \in Requests /\ exchange.options \in ReplyOptions
          /\ About(readings, exchange.content)
          /\ damaged => readings # {}
          /\ damaged \in BOOLEAN
          /\ Plain(exchange.options) =>
                Answer(exchange.request, exchange.options, exchange.content,
                       damaged, exchange.bytes)
      BY <1>0, <2>1 DEF Left, Shaped
    <2>5. Left'
      BY <2>3, <2>4 DEF Left
    <2>6. Plain(exchange.options) =>
              /\ port = exchange.request.port
              /\ OnLine(exchange.content, damaged, payload)
      BY <2>4, AnswerRead DEF port, payload
    <2>7. ReplyParsed'
      <3>1. ~damaged /\ Plain(exchange.options) =>
                port = exchange.request.port /\ payload = exchange.content
        BY <2>6, Zenon DEF OnLine
      <3>2. QED
        BY <2>1, <2>3, <3>1 DEF ReplyParsed
    <2>8. Posts'
      <3>1. SUFFICES ASSUME Plain(exchange.options), posted' # {}
                     PROVE  /\ ~damaged
                            /\ \/ posted' = readings
                               \/ \E content \in Contents : Forged(content)
        BY <2>1, <2>3, Zenon DEF Posts
      <3>2. /\ ~damaged
            /\ readings = {Reading(report)} \/ payload \in Contents
        BY <2>2, <2>4, <2>6, <3>1, WholeIfDecoded DEF report
      <3>3. QED
        BY <2>2, <3>1, <3>2, Zenon DEF Forged, report
    <2>9. QED
      BY <2>3, <2>5, <2>7, <2>8 DEF ExchangeInvariant
  <1>6. ASSUME Settles PROVE ExchangeInvariant'
    <2>1. /\ exchange.step = "evaluated" /\ damaged' = FALSE /\ parsed' = {} /\ posted' = {}
          /\ exchange' = [Idle EXCEPT !.step = "waiting",
                                      !.request = exchange.request]
      BY <1>6 DEF Settles, Done, Quiet
    <2>2. /\ exchange'.step = "waiting" /\ exchange'.request = exchange.request
          /\ Shaped'
      BY <2>1 DEF Shaped, Idle
    <2>3. Left'
      BY <1>0, <2>1, <2>2 DEF Left
    <2>4. ReplyParsed' /\ Posts'
      BY <2>1 DEF ReplyParsed, Posts
    <2>5. QED
      BY <2>2, <2>3, <2>4 DEF ExchangeInvariant
  <1>7. ASSUME Ends PROVE ExchangeInvariant'
    <2>1. exchange' = Idle /\ damaged' = FALSE /\ parsed' = {} /\ posted' = {}
      BY <1>7 DEF Ends, Done, Quiet
    <2>2. exchange'.step = "idle" /\ Shaped'
      BY <2>1 DEF Shaped, Idle
    <2>3. Left'
      BY <2>2 DEF Left
    <2>4. ReplyParsed' /\ Posts'
      BY <2>1 DEF ReplyParsed, Posts
    <2>5. QED
      BY <2>2, <2>3, <2>4 DEF ExchangeInvariant
  <1>8. ASSUME UNCHANGED vars PROVE ExchangeInvariant'
    <2>1. /\ exchange' = exchange /\ damaged' = damaged /\ parsed' = parsed
          /\ readings' = readings /\ posted' = posted
      BY <1>8 DEF vars
    <2>2. QED
      BY <1>0, <2>1 DEF ExchangeInvariant, Shaped, Left, ReplyParsed, Posts
  <1>9. QED
    BY <1>1, <1>2, <1>3, <1>4, <1>5, <1>6, <1>7, <1>8, ExchangeActions

\* The invariant holds always: what is on the line is a request as it was
\* built, or an answer as the line left it, and only whole answers post.
THEOREM ExchangeKept == Spec => []ExchangeInvariant
  <1>1. Init => ExchangeInvariant
    BY ExchangeInit
  <1>2. ExchangeInvariant /\ [Next]_vars => ExchangeInvariant'
    BY ExchangeStep
  <1>3. QED
    BY <1>1, <1>2, PTL DEF Spec

\* Whatever is asked, with segments, queries and payload of any content and
\* length, the NSC reads what the agent meant: resource, options in their
\* order, payload and tracking token (Coap::buildMessage and
\* CoapPortTracker::udpToSerial).
THEOREM RequestsUnderstood == Spec => []RequestUnderstood
  <1>1. ASSUME ExchangeInvariant PROVE RequestUnderstood
    <2>1. SUFFICES ASSUME exchange.step = "asked"
                   PROVE  Understood(exchange.request, exchange.bytes)
      BY Zenon DEF RequestUnderstood, Understood, Heard
    <2>2. /\ exchange.request \in Requests
          /\ exchange.bytes = Sent(exchange.request)
      BY <1>1, <2>1 DEF ExchangeInvariant, Left
    <2>3. RequestType(exchange.request)
      BY <2>2, RequestTyped
    <2>4. QED
      BY <2>2, <2>3, RequestRead
  <1>2. QED
    BY <1>1, ExchangeKept, PTL

\* The tracker reads the path of every request whose options are below 256
\* bytes (extractUriPath).
THEOREM PathsReadBack == Spec => []PathReadBack
  <1>1. ASSUME ExchangeInvariant PROVE PathReadBack
    <2>1. SUFFICES ASSUME exchange.step = "asked",
                          FitsOneByte(Options(exchange.request))
                   PROVE  extractUriPath(exchange.bytes)
                              = exchange.request.segments
      BY DEF PathReadBack
    <2>2. /\ exchange.request \in Requests
          /\ exchange.bytes = Sent(exchange.request)
      BY <1>1, <2>1 DEF ExchangeInvariant, Left
    <2>3. RequestType(exchange.request)
      BY <2>2, RequestTyped
    <2>4. QED
      BY <2>1, <2>2, <2>3, PathRead
  <1>2. QED
    BY <1>1, ExchangeKept, PTL

\* Every answer with plain options that is not damaged is handed over with the
\* port that was asked for and the payload the NSC sent (serialToUdp,
\* parseObserveReply and serialDataReceived).
THEOREM RepliesParsed == Spec => []ReplyParsed
  <1>1. ExchangeInvariant => ReplyParsed
    BY DEF ExchangeInvariant
  <1>2. QED
    BY <1>1, ExchangeKept, PTL

\* Whatever the handheld reads, and wherever one burst of up to sixteen bits
\* strikes its report, in either half or across both, nothing of a damaged
\* answer with plain options is put into the queue (decode_combined_payload).
THEOREM DamageNeverPosts ==
    Spec => [](Plain(exchange.options) => DamagedNeverPosted)
  <1>1. ExchangeInvariant => (Plain(exchange.options) => DamagedNeverPosted)
    BY DEF ExchangeInvariant, Posts, DamagedNeverPosted
  <1>2. QED
    BY <1>1, ExchangeKept, PTL

\* If nothing else the NSC sends passes for a report, what is put into the
\* queue is what the handheld read, with every sign, flag and button
\* (JausBridge::evaluateCoapJausMessage and postInput).
THEOREM PostedReadings ==
    ASSUME \A content \in Contents : ~Forged(content)
    PROVE  Spec => [](Plain(exchange.options) => PostedIsRead)
  <1>1. ExchangeInvariant => (Plain(exchange.options) => PostedIsRead)
    BY DEF ExchangeInvariant, Posts, PostedIsRead
  <1>2. QED
    BY <1>1, ExchangeKept, PTL

-----------------------------------------------------------------------------
(* The builders of coapSRCPro *)

\* r is a request as a builder makes it: without an encoder (then the room is
\* the payload's own), or with one of the CBOR encoders
Called(r) ==
    \/ r.lines = <<>> /\ r.room = Len(r.payload)
    \/ \E port, key \in Nat : r = postUserSettings(port, key)
    \/ \E filename, length, crc32 :
          r = postFirmwareFileMetadata(filename, length, crc32)
    \/ \E line, segment \in Nat, text \in Seq(Byte) :
          r = postDisplayTextSegment(line, segment, text)
    \/ \E line0, line1 \in Seq(Byte), upper \in BOOLEAN :
          r = postDisplayTextRawLines(line0, line1, upper)

\* All that the builders make is of this kind.
LEMMA BuildersCall ==
    ASSUME NEW port \in Nat, NEW format, NEW segments, NEW payload, NEW value
    PROVE  /\ Called(Get(port, format, segments))
           /\ Called(Observing(Get(port, format, segments), value))
           /\ Called(Post(port, format, segments, payload))
  <1>1. Len(<<>>) = 0
    OBVIOUS
  <1>2. QED
    BY <1>1 DEF Called, Get, Observing, Post

LEMMA PostCborIs ==
    ASSUME NEW port, NEW segments, NEW encoded
    PROVE  LET r == PostCbor(port, segments, encoded)
           IN /\ r.port = port /\ r.method = POST /\ r.lines = <<>>
              /\ r.payload = encoded.bytes /\ r.room = encoded.room
  BY DEF PostCbor, Post, Get

LEMMA CborHeadLength ==
    ASSUME NEW major \in Nat, NEW n \in Nat
    PROVE  /\ CborHead(major, n) \in Seq(Int)
           /\ Len(CborHead(major, n)) <= 5
           /\ n < 256 => Len(CborHead(major, n)) <= 2
           /\ n < 24 => Len(CborHead(major, n)) <= 1
           /\ Len(CborHead(major, n)) \in Nat
  <1>1. CASE n < 24
    <2>1. CborHead(major, n) = <<32 * major + n>>
      BY <1>1 DEF CborHead
    <2>2. QED
      BY <2>1
  <1>2. CASE ~(n < 24) /\ n < 256
    <2>1. CborHead(major, n) = <<32 * major + 24, n>>
      BY <1>2 DEF CborHead
    <2>2. QED
      BY <1>2, <2>1
  <1>3. CASE ~(n < 256)
    <2> DEFINE a == n \div 256
               b == n % 256
               c == (n \div 65536) \div 256
               d == (n \div 65536) % 256
               e == (n % 65536) \div 256
               f == (n % 65536) % 256
    <2>1. a \in Int /\ b \in Int /\ c \in Int /\ d \in Int /\ e \in Int /\ f \in Int
      OBVIOUS
    <2>2. \/ CborHead(major, n) = <<32 * major + 25>> \o <<a, b>>
          \/ CborHead(major, n) = <<32 * major + 26>> \o <<c, d>> \o <<e, f>>
      BY <1>3 DEF CborHead, TwoBytes
    <2> HIDE DEF a, b, c, d, e, f
    <2>3. /\ <<32 * major + 25>> \o <<a, b>> \in Seq(Int)
          /\ Len(<<32 * major + 25>> \o <<a, b>>) = 3
      BY <2>1
    <2>4. /\ <<32 * major + 26>> \o <<c, d>> \o <<e, f>> \in Seq(Int)
          /\ Len(<<32 * major + 26>> \o <<c, d>> \o <<e, f>>) = 5
      BY <2>1
    <2> DEFINE x == <<32 * major + 25>> \o <<a, b>>
               y == <<32 * major + 26>> \o <<c, d>> \o <<e, f>>
    <2>5. /\ CborHead(major, n) = x \/ CborHead(major, n) = y
          /\ x \in Seq(Int) /\ Len(x) <= 5 /\ y \in Seq(Int) /\ Len(y) <= 5
      BY <2>2, <2>3, <2>4
    <2> HIDE DEF x, y
    <2>6. CborHead(major, n) \in Seq(Int) /\ Len(CborHead(major, n)) <= 5
      BY <2>5
    <2>7. QED
      BY <1>3, <2>6
  <1>4. QED
    BY <1>1, <1>2, <1>3

LEMMA CutLength ==
    ASSUME NEW text \in Seq(Byte), NEW n \in Nat
    PROVE  /\ Cut(text, n) \in Seq(Byte) /\ Len(Cut(text, n)) <= n
           /\ Len(text) >= n => Len(Cut(text, n)) = n
  <1> DEFINE m == Min({n, Len(text)})
  <1>1. m \in Nat /\ m <= n /\ m <= Len(text) /\ (Len(text) >= n => m = n)
    <2>1. Len(text) \in Nat
      OBVIOUS
    <2>2. Min({n, Len(text)}) = IF n <= Len(text) THEN n ELSE Len(text)
      <3>1. CASE n <= Len(text)
        BY <2>1, <3>1, MinOf
      <3>2. CASE ~(n <= Len(text))
        <4>1. Len(text) <= n /\ {n, Len(text)} = {Len(text), n}
          BY <2>1, <3>2
        <4>2. Min({Len(text), n}) = Len(text)
          BY <2>1, <4>1, MinOf
        <4>3. QED
          BY <3>2, <4>1, <4>2
      <3>3. QED
        BY <3>1, <3>2
    <2>3. QED
      BY <2>1, <2>2
  <1>2. Cut(text, n) = SubSeq(text, 1, m)
    BY DEF Cut
  <1> HIDE DEF m
  <1>3. SubSeq(text, 1, m) \in Seq(Byte) /\ Len(SubSeq(text, 1, m)) = m
    BY <1>1
  <1>4. QED
    BY <1>1, <1>2, <1>3

LEMMA BytesAreInts == \A s \in Seq(Byte) : s \in Seq(Int)
  BY ByteIs

\* a sequence of at most n integers
AtMost(s, n) == s \in Seq(Int) /\ Len(s) \in Nat /\ Len(s) <= n

LEMMA AtMostConcat ==
    ASSUME NEW a, NEW b, NEW m \in Nat, NEW n \in Nat, AtMost(a, m), AtMost(b, n)
    PROVE  AtMost(a \o b, m + n)
  <1>1. /\ a \in Seq(Int) /\ Len(a) \in Nat /\ Len(a) <= m
        /\ b \in Seq(Int) /\ Len(b) \in Nat /\ Len(b) <= n
    BY DEF AtMost
  <1>2. a \o b \in Seq(Int) /\ Len(a \o b) = Len(a) + Len(b)
    BY <1>1, ConcatFacts
  <1>3. QED
    BY <1>1, <1>2 DEF AtMost

LEMMA HeadAtMost ==
    ASSUME NEW major \in Nat, NEW n \in Nat
    PROVE  /\ AtMost(CborHead(major, n), 5)
           /\ n < 256 => AtMost(CborHead(major, n), 2)
           /\ n < 24 => AtMost(CborHead(major, n), 1)
  BY CborHeadLength, Zenon DEF AtMost

LEMMA CutAtMost ==
    ASSUME NEW text \in Seq(Byte), NEW n \in Nat
    PROVE  AtMost(Cut(text, n), n) /\ Len(Cut(text, n)) \in Nat
  <1>1. Cut(text, n) \in Seq(Byte) /\ Len(Cut(text, n)) <= n
    BY CutLength
  <1>2. Cut(text, n) \in Seq(Int) /\ Len(Cut(text, n)) \in Nat
    BY <1>1, BytesAreInts
  <1>3. QED
    BY <1>1, <1>2 DEF AtMost

LEMMA SettingsFit ==
    ASSUME NEW key \in Nat, NEW value \in Nat
    PROVE  Len(encodeUserSettings(key, value).bytes)
               <= encodeUserSettings(key, value).room
  <1> DEFINE a == Array(2)
             b == Unsigned(key)
             c == Unsigned(value)
  <1>1. AtMost(a, 5) /\ AtMost(b, 5) /\ AtMost(c, 5)
    BY HeadAtMost DEF Array, Unsigned
  <1>2. encodeUserSettings(key, value) = [bytes |-> a \o b \o c, room |-> 32]
    BY DEF encodeUserSettings, Encoded
  <1> HIDE DEF a, b, c
  <1>3. AtMost(a \o b, 10)
    BY <1>1, AtMostConcat
  <1>4. AtMost(a \o b \o c, 15)
    BY <1>1, <1>3, AtMostConcat
  <1>5. QED
    BY <1>2, <1>4 DEF AtMost

LEMMA SegmentFits ==
    ASSUME NEW line \in Nat, NEW segment \in Nat, NEW text \in Seq(Byte)
    PROVE  Len(cborEncodeDisplaySegment(line, segment, text).bytes)
               <= cborEncodeDisplaySegment(line, segment, text).room
  <1> DEFINE t == Cut(text, 6)
             a == Map(1)
             b == Text(Name(12))
             c == Array(3)
             d == Unsigned(line)
             e == Unsigned(segment)
             f == Text(t)
             all == a \o b \o c \o d \o e \o f
  <1>1. Len(t) \in Nat /\ Len(t) <= 6 /\ AtMost(t, Len(t))
    BY CutAtMost DEF AtMost
  <1>2. cborEncodeDisplaySegment(line, segment, text)
            = [bytes |-> all, room |-> Len(t) + 32]
    BY DEF cborEncodeDisplaySegment, Encoded
  <1> HIDE DEF t
  <1>3. AtMost(a, 1) /\ AtMost(c, 1)
    <2>1. AtMost(CborHead(5, 1), 1) /\ AtMost(CborHead(4, 3), 1)
      BY HeadAtMost
    <2>2. QED
      BY <2>1 DEF Map, Array
  <1>4. AtMost(d, 5) /\ AtMost(e, 5)
    BY HeadAtMost DEF Unsigned
  <1>5. AtMost(b, 13)
    <2>1. /\ Name(12) \in Seq(Int) /\ Len(Name(12)) = 12
          /\ Len(Name(12)) \in Nat /\ Len(Name(12)) <= 12
      BY DEF Name
    <2>2. AtMost(Name(12), 12)
      BY <2>1, Zenon DEF AtMost
    <2>3. AtMost(CborHead(3, 12), 1)
      BY HeadAtMost
    <2>4. AtMost(CborHead(3, 12) \o Name(12), 13)
      BY <2>2, <2>3, AtMostConcat
    <2>5. b = CborHead(3, 12) \o Name(12)
      BY <2>1 DEF Text
    <2>6. QED
      BY <2>4, <2>5
  <1>6. AtMost(f, 1 + Len(t))
    <2>1. AtMost(CborHead(3, Len(t)), 1)
      BY <1>1, HeadAtMost
    <2>2. AtMost(CborHead(3, Len(t)) \o t, 1 + Len(t))
      BY <1>1, <2>1, AtMostConcat
    <2>3. QED
      BY <2>2 DEF Text
  <1> HIDE DEF a, b, c, d, e, f
  <1>7. AtMost(a \o b, 14)
    BY <1>3, <1>5, AtMostConcat
  <1>8. AtMost(a \o b \o c, 15)
    BY <1>3, <1>7, AtMostConcat
  <1>9. AtMost(a \o b \o c \o d, 20)
    BY <1>4, <1>8, AtMostConcat
  <1>10. AtMost(a \o b \o c \o d \o e, 25)
    BY <1>4, <1>9, AtMostConcat
  <1>11. AtMost(all, 25 + (1 + Len(t)))
    BY <1>1, <1>6, <1>10, AtMostConcat
  <1> HIDE DEF all
  <1>12. Len(all) <= Len(t) + 32
    BY <1>1, <1>11 DEF AtMost
  <1>13. QED
    BY <1>2, <1>12

\* Two lines as bytes, with their half.
Raw(line0, line1, upper) == Cut(line0, 18) \o Cut(line1, 18) \o <<Half(upper)>>

LEMMA RawAtMost ==
    ASSUME NEW line0 \in Seq(Byte), NEW line1 \in Seq(Byte),
           NEW upper \in BOOLEAN
    PROVE  /\ AtMost(Raw(line0, line1, upper), 37)
           /\ AtMost(Binary(Raw(line0, line1, upper)),
                     2 + Len(Raw(line0, line1, upper)))
  <1> DEFINE a == Cut(line0, 18)
             b == Cut(line1, 18)
             h == <<Half(upper)>>
             raw == Raw(line0, line1, upper)
  <1>1. AtMost(a, 18) /\ AtMost(b, 18)
    BY CutAtMost
  <1>2. AtMost(h, 1)
    BY DEF Half, AtMost
  <1>3. raw = a \o b \o h
    BY DEF Raw
  <1> HIDE DEF a, b, h, raw
  <1>4. AtMost(a \o b, 36)
    BY <1>1, AtMostConcat
  <1>5. AtMost(raw, 37)
    BY <1>2, <1>3, <1>4, AtMostConcat
  <1>6. Len(raw) \in Nat /\ Len(raw) < 256 /\ AtMost(raw, Len(raw))
    BY <1>5 DEF AtMost
  <1>7. AtMost(CborHead(2, Len(raw)), 2)
    BY <1>6, HeadAtMost
  <1>8. AtMost(CborHead(2, Len(raw)) \o raw, 2 + Len(raw))
    BY <1>6, <1>7, AtMostConcat
  <1>9. QED
    BY <1>5, <1>8 DEF Binary, raw

\* What is made with an encoder other than that of a file's metadata fits.
LEMMA RoomSuffices ==
    ASSUME NEW r \in Requests, Called(r), ~Built(r)
    PROVE  r.port = FIRMWAREFILEMETADATA
  <1>1. Len(r.payload) \in Nat
    BY RequestTyped DEF RequestType
  <1>2. ~(r.room = Len(r.payload))
    BY <1>1 DEF Built
  <1>3. ASSUME NEW port \in Nat, NEW key \in Nat, r = postUserSettings(port, key)
        PROVE  FALSE
    <2>1. /\ r.payload = encodeUserSettings(key, 1).bytes
          /\ r.room = encodeUserSettings(key, 1).room
      BY <1>3, PostCborIs DEF postUserSettings
    <2>2. QED
      BY <2>1, SettingsFit DEF Built
  <1>4. ASSUME NEW line \in Nat, NEW segment \in Nat, NEW text \in Seq(Byte),
               r = postDisplayTextSegment(line, segment, text)
        PROVE  FALSE
    <2>1. /\ r.payload = cborEncodeDisplaySegment(line, segment, text).bytes
          /\ r.room = cborEncodeDisplaySegment(line, segment, text).room
      BY <1>4, PostCborIs DEF postDisplayTextSegment
    <2>2. QED
      BY <2>1, SegmentFits DEF Built
  <1>5. ASSUME NEW line0 \in Seq(Byte), NEW line1 \in Seq(Byte),
               NEW upper \in BOOLEAN,
               r = postDisplayTextRawLines(line0, line1, upper)
        PROVE  FALSE
    <2> DEFINE raw == Raw(line0, line1, upper)
    <2>1. r.payload = Binary(raw) /\ r.room = Len(raw) + 16
      BY <1>5 DEF postDisplayTextRawLines, PostCbor, Post, Get,
                  cborEncodeTwoLines18, Encoded, Raw
    <2>2. AtMost(raw, 37) /\ AtMost(Binary(raw), 2 + Len(raw))
      BY RawAtMost
    <2> HIDE DEF raw
    <2>3. QED
      BY <2>1, <2>2 DEF Built, AtMost
  <1>6. ASSUME NEW filename, NEW length, NEW crc32,
               r = postFirmwareFileMetadata(filename, length, crc32)
        PROVE  r.port = FIRMWAREFILEMETADATA
    BY <1>6, PostCborIs DEF postFirmwareFileMetadata
  <1>7. QED
    BY <1>2, <1>3, <1>4, <1>5, <1>6, Zenon DEF Called

\* If the requests are those of the builders, no builder but that of a file's
\* metadata ever throws for want of room, whatever the keys, lines and texts
\* (cborEncodeDisplaySegment, cborEncodeTwoLines18 and encodeUserSettings).
THEOREM OnlyTheMetadataThrows ==
    ASSUME \A r \in Requests : Called(r)
    PROVE  Spec => []OnlyMetadataThrows
  <1>1. ExchangeInvariant => OnlyMetadataThrows
    <2>1. SUFFICES ASSUME ExchangeInvariant, exchange.step = "thrown"
                   PROVE  exchange.request.port = FIRMWAREFILEMETADATA
      BY DEF OnlyMetadataThrows
    <2>2. exchange.request \in Requests /\ ~Built(exchange.request)
      BY <2>1 DEF ExchangeInvariant, Left
    <2>3. QED
      BY <2>2, RoomSuffices
  <1>2. QED
    BY <1>1, ExchangeKept, PTL

Regroups(a, b, c, d) == a \o ((b \o c) \o d) = a \o b \o c \o d

Joined(a, b, c) == (a \o b) \o c = a \o (b \o c)

LEMMA BytesJoined == \A a, b, c \in Seq(Byte) : Joined(a, b, c)
  BY BytesAssociative DEF Joined

LEMMA FourRegrouped ==
    ASSUME NEW a \in Seq(Byte), NEW b \in Seq(Byte), NEW c \in Seq(Byte),
           NEW d \in Seq(Byte)
    PROVE  Regroups(a, b, c, d)
  <1>1. b \o c \in Seq(Byte)
    BY ConcatFacts
  <1>2. Joined(a, b, c) /\ Joined(a, b \o c, d)
    BY <1>1, BytesJoined
  <1>3. QED
    BY <1>2, Zenon DEF Regroups, Joined

LEMMA OneOrTwoBytes ==
    \A x, y \in Byte : <<x>> \in Seq(Byte) /\ <<x, y>> \in Seq(Byte)
  OBVIOUS

LEMMA HeadAndHalf ==
    ASSUME NEW upper \in BOOLEAN
    PROVE  <<88, 37>> \in Seq(Byte) /\ <<Half(upper)>> \in Seq(Byte)
  <1>1. Half(upper) = 0 \/ Half(upper) = 1
    BY DEF Half
  <1>2. Half(upper) \in Byte /\ 88 \in Byte /\ 37 \in Byte
    BY <1>1, ByteIs
  <1>3. QED
    BY <1>2, OneOrTwoBytes

\* Two full lines, as the handheld finds them in the payload.
LEMMA LinesRead ==
    ASSUME NEW line0 \in Seq(Byte), NEW line1 \in Seq(Byte),
           NEW upper \in BOOLEAN, Len(line0) >= 18, Len(line1) >= 18
    PROVE  LET payload == Binary(Raw(line0, line1, upper))
           IN /\ Len(payload) = 39
              /\ SubSeq(payload, 3, 20) = Cut(line0, 18)
              /\ SubSeq(payload, 21, 38) = Cut(line1, 18)
  <1> DEFINE a == Cut(line0, 18)
             b == Cut(line1, 18)
             h == <<Half(upper)>>
             lead == <<88, 37>>
             raw == Raw(line0, line1, upper)
             payload == Binary(raw)
  <1>1. /\ a \in Seq(Int) /\ Len(a) = 18 /\ b \in Seq(Int) /\ Len(b) = 18
        /\ h \in Seq(Int) /\ Len(h) = 1 /\ lead \in Seq(Int) /\ Len(lead) = 2
        /\ a \in Seq(Byte) /\ b \in Seq(Byte)
        /\ h \in Seq(Byte) /\ lead \in Seq(Byte)
    <2>1. a \in Seq(Byte) /\ Len(a) = 18 /\ b \in Seq(Byte) /\ Len(b) = 18
      <3>1. ASSUME NEW text \in Seq(Byte), Len(text) >= 18
            PROVE  Cut(text, 18) \in Seq(Byte) /\ Len(Cut(text, 18)) = 18
        BY <3>1, CutLength
      <3>2. QED
        BY <3>1, Zenon
    <2>2. a \in Seq(Int) /\ b \in Seq(Int)
      BY <2>1, BytesAreInts
    <2>3. /\ h \in Seq(Int) /\ Len(h) = 1
          /\ lead \in Seq(Int) /\ Len(lead) = 2
      BY DEF Half
    <2>4. h \in Seq(Byte) /\ lead \in Seq(Byte)
      BY HeadAndHalf, Zenon
    <2>5. QED
      BY <2>1, <2>2, <2>3, <2>4
  <1>2. raw = a \o b \o h
    BY DEF Raw
  <1>3. Len(raw) = 37
    <2> HIDE DEF a, b, h, raw
    <2>1. a \o b \in Seq(Int) /\ Len(a \o b) = Len(a) + Len(b)
      BY <1>1, ConcatFacts
    <2>2. Len((a \o b) \o h) = Len(a \o b) + Len(h)
      BY <1>1, <2>1, ConcatFacts
    <2>3. QED
      BY <1>1, <1>2, <2>1, <2>2
  <1>4. payload = lead \o raw
    BY <1>3 DEF Binary, CborHead
  <1> HIDE DEF a, b, h, lead, raw, payload
  <1>5. a \o b \in Seq(Int) /\ raw = (a \o b) \o h
    BY <1>1, <1>2
  <1>6. payload = lead \o a \o b \o h
    <2>1. Regroups(lead, a, b, h)
      BY <1>1, FourRegrouped, Zenon
    <2>2. QED
      BY <1>4, <1>5, <2>1, Zenon DEF Regroups
  <1>7. payload \in Seq(Int) /\ Parts(payload, lead, a, b, h)
    BY <1>1, <1>6, FourParts
  <1>8. /\ Len(payload) = 39
        /\ \A i \in 1 .. 18 : payload[2 + i] = a[i]
        /\ \A i \in 1 .. 18 : payload[20 + i] = b[i]
    BY <1>1, <1>7 DEF Parts
  <1>9. SubSeq(payload, 3, 20) = a
    <2>1. 2 \in Nat /\ 2 + Len(a) <= Len(payload)
      BY <1>1, <1>8
    <2>2. \A i \in 1 .. Len(a) : payload[2 + i] = a[i]
      BY <1>1, <1>8
    <2>3. SubSeq(payload, 2 + 1, 2 + Len(a)) = a
      BY <1>1, <1>7, <2>1, <2>2, PartIs, Zenon
    <2>4. QED
      BY <1>1, <2>3
  <1>10. SubSeq(payload, 21, 38) = b
    <2> DEFINE d == 20
    <2>1. d \in Nat /\ d + Len(b) <= Len(payload)
      BY <1>1, <1>8
    <2>2. \A i \in 1 .. Len(b) : payload[d + i] = b[i]
      BY <1>1, <1>8
    <2> HIDE DEF d
    <2>3. SubSeq(payload, d + 1, d + Len(b)) = b
      BY <1>1, <1>7, <2>1, <2>2, PartIs, Zenon
    <2>4. QED
      BY <1>1, <2>3 DEF d
  <1>11. QED
    BY <1>8, <1>9, <1>10 DEF payload, raw, a, b

\* If the requests are those of the builders, two lines of any text of at
\* least 18 characters arrive as their first 18 (cborEncodeTwoLines18 and
\* postDisplayTextRawLines).
THEOREM DisplaysReadBack ==
    ASSUME \A r \in Requests : Called(r)
    PROVE  Spec => []DisplayReadBack
  <1>1. ExchangeInvariant => DisplayReadBack
    <2> DEFINE r == exchange.request
               lines == r.lines
    <2>1. SUFFICES ASSUME ExchangeInvariant, exchange.step = "asked",
                          lines # <<>>,
                          \A i \in DOMAIN lines : Len(lines[i]) >= 18
                   PROVE  /\ Len(Heard.payload) = 39
                          /\ LinesShown(Heard.payload)
                                 = [i \in 1 .. 2 |-> Cut(lines[i], 18)]
      BY DEF DisplayReadBack
    <2>2. r \in Requests /\ exchange.bytes = Sent(r)
      BY <2>1 DEF ExchangeInvariant, Left
    <2>3. Heard.payload = Payload(r)
      <3>1. Understood(r, Sent(r))
        BY <2>2, RequestTyped, RequestRead
      <3>2. QED
        BY <2>2, <3>1 DEF Understood, Heard
    <2>4. Called(r)
      BY <2>2
    <2> HIDE DEF r
    <2>5. PICK line0 \in Seq(Byte), line1 \in Seq(Byte), upper \in BOOLEAN :
              r = postDisplayTextRawLines(line0, line1, upper)
      <3>1. /\ \A port, key : postUserSettings(port, key).lines = <<>>
            /\ \A line, segment, text :
                  postDisplayTextSegment(line, segment, text).lines = <<>>
            /\ \A filename, length, crc32 :
                  postFirmwareFileMetadata(filename, length, crc32).lines = <<>>
        BY PostCborIs DEF postUserSettings, postDisplayTextSegment,
                          postFirmwareFileMetadata
      <3>2. r.lines # <<>>
        BY <2>1
      <3>3. QED
        <4>1. /\ ~(r.room = Len(r.payload) /\ r.lines = <<>>)
              /\ ~\E port, key \in Nat : r = postUserSettings(port, key)
              /\ ~\E line, segment \in Nat, text \in Seq(Byte) :
                    r = postDisplayTextSegment(line, segment, text)
              /\ ~\E filename, length, crc32 :
                    r = postFirmwareFileMetadata(filename, length, crc32)
          BY <3>1, <3>2, Zenon
        <4>2. QED
          BY <2>4, <4>1, Zenon DEF Called
    <2>6. /\ lines = <<line0, line1>> /\ r.method = POST
          /\ r.payload = Binary(Raw(line0, line1, upper))
      BY <2>5 DEF postDisplayTextRawLines, PostCbor, Post, Get,
                  cborEncodeTwoLines18, Encoded, Raw
    <2>7. Len(line0) >= 18 /\ Len(line1) >= 18
      <3>1. DOMAIN <<line0, line1>> = 1 .. 2
        OBVIOUS
      <3>2. /\ Len(<<line0, line1>>[1]) >= 18 /\ Len(<<line0, line1>>[2]) >= 18
        BY <2>1, <2>6, <3>1
      <3>3. QED
        BY <3>2
    <2> DEFINE payload == Binary(Raw(line0, line1, upper))
    <2>8. /\ Len(payload) = 39
          /\ SubSeq(payload, 3, 20) = Cut(line0, 18)
          /\ SubSeq(payload, 21, 38) = Cut(line1, 18)
      BY <2>7, LinesRead
    <2>9. Heard.payload = payload
      BY <2>3, <2>6 DEF Payload
    <2> HIDE DEF payload
    <2>10. LinesShown(payload) = <<Cut(line0, 18), Cut(line1, 18)>>
      BY <2>8 DEF LinesShown
    <2>11. [i \in 1 .. 2 |-> Cut(lines[i], 18)]
               = <<Cut(line0, 18), Cut(line1, 18)>>
      <3> DEFINE c == [i \in 1 .. 2 |-> Cut(lines[i], 18)]
      <3>1. lines[1] = line0 /\ lines[2] = line1
        BY <2>6
      <3>2. c[1] = Cut(line0, 18) /\ c[2] = Cut(line1, 18)
        BY <3>1
      <3>3. c = <<c[1], c[2]>>
        OBVIOUS
      <3> HIDE DEF c
      <3>4. QED
        BY <3>2, <3>3 DEF c
    <2>12. QED
      BY <2>8, <2>9, <2>10, <2>11
  <1>2. QED
    BY <1>1, ExchangeKept, PTL

=============================================================================
