-------------------------- MODULE SequenceInduction --------------------------
(***************************************************************************)
(* Induction over data. The induction theorems of the library take an      *)
(* operator as a parameter; SetInduction takes a set instead, which the    *)
(* provers can instantiate, and follows from the library's theorem that    *)
(* every set of naturals has a least element. With it: the recursive       *)
(* function of FlattenSeq exists and is unique, and what it computes for   *)
(* every sequence of sequences.                                            *)
(***************************************************************************)
EXTENDS SequencesExt, Integers, WellFoundedInduction, TLAPS

\* The natural numbers have no infinite descent.
LEMMA NatOrder == IsWellFoundedOn({p \in Nat \X Nat : p[1] < p[2]}, Nat)
  BY NatLessThanWellFounded DEF OpToRel

\* A set that has 0 and the successor of each of its naturals has them all.
LEMMA SetInduction ==
  ASSUME NEW T, 0 \in T, \A n \in Nat : n \in T => n + 1 \in T
  PROVE  Nat \subseteq T
  <1> DEFINE R == {p \in Nat \X Nat : p[1] < p[2]}
             U == Nat \ T
  <1>1. SUFFICES ASSUME U # {} PROVE FALSE
    OBVIOUS
  <1>2. IsWellFoundedOn(R, Nat)
    BY NatOrder
  <1>3. U \subseteq Nat
    OBVIOUS
  <1>4. \E x \in U : \A y \in U : ~ (<<y, x>> \in R)
    <2> HIDE DEF R, U
    <2> QED BY <1>1, <1>2, <1>3, WFMin
  <1>5. PICK x \in U : \A y \in U : ~ (<<y, x>> \in R)
    BY <1>4
  <1>6. x \in Nat /\ x # 0
    OBVIOUS
  <1>7. x - 1 \in Nat /\ x - 1 < x /\ (x - 1) + 1 = x
    BY <1>6
  <1>8. x - 1 \notin U
    BY <1>5, <1>6, <1>7
  <1>9. QED
    BY <1>6, <1>7, <1>8

-----------------------------------------------------------------------------
(* Sequences                                                                *)

\* A front one longer is the front with one more element.
LEMMA FrontStep ==
    ASSUME NEW S, NEW s \in Seq(S), NEW k \in Nat, k < Len(s)
    PROVE  /\ SubSeq(s, 1, k) \in Seq(S) /\ Len(SubSeq(s, 1, k)) = k
           /\ s[k + 1] \in S
           /\ SubSeq(s, 1, k + 1) = Append(SubSeq(s, 1, k), s[k + 1])
  OBVIOUS

\* The longest and the shortest front.
LEMMA WholeFront ==
    ASSUME NEW S, NEW s \in Seq(S)
    PROVE  SubSeq(s, 1, Len(s)) = s /\ SubSeq(s, 1, 0) = <<>>
  OBVIOUS

\* Type, length and neutral element of concatenation.
LEMMA ConcatFacts ==
    ASSUME NEW S, NEW a \in Seq(S), NEW b \in Seq(S)
    PROVE  /\ a \o b \in Seq(S) /\ Len(a \o b) = Len(a) + Len(b)
           /\ a \o <<>> = a /\ <<>> \o a = a
  OBVIOUS

\* Where the parts of a concatenation are.
LEMMA TwoParts ==
    ASSUME NEW S, NEW a \in Seq(S), NEW b \in Seq(S)
    PROVE  /\ a \o b \in Seq(S) /\ Len(a \o b) = Len(a) + Len(b)
           /\ \A i \in 1 .. Len(a) : (a \o b)[i] = a[i]
           /\ \A i \in 1 .. Len(b) : (a \o b)[Len(a) + i] = b[i]
  OBVIOUS

\* Concatenation is associative.
LEMMA ConcatAssociative ==
    ASSUME NEW S, NEW a \in Seq(S), NEW b \in Seq(S), NEW c \in Seq(S)
    PROVE  (a \o b) \o c = a \o (b \o c)
  OBVIOUS

\* The empty sequence is the one without length.
LEMMA EmptySeq ==
    ASSUME NEW S
    PROVE  /\ <<>> \in Seq(S)
           /\ \A s \in Seq(S) : Len(s) = 0 => s = <<>>
  OBVIOUS

-----------------------------------------------------------------------------
(* FlattenSeq                                                               *)

\* f is the function flatten of FlattenSeq, for the first n sequences
Flattens(f, seqs, n) ==
    f = [i \in 1 .. n |-> IF i = 1 THEN seqs[i] ELSE f[i - 1] \o seqs[i]]

\* There is such a function for every number of sequences ...
LEMMA FlattenExists ==
    ASSUME NEW seqs, NEW n \in Nat
    PROVE  \E f : Flattens(f, seqs, n)
  <1> DEFINE T == {k \in Nat : \E f : Flattens(f, seqs, k)}
  <1>1. 0 \in T
    <2>1. Flattens([i \in 1 .. 0 |-> 0], seqs, 0)
      BY DEF Flattens
    <2>2. QED
      BY <2>1
  <1>2. ASSUME NEW k \in Nat, k \in T PROVE k + 1 \in T
    <2>1. PICK f : Flattens(f, seqs, k)
      BY <1>2
    <2>6. \A x \in 1 .. k :
              f[x] = IF x = 1 THEN seqs[x] ELSE f[x - 1] \o seqs[x]
      BY <2>1, Zenon DEF Flattens
    <2> DEFINE g == [i \in 1 .. k + 1 |->
                        IF i = 1 THEN seqs[i]
                        ELSE IF i = k + 1 THEN f[k] \o seqs[i] ELSE f[i]]
    <2>2. ASSUME NEW i \in 1 .. k + 1
          PROVE  g[i] = IF i = 1 THEN seqs[i] ELSE g[i - 1] \o seqs[i]
      <3>1. CASE i = 1
        BY <3>1
      <3>2. CASE i # 1
        <4>1. i - 1 \in 1 .. k
          BY <3>2
        <4>2. g[i - 1] = f[i - 1]
          BY <2>6, <4>1
        <4>3. CASE i = k + 1
          <5>1. i - 1 = k /\ k + 1 # 1 /\ k + 1 \in 1 .. k + 1
            BY <3>2, <4>3
          <5>3. g[i] = f[k] \o seqs[i]
            BY <4>3, <5>1, Zenon
          <5>2. QED
            BY <3>2, <4>2, <5>1, <5>3, Zenon
        <4>4. CASE i # k + 1
          <5>1. i \in 1 .. k /\ g[i] = f[i]
            BY <3>2, <4>4
          <5>2. f[i] = f[i - 1] \o seqs[i]
            BY <2>6, <3>2, <5>1, Zenon
          <5>3. QED
            BY <3>2, <4>2, <5>1, <5>2, Zenon
        <4>5. QED
          BY <4>3, <4>4
      <3>3. QED
        BY <3>1, <3>2
    <2>3. g = [i \in 1 .. k + 1 |->
                  IF i = 1 THEN seqs[i] ELSE g[i - 1] \o seqs[i]]
      <3>1. \A i \in 1 .. k + 1 :
                g[i] = IF i = 1 THEN seqs[i] ELSE g[i - 1] \o seqs[i]
        BY <2>2
      <3>2. g = [i \in 1 .. k + 1 |-> g[i]]
        OBVIOUS
      <3> HIDE DEF g
      <3>3. QED
        BY <3>1, <3>2
    <2>4. Flattens(g, seqs, k + 1)
      BY <2>3 DEF Flattens
    <2>5. QED
      BY <2>4
  <1>3. Nat \subseteq T
    <2> HIDE DEF T
    <2> QED BY <1>1, <1>2, SetInduction
  <1>4. QED
    BY <1>3

\* ... two of them agree ...
LEMMA FlattenUnique ==
    ASSUME NEW seqs, NEW n \in Nat, NEW m \in Nat, m <= n,
           NEW f, Flattens(f, seqs, n), NEW g, Flattens(g, seqs, m)
    PROVE  \A i \in 1 .. m : f[i] = g[i]
  <1> DEFINE T == {i \in Nat : i \in 1 .. m => f[i] = g[i]}
  <1>1. \A i \in 1 .. n :
            f[i] = IF i = 1 THEN seqs[i] ELSE f[i - 1] \o seqs[i]
    BY Zenon DEF Flattens
  <1>2. \A i \in 1 .. m :
            g[i] = IF i = 1 THEN seqs[i] ELSE g[i - 1] \o seqs[i]
    BY Zenon DEF Flattens
  <1>3. 0 \in T
    OBVIOUS
  <1>4. ASSUME NEW i \in Nat, i \in T PROVE i + 1 \in T
    <2>1. SUFFICES ASSUME i + 1 \in 1 .. m PROVE f[i + 1] = g[i + 1]
      OBVIOUS
    <2>2. i + 1 \in 1 .. n /\ (i + 1) - 1 = i
      BY <2>1
    <2>3. CASE i = 0
      <3>1. i + 1 = 1
        BY <2>3
      <3>2. f[i + 1] = seqs[i + 1] /\ g[i + 1] = seqs[i + 1]
        BY <1>1, <1>2, <2>1, <2>2, <3>1, Zenon
      <3>3. QED
        BY <3>2
    <2>4. CASE i # 0
      <3>1. i \in 1 .. m /\ i + 1 # 1
        BY <2>1, <2>4
      <3>2. f[i] = g[i]
        BY <1>4, <3>1
      <3>3. f[i + 1] = f[(i + 1) - 1] \o seqs[i + 1]
        BY <1>1, <2>2, <3>1, Zenon
      <3>4. g[i + 1] = g[(i + 1) - 1] \o seqs[i + 1]
        BY <1>2, <2>1, <3>1, Zenon
      <3>5. QED
        BY <2>2, <3>2, <3>3, <3>4
    <2>5. QED
      BY <2>3, <2>4
  <1>5. Nat \subseteq T
    <2> HIDE DEF T
    <2> QED BY <1>3, <1>4, SetInduction
  <1>6. QED
    BY <1>5

\* ... and any of them gives what FlattenSeq chooses.
LEMMA FlattenIs ==
    ASSUME NEW seqs, Len(seqs) \in Nat, Len(seqs) # 0,
           NEW f, Flattens(f, seqs, Len(seqs))
    PROVE  FlattenSeq(seqs) = f[Len(seqs)]
  <1> DEFINE chosen == CHOOSE g : Flattens(g, seqs, Len(seqs))
  <1>1. Flattens(chosen, seqs, Len(seqs))
    OBVIOUS
  <1>2. FlattenSeq(seqs) = chosen[Len(seqs)]
    BY Zenon DEF FlattenSeq, Flattens
  <1>3. Len(seqs) \in 1 .. Len(seqs)
    OBVIOUS
  <1> HIDE DEF chosen
  <1>4. QED
    BY <1>1, <1>2, <1>3, FlattenUnique

\* Nothing flattens to nothing.
LEMMA FlattenEmpty == FlattenSeq(<<>>) = <<>>
  BY DEF FlattenSeq

\* Flattening proceeds from the left.
LEMMA FlattenAppend ==
    ASSUME NEW S, NEW seqs \in Seq(Seq(S)), NEW s \in Seq(S)
    PROVE  FlattenSeq(Append(seqs, s)) = FlattenSeq(seqs) \o s
  <1> DEFINE n == Len(seqs)
             more == Append(seqs, s)
  <1>1. n \in Nat /\ Len(more) = n + 1 /\ more[n + 1] = s
    OBVIOUS
  <1>2. PICK f : Flattens(f, more, n + 1)
    <2>1. n + 1 \in Nat
      BY <1>1
    <2> HIDE DEF n, more
    <2>2. QED
      BY <2>1, FlattenExists
  <1>3. \A i \in 1 .. n + 1 :
            f[i] = IF i = 1 THEN more[i] ELSE f[i - 1] \o more[i]
    BY <1>2, Zenon DEF Flattens
  <1>4. FlattenSeq(more) = f[n + 1]
    <2>1. Len(more) \in Nat /\ Len(more) # 0
      BY <1>1
    <2>2. Flattens(f, more, Len(more))
      BY <1>1, <1>2
    <2> HIDE DEF more
    <2>3. FlattenSeq(more) = f[Len(more)]
      BY <2>1, <2>2, FlattenIs
    <2>4. QED
      BY <1>1, <2>3
  <1>5. CASE n = 0
    <2>1. seqs = <<>> /\ FlattenSeq(seqs) = <<>>
      BY <1>5, FlattenEmpty
    <2>2. f[n + 1] = s
      BY <1>1, <1>3, <1>5
    <2>3. <<>> \o s = s
      OBVIOUS
    <2>4. QED
      BY <1>4, <2>1, <2>2, <2>3
  <1>6. CASE n # 0
    <2>1. n \in 1 .. n + 1 /\ n + 1 \in 1 .. n + 1 /\ n + 1 # 1
          /\ (n + 1) - 1 = n
      BY <1>1, <1>6
    <2>2. f[n + 1] = f[n] \o s
      BY <1>1, <1>3, <2>1, Zenon
    <2> DEFINE g == [i \in 1 .. n |-> f[i]]
    <2>3. Flattens(g, seqs, n)
      <3>1. ASSUME NEW i \in 1 .. n
            PROVE  f[i] = IF i = 1 THEN seqs[i] ELSE g[i - 1] \o seqs[i]
        <4>1. i \in 1 .. n + 1 /\ more[i] = seqs[i]
          BY <1>1
        <4>2. CASE i = 1
          BY <1>3, <4>1, <4>2
        <4>3. CASE i # 1
          <5>1. i - 1 \in 1 .. n
            BY <4>3
          <5>2. g[i - 1] = f[i - 1]
            BY <5>1
          <5>3. QED
            BY <1>3, <4>1, <4>3, <5>2, Zenon
        <4>4. QED
          BY <4>2, <4>3
      <3>2. \A i \in 1 .. n :
                f[i] = IF i = 1 THEN seqs[i] ELSE g[i - 1] \o seqs[i]
        BY <3>1
      <3>3. g = [i \in 1 .. n |->
                    IF i = 1 THEN seqs[i] ELSE g[i - 1] \o seqs[i]]
        BY <3>2, Zenon
      <3>4. QED
        BY <3>3, Zenon DEF Flattens
    <2>4. FlattenSeq(seqs) = g[n]
      BY <1>1, <1>6, <2>3, FlattenIs
    <2>5. g[n] = f[n]
      BY <1>6, <1>1
    <2>6. QED
      BY <1>4, <2>2, <2>4, <2>5
  <1>7. QED
    BY <1>5, <1>6

\* The flattened sequence is a sequence of the same elements.
LEMMA FlattenType ==
    ASSUME NEW S, NEW seqs \in Seq(Seq(S))
    PROVE  FlattenSeq(seqs) \in Seq(S)
  <1> DEFINE T == {n \in Nat : \A ss \in Seq(Seq(S)) :
                        Len(ss) = n => FlattenSeq(ss) \in Seq(S)}
  <1>1. 0 \in T
    <2>1. ASSUME NEW ss \in Seq(Seq(S)), Len(ss) = 0
          PROVE  FlattenSeq(ss) \in Seq(S)
      <3>1. ss = <<>>
        BY <2>1
      <3>2. QED
        BY <3>1, FlattenEmpty, EmptySeq
    <2>2. QED
      BY <2>1
  <1>2. ASSUME NEW n \in Nat, n \in T PROVE n + 1 \in T
    <2>1. ASSUME NEW ss \in Seq(Seq(S)), Len(ss) = n + 1
          PROVE  FlattenSeq(ss) \in Seq(S)
      <3> DEFINE front == SubSeq(ss, 1, n)
                 last  == ss[n + 1]
      <3>1. front \in Seq(Seq(S)) /\ Len(front) = n /\ last \in Seq(S)
            /\ ss = Append(front, last)
        BY <2>1
      <3>2. FlattenSeq(front) \in Seq(S)
        BY <1>2, <3>1
      <3> HIDE DEF front, last
      <3>3. FlattenSeq(ss) = FlattenSeq(front) \o last
        BY <3>1, FlattenAppend
      <3>4. QED
        BY <3>1, <3>2, <3>3
    <2>2. QED
      BY <2>1
  <1>3. Nat \subseteq T
    <2> HIDE DEF T
    <2> QED BY <1>1, <1>2, SetInduction
  <1>4. Len(seqs) \in Nat
    OBVIOUS
  <1>5. QED
    BY <1>3, <1>4

\* What the first sequences flatten to begins what all of them flatten to.
LEMMA FlattenPrefix ==
    ASSUME NEW S, NEW seqs \in Seq(Seq(S)), NEW j \in 0 .. Len(seqs)
    PROVE  \E rest \in Seq(S) :
                FlattenSeq(seqs) = FlattenSeq(SubSeq(seqs, 1, j)) \o rest
  <1> DEFINE First(k) == FlattenSeq(SubSeq(seqs, 1, k))
             Rest(k) == \E rest \in Seq(S) :
                            FlattenSeq(seqs) = First(k) \o rest
             n == Len(seqs)
             T == {d \in Nat : d <= n => Rest(n - d)}
  <1>1. n \in Nat
    OBVIOUS
  <1>2. \A k \in 0 .. n : SubSeq(seqs, 1, k) \in Seq(Seq(S))
    OBVIOUS
  <1>3. Rest(n)
    <2>1. First(n) = FlattenSeq(seqs) /\ FlattenSeq(seqs) \in Seq(S)
      BY WholeFront, FlattenType
    <2>2. FlattenSeq(seqs) = FlattenSeq(seqs) \o <<>> /\ <<>> \in Seq(S)
      BY <2>1, ConcatFacts, EmptySeq
    <2> HIDE DEF First, n
    <2>3. QED
      BY <2>1, <2>2
  <1>4. ASSUME NEW k \in Nat, k < n, Rest(k + 1) PROVE Rest(k)
    <2>1. PICK rest \in Seq(S) : FlattenSeq(seqs) = First(k + 1) \o rest
      BY <1>4
    <2>2. /\ SubSeq(seqs, 1, k) \in Seq(Seq(S))
          /\ seqs[k + 1] \in Seq(S)
          /\ SubSeq(seqs, 1, k + 1) = Append(SubSeq(seqs, 1, k), seqs[k + 1])
      BY <1>4, FrontStep
    <2>3. First(k + 1) = First(k) \o seqs[k + 1]
      BY <2>2, FlattenAppend
    <2>4. First(k) \in Seq(S)
      BY <2>2, FlattenType
    <2> HIDE DEF First, n
    <2>5. FlattenSeq(seqs) = (First(k) \o seqs[k + 1]) \o rest
      BY <2>1, <2>3
    <2>6. (First(k) \o seqs[k + 1]) \o rest = First(k) \o (seqs[k + 1] \o rest)
      <3>1. \A a, b, c \in Seq(S) : (a \o b) \o c = a \o (b \o c)
        BY ConcatAssociative, SMTT(30)
      <3>2. First(k) \in Seq(S) /\ seqs[k + 1] \in Seq(S) /\ rest \in Seq(S)
        BY <2>1, <2>2, <2>4
      <3>3. QED
        BY <3>1, <3>2, Zenon
    <2>7. seqs[k + 1] \o rest \in Seq(S)
      BY <2>1, <2>2, ConcatFacts
    <2>8. QED
      BY <2>5, <2>6, <2>7
  <1> HIDE DEF Rest
  <1>5. 0 \in T
    BY <1>1, <1>3
  <1>6. ASSUME NEW d \in Nat, d \in T PROVE d + 1 \in T
    <2>1. SUFFICES ASSUME d + 1 <= n PROVE Rest(n - (d + 1))
      OBVIOUS
    <2>2. Rest(n - d) /\ n - d = (n - (d + 1)) + 1
          /\ n - (d + 1) \in Nat /\ n - (d + 1) < n
      BY <1>1, <1>6, <2>1
    <2>3. QED
      BY <1>4, <2>2
  <1>7. Nat \subseteq T
    <2> HIDE DEF T
    <2> QED BY <1>5, <1>6, SetInduction
  <1>8. n - j \in Nat /\ n - j <= n /\ n - (n - j) = j
    BY <1>1
  <1>9. Rest(j)
    BY <1>7, <1>8
  <1>10. QED
    BY <1>9 DEF Rest

\* Where a sequence is in what it is flattened into.
LEMMA FlattenPiece ==
    ASSUME NEW S, NEW seqs \in Seq(Seq(S)), NEW k \in Nat, k < Len(seqs)
    PROVE  LET before == Len(FlattenSeq(SubSeq(seqs, 1, k)))
               behind == Len(FlattenSeq(SubSeq(seqs, 1, k + 1)))
           IN /\ before \in Nat /\ behind = before + Len(seqs[k + 1])
              /\ behind <= Len(FlattenSeq(seqs))
              /\ \A i \in 1 .. Len(seqs[k + 1]) :
                     FlattenSeq(seqs)[before + i] = seqs[k + 1][i]
  <1> DEFINE front == FlattenSeq(SubSeq(seqs, 1, k))
             more  == FlattenSeq(SubSeq(seqs, 1, k + 1))
             all   == FlattenSeq(seqs)
             piece == seqs[k + 1]
  <1>1. /\ SubSeq(seqs, 1, k) \in Seq(Seq(S)) /\ piece \in Seq(S)
        /\ SubSeq(seqs, 1, k + 1) = Append(SubSeq(seqs, 1, k), piece)
    BY FrontStep
  <1>2. more = front \o piece
    BY <1>1, FlattenAppend
  <1>3. front \in Seq(S)
    BY <1>1, FlattenType
  <1>4. PICK rest \in Seq(S) : all = more \o rest
    <2>1. k + 1 \in 0 .. Len(seqs)
      OBVIOUS
    <2>2. QED
      BY <2>1, FlattenPrefix
  <1> HIDE DEF front, more, all, piece
  <1>5. /\ front \o piece \in Seq(S)
        /\ Len(front \o piece) = Len(front) + Len(piece)
        /\ \A i \in 1 .. Len(piece) :
               (front \o piece)[Len(front) + i] = piece[i]
    BY <1>1, <1>3, TwoParts
  <1>6. more \in Seq(S)
    BY <1>2, <1>5
  <1>7. /\ Len(more \o rest) = Len(more) + Len(rest)
        /\ \A i \in 1 .. Len(more) : (more \o rest)[i] = more[i]
    BY <1>6, TwoParts
  <1>8. Len(front) \in Nat /\ Len(piece) \in Nat /\ Len(rest) \in Nat
    BY <1>1, <1>3
  <1>9. Len(more) = Len(front) + Len(piece)
    BY <1>2, <1>5
  <1>10. Len(more) <= Len(all)
    BY <1>4, <1>7, <1>8, <1>9
  <1>11. ASSUME NEW i \in 1 .. Len(piece)
         PROVE  all[Len(front) + i] = piece[i]
    <2>1. Len(front) + i \in 1 .. Len(more)
      BY <1>8, <1>9
    <2>2. all[Len(front) + i] = more[Len(front) + i]
      BY <1>4, <1>7, <2>1
    <2>3. more[Len(front) + i] = piece[i]
      BY <1>2, <1>5
    <2>4. QED
      BY <2>2, <2>3
  <1>12. QED
    BY <1>8, <1>9, <1>10, <1>11 DEF front, more, all, piece

\* What is flattened is no shorter than the number of its non-empty sequences.
LEMMA FlattenLength ==
    ASSUME NEW S, NEW seqs \in Seq(Seq(S)),
           \A i \in 1 .. Len(seqs) : Len(seqs[i]) >= 1
    PROVE  Len(seqs) <= Len(FlattenSeq(seqs))
  <1> DEFINE front(k) == FlattenSeq(SubSeq(seqs, 1, k))
             T == {k \in Nat : k <= Len(seqs) => k <= Len(front(k))}
  <1>1. Len(seqs) \in Nat
    OBVIOUS
  <1>2. 0 \in T
    <2>1. SubSeq(seqs, 1, 0) = <<>> /\ Len(<<>>) = 0
      OBVIOUS
    <2>2. QED
      BY <2>1, FlattenEmpty
  <1>3. ASSUME NEW k \in Nat, k \in T PROVE k + 1 \in T
    <2>1. SUFFICES ASSUME k + 1 <= Len(seqs) PROVE k + 1 <= Len(front(k + 1))
      OBVIOUS
    <2>2. k < Len(seqs) /\ k + 1 \in 1 .. Len(seqs) /\ k <= Len(front(k))
      BY <1>1, <1>3, <2>1
    <2>3. /\ Len(front(k)) \in Nat
          /\ Len(front(k + 1)) = Len(front(k)) + Len(seqs[k + 1])
      BY <2>2, FlattenPiece
    <2>4. Len(seqs[k + 1]) >= 1 /\ Len(seqs[k + 1]) \in Nat
      BY <2>2
    <2> HIDE DEF front
    <2>5. QED
      BY <2>2, <2>3, <2>4
  <1>4. Nat \subseteq T
    <2> HIDE DEF T
    <2> QED BY <1>2, <1>3, SetInduction
  <1>5. Len(seqs) <= Len(front(Len(seqs)))
    BY <1>1, <1>4
  <1>6. QED
    BY <1>5, WholeFront

=============================================================================
