-------------------------- MODULE SerialLink_proofs --------------------------
(***************************************************************************)
(* What SerialHandler and the SLIP decoder keep. With whatever noise, a    *)
(* frame that arrives whole is delivered as it was sent. Without noise,    *)
(* and unless two threads are inside the object at once, there is one      *)
(* write and the messages arrive once each and in order; as long as one    *)
(* thread sends, two never are. SerialLink_two_writes shows that the       *)
(* service thread, which sends through the same object, takes this away.   *)
(***************************************************************************)
EXTENDS SerialLink, SequenceInduction

-----------------------------------------------------------------------------
(* The framing                                                              *)

Bytes == 0 .. 255

\* how the encoding of the first j bytes of a message begins
Encoded(m, j) == Escaped(SubSeq(m, 1, j))

Frame(m) == createSlipEncodedMessage(m)

LEMMA SpecialBytes ==
    /\ END \in Bytes /\ ESC \in Bytes
    /\ ESCAPED_END \in Bytes /\ ESCAPED_ESC \in Bytes
    /\ END # ESC /\ END # ESCAPED_END /\ END # ESCAPED_ESC
    /\ ESC # ESCAPED_END /\ ESC # ESCAPED_ESC /\ ESCAPED_END # ESCAPED_ESC
  BY DEF Bytes, END, ESC, ESCAPED_END, ESCAPED_ESC

LEMMA EscapeFacts ==
    ASSUME NEW b \in Bytes
    PROVE  /\ Escape(b) \in Seq(Bytes)
           /\ b \notin {END, ESC} => Escape(b) = <<b>> /\ Len(Escape(b)) = 1
           /\ b = END => Escape(b) = <<ESC, ESCAPED_END>>
           /\ b = ESC => Escape(b) = <<ESC, ESCAPED_ESC>>
           /\ b \in {END, ESC} => Len(Escape(b)) = 2
  <1>1. b = END => Escape(b) = <<ESC, ESCAPED_END>>
    BY DEF Escape
  <1>2. b = ESC => Escape(b) = <<ESC, ESCAPED_ESC>>
    BY SpecialBytes DEF Escape
  <1>3. b \notin {END, ESC} => Escape(b) = <<b>>
    BY DEF Escape
  <1>4. \A x, y \in Bytes : <<x, y>> \in Seq(Bytes) /\ Len(<<x, y>>) = 2
    OBVIOUS
  <1>5. \A x \in Bytes : <<x>> \in Seq(Bytes) /\ Len(<<x>>) = 1
    OBVIOUS
  <1>6. b \in {END, ESC} => Escape(b) \in Seq(Bytes) /\ Len(Escape(b)) = 2
    BY <1>1, <1>2, <1>4, SpecialBytes
  <1>7. b \notin {END, ESC} => Escape(b) \in Seq(Bytes) /\ Len(Escape(b)) = 1
    BY <1>3, <1>5
  <1>8. QED
    BY <1>1, <1>2, <1>3, <1>6, <1>7

\* the sequences that Escaped flattens
Pieces(m) == [i \in DOMAIN m |-> Escape(m[i])]

LEMMA PiecesFacts ==
    ASSUME NEW m \in Seq(Bytes)
    PROVE  /\ Pieces(m) \in Seq(Seq(Bytes)) /\ Len(Pieces(m)) = Len(m)
           /\ Escaped(m) = FlattenSeq(Pieces(m))
           /\ \A j \in 0 .. Len(m) :
                Pieces(SubSeq(m, 1, j)) = SubSeq(Pieces(m), 1, j)
  <1>1. \A i \in 1 .. Len(m) : Escape(m[i]) \in Seq(Bytes)
    BY EscapeFacts
  <1>2. DOMAIN m = 1 .. Len(m) /\ Len(m) \in Nat
    OBVIOUS
  <1>3. Pieces(m) \in Seq(Seq(Bytes)) /\ Len(Pieces(m)) = Len(m)
    BY <1>1, <1>2 DEF Pieces
  <1>4. ASSUME NEW j \in 0 .. Len(m)
        PROVE  Pieces(SubSeq(m, 1, j)) = SubSeq(Pieces(m), 1, j)
    <2>1. /\ DOMAIN SubSeq(m, 1, j) = 1 .. j
          /\ \A i \in 1 .. j : SubSeq(m, 1, j)[i] = m[i]
      OBVIOUS
    <2>2. Pieces(SubSeq(m, 1, j)) = [i \in 1 .. j |-> Escape(m[i])]
      BY <2>1 DEF Pieces
    <2>3. SubSeq(Pieces(m), 1, j) = [i \in 1 .. j |-> Pieces(m)[i]]
      BY <1>3
    <2>4. \A i \in 1 .. j : Pieces(m)[i] = Escape(m[i])
      BY <1>2 DEF Pieces
    <2>5. QED
      BY <2>2, <2>3, <2>4
  <1>5. QED
    BY <1>3, <1>4 DEF Escaped, Pieces

LEMMA EncodedFacts ==
    ASSUME NEW m \in Seq(Bytes), NEW j \in 0 .. Len(m)
    PROVE  /\ Encoded(m, j) \in Seq(Bytes)
           /\ \E rest \in Seq(Bytes) : Escaped(m) = Encoded(m, j) \o rest
  <1>1. /\ Pieces(m) \in Seq(Seq(Bytes)) /\ Len(Pieces(m)) = Len(m)
        /\ Escaped(m) = FlattenSeq(Pieces(m))
    BY PiecesFacts
  <1>2. SubSeq(m, 1, j) \in Seq(Bytes)
    OBVIOUS
  <1>3. Pieces(SubSeq(m, 1, j)) = SubSeq(Pieces(m), 1, j)
    BY PiecesFacts
  <1>4. /\ Pieces(SubSeq(m, 1, j)) \in Seq(Seq(Bytes))
        /\ Encoded(m, j) = FlattenSeq(Pieces(SubSeq(m, 1, j)))
    BY <1>2, PiecesFacts DEF Encoded
  <1>5. Encoded(m, j) \in Seq(Bytes)
    BY <1>4, FlattenType
  <1>6. \E rest \in Seq(Bytes) : FlattenSeq(Pieces(m)) =
            FlattenSeq(SubSeq(Pieces(m), 1, j)) \o rest
    BY <1>1, FlattenPrefix
  <1>7. QED
    BY <1>1, <1>3, <1>4, <1>5, <1>6

LEMMA EncodedEnds ==
    ASSUME NEW m \in Seq(Bytes)
    PROVE  Encoded(m, 0) = <<>> /\ Encoded(m, Len(m)) = Escaped(m)
  <1>1. SubSeq(m, 1, 0) = <<>> /\ SubSeq(m, 1, Len(m)) = m
    BY WholeFront
  <1>2. Escaped(<<>>) = <<>>
    <2>1. [i \in DOMAIN <<>> |-> Escape(<<>>[i])] = <<>>
      OBVIOUS
    <2>2. QED
      BY <2>1, FlattenEmpty DEF Escaped
  <1>3. QED
    BY <1>1, <1>2 DEF Encoded

LEMMA EncodedStep ==
    ASSUME NEW m \in Seq(Bytes), NEW j \in 0 .. Len(m) - 1
    PROVE  Encoded(m, j + 1) = Encoded(m, j) \o Escape(m[j + 1])
  <1>1. /\ Pieces(m) \in Seq(Seq(Bytes)) /\ Len(Pieces(m)) = Len(m)
        /\ \A k \in 0 .. Len(m) :
                Pieces(SubSeq(m, 1, k)) = SubSeq(Pieces(m), 1, k)
    BY PiecesFacts
  <1>2. j \in Nat /\ j < Len(m) /\ j + 1 \in 0 .. Len(m) /\ j \in 0 .. Len(m)
    OBVIOUS
  <1>3. /\ SubSeq(Pieces(m), 1, j) \in Seq(Seq(Bytes))
        /\ Pieces(m)[j + 1] \in Seq(Bytes)
        /\ SubSeq(Pieces(m), 1, j + 1)
                = Append(SubSeq(Pieces(m), 1, j), Pieces(m)[j + 1])
    BY <1>1, <1>2, FrontStep
  <1>4. Pieces(m)[j + 1] = Escape(m[j + 1])
    BY <1>2 DEF Pieces
  <1>5. \A k \in 0 .. Len(m) : Encoded(m, k) = FlattenSeq(SubSeq(Pieces(m), 1, k))
    <2>1. \A k \in 0 .. Len(m) : SubSeq(m, 1, k) \in Seq(Bytes)
      OBVIOUS
    <2>2. QED
      BY <1>1, <2>1, PiecesFacts DEF Encoded
  <1>6. FlattenSeq(SubSeq(Pieces(m), 1, j + 1))
            = FlattenSeq(SubSeq(Pieces(m), 1, j)) \o Pieces(m)[j + 1]
    BY <1>3, FlattenAppend
  <1>7. QED
    BY <1>2, <1>4, <1>5, <1>6

LEMMA TagsAssociative ==
    \A a, b, c \in Seq(Tags) : (a \o b) \o c = a \o (b \o c)
  BY ConcatAssociative

\* What stands where in a concatenation.
LEMMA ConcatElements ==
    ASSUME NEW S, NEW a \in Seq(S), NEW b \in Seq(S)
    PROVE  /\ \A k \in 1 .. Len(a) : (a \o b)[k] = a[k]
           /\ \A k \in 1 .. Len(b) : (a \o b)[Len(a) + k] = b[k]
  OBVIOUS

\* A frame is its message, escaped, between two delimiters.
LEMMA FrameFacts ==
    ASSUME NEW m \in Seq(Bytes)
    PROVE  /\ Escaped(m) \in Seq(Bytes)
           /\ Frame(m) \in Seq(Bytes) /\ Len(Frame(m)) = Len(Escaped(m)) + 2
           /\ Frame(m)[1] = END /\ Frame(m)[Len(Frame(m))] = END
           /\ \A x \in 1 .. Len(Escaped(m)) : Frame(m)[1 + x] = Escaped(m)[x]
  <1> DEFINE e == Escaped(m)
             front == <<END>> \o e
  <1>1. e \in Seq(Bytes)
    <2>1. Len(m) \in 0 .. Len(m)
      OBVIOUS
    <2>2. QED
      BY <2>1, EncodedFacts, EncodedEnds
  <1>2. <<END>> \in Seq(Bytes) /\ Len(<<END>>) = 1 /\ <<END>>[1] = END
    <2>1. \A x \in Bytes : <<x>> \in Seq(Bytes) /\ Len(<<x>>) = 1 /\ <<x>>[1] = x
      OBVIOUS
    <2>2. QED
      BY <2>1, SpecialBytes
  <1>3. Frame(m) = front \o <<END>>
    BY DEF Frame, createSlipEncodedMessage
  <1> HIDE DEF e
  <1>4. front \in Seq(Bytes) /\ Len(front) = 1 + Len(e)
    BY <1>1, <1>2, ConcatFacts
  <1>5. front[1] = END /\ \A x \in 1 .. Len(e) : front[1 + x] = e[x]
    <2>1. \A a, b \in Seq(Bytes) :
            /\ \A k \in 1 .. Len(a) : (a \o b)[k] = a[k]
            /\ \A k \in 1 .. Len(b) : (a \o b)[Len(a) + k] = b[k]
      BY ConcatElements
    <2>2. /\ \A k \in 1 .. 1 : front[k] = <<END>>[k]
          /\ \A k \in 1 .. Len(e) : front[1 + k] = e[k]
      BY <1>1, <1>2, <2>1
    <2>3. QED
      BY <1>2, <2>2
  <1> HIDE DEF front
  <1>6. Frame(m) \in Seq(Bytes) /\ Len(Frame(m)) = Len(e) + 2
    BY <1>1, <1>2, <1>3, <1>4, ConcatFacts
  <1>7. /\ \A k \in 1 .. Len(front) : Frame(m)[k] = front[k]
        /\ Frame(m)[Len(front) + 1] = END
    BY <1>2, <1>3, <1>4, ConcatElements
  <1>8. Len(e) \in Nat
    BY <1>1
  <1>9. QED
    BY <1>1, <1>4, <1>5, <1>6, <1>7, <1>8 DEF e

\* Where the bytes of the next element of the message are in the frame.
LEMMA FramePiece ==
    ASSUME NEW m \in Seq(Bytes), NEW j \in 0 .. Len(m) - 1,
           NEW x \in 1 .. Len(Escape(m[j + 1]))
    PROVE  /\ 1 + Len(Encoded(m, j)) + x < Len(Frame(m))
           /\ Frame(m)[1 + Len(Encoded(m, j)) + x] = Escape(m[j + 1])[x]
  <1> DEFINE a == Encoded(m, j)
             b == Escape(m[j + 1])
             c == Encoded(m, j + 1)
  <1>1. j \in 0 .. Len(m) /\ j + 1 \in 0 .. Len(m) /\ m[j + 1] \in Bytes
    OBVIOUS
  <1>2. a \in Seq(Bytes) /\ b \in Seq(Bytes) /\ c \in Seq(Bytes)
    BY <1>1, EncodedFacts, EscapeFacts
  <1>3. c = a \o b
    BY EncodedStep
  <1>4. PICK rest \in Seq(Bytes) : Escaped(m) = c \o rest
    BY <1>1, EncodedFacts
  <1>5. Len(a) \in Nat /\ Len(b) \in Nat /\ Len(rest) \in Nat /\ x \in 1 .. Len(b)
    BY <1>2
  <1> HIDE DEF a, b, c
  <1>6. Len(c) = Len(a) + Len(b) /\ c[Len(a) + x] = b[x]
    BY <1>2, <1>3, <1>5, ConcatFacts, ConcatElements, SMTT(30)
  <1>7. Len(a) + x \in 1 .. Len(c)
    BY <1>5, <1>6
  <1>8. /\ Len(Escaped(m)) = Len(c) + Len(rest)
        /\ Escaped(m)[Len(a) + x] = c[Len(a) + x]
    BY <1>2, <1>4, <1>7, ConcatFacts, ConcatElements
  <1>9. Len(a) + x \in 1 .. Len(Escaped(m))
    BY <1>5, <1>7, <1>8
  <1>10. Frame(m)[1 + (Len(a) + x)] = Escaped(m)[Len(a) + x]
    BY <1>9, FrameFacts
  <1>11. Len(Frame(m)) = Len(Escaped(m)) + 2
    BY FrameFacts
  <1>12. 1 + (Len(a) + x) = 1 + Len(a) + x /\ 1 + Len(a) + x < Len(Frame(m))
    BY <1>5, <1>9, <1>11
  <1>13. QED
    BY <1>6, <1>8, <1>10, <1>12 DEF a, b

-----------------------------------------------------------------------------
(* The decoder                                                              *)

Rx == [escaped : BOOLEAN, data : Seq(Bytes)]

\* What a decoder that read the first k bytes of the frame of m, and had not
\* come to its end, has kept: the elements of m so far, or these and the first
\* half of an escape.
Progress(m, k, r) ==
    \E j \in 0 .. Len(m) :
        /\ r.data = SubSeq(m, 1, j)
        /\ \/ ~r.escaped /\ k = 1 + Len(Encoded(m, j))
           \/ /\ r.escaped /\ j < Len(m) /\ m[j + 1] \in {END, ESC}
              /\ k = 2 + Len(Encoded(m, j))

\* What the cases of slip_read_byte come to.
LEMMA DecoderSteps ==
    ASSUME NEW r \in Rx, NEW byte \in Bytes
    PROVE  /\ byte = END => slip_read_byte(r, byte) = reset_rx
           /\ ~r.escaped /\ byte = ESC
                => slip_read_byte(r, byte) = [r EXCEPT !.escaped = TRUE]
           /\ ~r.escaped /\ byte \notin {END, ESC}
                => slip_read_byte(r, byte) = put_byte_to_buffer(r, byte)
           /\ r.escaped /\ byte = ESCAPED_END
                => slip_read_byte(r, byte) = put_byte_to_buffer(r, END)
           /\ r.escaped /\ byte = ESCAPED_ESC
                => slip_read_byte(r, byte) = put_byte_to_buffer(r, ESC)
           /\ r.escaped /\ byte \notin {ESCAPED_END, ESCAPED_ESC}
                => slip_read_byte(r, byte) = reset_rx
  <1>1. r.escaped \in BOOLEAN
    BY DEF Rx
  <1>2. CASE r.escaped
    BY <1>2, SpecialBytes DEF slip_read_byte
  <1>3. CASE ~r.escaped
    BY <1>3, SpecialBytes DEF slip_read_byte
  <1>4. QED
    BY <1>1, <1>2, <1>3

\* A delimiter begins a frame, whatever came before it.
LEMMA FrameBegins ==
    ASSUME NEW m \in Seq(Bytes)
    PROVE  Progress(m, 1, reset_rx)
  <1>1. SubSeq(m, 1, 0) = <<>> /\ Encoded(m, 0) = <<>> /\ 0 \in 0 .. Len(m)
    BY WholeFront, EncodedEnds
  <1>2. Len(<<>>) = 0
    OBVIOUS
  <1>3. QED
    BY <1>1, <1>2 DEF Progress, reset_rx

\* The next element of the message, put into the buffer.
LEMMA PutNext ==
    ASSUME NEW m \in Seq(Bytes), Len(m) <= BufSize, NEW r \in Rx,
           NEW j \in 0 .. Len(m) - 1, r.data = SubSeq(m, 1, j), NEW k,
           k = 1 + Len(Encoded(m, j)) + Len(Escape(m[j + 1]))
    PROVE  Progress(m, k, put_byte_to_buffer(r, m[j + 1]))
  <1> DEFINE put == put_byte_to_buffer(r, m[j + 1])
  <1>1. j \in Nat /\ j < Len(m) /\ j + 1 \in 0 .. Len(m) /\ j \in 0 .. Len(m)
        /\ m[j + 1] \in Bytes
    OBVIOUS
  <1>2. /\ Len(r.data) = j
        /\ Append(r.data, m[j + 1]) = SubSeq(m, 1, j + 1)
    BY <1>1, FrontStep
  <1>3. ~(Len(r.data) >= BufSize)
    BY <1>1, <1>2, BufSizeAssumption
  <1>4. put.data = SubSeq(m, 1, j + 1) /\ ~put.escaped
    BY <1>2, <1>3 DEF put_byte_to_buffer
  <1>5. Len(Encoded(m, j + 1)) = Len(Encoded(m, j)) + Len(Escape(m[j + 1]))
    BY <1>1, EncodedStep, EncodedFacts, EscapeFacts, ConcatFacts
  <1>6. Len(Encoded(m, j)) \in Nat /\ Len(Escape(m[j + 1])) \in Nat
    BY <1>1, EncodedFacts, EscapeFacts
  <1> HIDE DEF put
  <1>7. k = 1 + Len(Encoded(m, j + 1))
    BY <1>5, <1>6
  <1>8. QED
    BY <1>1, <1>4, <1>7 DEF Progress, put

\* Reading the frame on, byte by byte: its last byte delivers the message, the
\* others deliver nothing.
LEMMA ReadsOn ==
    ASSUME NEW m \in Seq(Bytes), Len(m) \in 2 .. BufSize,
           NEW r \in Rx, NEW k \in Nat, Progress(m, k, r), k < Len(Frame(m))
    PROVE  LET byte == Frame(m)[k + 1] IN
           IF k + 1 = Len(Frame(m))
           THEN Delivers(r, byte) = {m}
           ELSE /\ Delivers(r, byte) = {}
                /\ Progress(m, k + 1, slip_read_byte(r, byte))
  <1> DEFINE byte == Frame(m)[k + 1]
             last == Len(Frame(m))
  <1>1. PICK j \in 0 .. Len(m) :
            /\ r.data = SubSeq(m, 1, j)
            /\ \/ ~r.escaped /\ k = 1 + Len(Encoded(m, j))
               \/ /\ r.escaped /\ j < Len(m) /\ m[j + 1] \in {END, ESC}
                  /\ k = 2 + Len(Encoded(m, j))
    BY DEF Progress
  <1>2. Len(m) <= BufSize /\ Len(m) >= 2 /\ Len(m) \in Nat
    BY BufSizeAssumption
  <1>3. Len(Encoded(m, j)) \in Nat /\ last \in Nat
    BY EncodedFacts, FrameFacts
  <1>4. CASE j = Len(m)
    <2>1. Encoded(m, j) = Escaped(m) /\ last = Len(Escaped(m)) + 2
          /\ Frame(m)[last] = END /\ r.data = m
      BY <1>1, <1>4, EncodedEnds, FrameFacts, WholeFront
    <2>2. ~r.escaped /\ k = 1 + Len(Encoded(m, j))
      BY <1>1, <1>2, <1>4
    <2>3. k + 1 = last
      BY <1>3, <2>1, <2>2
    <2>4. Delivers(r, byte) = {m}
      BY <1>2, <2>1, <2>2, <2>3 DEF Delivers
    <2>5. QED
      BY <2>3, <2>4
  <1>5. CASE j < Len(m)
    <2> DEFINE a == Len(Encoded(m, j))
               esc == Escape(m[j + 1])
    <2>1. j \in 0 .. Len(m) - 1 /\ m[j + 1] \in Bytes
      BY <1>2, <1>5
    <2>2. \A x \in 1 .. Len(esc) : 1 + a + x < last /\ Frame(m)[1 + a + x] = esc[x]
      BY <2>1, FramePiece
    <2>3. CASE m[j + 1] \notin {END, ESC}
      <3>1. esc = <<m[j + 1]>> /\ Len(esc) = 1
        BY <2>1, <2>3, EscapeFacts
      <3>2. ~r.escaped /\ k = 1 + a
        BY <1>1, <2>3
      <3>3. 1 + a + 1 < last /\ Frame(m)[1 + a + 1] = m[j + 1]
        BY <2>2, <3>1
      <3>4. k + 1 < last /\ byte = m[j + 1]
        BY <3>2, <3>3
      <3>5. slip_read_byte(r, byte) = put_byte_to_buffer(r, m[j + 1])
        BY <2>1, <2>3, <3>2, <3>4, DecoderSteps
      <3>6. Progress(m, k + 1, put_byte_to_buffer(r, m[j + 1]))
        BY <1>1, <1>2, <1>3, <2>1, <3>1, <3>2, PutNext
      <3>7. Delivers(r, byte) = {}
        BY <2>3, <3>4 DEF Delivers
      <3>8. QED
        BY <1>3, <3>4, <3>5, <3>6, <3>7
    <2>4. CASE m[j + 1] \in {END, ESC}
      <3>1. /\ Len(esc) = 2 /\ esc[1] = ESC
            /\ esc[2] = IF m[j + 1] = END THEN ESCAPED_END ELSE ESCAPED_ESC
        BY <2>1, <2>4, EscapeFacts, SpecialBytes, SMTT(30)
      <3>2. /\ 1 + a + 2 < last
            /\ Frame(m)[1 + a + 1] = esc[1] /\ Frame(m)[1 + a + 2] = esc[2]
        BY <2>2, <3>1
      <3>3. CASE ~r.escaped
        <4>1. k = 1 + a
          BY <1>1, <3>3
        <4>2. k + 1 < last /\ byte = ESC
          BY <1>3, <3>1, <3>2, <4>1
        <4>3. slip_read_byte(r, byte) = [r EXCEPT !.escaped = TRUE]
          BY <3>3, <4>2, DecoderSteps, SpecialBytes
        <4>4. /\ slip_read_byte(r, byte).data = SubSeq(m, 1, j)
              /\ slip_read_byte(r, byte).escaped
          BY <1>1, <4>3 DEF Rx
        <4>5. k + 1 = 2 + a
          BY <1>3, <4>1
        <4>6. Progress(m, k + 1, slip_read_byte(r, byte))
          BY <1>5, <2>4, <4>4, <4>5 DEF Progress
        <4>7. Delivers(r, byte) = {}
          BY <4>2, SpecialBytes DEF Delivers
        <4>8. QED
          BY <1>3, <4>2, <4>6, <4>7
      <3>4. CASE r.escaped
        <4>1. k = 2 + a
          BY <1>1, <3>4
        <4>2. k + 1 < last /\ byte = esc[2]
          BY <1>3, <3>2, <4>1
        <4>3. slip_read_byte(r, byte) = put_byte_to_buffer(r, m[j + 1])
          BY <2>4, <3>1, <3>4, <4>2, DecoderSteps, SpecialBytes
        <4>4. k + 1 = 1 + a + Len(esc)
          BY <1>3, <3>1, <4>1
        <4>5. Progress(m, k + 1, put_byte_to_buffer(r, m[j + 1]))
          BY <1>1, <1>2, <2>1, <4>4, PutNext
        <4>6. Delivers(r, byte) = {}
          BY <3>4 DEF Delivers
        <4>7. QED
          BY <1>3, <4>2, <4>3, <4>5, <4>6
      <3>5. QED
        BY <3>3, <3>4
    <2>5. QED
      BY <2>3, <2>4
  <1>6. QED
    BY <1>2, <1>4, <1>5

-----------------------------------------------------------------------------
(* Types                                                                    *)

\* What the operations on a queue keep.
LEMMA QueueFacts ==
    ASSUME NEW S, NEW s \in Seq(S)
    PROVE  /\ \A e \in S : Append(s, e) \in Seq(S) /\ Len(Append(s, e)) = Len(s) + 1
           /\ s # <<>> => /\ Head(s) \in S /\ Head(s) = s[1] /\ Len(s) \in Nat \ {0}
                          /\ Tail(s) \in Seq(S) /\ Len(Tail(s)) = Len(s) - 1
           /\ \A n \in 0 .. Len(s) :
                /\ SubSeq(s, 1, n) \in Seq(S) /\ Len(SubSeq(s, 1, n)) = n
                /\ SubSeq(s, n + 1, Len(s)) \in Seq(S)
                /\ Len(SubSeq(s, n + 1, Len(s))) = Len(s) - n
  OBVIOUS

\* Removing an element of a sequence leaves a sequence.
LEMMA RemoveFacts ==
    ASSUME NEW S, NEW s \in Seq(S), NEW i \in DOMAIN s
    PROVE  RemoveAt(s, i) \in Seq(S)
  <1>1. i \in 1 .. Len(s) /\ Len(s) \in Nat
    OBVIOUS
  <1>2. /\ SubSeq(s, 1, i - 1) \in Seq(S) /\ SubSeq(s, i + 1, Len(s)) \in Seq(S)
    BY <1>1
  <1>3. QED
    BY <1>2, ConcatFacts DEF RemoveAt

\* What is left after a removal was there before.
LEMMA RemoveElements ==
    ASSUME NEW S, NEW s \in Seq(S), NEW i \in DOMAIN s
    PROVE  \A k \in DOMAIN RemoveAt(s, i) : \E n \in DOMAIN s : RemoveAt(s, i)[k] = s[n]
  <1> DEFINE a == SubSeq(s, 1, i - 1)
             b == SubSeq(s, i + 1, Len(s))
  <1>1. i \in 1 .. Len(s) /\ Len(s) \in Nat /\ DOMAIN s = 1 .. Len(s)
    OBVIOUS
  <1>2. /\ a \in Seq(S) /\ Len(a) = i - 1
        /\ \A k \in 1 .. i - 1 : a[k] = s[k] /\ k \in 1 .. Len(s)
    BY <1>1
  <1>3. /\ b \in Seq(S) /\ Len(b) = Len(s) - i
        /\ \A k \in 1 .. Len(s) - i : b[k] = s[i + k] /\ i + k \in 1 .. Len(s)
    BY <1>1
  <1>4. RemoveAt(s, i) = a \o b
    BY DEF RemoveAt
  <1> HIDE DEF a, b
  <1>5. /\ a \o b \in Seq(S) /\ Len(a \o b) = Len(a) + Len(b)
        /\ \A k \in 1 .. Len(a) : (a \o b)[k] = a[k]
        /\ \A k \in 1 .. Len(b) : (a \o b)[Len(a) + k] = b[k]
    <2>1. a \o b \in Seq(S) /\ Len(a \o b) = Len(a) + Len(b)
      BY <1>2, <1>3, ConcatFacts
    <2>2. /\ \A k \in 1 .. Len(a) : (a \o b)[k] = a[k]
          /\ \A k \in 1 .. Len(b) : (a \o b)[Len(a) + k] = b[k]
      <3>1. \A x, y \in Seq(S) : /\ \A k \in 1 .. Len(x) : (x \o y)[k] = x[k]
                                 /\ \A k \in 1 .. Len(y) : (x \o y)[Len(x) + k] = y[k]
        BY ConcatElements
      <3>2. QED
        BY <1>2, <1>3, <3>1, Zenon
    <2>3. QED
      BY <2>1, <2>2
  <1>6. ASSUME NEW k \in DOMAIN (a \o b) PROVE \E n \in 1 .. Len(s) : (a \o b)[k] = s[n]
    <2>1. k \in 1 .. Len(a) + Len(b)
      BY <1>5
    <2>2. CASE k \in 1 .. Len(a)
      BY <1>2, <1>5, <2>2
    <2>3. CASE k \notin 1 .. Len(a)
      <3>1. k - Len(a) \in 1 .. Len(b) /\ Len(a) + (k - Len(a)) = k
        BY <1>1, <1>2, <1>3, <2>1, <2>3, SMTT(30)
      <3>2. (a \o b)[k] = b[k - Len(a)]
        BY <1>5, <3>1
      <3>3. QED
        BY <1>3, <3>1, <3>2
    <2>4. QED
      BY <2>2, <2>3
  <1>7. QED
    BY <1>1, <1>4, <1>6

\* A message is a sequence of bytes, long enough for the decoder and not too
\* long for its buffer.
LEMMA PayloadFacts ==
    ASSUME NEW m \in Payloads
    PROVE  /\ m \in Seq(Bytes) /\ Len(m) \in 2 .. BufSize
           /\ Frame(m) \in Seq(Bytes) /\ Len(Frame(m)) \in Nat
           /\ Len(Frame(m)) >= 2
  <1>1. m \in Seq(Bytes) /\ Len(m) \in 2 .. BufSize
    BY PayloadsAssumption DEF Bytes
  <1>2. Frame(m) \in Seq(Bytes) /\ Len(Frame(m)) = Len(Escaped(m)) + 2
        /\ Len(Escaped(m)) \in Nat
    BY <1>1, FrameFacts
  <1>3. QED
    BY <1>1, <1>2

\* What a message sent is made of.
LEMMA TaggedFacts ==
    ASSUME NEW m \in Payloads, NEW f \in 0 .. MaxFrames
    PROVE  /\ Tagged(f, Frame(m)) \in Seq(Tags)
           /\ Len(Tagged(f, Frame(m))) = Len(Frame(m))
           /\ \A k \in 1 .. Len(Frame(m)) : Tagged(f, Frame(m))[k] =
                    [byte |-> Frame(m)[k], frame |-> f, at |-> k]
  <1>1. Frame(m) \in Seq(Bytes) /\ Len(Frame(m)) \in Nat
    BY PayloadFacts
  <1>2. \A k \in 1 .. Len(Frame(m)) :
            [byte |-> Frame(m)[k], frame |-> f, at |-> k] \in Tags
    <2>1. \A b \in Bytes, k \in Nat : [byte |-> b, frame |-> f, at |-> k] \in Tags
      BY DEF Tags, Bytes
    <2>2. \A k \in 1 .. Len(Frame(m)) : Frame(m)[k] \in Bytes /\ k \in Nat
      BY <1>1
    <2>3. QED
      BY <2>1, <2>2
  <1>3. QED
    BY <1>1, <1>2 DEF Tagged

\* What is handed to the port is a front of the buffer.
LEMMA RegionFacts ==
    ASSUME writeBuffer \in Seq(Tags), head \in 0 .. TxSize - 1
    PROVE  /\ Region \in Seq(Tags) /\ Len(Region) \in 0 .. Len(writeBuffer)
           /\ Region = SubSeq(writeBuffer, 1, Len(Region))
  <1>1. Len(writeBuffer) \in Nat /\ TxSize - head \in Nat
    BY BoundsAssumption
  <1>2. CASE Len(writeBuffer) <= TxSize - head
    <2>1. Region = writeBuffer
      BY <1>2 DEF Region
    <2>2. writeBuffer = SubSeq(writeBuffer, 1, Len(writeBuffer))
      OBVIOUS
    <2>3. QED
      BY <1>1, <2>1, <2>2
  <1>3. CASE ~(Len(writeBuffer) <= TxSize - head)
    <2>1. Region = SubSeq(writeBuffer, 1, TxSize - head)
      BY <1>3 DEF Region
    <2>2. TxSize - head \in 0 .. Len(writeBuffer)
      BY <1>1, <1>3
    <2>3. Region \in Seq(Tags) /\ Len(Region) = TxSize - head
      BY <2>1, <2>2, QueueFacts
    <2>4. QED
      BY <2>1, <2>2, <2>3
  <1>4. QED
    BY <1>2, <1>3

LEMMA Unfilled ==
    ASSUME NEW r \in Rx, Len(r.data) <= BufSize, NEW byte \in Bytes
    PROVE  /\ put_byte_to_buffer(r, byte) \in Rx
           /\ Len(put_byte_to_buffer(r, byte).data) <= BufSize
  <1>1. r.data \in Seq(Bytes) /\ Len(r.data) \in Nat
    BY DEF Rx
  <1>2. reset_rx \in Rx /\ Len(reset_rx.data) <= BufSize
    <2>1. <<>> \in Seq(Bytes) /\ Len(<<>>) = 0
      OBVIOUS
    <2>2. QED
      BY <2>1, BufSizeAssumption DEF reset_rx, Rx
  <1>3. CASE ~(Len(r.data) >= BufSize)
    <2>1. /\ Append(r.data, byte) \in Seq(Bytes)
          /\ Len(Append(r.data, byte)) = Len(r.data) + 1
      BY <1>1
    <2>2. Len(Append(r.data, byte)) <= BufSize
      BY <1>1, <1>3, <2>1, BufSizeAssumption
    <2>3. put_byte_to_buffer(r, byte) = [escaped |-> FALSE, data |-> Append(r.data, byte)]
      BY <1>3 DEF put_byte_to_buffer
    <2>4. QED
      BY <2>1, <2>2, <2>3 DEF Rx
  <1>4. QED
    BY <1>2, <1>3 DEF put_byte_to_buffer

\* The decoder's buffer is never exceeded.
LEMMA DecoderType ==
    ASSUME NEW r \in Rx, Len(r.data) <= BufSize, NEW byte \in Bytes
    PROVE  /\ slip_read_byte(r, byte) \in Rx
           /\ Len(slip_read_byte(r, byte).data) <= BufSize
  <1>1. reset_rx \in Rx /\ Len(reset_rx.data) <= BufSize
    <2>1. <<>> \in Seq(Bytes) /\ Len(<<>>) = 0
      OBVIOUS
    <2>2. QED
      BY <2>1, BufSizeAssumption DEF reset_rx, Rx
  <1>2. /\ [r EXCEPT !.escaped = TRUE] \in Rx
        /\ [r EXCEPT !.escaped = TRUE].data = r.data
    BY DEF Rx
  <1>3. /\ put_byte_to_buffer(r, byte) \in Rx
        /\ Len(put_byte_to_buffer(r, byte).data) <= BufSize
    BY Unfilled
  <1>4. \A b \in {END, ESC} : /\ put_byte_to_buffer(r, b) \in Rx
                              /\ Len(put_byte_to_buffer(r, b).data) <= BufSize
    BY Unfilled, SpecialBytes
  <1>5. r.escaped \in BOOLEAN
    BY DEF Rx
  <1>6. \E next \in {reset_rx, [r EXCEPT !.escaped = TRUE],
                     put_byte_to_buffer(r, byte), put_byte_to_buffer(r, END),
                     put_byte_to_buffer(r, ESC)} : slip_read_byte(r, byte) = next
    <2>1. CASE r.escaped
      BY <2>1, DecoderSteps
    <2>2. CASE ~r.escaped
      BY <2>2, DecoderSteps
    <2>3. QED
      BY <1>5, <2>1, <2>2
  <1>7. QED
    BY <1>1, <1>2, <1>3, <1>4, <1>6

LEMMA AppendKeeps ==
    ASSUME NEW S, NEW s \in Seq(S), NEW e, NEW k \in DOMAIN s
    PROVE  k \in DOMAIN Append(s, e) /\ Append(s, e)[k] = s[k]
  OBVIOUS

\* Marking a frame as cut changes neither its message nor the others.
LEMMA CutFrame ==
    ASSUME NEW fr \in Seq([message : Payloads, cut : BOOLEAN]), NEW f
    PROVE  LET marked == [fr EXCEPT ![f].cut = TRUE] IN
           /\ marked \in Seq([message : Payloads, cut : BOOLEAN])
           /\ Len(marked) = Len(fr) /\ DOMAIN marked = DOMAIN fr
           /\ \A g \in DOMAIN fr : marked[g].message = fr[g].message
           /\ f \in DOMAIN fr => marked[f].cut
           /\ \A g \in DOMAIN fr : fr[g].cut => marked[g].cut
  <1> DEFINE Records == [message : Payloads, cut : BOOLEAN]
             marked == [fr EXCEPT ![f].cut = TRUE]
             At(g) == IF g = f THEN [fr[f] EXCEPT !.cut = TRUE] ELSE fr[g]
  <1>1. Len(fr) \in Nat /\ DOMAIN fr = 1 .. Len(fr) /\ fr \in Seq(Records)
    OBVIOUS
  <1>2. \A r \in Records : /\ [r EXCEPT !.cut = TRUE] \in Records
                           /\ [r EXCEPT !.cut = TRUE].message = r.message
                           /\ [r EXCEPT !.cut = TRUE].cut
    OBVIOUS
  <1>3. \A g \in 1 .. Len(fr) : fr[g] \in Records
    <2> HIDE DEF Records
    <2>1. QED
      BY <1>1
  <1>4. marked = [g \in DOMAIN fr |-> At(g)]
    OBVIOUS
  <1>5. \A g \in 1 .. Len(fr) : /\ At(g) \in Records
                                /\ At(g).message = fr[g].message
                                /\ g = f => At(g).cut
                                /\ fr[g].cut => At(g).cut
    <2> HIDE DEF Records
    <2>1. QED
      BY <1>2, <1>3
  <1> HIDE DEF Records, At
  <1>6. marked = [g \in 1 .. Len(fr) |-> At(g)]
    BY <1>1, <1>4
  <1> HIDE DEF marked
  <1>7. marked \in Seq(Records) /\ Len(marked) = Len(fr) /\ DOMAIN marked = DOMAIN fr
    BY <1>1, <1>5, <1>6
  <1>8. \A g \in 1 .. Len(fr) : marked[g] = At(g)
    BY <1>6
  <1>9. QED
    BY <1>1, <1>5, <1>7, <1>8 DEF marked, Records

LEMMA TypeInit == Init => TypeOK
  <1> SUFFICES ASSUME Init PROVE TypeOK
    OBVIOUS
  <1>1. /\ writeBuffer = <<>> /\ writes = <<>> /\ frames = <<>> /\ line = <<>>
        /\ todo = [t \in Threads |-> <<>>] /\ pc = [t \in Threads |-> "idle"]
        /\ state = "OPERATIONAL" /\ writeInProgress = FALSE
        /\ overlapped = FALSE /\ rx = reset_rx /\ track = NoPlace
        /\ noise = 0 /\ errors = 0 /\ head = 0
    BY DEF Init
  <1>2. \A S : <<>> \in Seq(S) /\ Len(<<>>) = 0
    OBVIOUS
  <1>3. todo \in [Threads -> Seq(Tags)]
    BY <1>1, <1>2
  <1>4. pc \in [Threads -> Labels]
    BY <1>1 DEF Labels
  <1>5. rx \in [escaped : BOOLEAN, data : Seq(0 .. 255)] /\ Len(rx.data) = 0
    BY <1>1, <1>2 DEF reset_rx
  <1>6. track \in [frame : 0 .. MaxFrames, at : Nat]
    BY <1>1, BoundsAssumption DEF NoPlace
  <1>7. /\ noise \in 0 .. MaxFaults /\ errors \in 0 .. MaxFaults
        /\ head \in 0 .. TxSize - 1
    BY <1>1, BoundsAssumption
  <1>8. /\ Len(writeBuffer) <= TxSize /\ Len(frames) <= MaxFrames
        /\ Len(rx.data) <= BufSize
    BY <1>1, <1>2, <1>5, BoundsAssumption, BufSizeAssumption
  <1>9. /\ writeBuffer \in Seq(Tags) /\ writes \in Seq(Seq(Tags))
        /\ frames \in Seq([message : Payloads, cut : BOOLEAN])
        /\ line \in Seq(Tags)
    BY <1>1, <1>2, Zenon
  <1>10. QED
    BY <1>1, <1>3, <1>4, <1>5, <1>6, <1>7, <1>8, <1>9 DEF TypeOK

LEMMA GotoType ==
    ASSUME TypeOK, NEW t \in Threads, NEW label \in Labels, Goto(t, label)
    PROVE  pc' \in [Threads -> Labels] /\ overlapped' \in BOOLEAN
  <1>1. pc' \in [Threads -> Labels]
    BY DEF Goto, TypeOK
  <1>2. overlapped' \in BOOLEAN
    BY DEF Goto, TypeOK
  <1>3. QED
    BY <1>1, <1>2

LEMMA TypeStep == TypeOK /\ [Next]_vars => TypeOK'
  <1> SUFFICES ASSUME TypeOK, [Next]_vars PROVE TypeOK'
    OBVIOUS
  <1>0. /\ {"idle", "push", "test", "start", "completed", "clear"} = Labels
        /\ "io" \in Threads
    BY DEF Labels, Threads
  <1>1. ASSUME NEW t \in Threads, NEW m \in Payloads,
               asyncSendMessageToSerialPort(t, m)
        PROVE  TypeOK'
    <2>1. pc' \in [Threads -> Labels] /\ overlapped' \in BOOLEAN
      BY <1>0, <1>1, GotoType DEF asyncSendMessageToSerialPort
    <2>2. Len(frames) \in Nat /\ Len(frames) + 1 \in 0 .. MaxFrames
      BY <1>1, BoundsAssumption DEF asyncSendMessageToSerialPort, TypeOK
    <2>3. Tagged(Len(frames) + 1, Frame(m)) \in Seq(Tags)
      BY <2>2, TaggedFacts
    <2>4. todo' = [todo EXCEPT ![t] = Tagged(Len(frames) + 1, Frame(m))]
      BY <1>1 DEF asyncSendMessageToSerialPort, Frame
    <2>5. todo' \in [Threads -> Seq(Tags)]
      BY <2>3, <2>4 DEF TypeOK
    <2>6. [message |-> m, cut |-> FALSE] \in [message : Payloads, cut : BOOLEAN]
      OBVIOUS
    <2>7. frames' \in Seq([message : Payloads, cut : BOOLEAN])
          /\ Len(frames') = Len(frames) + 1
      BY <1>1, <2>6, QueueFacts DEF asyncSendMessageToSerialPort, TypeOK
    <2>8. UNCHANGED <<state, writeBuffer, head, writeInProgress, writes,
                      errors, line, rx, track, noise>>
      BY <1>1 DEF asyncSendMessageToSerialPort, reader
    <2>9. QED
      BY <2>1, <2>2, <2>5, <2>7, <2>8 DEF TypeOK
  <1>2. ASSUME NEW t \in Threads, PushByte(t) PROVE TypeOK'
    <2>1. pc' \in [Threads -> Labels] /\ overlapped' \in BOOLEAN
      BY <1>0, <1>2, GotoType DEF PushByte
    <2>2. todo[t] \in Seq(Tags) /\ todo[t] # <<>>
      BY <1>2 DEF PushByte, TypeOK
    <2>3. Head(todo[t]) \in Tags /\ Tail(todo[t]) \in Seq(Tags)
      BY <2>2, QueueFacts
    <2>4. todo' \in [Threads -> Seq(Tags)]
      BY <1>2, <2>3 DEF PushByte, TypeOK
    <2>5. writeBuffer' \in Seq(Tags) /\ Len(writeBuffer') = Len(writeBuffer) + 1
      BY <1>2, <2>3, QueueFacts DEF PushByte, TypeOK
    <2>6. Len(writeBuffer') <= TxSize
      BY <1>2, <2>5, BoundsAssumption DEF PushByte, Free, TypeOK
    <2>7. UNCHANGED <<state, head, writeInProgress, writes, frames, errors,
                      line, rx, track, noise>>
      BY <1>2 DEF PushByte, reader
    <2>8. QED
      BY <2>1, <2>4, <2>5, <2>6, <2>7 DEF TypeOK
  <1>3. ASSUME NEW t \in Threads, PushEnds(t) PROVE TypeOK'
    <2>1. pc' \in [Threads -> Labels] /\ overlapped' \in BOOLEAN
      BY <1>0, <1>3, GotoType DEF PushEnds
    <2>2. todo' \in [Threads -> Seq(Tags)]
      <3>1. <<>> \in Seq(Tags)
        OBVIOUS
      <3>2. QED
        BY <1>3, <3>1 DEF PushEnds, TypeOK
    <2>3. frames' \in Seq([message : Payloads, cut : BOOLEAN])
          /\ Len(frames') = Len(frames)
      <3>1. ASSUME NEW f PROVE
                /\ [frames EXCEPT ![f].cut = TRUE]
                        \in Seq([message : Payloads, cut : BOOLEAN])
                /\ Len([frames EXCEPT ![f].cut = TRUE]) = Len(frames)
        BY CutFrame DEF TypeOK
      <3>2. QED
        BY <1>3, <3>1 DEF PushEnds, TypeOK
    <2>4. UNCHANGED <<state, writeBuffer, head, writeInProgress, writes,
                      errors, line, rx, track, noise>>
      BY <1>3 DEF PushEnds, reader
    <2>5. QED
      BY <2>1, <2>2, <2>3, <2>4 DEF TypeOK
  <1>4. ASSUME NEW t \in Threads, TestInProgress(t) PROVE TypeOK'
    <2>1. pc' \in [Threads -> Labels] /\ overlapped' \in BOOLEAN
      BY <1>0, <1>4, GotoType DEF TestInProgress
    <2>2. UNCHANGED <<state, writeBuffer, head, writeInProgress, writes, todo,
                      frames, errors, line, rx, track, noise>>
      BY <1>4 DEF TestInProgress, reader
    <2>3. QED
      BY <2>1, <2>2 DEF TypeOK
  <1>5. ASSUME writes' = Append(writes, Region)
        PROVE  writes' \in Seq(Seq(Tags))
    BY <1>5, RegionFacts, QueueFacts DEF TypeOK
  <1>6. ASSUME NEW t \in Threads, StartWrite(t) PROVE TypeOK'
    <2>1. pc' \in [Threads -> Labels] /\ overlapped' \in BOOLEAN
      BY <1>0, <1>6, GotoType DEF StartWrite
    <2>2. UNCHANGED <<state, writeBuffer, head, todo, frames, errors, line, rx,
                      track, noise>> /\ writeInProgress' = TRUE
      BY <1>6 DEF StartWrite, reader
    <2>3. writes' \in Seq(Seq(Tags))
      BY <1>5, <1>6 DEF StartWrite
    <2>4. QED
      BY <2>1, <2>2, <2>3 DEF TypeOK
  <1>7. ASSUME NEW i \in DOMAIN writes, Completes(i) PROVE writes' \in Seq(Seq(Tags))
    BY <1>7, RemoveFacts DEF Completes, TypeOK
  <1>8. ASSUME NEW i \in DOMAIN writes, WriteCompletes(i) PROVE TypeOK'
    <2>1. pc' \in [Threads -> Labels] /\ overlapped' \in BOOLEAN
      BY <1>0, <1>8, GotoType DEF WriteCompletes
    <2>2. writes[i] \in Seq(Tags)
      BY DEF TypeOK
    <2>3. PICK n \in Transferred(writes[i]) :
                /\ line' = SubSeq(writes[i], 1, n)
                /\ writeBuffer' = SubSeq(writeBuffer, n + 1, Len(writeBuffer))
                /\ head' = (head + n) % TxSize
      BY <1>8 DEF WriteCompletes
    <2>4. n \in 0 .. Len(writes[i])
      BY <2>2 DEF Transferred
    <2>5. line' \in Seq(Tags)
      BY <2>2, <2>3, <2>4, QueueFacts
    <2>6. writeBuffer' \in Seq(Tags) /\ Len(writeBuffer') <= Len(writeBuffer)
      <3>1. n \in Nat
        BY <2>2, <2>4
      <3>2. QED
        BY <2>3, <3>1, SMTT(30) DEF TypeOK
    <2>7. Len(writeBuffer') <= TxSize /\ head' \in 0 .. TxSize - 1
      <3>1. n \in Nat /\ head \in Nat /\ TxSize \in Nat \ {0}
        BY <2>2, <2>4, BoundsAssumption DEF TypeOK
      <3>2. \A k \in Nat, size \in Nat \ {0} : k % size \in 0 .. size - 1
        OBVIOUS
      <3>3. head' \in 0 .. TxSize - 1
        <4>1. head + n \in Nat
          BY <3>1
        <4>2. QED
          BY <2>3, <3>1, <3>2, <4>1, Zenon
      <3>4. Len(writeBuffer') <= TxSize
        <4>1. Len(writeBuffer) \in Nat /\ Len(writeBuffer) <= TxSize
          BY DEF TypeOK
        <4>2. Len(writeBuffer') \in Nat
          BY <2>6
        <4>3. QED
          BY <2>6, <3>1, <4>1, <4>2
      <3>5. QED
        BY <3>3, <3>4
    <2>8. UNCHANGED <<state, writeInProgress, todo, frames, errors, rx, track,
                      noise>>
      BY <1>8 DEF WriteCompletes, Completes, reader
    <2>9. writes' \in Seq(Seq(Tags))
      BY <1>7, <1>8 DEF WriteCompletes
    <2>10. QED
      BY <2>1, <2>5, <2>6, <2>7, <2>8, <2>9 DEF TypeOK
  <1>9. ASSUME NEW i \in DOMAIN writes, WriteFails(i) PROVE TypeOK'
    <2>1. writes' \in Seq(Seq(Tags))
      BY <1>7, <1>9 DEF WriteFails
    <2>2. UNCHANGED <<state, writeBuffer, head, pc, todo, frames, overlapped,
                      line, rx, track, noise>> /\ writeInProgress' = FALSE
      BY <1>9 DEF WriteFails, Completes, reader
    <2>3. errors' \in 0 .. MaxFaults
      BY <1>9, BoundsAssumption DEF WriteFails, TypeOK
    <2>4. QED
      BY <2>1, <2>2, <2>3 DEF TypeOK
  <1>10. ASSUME TestEmpty PROVE TypeOK'
    <2>1. pc' \in [Threads -> Labels] /\ overlapped' \in BOOLEAN
      BY <1>0, <1>10, GotoType DEF TestEmpty
    <2>2. writes' \in Seq(Seq(Tags))
      BY <1>5, <1>10 DEF TestEmpty, TypeOK
    <2>3. UNCHANGED <<state, writeBuffer, head, writeInProgress, todo, frames,
                      errors, line, rx, track, noise>>
      BY <1>10 DEF TestEmpty, reader
    <2>4. QED
      BY <2>1, <2>2, <2>3 DEF TypeOK
  <1>11. ASSUME ClearInProgress PROVE TypeOK'
    <2>1. pc' \in [Threads -> Labels] /\ overlapped' \in BOOLEAN
      BY <1>0, <1>11, GotoType DEF ClearInProgress
    <2>2. UNCHANGED <<state, writeBuffer, head, writes, todo, frames, errors,
                      line, rx, track, noise>> /\ writeInProgress' = FALSE
      BY <1>11 DEF ClearInProgress, reader
    <2>3. QED
      BY <2>1, <2>2 DEF TypeOK
  <1>12. ASSUME operationalFailure PROVE TypeOK'
    <2>1. UNCHANGED <<writeBuffer, head, writeInProgress, writes, pc, todo,
                      frames, overlapped, line, rx, track, noise>>
          /\ state' = "OPERATIONAL_ERROR"
      BY <1>12 DEF operationalFailure, reader
    <2>2. errors' \in 0 .. MaxFaults
      BY <1>12, BoundsAssumption DEF operationalFailure, TypeOK
    <2>3. QED
      BY <2>1, <2>2 DEF TypeOK
  <1>13. ASSUME NEW e, e.byte \in Bytes, e.frame \in 0 .. MaxFrames, e.at \in Nat,
                Reads(e)
         PROVE  /\ rx' \in [escaped : BOOLEAN, data : Seq(0 .. 255)]
                /\ Len(rx'.data) <= BufSize
                /\ track' \in [frame : 0 .. MaxFrames, at : Nat]
    <2>1. rx \in Rx /\ Len(rx.data) <= BufSize
      BY DEF TypeOK, Rx, Bytes
    <2>2. rx' \in Rx /\ Len(rx'.data) <= BufSize
      BY <1>13, <2>1, DecoderType DEF Reads
    <2>3. track' \in [frame : 0 .. MaxFrames, at : Nat]
      BY <1>13, BoundsAssumption DEF Reads, NoPlace
    <2>4. QED
      BY <2>2, <2>3 DEF Rx, Bytes
  <1>14. ASSUME Reading PROVE TypeOK'
    <2>1. line # <<>> /\ line' = Tail(line)
      BY <1>14 DEF Reading, ReadByte, LoseByte, ChangeByte
    <2>2. Head(line) \in Tags /\ line' \in Seq(Tags)
      BY <2>1, QueueFacts DEF TypeOK
    <2>3. UNCHANGED <<state, writeBuffer, head, writeInProgress, writes, pc,
                      todo, frames, overlapped, errors>>
      BY <1>14 DEF Reading, ReadByte, LoseByte, ChangeByte, writer
    <2>4. noise' \in 0 .. MaxFaults
      <3>1. noise' = noise \/ (noise + errors < MaxFaults /\ noise' = noise + 1)
        BY <1>14 DEF Reading, ReadByte, LoseByte, ChangeByte
      <3>2. QED
        BY <3>1, BoundsAssumption DEF TypeOK
    <2>5. /\ rx' \in [escaped : BOOLEAN, data : Seq(0 .. 255)]
          /\ Len(rx'.data) <= BufSize
          /\ track' \in [frame : 0 .. MaxFrames, at : Nat]
      <3>1. CASE ReadByte
        BY <1>13, <2>2, <3>1 DEF ReadByte, Tags, Bytes
      <3>2. CASE LoseByte
        BY <3>2 DEF LoseByte, reader, TypeOK
      <3>3. ASSUME NEW byte \in NoiseBytes, ChangeByte(byte)
            PROVE  /\ rx' \in [escaped : BOOLEAN, data : Seq(0 .. 255)]
                   /\ Len(rx'.data) <= BufSize
                   /\ track' \in [frame : 0 .. MaxFrames, at : Nat]
        <4> DEFINE e == [byte |-> byte, frame |-> 0, at |-> 0]
        <4>1. e.byte \in Bytes /\ e.frame \in 0 .. MaxFrames /\ e.at \in Nat
          BY NoiseAssumption, BoundsAssumption DEF Bytes
        <4>2. Reads(e)
          BY <3>3 DEF ChangeByte
        <4> HIDE DEF e
        <4>3. QED
          BY <1>13, <4>1, <4>2
      <3>4. QED
        BY <1>14, <3>1, <3>2, <3>3 DEF Reading
    <2>6. QED
      BY <2>2, <2>3, <2>4, <2>5 DEF TypeOK
  <1>15. CASE UNCHANGED vars
    BY <1>15 DEF vars, writer, reader, TypeOK
  <1>16. QED
    BY <1>1, <1>2, <1>3, <1>4, <1>6, <1>8, <1>9, <1>10, <1>11, <1>12, <1>14,
       <1>15 DEF Next, Writing, Sending, Completing

\* Every variable has its type: in particular the write buffer never holds
\* more than TX_BUFFER_SIZE bytes, whoever pushes (asyncSendDataToSerialPort),
\* and the decoder's never more than slip_desc.buf_size (put_byte_to_buffer),
\* whatever arrives on the line.
THEOREM TypeCorrect == Spec => []TypeOK
  BY TypeInit, TypeStep, PTL DEF Spec

-----------------------------------------------------------------------------
(* One thread at a time                                                     *)

\* Unless two threads were inside the object at once, one of them is outside.
Turn == overlapped \/ pc["io"] = "idle" \/ pc["service"] = "idle"

\* s is a front of t
Begins(s, t) == Len(s) <= Len(t) /\ s = SubSeq(t, 1, Len(s))

\* No write, or one that writeInProgress stands for and that was given what
\* the buffer begins with; none between the completion of a write and the
\* start of the next, for which the flag of the first still stands. What is
\* still to be pushed belongs to a thread that is pushing.
OneChain ==
    /\ \/ writes = <<>>
       \/ Len(writes) = 1 /\ Begins(writes[1], writeBuffer) /\ writeInProgress
    /\ \A t \in Threads :
            pc[t] \in {"start", "completed", "clear"} => writes = <<>>
    /\ pc["io"] = "completed" => writeInProgress
    /\ \A t \in Threads : todo[t] # <<>> => pc[t] = "push"

Chain == overlapped \/ OneChain

LEMMA TurnStep == TypeOK /\ Turn /\ [Next]_vars => Turn'
  <1> SUFFICES ASSUME TypeOK, Turn, [Next]_vars PROVE Turn'
    OBVIOUS
  <1>1. Threads = {"io", "service"} /\ "io" # "service"
    BY DEF Threads
  <1>2. ASSUME NEW t \in Threads, NEW label \in Labels, Goto(t, label)
        PROVE  Turn'
    <2>1. CASE \A u \in Threads : pc'[u] # "idle"
      <3>1. overlapped'
        BY <1>2, <2>1 DEF Goto
      <3>2. QED
        BY <3>1 DEF Turn
    <2>2. CASE ~(\A u \in Threads : pc'[u] # "idle")
      BY <1>1, <2>2 DEF Turn
    <2>3. QED
      BY <2>1, <2>2
  <1>3. {"idle", "push", "test", "start", "completed", "clear"} = Labels
    BY DEF Labels
  <1>4. \/ \E t \in Threads, label \in Labels : Goto(t, label)
        \/ UNCHANGED <<pc, overlapped>>
    <2>1. CASE \E t \in Threads, m \in Payloads : asyncSendMessageToSerialPort(t, m)
      BY <1>3, <2>1 DEF asyncSendMessageToSerialPort
    <2>2. CASE \E t \in Threads : Sending(t)
      BY <1>3, <2>2 DEF Sending, PushByte, PushEnds, TestInProgress, StartWrite
    <2>3. CASE Completing
      BY <1>1, <1>3, <2>3 DEF Completing, WriteCompletes, TestEmpty, ClearInProgress
    <2>4. CASE \/ Reading \/ (\E i \in DOMAIN writes : WriteFails(i))
               \/ operationalFailure \/ UNCHANGED vars
      BY <2>4 DEF Reading, ReadByte, LoseByte, ChangeByte, WriteFails,
         operationalFailure, vars, writer
    <2>5. QED
      BY <2>1, <2>2, <2>3, <2>4 DEF Next, Writing
  <1>5. CASE UNCHANGED <<pc, overlapped>>
    BY <1>5 DEF Turn
  <1>6. QED
    BY <1>2, <1>4, <1>5

\* While a thread goes on inside, and was not disturbed, the other is outside.
LEMMA OtherOutside ==
    ASSUME TypeOK, Turn, ~overlapped', NEW t \in Threads, NEW label \in Labels,
           Goto(t, label), pc[t] # "idle" \/ label # "idle"
    PROVE  /\ ~overlapped /\ pc'[t] = label
           /\ \A u \in Threads \ {t} : pc[u] = "idle" /\ pc'[u] = "idle"
  <1>1. Threads = {"io", "service"} /\ "io" # "service"
    BY DEF Threads
  <1>2. /\ pc \in [Threads -> Labels] /\ pc' = [pc EXCEPT ![t] = label]
        /\ overlapped' = (overlapped \/ \A u \in Threads : pc'[u] # "idle")
    BY DEF Goto, TypeOK
  <1>3. ~overlapped /\ ~(\A u \in Threads : pc'[u] # "idle")
    BY <1>2, Zenon
  <1>4. pc'[t] = label /\ \A u \in Threads \ {t} : pc'[u] = pc[u]
    BY <1>2
  <1>5. pc["io"] = "idle" \/ pc["service"] = "idle"
    BY <1>3 DEF Turn
  <1>6. QED
    BY <1>1, <1>3, <1>4, <1>5

LEMMA FirstElement ==
    ASSUME NEW S, NEW s \in Seq(S), Len(s) = 1
    PROVE  s[1] \in S
  OBVIOUS

LEMMA BeginsAppend ==
    ASSUME NEW S, NEW s \in Seq(S), NEW t \in Seq(S), NEW e \in S, Begins(s, t)
    PROVE  Begins(s, Append(t, e))
  BY DEF Begins

\* Completing the only write leaves none.
LEMMA LastWrite ==
    ASSUME TypeOK, OneChain, NEW i \in DOMAIN writes
    PROVE  /\ i = 1 /\ RemoveAt(writes, i) = <<>> /\ writeInProgress
           /\ writes[1] \in Seq(Tags) /\ Begins(writes[1], writeBuffer)
           /\ \A t \in Threads : pc[t] \notin {"start", "completed", "clear"}
  <1>1. writes \in Seq(Seq(Tags)) /\ writes # <<>>
    BY DEF TypeOK
  <1>2. Len(writes) = 1 /\ writeInProgress /\ Begins(writes[1], writeBuffer)
    BY <1>1 DEF OneChain
  <1>3. i = 1
    BY <1>1, <1>2
  <1>4. SubSeq(writes, 1, 0) = <<>> /\ SubSeq(writes, 2, 1) = <<>>
    BY <1>1
  <1>5. RemoveAt(writes, 1) = <<>>
    <2>1. SubSeq(writes, 1, 1 - 1) = <<>> /\ SubSeq(writes, 1 + 1, 1) = <<>>
      BY <1>4
    <2>2. <<>> \o <<>> = <<>>
      OBVIOUS
    <2>3. QED
      BY <1>2, <2>1, <2>2 DEF RemoveAt
  <1>6. writes[1] \in Seq(Tags)
    BY <1>1, <1>2
  <1>7. QED
    BY <1>1, <1>2, <1>3, <1>5, <1>6 DEF OneChain

LEMMA ChainStep == TypeOK /\ Turn /\ Chain /\ [Next]_vars => Chain'
  <1> SUFFICES ASSUME TypeOK, Turn, Chain, [Next]_vars, ~overlapped'
               PROVE  OneChain'
    BY DEF Chain
  <1>1. Threads = {"io", "service"} /\ "io" # "service"
    BY DEF Threads
  <1>2. {"idle", "push", "test", "start", "completed", "clear"} = Labels
    BY DEF Labels
  <1>3. overlapped => overlapped'
    BY DEF Next, Writing, Sending, Completing, asyncSendMessageToSerialPort,
       PushByte, PushEnds, TestInProgress, StartWrite, WriteCompletes,
       TestEmpty, ClearInProgress, WriteFails, operationalFailure, Goto,
       Reading, ReadByte, LoseByte, ChangeByte, vars, writer
  <1>4. OneChain
    BY <1>3 DEF Chain
  <1>5. /\ writeBuffer \in Seq(Tags) /\ writes \in Seq(Seq(Tags))
        /\ todo \in [Threads -> Seq(Tags)] /\ pc \in [Threads -> Labels]
        /\ head \in 0 .. TxSize - 1
    BY DEF TypeOK
  <1>6. ASSUME NEW t \in Threads, NEW label \in Labels \ {"start", "completed", "clear"},
               Goto(t, label), pc[t] # "idle" \/ label # "idle",
               UNCHANGED <<writes, writeInProgress>>,
               writeBuffer' = writeBuffer \/ (\E e \in Tags : writeBuffer' = Append(writeBuffer, e)),
               \A u \in Threads \ {t} : todo'[u] = todo[u],
               todo'[t] # <<>> => label = "push"
        PROVE  OneChain'
    <2>1. /\ pc'[t] = label
          /\ \A u \in Threads \ {t} : pc[u] = "idle" /\ pc'[u] = "idle"
      BY <1>6, OtherOutside
    <2>2. \A u \in Threads : todo'[u] # <<>> => pc'[u] = "push"
      BY <1>4, <1>6, <2>1 DEF OneChain
    <2>3. ASSUME Len(writes) = 1, Begins(writes[1], writeBuffer)
          PROVE  Begins(writes[1], writeBuffer')
      <3>1. writes[1] \in Seq(Tags)
        BY <1>5, <2>3, FirstElement
      <3>2. \A e \in Tags : Begins(writes[1], Append(writeBuffer, e))
        BY <1>5, <2>3, <3>1, BeginsAppend
      <3>3. QED
        BY <1>6, <2>3, <3>2
    <2>4. \/ writes' = <<>>
          \/ Len(writes') = 1 /\ Begins(writes'[1], writeBuffer') /\ writeInProgress'
      BY <1>4, <1>6, <2>3 DEF OneChain
    <2>5. \A u \in Threads : pc'[u] \notin {"start", "completed", "clear"}
      BY <1>6, <2>1
    <2>6. QED
      BY <1>1, <2>2, <2>4, <2>5 DEF OneChain
  <1>7. ASSUME NEW t \in Threads, NEW m \in Payloads,
               asyncSendMessageToSerialPort(t, m)
        PROVE  OneChain'
    <2>1. \A u \in Threads \ {t} : todo'[u] = todo[u]
      BY <1>5, <1>7 DEF asyncSendMessageToSerialPort
    <2>2. QED
      BY <1>2, <1>6, <1>7, <2>1 DEF asyncSendMessageToSerialPort
  <1>8. ASSUME NEW t \in Threads, PushByte(t) PROVE OneChain'
    <2>1. \A u \in Threads \ {t} : todo'[u] = todo[u]
      BY <1>5, <1>8 DEF PushByte
    <2>2. Head(todo[t]) \in Tags
      BY <1>5, <1>8, QueueFacts DEF PushByte
    <2>3. QED
      BY <1>2, <1>6, <1>8, <2>1, <2>2 DEF PushByte
  <1>9. ASSUME NEW t \in Threads, PushEnds(t) PROVE OneChain'
    <2>1. (\A u \in Threads \ {t} : todo'[u] = todo[u]) /\ todo'[t] = <<>>
      BY <1>5, <1>9 DEF PushEnds
    <2>2. QED
      BY <1>2, <1>6, <1>9, <2>1 DEF PushEnds
  <1>10. ASSUME NEW t \in Threads, NEW label \in Labels, Goto(t, label),
                pc[t] \notin {"idle", "push"}, UNCHANGED todo
         PROVE  /\ \A u \in Threads : todo'[u] = <<>>
                /\ pc'[t] = label /\ \A u \in Threads \ {t} : pc'[u] = "idle"
    <2>1. /\ pc'[t] = label
          /\ \A u \in Threads \ {t} : pc[u] = "idle" /\ pc'[u] = "idle"
      BY <1>10, OtherOutside
    <2>2. \A u \in Threads : pc[u] # "push"
      BY <1>10, <2>1
    <2>3. QED
      BY <1>4, <1>10, <2>1, <2>2 DEF OneChain
  <1>11. ASSUME NEW t \in Threads, TestInProgress(t) PROVE OneChain'
    <2>1. /\ \A u \in Threads : todo'[u] = <<>>
          /\ pc'[t] = IF writeInProgress THEN "idle" ELSE "start"
          /\ \A u \in Threads \ {t} : pc'[u] = "idle"
      BY <1>2, <1>10, <1>11 DEF TestInProgress
    <2>2. UNCHANGED <<writes, writeInProgress, writeBuffer>>
      BY <1>11 DEF TestInProgress
    <2>3. ~writeInProgress => writes = <<>>
      BY <1>4 DEF OneChain
    <2>4. pc'["io"] # "completed"
      BY <1>1, <2>1
    <2>5. QED
      BY <1>4, <2>1, <2>2, <2>3, <2>4 DEF OneChain
  <1>12. ASSUME NEW t \in Threads, pc[t] \in {"start", "completed"}, Goto(t, "idle"),
                writes' = Append(writes, Region),
                UNCHANGED <<todo, writeBuffer>>, writeInProgress'
         PROVE  OneChain'
    <2>1. /\ \A u \in Threads : todo'[u] = <<>> /\ pc'[u] = "idle"
      BY <1>2, <1>10, <1>12
    <2>2. writes = <<>>
      BY <1>4, <1>12 DEF OneChain
    <2>3. Region \in Seq(Tags) /\ Begins(Region, writeBuffer)
      BY <1>5, RegionFacts DEF Begins
    <2>4. writes' = <<Region>>
      BY <1>12, <2>2
    <2>5. Len(writes') = 1 /\ writes'[1] = Region
      BY <2>4
    <2>6. QED
      BY <1>1, <1>12, <2>1, <2>3, <2>5 DEF OneChain
  <1>13. ASSUME NEW t \in Threads, StartWrite(t) PROVE OneChain'
    BY <1>12, <1>13 DEF StartWrite
  <1>14. ASSUME NEW i \in DOMAIN writes, WriteCompletes(i) PROVE OneChain'
    <2>1. writes' = <<>> /\ writeInProgress'
      BY <1>4, <1>14, LastWrite DEF WriteCompletes, Completes
    <2>2. \A u \in Threads \ {"io"} : pc[u] = "idle"
      BY <1>1, <1>2, <1>14, OtherOutside DEF WriteCompletes
    <2>3. \A u \in Threads : todo'[u] = <<>>
      BY <1>1, <1>4, <1>14, <2>2 DEF WriteCompletes, Completes, OneChain
    <2>4. QED
      BY <2>1, <2>3 DEF OneChain
  <1>15. ASSUME NEW i \in DOMAIN writes, WriteFails(i) PROVE OneChain'
    <2>1. writes' = <<>> /\ pc["io"] = "idle" /\ UNCHANGED <<pc, todo>>
      BY <1>4, <1>15, LastWrite DEF WriteFails, Completes
    <2>2. QED
      BY <1>4, <2>1 DEF OneChain
  <1>16. ASSUME TestEmpty PROVE OneChain'
    <2>1. "io" \in Threads /\ pc["io"] = "completed" /\ writes = <<>> /\ writeInProgress
      BY <1>1, <1>4, <1>16 DEF TestEmpty, OneChain
    <2>2. CASE Goto("io", "clear") /\ UNCHANGED writes
      <3>1. /\ \A u \in Threads : todo'[u] = <<>>
            /\ pc'["io"] = "clear"
        BY <1>2, <1>10, <1>16, <2>1, <2>2 DEF TestEmpty
      <3>2. QED
        BY <2>1, <2>2, <3>1 DEF OneChain
    <2>3. ASSUME writes' = Append(writes, Region),
                 Goto("io", "idle")
          PROVE  OneChain'
      BY <1>12, <1>16, <2>1, <2>3 DEF TestEmpty
    <2>4. QED
      BY <1>16, <2>2, <2>3 DEF TestEmpty
  <1>17. ASSUME ClearInProgress PROVE OneChain'
    <2>1. "io" \in Threads /\ pc["io"] = "clear" /\ writes = <<>> /\ writes' = <<>>
      BY <1>1, <1>4, <1>17 DEF ClearInProgress, OneChain
    <2>2. (\A u \in Threads : todo'[u] = <<>>) /\ pc'["io"] = "idle"
      BY <1>2, <1>10, <1>17, <2>1 DEF ClearInProgress
    <2>3. QED
      BY <2>1, <2>2 DEF OneChain
  <1>18. CASE Reading \/ operationalFailure \/ UNCHANGED vars
    <2>1. UNCHANGED <<pc, todo, writes, writeBuffer, writeInProgress>>
      BY <1>18 DEF Reading, ReadByte, LoseByte, ChangeByte,
         operationalFailure, vars, writer
    <2>2. QED
      BY <1>4, <2>1 DEF OneChain
  <1>19. QED
    BY <1>7, <1>8, <1>9, <1>11, <1>13, <1>14, <1>15, <1>16, <1>17, <1>18
       DEF Next, Writing, Sending, Completing

LEMMA ChainInit == Init => Turn /\ OneChain
  <1> SUFFICES ASSUME Init PROVE Turn /\ OneChain
    OBVIOUS
  <1>1. /\ pc = [t \in Threads |-> "idle"] /\ todo = [t \in Threads |-> <<>>]
        /\ writes = <<>>
    BY DEF Init
  <1>2. QED
    BY <1>1 DEF Turn, OneChain, Threads

\* "begin a new async serial write if no write is already in progress": true
\* of every history of partial writes, failed writes and failed reads in which
\* no two threads were inside the object at once (asyncSendDataToSerialPort,
\* asyncWriteToSerialPort, asyncWriteToSerialPortCb).
THEOREM OneWriteUnlessOverlapped == Spec => [](overlapped \/ OneWrite)
  <1>1. ASSUME TypeOK, Chain PROVE overlapped \/ OneWrite
    <2>1. Len(<<>>) = 0
      OBVIOUS
    <2>2. overlapped \/ Len(writes) \in {0, 1}
      BY <1>1, <2>1, Zenon DEF Chain, OneChain
    <2>3. \A n \in {0, 1} : n <= 1
      OBVIOUS
    <2>4. QED
      BY <2>2, <2>3, Zenon DEF OneWrite
  <1>2. OneChain => Chain
    BY DEF Chain
  <1>3. QED
    BY <1>1, <1>2, TypeInit, TypeStep, ChainInit, TurnStep, ChainStep, PTL DEF Spec

\* Only the thread of the completion handlers is ever inside the object.
Alone ==
    /\ pc \in [Threads -> Labels]
    /\ pc["service"] = "idle"
    /\ overlapped = FALSE

LEMMA AloneStep ==
    ASSUME Sends("service") = {}
    PROVE  Alone /\ [Next]_vars => Alone'
  <1> SUFFICES ASSUME Alone, [Next]_vars PROVE Alone'
    OBVIOUS
  <1>1. Threads = {"io", "service"} /\ "io" # "service"
    BY DEF Threads
  <1>2. ASSUME NEW label \in Labels, Goto("io", label) PROVE Alone'
    <2>1. pc' = [pc EXCEPT !["io"] = label]
      BY <1>2 DEF Goto
    <2>2. pc'["service"] = "idle" /\ pc' \in [Threads -> Labels]
      BY <1>1, <2>1 DEF Alone
    <2>3. ~(\A u \in Threads : pc'[u] # "idle")
      BY <1>1, <2>2
    <2>4. overlapped' = FALSE
      BY <1>2, <2>3, Zenon DEF Goto, Alone
    <2>5. QED
      BY <2>2, <2>4 DEF Alone
  <1>3. CASE UNCHANGED <<pc, overlapped>>
    BY <1>3 DEF Alone
  <1>4. {"idle", "push", "test", "start", "completed", "clear"} = Labels
    BY DEF Labels
  <1>5. ASSUME NEW t \in Threads, NEW m \in Payloads,
               asyncSendMessageToSerialPort(t, m)
        PROVE  Alone'
    <2>1. t = "io" /\ Goto("io", "push")
      BY <1>1, <1>5 DEF asyncSendMessageToSerialPort
    <2>2. QED
      BY <1>2, <1>4, <2>1
  <1>6. ASSUME NEW t \in Threads, Sending(t) PROVE Alone'
    <2>1. t = "io"
      BY <1>1, <1>6 DEF Sending, PushByte, PushEnds, TestInProgress,
         StartWrite, Alone
    <2>2. \E label \in Labels : Goto("io", label)
      BY <1>4, <1>6, <2>1 DEF Sending, PushByte, PushEnds, TestInProgress,
         StartWrite
    <2>3. QED
      BY <1>2, <2>2
  <1>7. CASE Completing
    <2>1. \E label \in Labels : Goto("io", label)
      BY <1>4, <1>7 DEF Completing, WriteCompletes, TestEmpty, ClearInProgress
    <2>2. QED
      BY <1>2, <2>1
  <1>8. CASE \/ Reading \/ (\E i \in DOMAIN writes : WriteFails(i))
             \/ operationalFailure \/ UNCHANGED vars
    <2>1. UNCHANGED <<pc, overlapped>>
      BY <1>8 DEF Reading, ReadByte, LoseByte, ChangeByte, WriteFails,
         operationalFailure, vars, writer
    <2>2. QED
      BY <1>3, <2>1
  <1>9. QED
    BY <1>5, <1>6, <1>7, <1>8 DEF Next, Writing

LEMMA AloneInit == Init => Alone
  <1> SUFFICES ASSUME Init PROVE Alone
    OBVIOUS
  <1>1. pc = [t \in Threads |-> "idle"]
    BY DEF Init
  <1>2. overlapped = FALSE
    BY DEF Init
  <1>3. QED
    BY <1>1, <1>2 DEF Alone, Threads, Labels

\* As long as the io thread is the only one that sends, no two threads are
\* inside the object at once ...
THEOREM NeverOverlappedAlone ==
    ASSUME Sends("service") = {}
    PROVE  Spec => [](~overlapped)
  <1>1. Alone /\ [Next]_vars => Alone'
    BY AloneStep
  <1>2. Alone => ~overlapped
    BY DEF Alone
  <1>3. QED
    BY <1>1, <1>2, AloneInit, PTL DEF Spec

\* ... and there is never more than one write.
THEOREM OneWriteAlone ==
    ASSUME Sends("service") = {}
    PROVE  Spec => []OneWrite
  BY NeverOverlappedAlone, OneWriteUnlessOverlapped, PTL

-----------------------------------------------------------------------------
(* Whole frames                                                             *)

\* e is a byte of a frame that was sent, at the place it says
Genuine(fr, e) ==
    /\ e.frame \in DOMAIN fr
    /\ e.at \in 1 .. Len(Frame(fr[e.frame].message))
    /\ e.byte = Frame(fr[e.frame].message)[e.at]

AllGenuine(fr, s) == \A k \in DOMAIN s : Genuine(fr, s[k])

\* Every byte on its way was sent. (Noise is on the line for one step only,
\* the one in which the reader reads it.)
Origin ==
    /\ AllGenuine(frames, line) /\ AllGenuine(frames, writeBuffer)
    /\ \A t \in Threads : AllGenuine(frames, todo[t])
    /\ \A k \in DOMAIN writes : AllGenuine(frames, writes[k])

\* When the last bytes read were the first ones of a frame, the decoder has
\* understood them as such; when they were all of it, it has just delivered
\* the message.
InPlace ==
    \/ track = NoPlace
    \/ /\ track.frame \in DOMAIN frames
       /\ LET m == frames[track.frame].message IN
          /\ track.at \in 1 .. Len(Frame(m))
          /\ IF track.at = Len(Frame(m))
             THEN delivered = {m} /\ rx = reset_rx
             ELSE (track.at > 1 => delivered = {}) /\ Progress(m, track.at, rx)

\* The messages sent stay what they are.
Kept ==
    /\ DOMAIN frames \subseteq DOMAIN frames'
    /\ \A f \in DOMAIN frames : frames'[f].message = frames[f].message

LEMMA FramesKept == TypeOK /\ [Next]_vars => Kept
  <1> SUFFICES ASSUME TypeOK, [Next]_vars PROVE Kept
    OBVIOUS
  <1>1. frames \in Seq([message : Payloads, cut : BOOLEAN])
    BY DEF TypeOK
  <1>2. CASE UNCHANGED frames
    BY <1>2 DEF Kept
  <1>3. ASSUME NEW t \in Threads, NEW m \in Payloads,
               asyncSendMessageToSerialPort(t, m)
        PROVE  Kept
    <2>1. frames' = Append(frames, [message |-> m, cut |-> FALSE])
      BY <1>3 DEF asyncSendMessageToSerialPort
    <2>2. QED
      BY <1>1, <2>1 DEF Kept
  <1>4. ASSUME NEW t \in Threads, PushEnds(t) PROVE Kept
    <2>1. UNCHANGED frames \/ \E f : frames' = [frames EXCEPT ![f].cut = TRUE]
      BY <1>4 DEF PushEnds
    <2>2. ASSUME NEW f, frames' = [frames EXCEPT ![f].cut = TRUE] PROVE Kept
      BY <1>1, <2>2, CutFrame DEF Kept
    <2>3. QED
      BY <1>2, <2>1, <2>2
  <1>5. CASE \/ Reading \/ Completing \/ operationalFailure \/ UNCHANGED vars
             \/ (\E i \in DOMAIN writes : WriteFails(i))
             \/ (\E t \in Threads : PushByte(t) \/ TestInProgress(t) \/ StartWrite(t))
    <2>1. UNCHANGED frames
      BY <1>5 DEF Reading, ReadByte, LoseByte, ChangeByte, Completing,
         WriteCompletes, TestEmpty, ClearInProgress, WriteFails, Completes,
         operationalFailure, PushByte, TestInProgress, StartWrite, vars, writer
    <2>2. QED
      BY <1>2, <2>1
  <1>6. QED
    BY <1>3, <1>4, <1>5 DEF Next, Writing, Sending

LEMMA GenuineKept ==
    ASSUME Kept, NEW s, AllGenuine(frames, s)
    PROVE  AllGenuine(frames', s)
  BY DEF Kept, AllGenuine, Genuine

\* What is taken from genuine bytes is genuine, and so is what is put
\* together from them.
LEMMA GenuineParts ==
    ASSUME NEW fr, NEW s \in Seq(Tags), AllGenuine(fr, s)
    PROVE  /\ \A n \in 0 .. Len(s) : /\ AllGenuine(fr, SubSeq(s, 1, n))
                                     /\ AllGenuine(fr, SubSeq(s, n + 1, Len(s)))
           /\ s # <<>> => Genuine(fr, Head(s)) /\ AllGenuine(fr, Tail(s))
           /\ \A e \in Tags : Genuine(fr, e) => AllGenuine(fr, Append(s, e))
  <1>1. \A k \in 1 .. Len(s) : Genuine(fr, s[k])
    BY DEF AllGenuine
  <1>2. ASSUME NEW n \in 0 .. Len(s)
        PROVE  AllGenuine(fr, SubSeq(s, 1, n)) /\ AllGenuine(fr, SubSeq(s, n + 1, Len(s)))
    <2>1. /\ DOMAIN SubSeq(s, 1, n) = 1 .. n
          /\ \A k \in 1 .. n : SubSeq(s, 1, n)[k] = s[k] /\ k \in 1 .. Len(s)
      OBVIOUS
    <2>2. /\ DOMAIN SubSeq(s, n + 1, Len(s)) = 1 .. (Len(s) - n)
          /\ \A k \in 1 .. (Len(s) - n) :
                /\ SubSeq(s, n + 1, Len(s))[k] = s[n + k]
                /\ n + k \in 1 .. Len(s)
      OBVIOUS
    <2>3. QED
      BY <1>1, <2>1, <2>2 DEF AllGenuine
  <1>3. ASSUME s # <<>> PROVE Genuine(fr, Head(s)) /\ AllGenuine(fr, Tail(s))
    <2>1. /\ Len(s) \in Nat \ {0} /\ Head(s) = s[1] /\ 1 \in 1 .. Len(s)
          /\ DOMAIN Tail(s) = 1 .. Len(s) - 1
          /\ \A k \in 1 .. Len(s) - 1 : Tail(s)[k] = s[k + 1] /\ k + 1 \in 1 .. Len(s)
      BY <1>3
    <2>2. QED
      BY <1>1, <2>1 DEF AllGenuine
  <1>4. ASSUME NEW e \in Tags, Genuine(fr, e) PROVE AllGenuine(fr, Append(s, e))
    <2>1. /\ DOMAIN Append(s, e) = 1 .. Len(s) + 1
          /\ \A k \in 1 .. Len(s) + 1 :
                Append(s, e)[k] = IF k = Len(s) + 1 THEN e ELSE s[k]
          /\ \A k \in 1 .. Len(s) + 1 : k # Len(s) + 1 => k \in 1 .. Len(s)
      OBVIOUS
    <2>2. QED
      BY <1>1, <1>4, <2>1 DEF AllGenuine
  <1>5. QED
    BY <1>2, <1>3, <1>4

LEMMA OriginInit == Init => Origin /\ InPlace
  <1> SUFFICES ASSUME Init PROVE Origin /\ InPlace
    OBVIOUS
  <1>1. /\ writeBuffer = <<>> /\ writes = <<>> /\ line = <<>>
        /\ todo = [t \in Threads |-> <<>>] /\ track = NoPlace
    BY DEF Init
  <1>2. DOMAIN <<>> = {}
    OBVIOUS
  <1>3. \A fr : AllGenuine(fr, <<>>)
    BY <1>2 DEF AllGenuine
  <1>4. Origin
    BY <1>1, <1>2, <1>3 DEF Origin
  <1>5. InPlace
    BY <1>1 DEF InPlace
  <1>6. QED
    BY <1>4, <1>5

LEMMA OriginStep == TypeOK /\ Origin /\ [Next]_vars => Origin'
  <1> SUFFICES ASSUME TypeOK, Origin, [Next]_vars PROVE Origin'
    OBVIOUS
  <1>1. Kept
    BY FramesKept
  <1>2. /\ writeBuffer \in Seq(Tags) /\ writes \in Seq(Seq(Tags))
        /\ todo \in [Threads -> Seq(Tags)] /\ line \in Seq(Tags)
        /\ frames \in Seq([message : Payloads, cut : BOOLEAN])
    BY DEF TypeOK
  <1>3. /\ AllGenuine(frames', line) /\ AllGenuine(frames', writeBuffer)
        /\ \A t \in Threads : AllGenuine(frames', todo[t])
        /\ \A k \in DOMAIN writes : AllGenuine(frames', writes[k])
    BY <1>1, GenuineKept DEF Origin
  <1>4. \A fr : AllGenuine(fr, <<>>)
    <2>1. DOMAIN <<>> = {}
      OBVIOUS
    <2>2. QED
      BY <2>1 DEF AllGenuine
  <1>5. ASSUME NEW t \in Threads, NEW m \in Payloads,
               asyncSendMessageToSerialPort(t, m)
        PROVE  Origin'
    <2> DEFINE f == Len(frames) + 1
               bytes == Tagged(f, Frame(m))
    <2>1. f \in 0 .. MaxFrames
      BY <1>2, <1>5, BoundsAssumption DEF asyncSendMessageToSerialPort
    <2>2. f \in DOMAIN frames' /\ frames'[f].message = m
      <3>1. frames' = Append(frames, [message |-> m, cut |-> FALSE])
        BY <1>5 DEF asyncSendMessageToSerialPort
      <3>2. f \in DOMAIN frames' /\ frames'[f] = [message |-> m, cut |-> FALSE]
        BY <1>2, <3>1
      <3>3. QED
        BY <3>2
    <2>3. todo' = [todo EXCEPT ![t] = bytes]
      BY <1>5 DEF asyncSendMessageToSerialPort, Frame
    <2>4. AllGenuine(frames', bytes)
      <3>1. /\ DOMAIN bytes = 1 .. Len(Frame(m))
            /\ \A k \in 1 .. Len(Frame(m)) : bytes[k] =
                    [byte |-> Frame(m)[k], frame |-> f, at |-> k]
        BY <2>1, TaggedFacts DEF Tagged
      <3> HIDE DEF bytes, f
      <3>2. \A k \in 1 .. Len(Frame(m)) : /\ bytes[k].frame = f /\ bytes[k].at = k
                                          /\ bytes[k].byte = Frame(m)[k]
        BY <3>1
      <3>3. QED
        BY <2>2, <3>1, <3>2 DEF AllGenuine, Genuine
    <2> HIDE DEF bytes
    <2>5. \A u \in Threads : todo'[u] = bytes \/ todo'[u] = todo[u]
      BY <1>2, <2>3
    <2>6. UNCHANGED <<line, writeBuffer, writes>>
      BY <1>5 DEF asyncSendMessageToSerialPort
    <2>7. QED
      BY <1>3, <2>4, <2>5, <2>6 DEF Origin
  <1>6. ASSUME NEW t \in Threads, PushByte(t) PROVE Origin'
    <2>1. /\ todo[t] \in Seq(Tags) /\ todo[t] # <<>>
          /\ UNCHANGED <<line, writes>>
          /\ writeBuffer' = Append(writeBuffer, Head(todo[t]))
          /\ todo' = [todo EXCEPT ![t] = Tail(todo[t])]
      BY <1>2, <1>6 DEF PushByte
    <2>2. Head(todo[t]) \in Tags
      BY <2>1, QueueFacts
    <2>3. Genuine(frames', Head(todo[t])) /\ AllGenuine(frames', Tail(todo[t]))
      BY <1>3, <2>1, GenuineParts
    <2>4. AllGenuine(frames', writeBuffer')
      BY <1>2, <1>3, <2>1, <2>2, <2>3, GenuineParts
    <2>5. \A u \in Threads : todo'[u] = Tail(todo[t]) \/ todo'[u] = todo[u]
      BY <1>2, <2>1
    <2>6. QED
      BY <1>3, <2>1, <2>3, <2>4, <2>5 DEF Origin
  <1>7. ASSUME NEW t \in Threads, PushEnds(t) PROVE Origin'
    <2>1. \A u \in Threads : todo'[u] = <<>> \/ todo'[u] = todo[u]
      BY <1>2, <1>7 DEF PushEnds
    <2>2. UNCHANGED <<line, writeBuffer, writes>>
      BY <1>7 DEF PushEnds
    <2>3. QED
      BY <1>3, <1>4, <2>1, <2>2 DEF Origin
  <1>8. ASSUME writes' = Append(writes, Region),
               UNCHANGED <<line, writeBuffer, todo>>
        PROVE  Origin'
    <2>1. /\ Len(Region) \in 0 .. Len(writeBuffer)
          /\ Region = SubSeq(writeBuffer, 1, Len(Region))
      BY RegionFacts DEF TypeOK
    <2>2. AllGenuine(frames', Region)
      BY <1>2, <1>3, <2>1, GenuineParts
    <2>3. \A k \in DOMAIN writes' :
                writes'[k] = Region \/ (k \in DOMAIN writes /\ writes'[k] = writes[k])
      BY <1>2, <1>8
    <2>4. QED
      BY <1>3, <1>8, <2>2, <2>3 DEF Origin
  <1>9. ASSUME NEW i \in DOMAIN writes, Completes(i)
        PROVE  \A k \in DOMAIN writes' : AllGenuine(frames', writes'[k])
    <2>1. \A k \in DOMAIN writes' : \E n \in DOMAIN writes : writes'[k] = writes[n]
      BY <1>2, <1>9, RemoveElements DEF Completes
    <2>2. QED
      BY <1>3, <2>1
  <1>10. ASSUME NEW i \in DOMAIN writes, WriteCompletes(i) PROVE Origin'
    <2>1. writes[i] \in Seq(Tags)
      BY <1>2
    <2>2. PICK n \in Transferred(writes[i]) :
                /\ line' = SubSeq(writes[i], 1, n)
                /\ writeBuffer' = SubSeq(writeBuffer, n + 1, Len(writeBuffer))
      BY <1>10 DEF WriteCompletes
    <2>3. n \in 0 .. Len(writes[i])
      BY <2>1 DEF Transferred
    <2>4. AllGenuine(frames', line')
      BY <1>3, <2>1, <2>2, <2>3, GenuineParts
    <2>5. AllGenuine(frames', writeBuffer')
      <3>1. n \in Nat
        BY <2>1, <2>3
      <3>2. CASE n <= Len(writeBuffer)
        <4>1. n \in 0 .. Len(writeBuffer)
          BY <1>2, <3>1, <3>2
        <4>2. QED
          BY <1>2, <1>3, <2>2, <4>1, GenuineParts
      <3>3. CASE ~(n <= Len(writeBuffer))
        <4>1. SubSeq(writeBuffer, n + 1, Len(writeBuffer)) = <<>>
          BY <1>2, <3>1, <3>3
        <4>2. QED
          BY <1>4, <2>2, <4>1
      <3>4. QED
        BY <3>2, <3>3
    <2>6. UNCHANGED todo
      BY <1>10 DEF WriteCompletes, Completes
    <2>7. QED
      BY <1>3, <1>9, <1>10, <2>4, <2>5, <2>6 DEF WriteCompletes, Origin
  <1>11. ASSUME NEW i \in DOMAIN writes, WriteFails(i) PROVE Origin'
    <2>1. UNCHANGED <<line, writeBuffer, todo>>
      BY <1>11 DEF WriteFails, Completes
    <2>2. QED
      BY <1>3, <1>9, <1>11, <2>1 DEF WriteFails, Origin
  <1>12. CASE Reading
    <2>1. line # <<>> /\ line' = Tail(line) /\ UNCHANGED <<writeBuffer, todo,
                                                           writes>>
      BY <1>12 DEF Reading, ReadByte, LoseByte, ChangeByte, writer
    <2>2. AllGenuine(frames', line')
      BY <1>2, <1>3, <2>1, GenuineParts
    <2>3. QED
      BY <1>3, <2>1, <2>2 DEF Origin
  <1>13. CASE UNCHANGED <<line, writeBuffer, todo, writes>>
    BY <1>3, <1>13 DEF Origin
  <1>14. CASE TestEmpty
    <2>1. UNCHANGED <<line, writeBuffer, todo>>
      BY <1>14 DEF TestEmpty
    <2>2. UNCHANGED writes \/ writes' = Append(writes, Region)
      BY <1>14 DEF TestEmpty
    <2>3. QED
      BY <1>8, <1>13, <2>1, <2>2
  <1>15. ASSUME NEW t \in Threads, StartWrite(t) PROVE Origin'
    BY <1>8, <1>15 DEF StartWrite
  <1>16. CASE \/ (\E t \in Threads : TestInProgress(t)) \/ ClearInProgress
              \/ operationalFailure \/ UNCHANGED vars
    <2>1. UNCHANGED <<line, writeBuffer, todo, writes>>
      BY <1>16 DEF TestInProgress, ClearInProgress, operationalFailure, vars, writer
    <2>2. QED
      BY <1>13, <2>1
  <1>17. QED
    BY <1>5, <1>6, <1>7, <1>10, <1>11, <1>12, <1>14, <1>15, <1>16
       DEF Next, Writing, Sending, Completing

LEMMA SentFacts ==
    ASSUME TypeOK, NEW f \in DOMAIN frames
    PROVE  /\ f \in Nat \ {0} /\ f \in 0 .. MaxFrames
           /\ frames[f].message \in Payloads
  <1> DEFINE Records == [message : Payloads, cut : BOOLEAN]
  <1>1. /\ frames \in Seq(Records)
        /\ Len(frames) <= MaxFrames /\ Len(frames) \in Nat
    BY DEF TypeOK
  <1>2. f \in 1 .. Len(frames) /\ frames[f] \in Records
    <2> HIDE DEF Records
    <2>1. QED
      BY <1>1
  <1>3. frames[f].message \in Payloads
    BY <1>2
  <1>4. QED
    BY <1>1, <1>2, <1>3, BoundsAssumption

\* Reading a genuine byte keeps the reader in its place.
LEMMA ReadInPlace ==
    ASSUME TypeOK, InPlace, NEW e \in Tags, Genuine(frames, e), Reads(e),
           UNCHANGED frames
    PROVE  InPlace'
  <1> DEFINE m == frames[e.frame].message
  <1>1. /\ e.frame \in DOMAIN frames /\ e.at \in 1 .. Len(Frame(m))
        /\ e.byte = Frame(m)[e.at]
    BY DEF Genuine
  <1>2. m \in Payloads /\ e.frame \in Nat \ {0} /\ e.frame \in 0 .. MaxFrames
    BY <1>1, SentFacts
  <1>3. /\ m \in Seq(Bytes) /\ Len(m) \in 2 .. BufSize
        /\ Frame(m) \in Seq(Bytes) /\ Len(Frame(m)) \in Nat /\ Len(Frame(m)) >= 2
    BY <1>2, PayloadFacts
  <1>4. /\ rx \in Rx /\ e.byte \in Bytes /\ e.at \in Nat /\ e.at >= 1
        /\ Frame(m)[1] = END /\ Frame(m)[Len(Frame(m))] = END
    <2>1. rx \in Rx
      BY DEF TypeOK, Rx, Bytes
    <2>2. e.byte \in Bytes /\ e.at \in Nat
      BY DEF Tags, Bytes
    <2>3. e.at >= 1
      BY <1>1, <1>3
    <2>4. Frame(m)[1] = END /\ Frame(m)[Len(Frame(m))] = END
      BY <1>3, FrameFacts
    <2>5. QED
      BY <2>1, <2>2, <2>3, <2>4
  <1>5. /\ rx' = slip_read_byte(rx, e.byte) /\ delivered' = Delivers(rx, e.byte)
        /\ track' = IF InSequence(e) THEN [frame |-> e.frame, at |-> e.at]
                    ELSE NoPlace
    BY DEF Reads
  <1> HIDE DEF m
  <1>6. ASSUME track' = [frame |-> e.frame, at |-> e.at],
               IF e.at = Len(Frame(m)) THEN delivered' = {m} /\ rx' = reset_rx
               ELSE (e.at > 1 => delivered' = {}) /\ Progress(m, e.at, rx')
        PROVE  InPlace'
    <2>1. track'.frame = e.frame /\ track'.at = e.at
      BY <1>6
    <2>2. frames'[e.frame].message = m /\ e.frame \in DOMAIN frames'
      BY <1>1 DEF m
    <2>3. QED
      BY <1>1, <1>6, <2>1, <2>2 DEF InPlace
  <1>7. CASE e.at = 1
    <2>1. track' = [frame |-> e.frame, at |-> e.at] /\ e.at # Len(Frame(m))
      <3>1. InSequence(e)
        BY <1>7 DEF InSequence
      <3>2. e.at # Len(Frame(m))
        <4>1. \A n \in Nat : n >= 2 => n # 1
          OBVIOUS
        <4>2. QED
          BY <1>3, <1>7, <4>1, Zenon
      <3>3. QED
        BY <1>5, <3>1, <3>2, Zenon
    <2>2. e.byte = END
      BY <1>1, <1>4, <1>7
    <2>3. rx' = reset_rx
      BY <1>4, <1>5, <2>2, DecoderSteps
    <2>4. Progress(m, e.at, rx')
      BY <1>3, <1>7, <2>3, FrameBegins
    <2>5. QED
      BY <1>6, <1>7, <2>1, <2>4
  <1>8. CASE e.at > 1 /\ track = [frame |-> e.frame, at |-> e.at - 1]
    <2> DEFINE k == e.at - 1
    <2>1. k \in Nat /\ k < Len(Frame(m)) /\ k + 1 = e.at /\ k # Len(Frame(m))
      BY <1>1, <1>3, <1>4, <1>8
    <2>2. track # NoPlace /\ track.frame = e.frame /\ track.at = k
      BY <1>2, <1>8 DEF NoPlace
    <2> HIDE DEF k
    <2>3. Progress(m, k, rx)
      BY <2>1, <2>2 DEF InPlace, m
    <2>4. LET byte == Frame(m)[k + 1] IN
          IF k + 1 = Len(Frame(m)) THEN Delivers(rx, byte) = {m}
          ELSE Delivers(rx, byte) = {} /\ Progress(m, k + 1, slip_read_byte(rx, byte))
      BY <1>3, <1>4, <2>1, <2>3, ReadsOn
    <2>5. track' = [frame |-> e.frame, at |-> e.at]
      BY <1>5, <1>8 DEF InSequence
    <2>6. CASE e.at = Len(Frame(m))
      <3>1. delivered' = {m}
        BY <1>1, <1>5, <2>1, <2>4, <2>6
      <3>2. rx' = reset_rx
        BY <1>1, <1>4, <1>5, <2>6, DecoderSteps
      <3>3. QED
        BY <1>6, <2>5, <2>6, <3>1, <3>2
    <2>7. CASE e.at # Len(Frame(m))
      <3>1. delivered' = {} /\ Progress(m, e.at, rx')
        BY <1>1, <1>5, <2>1, <2>4, <2>7
      <3>2. QED
        BY <1>6, <2>5, <2>7, <3>1
    <2>8. QED
      BY <2>6, <2>7
  <1>9. CASE ~InSequence(e)
    BY <1>5, <1>9 DEF InPlace
  <1>10. QED
    BY <1>7, <1>8, <1>9 DEF InSequence

LEMMA InPlaceStep == TypeOK /\ Origin /\ InPlace /\ [Next]_vars => InPlace'
  <1> SUFFICES ASSUME TypeOK, Origin, InPlace, [Next]_vars PROVE InPlace'
    OBVIOUS
  <1>1. CASE UNCHANGED reader
    <2>1. UNCHANGED <<rx, delivered, track>>
      BY <1>1 DEF reader
    <2>2. Kept
      BY FramesKept
    <2>3. CASE track = NoPlace
      BY <2>1, <2>3 DEF InPlace
    <2>4. CASE track # NoPlace
      <3>1. /\ track.frame \in DOMAIN frames'
            /\ frames'[track.frame].message = frames[track.frame].message
        BY <2>2, <2>4 DEF InPlace, Kept
      <3>2. QED
        BY <2>1, <2>4, <3>1 DEF InPlace
    <2>5. QED
      BY <2>3, <2>4
  <1>2. CASE ReadByte
    <2>1. line \in Seq(Tags) /\ line # <<>> /\ AllGenuine(frames, line)
      BY <1>2 DEF ReadByte, TypeOK, Origin
    <2>2. Head(line) \in Tags /\ Genuine(frames, Head(line))
      BY <2>1, QueueFacts, GenuineParts
    <2>3. Reads(Head(line)) /\ UNCHANGED frames
      BY <1>2 DEF ReadByte, writer
    <2>4. QED
      BY <2>2, <2>3, ReadInPlace
  <1>3. ASSUME NEW byte \in NoiseBytes, ChangeByte(byte) PROVE InPlace'
    <2> DEFINE e == [byte |-> byte, frame |-> 0, at |-> 0]
    <2>1. Reads(e) /\ e.at = 0
      BY <1>3 DEF ChangeByte
    <2> HIDE DEF e
    <2>2. track' = NoPlace
      BY <2>1 DEF Reads, InSequence
    <2>3. QED
      BY <2>2 DEF InPlace
  <1>4. CASE LoseByte \/ Writing \/ UNCHANGED vars
    <2>1. UNCHANGED reader
      BY <1>4 DEF LoseByte, Writing, Sending, Completing,
         asyncSendMessageToSerialPort, PushByte, PushEnds, TestInProgress,
         StartWrite, WriteCompletes, TestEmpty, ClearInProgress, WriteFails,
         Completes, operationalFailure, vars, reader
    <2>2. QED
      BY <1>1, <2>1
  <1>5. QED
    BY <1>2, <1>3, <1>4 DEF Next, Reading

\* A reader in its place has delivered the frame it has read whole.
LEMMA InPlaceDelivers == TypeOK /\ InPlace => WholeFramesDelivered
  <1> SUFFICES ASSUME TypeOK, InPlace, NEW f \in DOMAIN frames, ReadWhole(f)
               PROVE  delivered = {frames[f].message} /\ rx = reset_rx
    BY DEF WholeFramesDelivered
  <1>1. track = [frame |-> f, at |-> Len(Frame(frames[f].message))]
    BY DEF ReadWhole, Frame
  <1>2. f # 0
    BY SentFacts
  <1>3. track # NoPlace /\ track.frame = f /\ track.at = Len(Frame(frames[f].message))
    BY <1>1, <1>2 DEF NoPlace
  <1>4. QED
    BY <1>3 DEF InPlace

\* A frame whose bytes come out of the line one after the other is delivered
\* as it was sent: for every message of at least two bytes that the decoder's
\* buffer can hold, with any bytes in it, whatever garbage, half frame or
\* stray escape the reader was left with (createSlipEncodedMessage,
\* slip_read_byte).
THEOREM WholeFramesAlwaysDelivered == Spec => []WholeFramesDelivered
  BY TypeInit, TypeStep, OriginInit, OriginStep, InPlaceStep, InPlaceDelivers,
     PTL DEF Spec

-----------------------------------------------------------------------------
(* Frames in order                                                          *)

\* What is on its way to the reader, in the order in which it will arrive as
\* long as nothing disturbs it.
Stream == line \o (writeBuffer \o (todo["io"] \o todo["service"]))

Place(e) == [frame |-> e.frame, at |-> e.at]

\* no frame has been begun, or p is the end of one
Ends(fr, p) ==
    \/ p = NoPlace
    \/ p.frame \in DOMAIN fr /\ p.at = Len(Frame(fr[p.frame].message))

\* e begins the next frame after the end of another, or continues one
Follows(fr, p, e) ==
    IF e.at = 1 THEN Ends(fr, p) /\ e.frame = p.frame + 1
    ELSE p = [frame |-> e.frame, at |-> e.at - 1]

Chained(fr, p, s) ==
    \A k \in DOMAIN s : Follows(fr, IF k = 1 THEN p ELSE Place(s[k - 1]), s[k])

LastPlace(p, s) == IF s = <<>> THEN p ELSE Place(s[Len(s)])

\* Unless there was a reason, what is on its way continues what was read,
\* frame after frame, and ends with the end of the last one.
Ordered ==
    Explained \/ /\ Chained(frames, track, Stream)
                 /\ Ends(frames, LastPlace(track, Stream))
                 /\ LastPlace(track, Stream).frame = Len(frames)
                 /\ track = NoPlace => rx = reset_rx
                 /\ track.at <= 1 => delivered = {}

LEMMA ChainedTail ==
    ASSUME NEW fr, NEW p, NEW s \in Seq(Tags), s # <<>>, Chained(fr, p, s)
    PROVE  /\ Follows(fr, p, Head(s))
           /\ Chained(fr, Place(Head(s)), Tail(s))
           /\ LastPlace(Place(Head(s)), Tail(s)) = LastPlace(p, s)
  <1>1. /\ Len(s) \in Nat \ {0} /\ Head(s) = s[1] /\ 1 \in DOMAIN s
        /\ Tail(s) \in Seq(Tags) /\ Len(Tail(s)) = Len(s) - 1
        /\ DOMAIN Tail(s) = 1 .. Len(s) - 1
        /\ \A k \in 1 .. Len(s) - 1 : Tail(s)[k] = s[k + 1] /\ k + 1 \in DOMAIN s
    OBVIOUS
  <1>2. Follows(fr, p, Head(s))
    BY <1>1 DEF Chained
  <1>3. ASSUME NEW k \in 1 .. Len(s) - 1
        PROVE  Follows(fr, IF k = 1 THEN Place(Head(s)) ELSE Place(Tail(s)[k - 1]),
                       Tail(s)[k])
    <2>1. k + 1 \in DOMAIN s /\ k + 1 # 1 /\ (k + 1) - 1 = k
      BY <1>1
    <2>2. Follows(fr, Place(s[k]), s[k + 1])
      <3>1. Follows(fr, IF k + 1 = 1 THEN p ELSE Place(s[(k + 1) - 1]), s[k + 1])
        BY <2>1, Zenon DEF Chained
      <3>2. QED
        BY <2>1, <3>1, Zenon
    <2>3. Tail(s)[k] = s[k + 1]
      BY <1>1
    <2>4. CASE k = 1
      BY <1>1, <2>2, <2>3, <2>4
    <2>5. CASE k # 1
      <3>1. k - 1 \in 1 .. Len(s) - 1 /\ (k - 1) + 1 = k
        BY <1>1, <2>5
      <3>2. Tail(s)[k - 1] = s[k]
        BY <1>1, <3>1
      <3>3. QED
        BY <2>2, <2>3, <2>5, <3>2
    <2>6. QED
      BY <2>4, <2>5
  <1>4. Chained(fr, Place(Head(s)), Tail(s))
    BY <1>1, <1>3, Zenon DEF Chained
  <1>5. LastPlace(Place(Head(s)), Tail(s)) = LastPlace(p, s)
    <2>1. CASE Len(s) = 1
      <3>1. Tail(s) = <<>>
        BY <1>1, <2>1
      <3>2. QED
        BY <1>1, <2>1, <3>1 DEF LastPlace
    <2>2. CASE Len(s) # 1
      <3>1. Len(Tail(s)) \in 1 .. Len(s) - 1 /\ Len(Tail(s)) + 1 = Len(s)
        BY <1>1, <2>2
      <3>2. Tail(s) # <<>> /\ Tail(s)[Len(Tail(s))] = s[Len(s)]
        BY <1>1, <3>1
      <3>3. QED
        BY <3>2 DEF LastPlace
    <2>3. QED
      BY <2>1, <2>2
  <1>6. QED
    BY <1>2, <1>4, <1>5

LEMMA ChainedFrame ==
    ASSUME NEW fr, NEW f \in (0 .. MaxFrames) \ {0}, f \in DOMAIN fr,
           NEW m \in Payloads, fr[f].message = m,
           NEW p, NEW s \in Seq(Tags), Chained(fr, p, s), Ends(fr, LastPlace(p, s)),
           f = LastPlace(p, s).frame + 1
    PROVE  LET more == s \o Tagged(f, Frame(m)) IN
           /\ Chained(fr, p, more) /\ Ends(fr, LastPlace(p, more))
           /\ LastPlace(p, more).frame = f
  <1> DEFINE bytes == Tagged(f, Frame(m))
             more == s \o bytes
             n == Len(Frame(m))
  <1>1. /\ bytes \in Seq(Tags) /\ Len(bytes) = n /\ n \in Nat /\ n >= 2
        /\ \A k \in 1 .. n : bytes[k] = [byte |-> Frame(m)[k], frame |-> f, at |-> k]
    BY PayloadFacts, TaggedFacts
  <1>2. \A k \in 1 .. n : bytes[k].frame = f /\ bytes[k].at = k
    <2> HIDE DEF bytes, n
    <2>1. QED
      BY <1>1
  <1>3. Len(s) \in Nat /\ DOMAIN s = 1 .. Len(s)
    OBVIOUS
  <1> HIDE DEF bytes, n
  <1>4. /\ more \in Seq(Tags) /\ Len(more) = Len(s) + n
        /\ \A k \in 1 .. Len(s) : more[k] = s[k]
        /\ \A k \in 1 .. n : more[Len(s) + k] = bytes[k]
    <2>1. more \in Seq(Tags) /\ Len(more) = Len(s) + n
      <3>1. \A x, y \in Seq(Tags) :
                x \o y \in Seq(Tags) /\ Len(x \o y) = Len(x) + Len(y)
        BY ConcatFacts
      <3>2. QED
        BY <1>1, <3>1
    <2>2. \A x, y \in Seq(Tags) : /\ \A k \in 1 .. Len(x) : (x \o y)[k] = x[k]
                                  /\ \A k \in 1 .. Len(y) : (x \o y)[Len(x) + k] = y[k]
      BY ConcatElements
    <2>3. QED
      BY <1>1, <2>1, <2>2
  <1> HIDE DEF more
  <1>5. ASSUME NEW k \in 1 .. Len(s)
        PROVE  Follows(fr, IF k = 1 THEN p ELSE Place(more[k - 1]), more[k])
    <2>1. Follows(fr, IF k = 1 THEN p ELSE Place(s[k - 1]), s[k])
      BY <1>3 DEF Chained
    <2>2. k # 1 => k - 1 \in 1 .. Len(s)
      BY <1>3
    <2>3. more[k] = s[k] /\ (k # 1 => more[k - 1] = s[k - 1])
      BY <1>4, <2>2
    <2>4. QED
      BY <2>1, <2>3
  <1>6. ASSUME NEW k \in 1 .. n
        PROVE  Follows(fr, IF Len(s) + k = 1 THEN p ELSE Place(more[(Len(s) + k) - 1]),
                       more[Len(s) + k])
    <2>1. more[Len(s) + k] = bytes[k] /\ bytes[k].frame = f /\ bytes[k].at = k
      BY <1>2, <1>4
    <2>2. CASE k = 1
      <3>1. LastPlace(p, s) = IF Len(s) + k = 1 THEN p ELSE Place(more[(Len(s) + k) - 1])
        <4>1. CASE s = <<>>
          <5>1. Len(s) + k = 1
            BY <2>2, <4>1
          <5>2. QED
            BY <4>1, <5>1 DEF LastPlace
        <4>2. CASE s # <<>>
          <5>1. Len(s) \in 1 .. Len(s) /\ Len(s) + k # 1 /\ (Len(s) + k) - 1 = Len(s)
            BY <1>3, <2>2, <4>2
          <5>2. more[Len(s)] = s[Len(s)]
            BY <1>4, <5>1
          <5>3. QED
            BY <4>2, <5>1, <5>2 DEF LastPlace
        <4>3. QED
          BY <4>1, <4>2
      <3>2. QED
        BY <2>1, <2>2, <3>1 DEF Follows
    <2>3. CASE k # 1
      <3>1. /\ k - 1 \in 1 .. n /\ (Len(s) + k) - 1 = Len(s) + (k - 1)
            /\ Len(s) + k # 1
        BY <1>1, <1>3, <2>3
      <3>2. /\ more[(Len(s) + k) - 1] = bytes[k - 1]
            /\ bytes[k - 1].frame = f /\ bytes[k - 1].at = k - 1
        BY <1>2, <1>4, <3>1
      <3>3. Place(more[(Len(s) + k) - 1]) = [frame |-> f, at |-> k - 1]
        BY <3>2 DEF Place
      <3>4. QED
        BY <2>1, <2>3, <3>1, <3>3, Zenon DEF Follows
    <2>4. QED
      BY <2>2, <2>3
  <1>7. Chained(fr, p, more)
    <2>1. DOMAIN more = 1 .. Len(s) + n
      BY <1>4
    <2>2. ASSUME NEW k \in 1 .. Len(s) + n
          PROVE  Follows(fr, IF k = 1 THEN p ELSE Place(more[k - 1]), more[k])
      <3>1. CASE k \in 1 .. Len(s)
        BY <1>5, <3>1
      <3>2. CASE k \notin 1 .. Len(s)
        <4>1. k - Len(s) \in 1 .. n /\ Len(s) + (k - Len(s)) = k
          BY <1>1, <1>3, <3>2
        <4>2. QED
          BY <1>6, <4>1
      <3>3. QED
        BY <3>1, <3>2
    <2>3. QED
      BY <2>1, <2>2, Zenon DEF Chained
  <1>8. Ends(fr, LastPlace(p, more)) /\ LastPlace(p, more).frame = f
    <2>1. n \in 1 .. n /\ Len(more) = Len(s) + n /\ Len(more) # 0
      BY <1>1, <1>3, <1>4
    <2>2. more[Len(more)].frame = f /\ more[Len(more)].at = n
      BY <1>2, <1>4, <2>1
    <2>3. more # <<>>
      BY <1>4, <2>1
    <2>4. LastPlace(p, more) = [frame |-> f, at |-> n]
      BY <2>2, <2>3 DEF LastPlace, Place
    <2>5. LastPlace(p, more).frame = f /\ LastPlace(p, more).at = n
      BY <2>4
    <2>6. QED
      BY <2>5 DEF Ends, n
  <1>9. QED
    BY <1>7, <1>8 DEF more, bytes

LEMMA EndsKept ==
    ASSUME Kept
    PROVE  /\ \A p : Ends(frames, p) => Ends(frames', p)
           /\ \A p, s : Chained(frames, p, s) => Chained(frames', p, s)
  <1>1. \A p : Ends(frames, p) => Ends(frames', p)
    BY DEF Kept, Ends
  <1>2. \A p, e : Follows(frames, p, e) => Follows(frames', p, e)
    BY <1>1 DEF Follows
  <1>3. QED
    BY <1>1, <1>2 DEF Chained

\* Reasons are not forgotten.
LEMMA StillExplained == TypeOK /\ Explained /\ [Next]_vars => Explained'
  <1> SUFFICES ASSUME TypeOK, Explained, [Next]_vars PROVE Explained'
    OBVIOUS
  <1>1. overlapped => overlapped'
    BY DEF Next, Writing, Sending, Completing, asyncSendMessageToSerialPort,
       PushByte, PushEnds, TestInProgress, StartWrite, WriteCompletes,
       TestEmpty, ClearInProgress, WriteFails, operationalFailure, Goto,
       Reading, ReadByte, LoseByte, ChangeByte, vars, writer
  <1>2. noise > 0 => noise' > 0
    <2>1. noise' = noise \/ noise' = noise + 1
      BY DEF Next, Writing, Sending, Completing, asyncSendMessageToSerialPort,
         PushByte, PushEnds, TestInProgress, StartWrite, WriteCompletes,
         TestEmpty, ClearInProgress, WriteFails, operationalFailure,
         Completes, Reading, ReadByte, LoseByte, ChangeByte, vars
    <2>2. noise \in Nat
      BY BoundsAssumption DEF TypeOK
    <2>3. QED
      BY <2>1, <2>2
  <1>3. ASSUME NEW f \in DOMAIN frames, frames[f].cut
        PROVE  \E g \in DOMAIN frames' : frames'[g].cut
    <2>1. frames \in Seq([message : Payloads, cut : BOOLEAN])
      BY DEF TypeOK
    <2>2. CASE UNCHANGED frames
      BY <1>3, <2>2
    <2>3. ASSUME NEW e, frames' = Append(frames, e)
          PROVE  \E g \in DOMAIN frames' : frames'[g].cut
      <3>1. f \in DOMAIN Append(frames, e) /\ Append(frames, e)[f] = frames[f]
        BY <2>1, AppendKeeps
      <3>2. QED
        BY <1>3, <2>3, <3>1
    <2>4. ASSUME NEW g, frames' = [frames EXCEPT ![g].cut = TRUE]
          PROVE  \E h \in DOMAIN frames' : frames'[h].cut
      <3>1. DOMAIN frames' = DOMAIN frames /\ frames'[f].cut
        BY <1>3, <2>1, <2>4, CutFrame
      <3>2. QED
        BY <3>1
    <2>5. \/ UNCHANGED frames \/ \E e : frames' = Append(frames, e)
          \/ \E g : frames' = [frames EXCEPT ![g].cut = TRUE]
      BY DEF Next, Writing, Sending, Completing, asyncSendMessageToSerialPort,
         PushByte, PushEnds, TestInProgress, StartWrite, WriteCompletes,
         TestEmpty, ClearInProgress, WriteFails, operationalFailure,
         Completes, Reading, ReadByte, LoseByte, ChangeByte, vars, writer
    <2>6. QED
      BY <2>2, <2>3, <2>4, <2>5
  <1>4. QED
    BY <1>1, <1>2, <1>3 DEF Explained

LEMMA OrderedInit == Init => Ordered
  <1> SUFFICES ASSUME Init PROVE Ordered
    OBVIOUS
  <1>1. /\ line = <<>> /\ writeBuffer = <<>> /\ todo = [t \in Threads |-> <<>>]
        /\ track = NoPlace /\ rx = reset_rx /\ delivered = {}
    BY DEF Init
  <1>2. <<>> \o <<>> = <<>> /\ DOMAIN <<>> = {}
    OBVIOUS
  <1>3. Stream = <<>>
    BY <1>1, <1>2 DEF Stream, Threads
  <1>4. NoPlace.frame = Len(frames)
    <2>1. frames = <<>> /\ Len(<<>>) = 0
      BY DEF Init
    <2>2. QED
      BY <2>1 DEF NoPlace
  <1>5. QED
    BY <1>1, <1>2, <1>3, <1>4 DEF Ordered, Chained, LastPlace, Ends

\* The stream after each way in which its parts move.
LEMMA Moves ==
    ASSUME NEW S, NEW a \in Seq(S), NEW b \in Seq(S), NEW c \in Seq(S)
    PROVE  /\ a \o b \in Seq(S)
           /\ <<>> \o a = a /\ a \o <<>> = a
           /\ (a \o b) \o c = a \o (b \o c)
           /\ a # <<>> => /\ a \o b # <<>> /\ Head(a \o b) = Head(a)
                          /\ Tail(a) \o b = Tail(a \o b)
                          /\ Append(c, Head(a)) \o Tail(a) = c \o a
           /\ \A n \in 0 .. Len(a) : SubSeq(a, 1, n) \o SubSeq(a, n + 1, Len(a)) = a
  <1>1. a # <<>> => /\ a \o b # <<>> /\ Head(a \o b) = Head(a)
                    /\ Tail(a) \o b = Tail(a \o b)
    OBVIOUS
  <1>2. a # <<>> => Append(c, Head(a)) \o Tail(a) = c \o a
    OBVIOUS
  <1>3. ASSUME NEW n \in 0 .. Len(a)
        PROVE  SubSeq(a, 1, n) \o SubSeq(a, n + 1, Len(a)) = a
    <2> DEFINE front == SubSeq(a, 1, n)
               back  == SubSeq(a, n + 1, Len(a))
    <2>1. /\ front \in Seq(S) /\ Len(front) = n
          /\ \A k \in 1 .. n : front[k] = a[k]
      OBVIOUS
    <2>2. /\ back \in Seq(S) /\ Len(back) = Len(a) - n
          /\ \A k \in 1 .. Len(a) - n : back[k] = a[n + k]
      OBVIOUS
    <2> HIDE DEF front, back
    <2>3. /\ front \o back \in Seq(S) /\ Len(front \o back) = Len(a)
          /\ \A k \in 1 .. Len(a) : (front \o back)[k] = a[k]
      <3>1. \A x, y \in Seq(S) :
                /\ x \o y \in Seq(S) /\ Len(x \o y) = Len(x) + Len(y)
                /\ \A k \in 1 .. Len(x) : (x \o y)[k] = x[k]
                /\ \A k \in 1 .. Len(y) : (x \o y)[Len(x) + k] = y[k]
        BY ConcatFacts, ConcatElements
      <3>2. /\ front \o back \in Seq(S) /\ Len(front \o back) = n + (Len(a) - n)
            /\ \A k \in 1 .. n : (front \o back)[k] = front[k]
            /\ \A k \in 1 .. Len(a) - n : (front \o back)[n + k] = back[k]
        <4>1. /\ front \o back \in Seq(S)
              /\ Len(front \o back) = Len(front) + Len(back)
              /\ \A k \in 1 .. Len(front) : (front \o back)[k] = front[k]
              /\ \A k \in 1 .. Len(back) :
                    (front \o back)[Len(front) + k] = back[k]
          <5>1. front \in Seq(S) /\ back \in Seq(S)
            BY <2>1, <2>2
          <5>2. QED
            BY <3>1, <5>1, Zenon
        <4>2. Len(front) = n /\ Len(back) = Len(a) - n
          BY <2>1, <2>2
        <4>3. QED
          BY <4>1, <4>2
      <3>3. Len(a) \in Nat /\ n \in Nat /\ n + (Len(a) - n) = Len(a)
        OBVIOUS
      <3>4. ASSUME NEW k \in 1 .. Len(a) PROVE (front \o back)[k] = a[k]
        <4>1. CASE k \in 1 .. n
          BY <2>1, <3>2, <4>1
        <4>2. CASE k \notin 1 .. n
          <5>1. k - n \in 1 .. Len(a) - n /\ n + (k - n) = k
            BY <3>3, <4>2
          <5>2. (front \o back)[n + (k - n)] = back[k - n]
            BY <3>2, <5>1
          <5>3. back[k - n] = a[n + (k - n)]
            BY <2>2, <5>1
          <5>4. QED
            BY <5>1, <5>2, <5>3
        <4>3. QED
          BY <4>1, <4>2
      <3>5. QED
        BY <3>2, <3>3, <3>4
    <2>4. \A x, y \in Seq(S) :
            Len(x) = Len(y) /\ (\A k \in 1 .. Len(y) : x[k] = y[k]) => x = y
      OBVIOUS
    <2>5. front \o back = a
      BY <2>3, <2>4
    <2>6. QED
      BY <2>5 DEF front, back
  <1>4. a \o b \in Seq(S) /\ <<>> \o a = a /\ a \o <<>> = a
    OBVIOUS
  <1>5. (a \o b) \o c = a \o (b \o c)
    OBVIOUS
  <1>6. QED
    BY <1>1, <1>2, <1>3, <1>4, <1>5, Zenon

LEMMA FrontOfFront ==
    ASSUME NEW S, NEW s \in Seq(S), NEW t \in Seq(S), NEW n \in 0 .. Len(s),
           Len(s) <= Len(t), s = SubSeq(t, 1, Len(s))
    PROVE  n \in 0 .. Len(t) /\ SubSeq(s, 1, n) = SubSeq(t, 1, n)
  OBVIOUS

\* Nothing is delivered by a decoder that has just been reset.
LEMMA EmptyDelivers == \A byte : Delivers(reset_rx, byte) = {}
  <1>1. Len(<<>>) = 0 /\ ~(0 >= 2)
    OBVIOUS
  <1>2. QED
    BY <1>1 DEF Delivers, reset_rx

LEMMA StreamType ==
    ASSUME TypeOK
    PROVE  /\ line \in Seq(Tags) /\ writeBuffer \in Seq(Tags)
           /\ todo["io"] \in Seq(Tags) /\ todo["service"] \in Seq(Tags)
           /\ todo["io"] \o todo["service"] \in Seq(Tags)
           /\ writeBuffer \o (todo["io"] \o todo["service"]) \in Seq(Tags)
           /\ Stream \in Seq(Tags)
  <1>1. /\ line \in Seq(Tags) /\ writeBuffer \in Seq(Tags)
        /\ todo["io"] \in Seq(Tags) /\ todo["service"] \in Seq(Tags)
    BY DEF TypeOK, Threads
  <1>2. \A a, b \in Seq(Tags) : a \o b \in Seq(Tags)
    BY ConcatFacts
  <1>3. todo["io"] \o todo["service"] \in Seq(Tags)
    BY <1>1, <1>2
  <1>4. writeBuffer \o (todo["io"] \o todo["service"]) \in Seq(Tags)
    BY <1>1, <1>2, <1>3
  <1>5. Stream \in Seq(Tags)
    BY <1>1, <1>2, <1>4 DEF Stream
  <1>6. QED
    BY <1>1, <1>3, <1>4, <1>5

\* The step that reads a byte takes it from the stream.
LEMMA OrderedRead ==
    ASSUME TypeOK, Origin, InPlace, Ordered, ~Explained, ReadByte
    PROVE  Ordered'
  <1> DEFINE e == Head(line)
             rest == writeBuffer \o (todo["io"] \o todo["service"])
  <1>1. /\ line \in Seq(Tags) /\ line # <<>> /\ rest \in Seq(Tags)
        /\ Stream \in Seq(Tags) /\ Stream = line \o rest
    BY StreamType DEF ReadByte, Stream
  <1>2. /\ line' = Tail(line) /\ Reads(e)
        /\ UNCHANGED <<frames, writeBuffer, todo>>
    BY DEF ReadByte, writer
  <1>3. e \in Tags /\ Genuine(frames, e)
    BY <1>1, QueueFacts, GenuineParts DEF Origin
  <1> HIDE DEF e, rest
  <1>4. /\ Stream # <<>> /\ Head(Stream) = Head(line)
        /\ Tail(line) \o rest = Tail(Stream)
    BY <1>1, Moves
  <1>5. Head(Stream) = e
    BY <1>4 DEF e
  <1>6. Stream' = Tail(Stream)
    BY <1>2, <1>4 DEF Stream, rest
  <1>7. /\ Follows(frames, track, e)
        /\ Chained(frames, Place(e), Stream')
        /\ LastPlace(Place(e), Stream') = LastPlace(track, Stream)
    BY <1>1, <1>4, <1>5, <1>6, ChainedTail DEF Ordered
  <1>8. e.at \in Nat /\ e.at >= 1 /\ e.frame \in DOMAIN frames
    BY <1>3 DEF Genuine, Tags
  <1>9. InSequence(e)
    BY <1>7, <1>8 DEF InSequence, Follows
  <1>10. track' = Place(e) /\ track'.at = e.at
    BY <1>2, <1>9 DEF Reads, Place
  <1>11. track' # NoPlace
    BY <1>8, <1>10 DEF NoPlace
  <1>12. ASSUME e.at = 1 PROVE delivered' = {}
    <2>1. Ends(frames, track)
      BY <1>7, <1>12 DEF Follows
    <2>2. CASE track = NoPlace
      BY <2>2, <1>2, EmptyDelivers DEF Reads, Ordered
    <2>3. CASE track # NoPlace
      <3>1. rx = reset_rx
        BY <2>1, <2>3 DEF Ends, InPlace
      <3>2. QED
        BY <1>2, <3>1, EmptyDelivers DEF Reads
    <2>4. QED
      BY <2>2, <2>3
  <1>13. track'.at <= 1 => delivered' = {}
    BY <1>8, <1>10, <1>12
  <1>14. /\ Chained(frames', track', Stream')
         /\ Ends(frames', LastPlace(track', Stream'))
         /\ LastPlace(track', Stream').frame = Len(frames')
    BY <1>2, <1>7, <1>10 DEF Ordered
  <1>15. QED
    BY <1>11, <1>13, <1>14, Zenon DEF Ordered

\* A step that leaves the stream and the reader alone leaves the order alone.
LEMMA OrderedSame ==
    ASSUME TypeOK, Ordered, ~Explained, Stream' = Stream, UNCHANGED <<reader,
                                                                      frames>>
    PROVE  Ordered'
  <1>1. UNCHANGED <<rx, delivered, track>>
    BY DEF reader
  <1>2. QED
    BY <1>1 DEF Ordered

\* A message that is sent begins where the stream ends.
LEMMA OrderedSend ==
    ASSUME TypeOK, Turn, OneChain, Ordered, ~Explained, ~overlapped', Kept, line = <<>>,
           NEW t \in Threads, NEW m \in Payloads, asyncSendMessageToSerialPort(t, m)
    PROVE  Ordered'
  <1> DEFINE f == Len(frames) + 1
             bytes == Tagged(f, Frame(m))
  <1>1. Threads = {"io", "service"} /\ "io" # "service" /\ "push" \in Labels
    BY DEF Threads, Labels
  <1>2. \A u \in Threads : todo[u] = <<>>
    <2>1. pc[t] = "idle" /\ Goto(t, "push")
      BY DEF asyncSendMessageToSerialPort
    <2>2. \A u \in Threads \ {t} : pc[u] = "idle"
      BY <1>1, <2>1, OtherOutside
    <2>3. QED
      BY <2>1, <2>2 DEF OneChain
  <1>3. /\ frames' = Append(frames, [message |-> m, cut |-> FALSE])
        /\ todo' = [todo EXCEPT ![t] = bytes]
        /\ UNCHANGED <<line, writeBuffer, reader>> /\ Len(frames) < MaxFrames
    BY DEF asyncSendMessageToSerialPort, Frame
  <1>4. frames \in Seq([message : Payloads, cut : BOOLEAN]) /\ Len(frames) \in Nat
    BY DEF TypeOK
  <1>5. f \in (0 .. MaxFrames) \ {0}
    BY <1>3, <1>4, BoundsAssumption
  <1>6. f \in DOMAIN frames' /\ frames'[f].message = m
    <2>1. f \in DOMAIN frames' /\ frames'[f] = [message |-> m, cut |-> FALSE]
      BY <1>3, <1>4
    <2>2. QED
      BY <2>1
  <1>7. bytes \in Seq(Tags)
    BY <1>5, TaggedFacts
  <1> HIDE DEF bytes, f
  <1>8. todo'["io"] \o todo'["service"] = bytes /\ todo["io"] \o todo["service"] = <<>>
    <2>1. <<>> \o bytes = bytes /\ bytes \o <<>> = bytes /\ <<>> \o <<>> = <<>>
      BY <1>7, ConcatFacts
    <2>2. todo \in [Threads -> Seq(Tags)]
      BY DEF TypeOK
    <2>3. CASE t = "io"
      <3>1. todo'["io"] = bytes /\ todo'["service"] = <<>>
        BY <1>1, <1>2, <1>3, <2>2, <2>3
      <3>2. QED
        BY <1>1, <1>2, <2>1, <3>1
    <2>4. CASE t = "service"
      <3>1. todo'["service"] = bytes /\ todo'["io"] = <<>>
        BY <1>1, <1>2, <1>3, <2>2, <2>4
      <3>2. QED
        BY <1>1, <1>2, <2>1, <3>1
    <2>5. QED
      BY <1>1, <2>3, <2>4
  <1>9. Stream \in Seq(Tags) /\ Stream' = Stream \o bytes
    <2>1. /\ writeBuffer \in Seq(Tags) /\ writeBuffer \o <<>> = writeBuffer
          /\ <<>> \o writeBuffer = writeBuffer
      BY StreamType, ConcatFacts
    <2>2. Stream = writeBuffer
      BY <1>8, <2>1 DEF Stream
    <2>3. writeBuffer \o bytes \in Seq(Tags)
      BY <1>7, <2>1, ConcatFacts
    <2>4. <<>> \o (writeBuffer \o bytes) = writeBuffer \o bytes
      BY <2>3, ConcatFacts
    <2>5. Stream' = <<>> \o (writeBuffer \o bytes)
      BY <1>3, <1>8 DEF Stream
    <2>6. QED
      BY <2>1, <2>2, <2>4, <2>5
  <1>10. /\ Chained(frames', track, Stream) /\ Ends(frames', LastPlace(track, Stream))
         /\ f = LastPlace(track, Stream).frame + 1
    BY EndsKept DEF Ordered, f
  <1>11. /\ Chained(frames', track, Stream \o bytes)
         /\ Ends(frames', LastPlace(track, Stream \o bytes))
         /\ LastPlace(track, Stream \o bytes).frame = f
    BY <1>5, <1>6, <1>9, <1>10, ChainedFrame, SMTT(30) DEF bytes
  <1>12. UNCHANGED <<rx, delivered, track>>
    BY <1>3 DEF reader
  <1>13. f = Len(frames')
    BY <1>3, <1>4 DEF f
  <1>14. QED
    BY <1>9, <1>11, <1>12, <1>13 DEF Ordered

LEMMA StreamPush ==
    ASSUME TypeOK, Turn, OneChain, ~overlapped', NEW t \in Threads, PushByte(t)
    PROVE  Stream' = Stream
  <1> DEFINE io == todo["io"]
             service == todo["service"]
  <1>1. Threads = {"io", "service"} /\ "io" # "service" /\ "push" \in Labels
    BY DEF Threads, Labels
  <1>2. \A u \in Threads \ {t} : todo[u] = <<>>
    <2>1. pc[t] = "push" /\ Goto(t, "push")
      BY DEF PushByte
    <2>2. \A u \in Threads \ {t} : pc[u] = "idle"
      BY <1>1, <2>1, OtherOutside
    <2>3. QED
      BY <2>2 DEF OneChain
  <1>3. /\ writeBuffer' = Append(writeBuffer, Head(todo[t])) /\ todo[t] # <<>>
        /\ todo' = [todo EXCEPT ![t] = Tail(todo[t])] /\ UNCHANGED line
    BY DEF PushByte
  <1>4. writeBuffer \in Seq(Tags) /\ io \in Seq(Tags) /\ service \in Seq(Tags)
        /\ todo \in [Threads -> Seq(Tags)]
    BY StreamType DEF TypeOK
  <1>5. \A a \in Seq(Tags) : <<>> \o a = a /\ a \o <<>> = a
    BY ConcatFacts
  <1>6. todo["io"] \o todo["service"] = todo[t]
    <2>1. CASE t = "io"
      BY <1>1, <1>2, <1>4, <1>5, <2>1
    <2>2. CASE t = "service"
      BY <1>1, <1>2, <1>4, <1>5, <2>2
    <2>3. QED
      BY <1>1, <2>1, <2>2
  <1>7. todo'["io"] \o todo'["service"] = Tail(todo[t])
    <2>1. todo[t] \in Seq(Tags) /\ Tail(todo[t]) \in Seq(Tags)
      BY <1>3, <1>4, QueueFacts
    <2>2. CASE t = "io"
      <3>1. todo'["io"] = Tail(todo[t]) /\ todo'["service"] = <<>>
        BY <1>1, <1>2, <1>3, <1>4, <2>2
      <3>2. QED
        BY <1>5, <2>1, <3>1
    <2>3. CASE t = "service"
      <3>1. todo'["service"] = Tail(todo[t]) /\ todo'["io"] = <<>>
        BY <1>1, <1>2, <1>3, <1>4, <2>3
      <3>2. QED
        BY <1>5, <2>1, <3>1
    <2>4. QED
      BY <1>1, <2>2, <2>3
  <1>8. Append(writeBuffer, Head(todo[t])) \o Tail(todo[t]) = writeBuffer \o todo[t]
    <2>1. todo[t] \in Seq(Tags)
      BY <1>4
    <2>2. QED
      BY <1>3, <1>4, <2>1, Moves
  <1>9. QED
    BY <1>3, <1>6, <1>7, <1>8 DEF Stream

\* What a completed write put on the line is what it took from the buffer.
LEMMA StreamWritten ==
    ASSUME TypeOK, OneChain, line = <<>>, NEW i \in DOMAIN writes, WriteCompletes(i)
    PROVE  Stream' = Stream
  <1> DEFINE rest == todo["io"] \o todo["service"]
  <1>1. /\ i = 1 /\ writes[1] \in Seq(Tags) /\ Begins(writes[1], writeBuffer)
    BY LastWrite
  <1>2. PICK n \in Transferred(writes[1]) :
                /\ line' = SubSeq(writes[1], 1, n)
                /\ writeBuffer' = SubSeq(writeBuffer, n + 1, Len(writeBuffer))
    BY <1>1 DEF WriteCompletes
  <1>3. /\ writeBuffer \in Seq(Tags) /\ rest \in Seq(Tags) /\ UNCHANGED todo
    BY StreamType DEF WriteCompletes, Completes
  <1> HIDE DEF rest
  <1>4. n \in 0 .. Len(writes[1])
    BY <1>1 DEF Transferred
  <1>5. n \in 0 .. Len(writeBuffer) /\ line' = SubSeq(writeBuffer, 1, n)
    BY <1>1, <1>2, <1>3, <1>4, FrontOfFront DEF Begins
  <1>6. line' \o writeBuffer' = writeBuffer
    <2>1. \A a \in Seq(Tags) : \A k \in 0 .. Len(a) :
                SubSeq(a, 1, k) \o SubSeq(a, k + 1, Len(a)) = a
      BY Moves
    <2>2. SubSeq(writeBuffer, 1, n) \o SubSeq(writeBuffer, n + 1, Len(writeBuffer))
                = writeBuffer
      BY <1>3, <1>5, <2>1, Zenon
    <2>3. QED
      BY <1>2, <1>5, <2>2, Zenon
  <1>7. line' \in Seq(Tags) /\ writeBuffer' \in Seq(Tags)
    <2>1. /\ SubSeq(writeBuffer, 1, n) \in Seq(Tags)
          /\ SubSeq(writeBuffer, n + 1, Len(writeBuffer)) \in Seq(Tags)
      BY <1>3, <1>5, QueueFacts
    <2>2. QED
      BY <1>2, <1>5, <2>1, Zenon
  <1>8. line' \o (writeBuffer' \o rest) = (line' \o writeBuffer') \o rest
    BY <1>3, <1>7, TagsAssociative, Zenon
  <1>9. writeBuffer \o rest \in Seq(Tags) /\ <<>> \o (writeBuffer \o rest) = writeBuffer \o rest
    BY <1>3, Moves, ConcatFacts
  <1>10. Stream = <<>> \o (writeBuffer \o rest)
    BY DEF Stream, rest
  <1>11. Stream' = line' \o (writeBuffer' \o rest)
    BY <1>3 DEF Stream, rest
  <1>12. QED
    BY <1>6, <1>8, <1>9, <1>10, <1>11

LEMMA OrderedStep ==
    TypeOK /\ Turn /\ Chain /\ Origin /\ InPlace /\ Ordered /\ [Next]_vars => Ordered'
  <1> SUFFICES ASSUME TypeOK, Turn, Chain, Origin, InPlace, Ordered, [Next]_vars,
                      ~Explained'
               PROVE  Ordered'
    BY DEF Ordered
  <1>1. ~Explained /\ ~overlapped'
    BY StillExplained DEF Explained
  <1>2. OneChain
    BY <1>1 DEF Chain, Explained
  <1>3. Kept
    BY FramesKept
  <1>4. ASSUME NEW t \in Threads, NEW m \in Payloads,
               asyncSendMessageToSerialPort(t, m), line = <<>>
        PROVE  Ordered'
    BY <1>1, <1>2, <1>3, <1>4, OrderedSend
  <1>5. ASSUME NEW t \in Threads, PushByte(t) PROVE Ordered'
    <2>1. UNCHANGED <<reader, frames>>
      BY <1>5 DEF PushByte
    <2>2. Stream' = Stream
      BY <1>1, <1>2, <1>5, StreamPush
    <2>3. QED
      BY <1>1, <2>1, <2>2, OrderedSame
  <1>6. ASSUME NEW t \in Threads, PushEnds(t) PROVE Ordered'
    <2>1. UNCHANGED <<reader, line, writeBuffer>>
      BY <1>6 DEF PushEnds
    <2>2. CASE todo[t] = <<>>
      <3>1. UNCHANGED <<todo, frames>>
        BY <1>6, <2>2 DEF PushEnds, TypeOK
      <3>2. QED
        BY <1>1, <2>1, <3>1, OrderedSame DEF Stream
    <2>3. CASE todo[t] # <<>>
      <3> DEFINE f == Head(todo[t]).frame
      <3>1. Genuine(frames, Head(todo[t]))
        BY <2>3, GenuineParts DEF Origin, TypeOK
      <3>2. f \in DOMAIN frames
        BY <3>1 DEF Genuine
      <3>3. frames' = [frames EXCEPT ![f].cut = TRUE]
        BY <1>6, <2>3 DEF PushEnds
      <3> HIDE DEF f
      <3>4. frames'[f].cut /\ f \in DOMAIN frames'
        BY <3>2, <3>3, CutFrame DEF TypeOK
      <3>5. QED
        BY <3>4 DEF Explained
    <2>4. QED
      BY <2>2, <2>3
  <1>7. ASSUME NEW i \in DOMAIN writes, WriteCompletes(i), line = <<>> PROVE Ordered'
    <2>1. UNCHANGED <<reader, frames>>
      BY <1>7 DEF WriteCompletes, Completes
    <2>2. Stream' = Stream
      BY <1>2, <1>7, StreamWritten
    <2>3. QED
      BY <1>1, <2>1, <2>2, OrderedSame
  <1>8. CASE ReadByte
    BY <1>1, <1>8, OrderedRead
  <1>9. CASE LoseByte \/ \E byte \in NoiseBytes : ChangeByte(byte)
    <2>1. noise' = noise + 1
      BY <1>9 DEF LoseByte, ChangeByte
    <2>2. noise \in Nat
      BY BoundsAssumption DEF TypeOK
    <2>3. noise' > 0
      BY <2>1, <2>2
    <2>4. QED
      BY <2>3 DEF Explained
  <1>10. CASE \/ (\E t \in Threads : TestInProgress(t) \/ StartWrite(t))
              \/ TestEmpty \/ ClearInProgress \/ operationalFailure
              \/ (\E i \in DOMAIN writes : WriteFails(i)) \/ UNCHANGED vars
    <2>1. UNCHANGED <<reader, frames, line, writeBuffer, todo>>
      BY <1>10 DEF TestInProgress, StartWrite, TestEmpty, ClearInProgress,
         operationalFailure, WriteFails, Completes, vars, writer
    <2>2. QED
      BY <1>1, <2>1, OrderedSame DEF Stream
  <1>11. QED
    BY <1>4, <1>5, <1>6, <1>7, <1>8, <1>9, <1>10
       DEF Next, Reading, Writing, Sending, Completing

LEMMA OrderedDelivers ==
    TypeOK /\ Origin /\ InPlace /\ Ordered => DeliveredInOrder
  <1> SUFFICES ASSUME TypeOK, Origin, InPlace, Ordered, ~Explained
               PROVE  DeliveredInOrder
    BY DEF DeliveredInOrder
  <1>1. \A f \in DOMAIN frames : delivered = {frames[f].message} \/ ~ReadWhole(f)
    BY InPlaceDelivers DEF WholeFramesDelivered
  <1>2. track = [frame |-> track.frame, at |-> track.at] /\ track.at \in Nat
    BY DEF TypeOK
  <1>3. ASSUME track # NoPlace, Ends(frames, track)
        PROVE  \E f \in DOMAIN frames : ReadWhole(f)
    <2>1. /\ track.frame \in DOMAIN frames
          /\ track.at = Len(createSlipEncodedMessage(frames[track.frame].message))
      BY <1>3 DEF Ends, Frame
    <2>2. ReadWhole(track.frame)
      BY <1>2, <2>1, Zenon DEF ReadWhole
    <2>3. QED
      BY <2>1, <2>2
  <1>4. ASSUME delivered # {} PROVE \E f \in DOMAIN frames : ReadWhole(f)
    <2>1. ~(track.at <= 1)
      BY <1>4 DEF Ordered
    <2>2. track.at > 1 /\ track # NoPlace
      BY <1>2, <2>1 DEF NoPlace
    <2>3. Ends(frames, track)
      BY <1>4, <2>2 DEF InPlace, Ends
    <2>4. QED
      BY <1>3, <2>2, <2>3
  <1>5. ASSUME line # <<>>
        PROVE  /\ InSequence(Head(line))
               /\ Head(line).at = 1 => Settled /\ Head(line).frame = track.frame + 1
    <2>1. /\ line \in Seq(Tags) /\ Stream \in Seq(Tags)
          /\ writeBuffer \o (todo["io"] \o todo["service"]) \in Seq(Tags)
      BY StreamType
    <2>2. Stream # <<>> /\ Head(Stream) = Head(line)
      <3>1. \A a, b \in Seq(Tags) :
                a # <<>> => a \o b # <<>> /\ Head(a \o b) = Head(a)
        BY Moves
      <3>2. QED
        BY <1>5, <2>1, <3>1, Zenon DEF Stream
    <2>3. Follows(frames, track, Head(line))
      BY <2>1, <2>2, ChainedTail DEF Ordered
    <2>4. Head(line) \in Tags /\ Genuine(frames, Head(line))
      BY <1>5, <2>1, QueueFacts, GenuineParts DEF Origin
    <2>5. Head(line).at \in Nat /\ Head(line).at >= 1
      BY <2>4 DEF Genuine, Tags
    <2>6. InSequence(Head(line))
      BY <2>3, <2>5 DEF InSequence, Follows
    <2>7. Head(line).at = 1 => Settled /\ Head(line).frame = track.frame + 1
      BY <1>3, <2>3 DEF Follows, Settled
    <2>8. QED
      BY <2>6, <2>7
  <1>6. ASSUME Flushed PROVE track.frame = Len(frames) /\ Settled
    <2>1. <<>> \o <<>> = <<>>
      OBVIOUS
    <2>2. todo["io"] = <<>> /\ todo["service"] = <<>>
      BY <1>6 DEF Flushed, Threads
    <2>3. Stream = <<>>
      BY <1>6, <2>1, <2>2 DEF Flushed, Stream
    <2>4. LastPlace(track, Stream) = track
      BY <2>3 DEF LastPlace
    <2>5. Ends(frames, track) /\ track.frame = Len(frames)
      BY <2>4 DEF Ordered
    <2>6. QED
      BY <1>3, <2>5 DEF Settled
  <1>7. QED
    BY <1>1, <1>4, <1>5, <1>6 DEF DeliveredInOrder

\* Without noise, without a frame cut short for lack of room and without two
\* threads inside the object at once, the reader delivers each message that
\* was sent once, in the order of sending, and nothing else: partial writes,
\* failed writes and the stop after a failed read lose no byte, repeat none
\* and reorder none (asyncSendDataToSerialPort, asyncWriteToSerialPortCb).
THEOREM AlwaysDeliveredInOrder == Spec => []DeliveredInOrder
  <1>1. OneChain => Chain
    BY DEF Chain
  <1>2. QED
    BY <1>1, TypeInit, TypeStep, ChainInit, TurnStep, ChainStep, OriginInit,
       OriginStep, InPlaceStep, OrderedInit, OrderedStep, OrderedDelivers,
       PTL DEF Spec

=============================================================================
