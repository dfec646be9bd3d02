--------------------------- MODULE EventStreamProofs ---------------------------
(***************************************************************************)
(* What the page makes of a stream, for every number of step events and        *)
(* however the network cuts the body into pieces.                              *)
(***************************************************************************)
EXTENDS EventStream, SequenceTheorems, TLAPS

-----------------------------------------------------------------------------
(* The inductive invariant.                                                   *)

\* The token at a place of what is still to be parsed: a buffer, then a wire.
Ahead(b, w, i) == IF i <= Len(b) THEN b[i] ELSE w[i - Len(b)]

\* These tokens are those of the frames of ks after the first h, up to some place.
Framed(b, w, ks, h) ==
  /\ Len(b) + Len(w) <= 5 * (Len(ks) - h)
  /\ \A q \in Nat, r \in 1..5 :
       5 * q + r <= Len(b) + Len(w) => Ahead(b, w, 5 * q + r) = Frame(ks[h + q + 1])[r]

\* What is still to be parsed are the frames of the events yielded and not handled,
\* all of them as long as the body is open.
FramesAhead ==
  /\ Framed(buffer, wire, yielded, Len(handled))
  /\ body = "open" => Len(buffer) + Len(wire) = 5 * (Len(yielded) - Len(handled))

HandledInOrder ==
  /\ Len(handled) <= Len(yielded)
  /\ \A i \in 1..Len(handled) : handled[i] = yielded[i]

\* Nothing is yielded after "done" or "error".
EndsOnce ==
  \A i \in 1..Len(yielded) : yielded[i] \in {"done", "error"} => i = Len(yielded)

SettledRight ==
  /\ result = "resolved" => body = "ended" /\ Contains(handled, "done")
  /\ result = "rejected" => body = "broken" \/ ~Contains(handled, "done")

IInv == TypeOK /\ FramesAhead /\ HandledInOrder /\ EndsOnce /\ SettledRight

-----------------------------------------------------------------------------
(* Frames and places.                                                         *)

LEMMA FrameTokens ==
  ASSUME NEW k \in Kinds
  PROVE  /\ Frame(k) \in Seq(Token) /\ Len(Frame(k)) = 5
         /\ Frame(k)[1] = <<"event", k>> /\ Frame(k)[2] = NewLine
         /\ Frame(k)[3] = <<"data", k>> /\ Frame(k)[4] = NewLine /\ Frame(k)[5] = NewLine
         /\ <<"event", k>> # NewLine /\ <<"data", k>> # NewLine
<1>1. <<"event", k>> \in Token /\ <<"data", k>> \in Token /\ NewLine \in Token
  BY DEF Token
<1>2. <<"event", k>> # NewLine /\ <<"data", k>> # NewLine
  BY DEF NewLine
<1> QED
  BY <1>1, <1>2 DEF Frame

\* What stands where in two sequences put together.
LEMMA ConcatPlaces ==
  ASSUME NEW s \in Seq(Token), NEW t \in Seq(Token)
  PROVE  /\ s \o t \in Seq(Token) /\ Len(s \o t) = Len(s) + Len(t)
         /\ \A i \in 1..Len(s) : (s \o t)[i] = s[i]
         /\ \A i \in 1..Len(t) : (s \o t)[Len(s) + i] = t[i]
<1>1. s \o t \in Seq(Token) /\ Len(s \o t) = Len(s) + Len(t)
  BY ConcatProperties
<1>2. \A i \in 1..Len(s) : (s \o t)[i] = s[i]
  OBVIOUS
<1>3. ASSUME NEW i \in 1..Len(t)
      PROVE  (s \o t)[Len(s) + i] = t[i]
  <2>1. Len(s) \in Nat /\ Len(t) \in Nat
    BY LenProperties
  <2>2. /\ Len(s) + i \in 1..(Len(s) + Len(t)) /\ ~(Len(s) + i <= Len(s))
        /\ Len(s) + i - Len(s) = i
    BY <2>1
  <2> QED
    BY <2>1, <2>2
<1> QED
  BY <1>1, <1>2, <1>3

\* Every place is in a frame, at one of its five tokens.
LEMMA PlaceInFrame ==
  ASSUME NEW i \in Nat, i > 0
  PROVE  \E q \in Nat, r \in 1..5 : i = 5 * q + r
<1> DEFINE q == (i - 1) \div 5
           r == ((i - 1) % 5) + 1
<1>1. q \in Nat /\ r \in 1..5 /\ i = 5 * q + r
  OBVIOUS
<1> QED
  BY <1>1

\* A frame is appended to the wire.
LEMMA FrameSent ==
  ASSUME NEW b \in Seq(Token), NEW w \in Seq(Token), NEW ks \in Seq(Kinds), NEW h \in Nat,
         NEW k \in Kinds, h <= Len(ks), Framed(b, w, ks, h),
         Len(b) + Len(w) = 5 * (Len(ks) - h)
  PROVE  /\ Framed(b, w \o Frame(k), Append(ks, k), h)
         /\ Len(b) + Len(w \o Frame(k)) = 5 * (Len(Append(ks, k)) - h)
<1> DEFINE f   == Frame(k)
           w2  == w \o f
           ks2 == Append(ks, k)
<1>1. f \in Seq(Token) /\ Len(f) = 5
  BY FrameTokens
<1> HIDE DEF f
<1>2. /\ w2 \in Seq(Token) /\ Len(w2) = Len(w) + Len(f)
      /\ \A i \in 1..Len(w) : w2[i] = w[i]
      /\ \A i \in 1..Len(f) : w2[Len(w) + i] = f[i]
  BY <1>1, ConcatPlaces
<1>3. /\ Len(ks2) = Len(ks) + 1
      /\ \A i \in 1..Len(ks) : ks2[i] = ks[i]
      /\ ks2[Len(ks) + 1] = k
  BY AppendProperties
<1> HIDE DEF w2, ks2
<1>4. Len(b) \in Nat /\ Len(w) \in Nat /\ Len(ks) \in Nat
  BY LenProperties
<1>5. ASSUME NEW q \in Nat, NEW r \in 1..5, 5 * q + r <= Len(b) + Len(w2)
      PROVE  Ahead(b, w2, 5 * q + r) = Frame(ks2[h + q + 1])[r]
  <2>1. CASE 5 * q + r <= Len(b) + Len(w)
    <3>1. Ahead(b, w2, 5 * q + r) = Ahead(b, w, 5 * q + r)
      <4>1. CASE 5 * q + r <= Len(b)
        BY <4>1 DEF Ahead
      <4>2. CASE 5 * q + r > Len(b)
        <5>1. 5 * q + r - Len(b) \in 1..Len(w)
          BY <1>4, <2>1, <4>2
        <5>2. w2[5 * q + r - Len(b)] = w[5 * q + r - Len(b)]
          BY <1>2, <5>1
        <5>3. ~(5 * q + r <= Len(b))
          BY <1>4, <4>2
        <5> QED
          BY <5>2, <5>3 DEF Ahead
      <4> QED
        BY <1>4, <4>1, <4>2
    <3>2. h + q + 1 \in 1..Len(ks)
      BY <1>4, <2>1
    <3>3. ks2[h + q + 1] = ks[h + q + 1]
      BY <1>3, <3>2
    <3> QED
      BY <2>1, <3>1, <3>3 DEF Framed
  <2>2. CASE 5 * q + r > Len(b) + Len(w)
    <3>1. q = Len(ks) - h
      <4> DEFINE x == Len(ks) - h
      <4>1. x \in Int /\ Len(b) + Len(w) = 5 * x
        BY <1>4
      <4>2. Len(b) + Len(w2) = 5 * x + 5
        BY <1>1, <1>2, <1>4, <4>1
      <4> HIDE DEF x
      <4>3. 5 * q + r > 5 * x /\ 5 * q + r <= 5 * x + 5
        BY <1>5, <2>2, <4>1, <4>2
      <4>4. q = x
        BY <4>1, <4>3
      <4> QED
        BY <4>4 DEF x
    <3>2. 5 * q + r - Len(b) = Len(w) + r /\ ~(5 * q + r <= Len(b))
      BY <1>4, <3>1
    <3>3. r \in 1..Len(f) /\ w2[Len(w) + r] = f[r]
      BY <1>1, <1>2
    <3>4. Ahead(b, w2, 5 * q + r) = f[r]
      BY <3>2, <3>3 DEF Ahead
    <3>5. h + q + 1 = Len(ks) + 1
      BY <1>4, <3>1
    <3> QED
      BY <1>3, <3>4, <3>5 DEF f
  <2> QED
    BY <1>4, <2>1, <2>2
<1>6. Len(b) + Len(w2) = 5 * (Len(ks2) - h)
  BY <1>1, <1>2, <1>3, <1>4
<1>7. Framed(b, w2, ks2, h)
  BY <1>1, <1>5, <1>6, <1>2, <1>3, <1>4 DEF Framed
<1> QED
  BY <1>6, <1>7 DEF w2, ks2, f

\* The wire is cut off.
LEMMA WireCut ==
  ASSUME NEW b \in Seq(Token), NEW w \in Seq(Token), NEW ks \in Seq(Kinds), NEW h \in Nat,
         NEW n \in 0..Len(w), Framed(b, w, ks, h)
  PROVE  SubSeq(w, 1, n) \in Seq(Token) /\ Framed(b, SubSeq(w, 1, n), ks, h)
<1> DEFINE w2 == SubSeq(w, 1, n)
<1>1. w2 \in Seq(Token) /\ Len(w2) = n /\ \A i \in 1..n : w2[i] = w[i]
  BY SubSeqProperties
<1> HIDE DEF w2
<1>2. Len(b) \in Nat /\ Len(w) \in Nat /\ Len(ks) \in Nat
  BY LenProperties
<1>3. ASSUME NEW i \in 1..(Len(b) + Len(w2))
      PROVE  Ahead(b, w2, i) = Ahead(b, w, i)
  <2>1. CASE i <= Len(b)
    BY <2>1 DEF Ahead
  <2>2. CASE i > Len(b)
    <3>1. i - Len(b) \in 1..n /\ ~(i <= Len(b))
      BY <1>1, <1>2, <2>2
    <3>2. w2[i - Len(b)] = w[i - Len(b)]
      BY <1>1, <3>1
    <3> QED
      BY <3>1, <3>2 DEF Ahead
  <2> QED
    BY <1>2, <2>1, <2>2
<1>4. Len(b) + Len(w2) <= Len(b) + Len(w)
  BY <1>1, <1>2
<1>5. Framed(b, w2, ks, h)
  BY <1>1, <1>2, <1>3, <1>4 DEF Framed
<1> QED
  BY <1>1, <1>5 DEF w2

\* A piece of the wire is moved to the buffer.
LEMMA PieceRead ==
  ASSUME NEW b \in Seq(Token), NEW w \in Seq(Token), NEW ks \in Seq(Kinds), NEW h \in Nat,
         NEW n \in 1..Len(w), Framed(b, w, ks, h)
  PROVE  LET b2 == b \o SubSeq(w, 1, n)
             w2 == SubSeq(w, n + 1, Len(w))
         IN  /\ b2 \in Seq(Token) /\ w2 \in Seq(Token) /\ Framed(b2, w2, ks, h)
             /\ Len(b2) + Len(w2) = Len(b) + Len(w)
<1> DEFINE p  == SubSeq(w, 1, n)
           b2 == b \o p
           w2 == SubSeq(w, n + 1, Len(w))
<1>1. Len(b) \in Nat /\ Len(w) \in Nat /\ Len(ks) \in Nat
  BY LenProperties
<1>2. p \in Seq(Token) /\ Len(p) = n /\ \A i \in 1..n : p[i] = w[i]
  BY SubSeqProperties
<1>3. /\ w2 \in Seq(Token) /\ Len(w2) = Len(w) - n
      /\ \A i \in 1..(Len(w) - n) : w2[i] = w[n + i]
  <2>1. \A i \in (n + 1)..Len(w) : w[i] \in Token
    OBVIOUS
  <2>2. /\ w2 \in Seq(Token)
        /\ Len(w2) = IF n + 1 <= Len(w) THEN Len(w) - (n + 1) + 1 ELSE 0
        /\ \A i \in 1..(Len(w) - (n + 1) + 1) : w2[i] = w[n + 1 + i - 1]
    BY <2>1, <1>1, SubSeqProperties
  <2> QED
    BY <1>1, <2>2
<1> HIDE DEF p, w2
<1>4. /\ b2 \in Seq(Token) /\ Len(b2) = Len(b) + n
      /\ \A i \in 1..Len(b) : b2[i] = b[i]
      /\ \A i \in 1..n : b2[Len(b) + i] = p[i]
  BY <1>2, ConcatPlaces
<1> HIDE DEF b2
<1>5. ASSUME NEW i \in 1..(Len(b) + Len(w))
      PROVE  Ahead(b2, w2, i) = Ahead(b, w, i)
  <2>1. CASE i <= Len(b)
    BY <1>1, <1>4, <2>1 DEF Ahead
  <2>2. CASE i > Len(b) /\ i <= Len(b) + n
    <3>1. i - Len(b) \in 1..n /\ b2[Len(b) + (i - Len(b))] = p[i - Len(b)]
      BY <1>1, <1>4, <2>2
    <3> QED
      BY <1>1, <1>2, <1>4, <2>2, <3>1 DEF Ahead
  <2>3. CASE i > Len(b) + n
    <3>1. i - (Len(b) + n) \in 1..(Len(w) - n)
      BY <1>1, <2>3
    <3>2. w2[i - (Len(b) + n)] = w[n + (i - (Len(b) + n))]
      BY <1>3, <3>1
    <3> QED
      BY <1>1, <1>4, <2>3, <3>2 DEF Ahead
  <2> QED
    BY <1>1, <2>1, <2>2, <2>3
<1>6. Len(b2) + Len(w2) = Len(b) + Len(w)
  BY <1>1, <1>3, <1>4
<1>7. Framed(b2, w2, ks, h)
  BY <1>1, <1>5, <1>6 DEF Framed
<1> QED
  BY <1>3, <1>4, <1>6, <1>7 DEF b2, w2, p

\* The first frame of the buffer is parsed: whatever else the buffer holds, its first
\* blank line ends that frame, and what is given to the handlers is its event.
LEMMA FrameHandled ==
  ASSUME NEW b \in Seq(Token), NEW w \in Seq(Token), NEW ks \in Seq(Kinds), NEW h \in Nat,
         Framed(b, w, ks, h), Boundaries(b) # {}
  PROVE  /\ h + 1 \in 1..Len(ks) /\ Parsed(Chunk(b)) = <<ks[h + 1]>>
         /\ Rest(b) \in Seq(Token) /\ Len(Rest(b)) + Len(w) = Len(b) + Len(w) - 5
         /\ Framed(Rest(b), w, ks, h + 1)
<1> DEFINE k == ks[h + 1]
           c == Chunk(b)
           d == Rest(b)
<1>1. Len(b) \in Nat /\ Len(w) \in Nat /\ Len(ks) \in Nat
  BY LenProperties
<1>2. ASSUME NEW q \in Nat, NEW r \in 1..5, 5 * q + r <= Len(b)
      PROVE  h + q + 1 \in 1..Len(ks) /\ b[5 * q + r] = Frame(ks[h + q + 1])[r]
  <2>1. 5 * q + r <= Len(b) + Len(w) /\ Len(b) + Len(w) <= 5 * (Len(ks) - h)
    BY <1>1, <1>2 DEF Framed
  <2>2. Ahead(b, w, 5 * q + r) = b[5 * q + r]
    BY <1>2 DEF Ahead
  <2>3. h + q + 1 \in 1..Len(ks)
    BY <1>1, <2>1
  <2> QED
    BY <2>1, <2>2, <2>3 DEF Framed
<1>3. \A i \in Boundaries(b) : i >= 4 /\ Len(b) >= 5
  <2> SUFFICES ASSUME NEW i \in Boundaries(b)
               PROVE  i >= 4 /\ Len(b) >= 5
    OBVIOUS
  <2>1. i \in Nat /\ i > 0 /\ i < Len(b) /\ b[i] = NewLine /\ b[i + 1] = NewLine
    BY <1>1 DEF Boundaries, BlankLine
  <2>2. PICK q \in Nat, r \in 1..5 : i = 5 * q + r
    BY <2>1, PlaceInFrame
  <2> HIDE DEF k, c, d
  <2>3. h + q + 1 \in 1..Len(ks) /\ b[i] = Frame(ks[h + q + 1])[r]
    <3>1. 5 * q + r <= Len(b)
      BY <1>1, <2>1, <2>2
    <3> QED
      BY <1>2, <2>2, <3>1
  <2>4. ks[h + q + 1] \in Kinds
    BY <2>3
  <2>5. r # 1 /\ r # 3
    BY <2>1, <2>3, <2>4, FrameTokens
  <2>6. r # 2
    <3>1. ASSUME r = 2
          PROVE  FALSE
      <4>1. b[5 * q + 3] = Frame(ks[h + q + 1])[3]
        BY <1>1, <1>2, <2>1, <2>2, <3>1
      <4>2. i + 1 = 5 * q + 3
        BY <2>2, <3>1
      <4> QED
        BY <2>1, <2>4, <4>1, <4>2, FrameTokens
    <3> QED
      BY <3>1
  <2>7. CASE r = 4
    BY <1>1, <2>1, <2>2, <2>7
  <2>8. CASE r = 5
    BY <1>1, <2>1, <2>2, <2>8
  <2> QED
    BY <2>5, <2>6, <2>7, <2>8
<1>4. PICK i0 \in Boundaries(b) : TRUE
  OBVIOUS
<1>5. Len(b) >= 5
  BY <1>3, <1>4
<1>6. h + 1 \in 1..Len(ks) /\ k \in Kinds /\ \A r \in 1..5 : b[r] = Frame(k)[r]
  <2>1. ASSUME NEW r \in 1..5
        PROVE  h + 1 \in 1..Len(ks) /\ b[r] = Frame(ks[h + 1])[r]
    <3>1. 0 \in Nat /\ 5 * 0 + r = r /\ h + 0 + 1 = h + 1 /\ r <= Len(b)
      BY <1>1, <1>5
    <3> HIDE DEF k, c, d
    <3>2. h + 0 + 1 \in 1..Len(ks) /\ b[5 * 0 + r] = Frame(ks[h + 0 + 1])[r]
      BY <1>2, <3>1
    <3> QED
      BY <3>1, <3>2
  <2>2. h + 1 \in 1..Len(ks)
    BY <2>1
  <2>3. \A r \in 1..5 : b[r] = Frame(k)[r]
    BY <2>1
  <2> QED
    BY <2>2, <2>3
<1>7. /\ b[1] = <<"event", k>> /\ b[2] = NewLine /\ b[3] = <<"data", k>>
      /\ b[4] = NewLine /\ b[5] = NewLine
  <2> HIDE DEF k
  <2>1. /\ b[1] = Frame(k)[1] /\ b[2] = Frame(k)[2] /\ b[3] = Frame(k)[3]
        /\ b[4] = Frame(k)[4] /\ b[5] = Frame(k)[5]
    BY <1>6
  <2> QED
    BY <1>6, <2>1, FrameTokens
<1>8. Min(Boundaries(b)) = 4
  <2>1. 4 \in Boundaries(b) /\ \A i \in Boundaries(b) : i \in Int /\ 4 <= i
    BY <1>1, <1>3, <1>5, <1>7 DEF Boundaries, BlankLine
  <2> QED
    BY <2>1 DEF Min
<1>9. c \in Seq(Token) /\ Len(c) = 3 /\ c[1] = b[1] /\ c[2] = b[2] /\ c[3] = b[3]
  <2>1. c = SubSeq(b, 1, 3)
    BY <1>8 DEF Chunk
  <2>2. \A i \in 1..3 : b[i] \in Token
    BY <1>1, <1>5
  <2>3. /\ SubSeq(b, 1, 3) \in Seq(Token) /\ Len(SubSeq(b, 1, 3)) = 3
        /\ \A i \in 1..3 : SubSeq(b, 1, 3)[i] = b[1 + i - 1]
    BY <2>2, SubSeqProperties
  <2> QED
    BY <2>1, <2>3
<1>10. /\ d \in Seq(Token) /\ Len(d) = Len(b) - 5
       /\ \A i \in 1..(Len(b) - 5) : d[i] = b[i + 5]
  <2> DEFINE e == SubSeq(b, 6, Len(b))
  <2>1. d = e
    BY <1>8 DEF Rest
  <2>2. \A i \in 6..Len(b) : b[i] \in Token
    BY <1>1
  <2>3. /\ e \in Seq(Token)
        /\ Len(e) = IF 6 <= Len(b) THEN Len(b) - 6 + 1 ELSE 0
        /\ \A i \in 1..(Len(b) - 6 + 1) : e[i] = b[6 + i - 1]
    BY <1>1, <2>2, SubSeqProperties
  <2> HIDE DEF d, e
  <2>4. Len(d) = Len(b) - 5
    <3>1. Len(d) = Len(e)
      BY <2>1, Zenon
    <3>2. Len(b) \in Nat /\ Len(e) = IF 6 <= Len(b) THEN Len(b) - 6 + 1 ELSE 0
      BY <2>3, LenProperties
    <3>3. CASE 6 <= Len(b)
      <4>1. Len(e) = Len(b) - 6 + 1
        BY <3>2, <3>3, Zenon
      <4> QED
        BY <3>1, <3>2, <4>1
    <3>4. CASE ~(6 <= Len(b))
      <4>1. Len(e) = 0
        BY <3>2, <3>4, Zenon
      <4>2. \A n \in Nat : n >= 5 /\ ~(6 <= n) => n - 5 = 0
        OBVIOUS
      <4>3. Len(b) - 5 = 0
        BY <1>5, <3>2, <3>4, <4>2, Zenon
      <4> QED
        BY <3>1, <4>1, <4>3, Zenon
    <3> QED
      BY <3>3, <3>4
  <2>5. ASSUME NEW i \in 1..(Len(b) - 5)
        PROVE  d[i] = b[i + 5]
    <3>1. i \in 1..(Len(b) - 6 + 1) /\ 6 + i - 1 = i + 5
      BY <1>1
    <3> QED
      BY <2>1, <2>3, <3>1
  <2> QED
    BY <2>1, <2>3, <2>4, <2>5
<1> HIDE DEF c, d
<1>11. Parsed(c) = <<k>>
  <2>1. /\ DOMAIN c = 1..3
        /\ c[1][1] = "event" /\ c[1][2] = k /\ c[2][1] = "nl" /\ c[3][1] = "data"
    BY <1>7, <1>9 DEF NewLine
  <2>2. Lines(c, "event") = {1} /\ Lines(c, "data") = {3}
    BY <2>1 DEF Lines
  <2>3. Max({1}) = 1
    BY DEF Max
  <2> QED
    BY <2>1, <2>2, <2>3 DEF Parsed
<1>12. ASSUME NEW q \in Nat, NEW r \in 1..5, 5 * q + r <= Len(d) + Len(w)
       PROVE  Ahead(d, w, 5 * q + r) = Frame(ks[h + 1 + q + 1])[r]
  <2>1. Ahead(d, w, 5 * q + r) = Ahead(b, w, 5 * (q + 1) + r)
    <3>1. 5 * (q + 1) + r = 5 * q + r + 5
      OBVIOUS
    <3>2. CASE 5 * q + r <= Len(d)
      <4>1. 5 * q + r \in 1..(Len(b) - 5)
        BY <1>1, <1>10, <3>2
      <4>2. d[5 * q + r] = b[5 * q + r + 5]
        BY <1>10, <4>1
      <4>3. 5 * (q + 1) + r <= Len(b)
        BY <1>1, <4>1
      <4> QED
        BY <3>1, <3>2, <4>2, <4>3 DEF Ahead
    <3>3. CASE 5 * q + r > Len(d)
      <4> DEFINE m == Len(b)
                 n == Len(d)
      <4>0. m \in Nat /\ n = m - 5 /\ 5 * q + r > n
        BY <1>1, <1>10, <3>3
      <4>1. /\ ~(5 * (q + 1) + r <= m) /\ ~(5 * q + r <= n)
            /\ 5 * (q + 1) + r - m = 5 * q + r - n
        <5> HIDE DEF m, n
        <5> QED BY <4>0
      <4> QED
        BY <4>1 DEF Ahead
    <3> QED
      BY <1>1, <1>10, <3>2, <3>3
  <2>2. q + 1 \in Nat /\ 5 * (q + 1) + r <= Len(b) + Len(w)
    BY <1>1, <1>10, <1>12
  <2>3. Ahead(b, w, 5 * (q + 1) + r) = Frame(ks[h + (q + 1) + 1])[r]
    BY <2>2 DEF Framed
  <2>4. h + (q + 1) + 1 = h + 1 + q + 1
    OBVIOUS
  <2> QED
    BY <2>1, <2>3, <2>4
<1>13. Len(d) + Len(w) <= 5 * (Len(ks) - (h + 1))
  <2>1. Len(b) + Len(w) <= 5 * (Len(ks) - h)
    BY DEF Framed
  <2> QED
    BY <1>1, <1>10, <2>1
<1>14. Framed(d, w, ks, h + 1)
  BY <1>12, <1>13 DEF Framed
<1>15. Len(d) + Len(w) = Len(b) + Len(w) - 5
  BY <1>1, <1>10
<1> QED
  BY <1>6, <1>10, <1>11, <1>14, <1>15 DEF c, d

-----------------------------------------------------------------------------
(* Invariance.                                                                *)

LEMMA InitIInv == Init => IInv
<1> SUFFICES ASSUME Init PROVE IInv
  OBVIOUS
<1>1. TypeOK
  BY DEF Init, TypeOK
<1>2. Len(yielded) = 0 /\ Len(handled) = 0 /\ Len(buffer) = 0 /\ Len(wire) = 0
  BY DEF Init
<1>3. \A q \in Nat, r \in 1..5 : ~(5 * q + r <= 0)
  OBVIOUS
<1>4. FramesAhead
  BY <1>2, <1>3 DEF FramesAhead, Framed
<1> QED
  BY <1>1, <1>2, <1>4 DEF Init, IInv, HandledInOrder, EndsOnce, SettledRight

LEMMA YieldStep ==
  ASSUME NEW k \in Kinds, IInv, Yield(k)
  PROVE  IInv'
<1> USE DEF IInv
<1>1. /\ body = "open" /\ yielded' = Append(yielded, k) /\ wire' = wire \o Frame(k)
      /\ body' = body /\ buffer' = buffer /\ handled' = handled /\ result' = result
  BY DEF Yield
<1>2. /\ yielded \in Seq(Kinds) /\ wire \in Seq(Token) /\ buffer \in Seq(Token)
      /\ handled \in Seq(Kinds) /\ Len(yielded) \in Nat /\ Len(handled) \in Nat
  BY LenProperties DEF TypeOK
<1>3. /\ yielded' \in Seq(Kinds) /\ Len(yielded') = Len(yielded) + 1
      /\ \A i \in 1..Len(yielded) : yielded'[i] = yielded[i]
  BY <1>1, <1>2, AppendProperties
<1>4. wire' \in Seq(Token)
  BY <1>1, <1>2, FrameTokens, ConcatPlaces
<1>5. TypeOK'
  BY <1>1, <1>3, <1>4 DEF TypeOK
<1>6. FramesAhead'
  <2>1. /\ Len(handled) <= Len(yielded) /\ Framed(buffer, wire, yielded, Len(handled))
        /\ Len(buffer) + Len(wire) = 5 * (Len(yielded) - Len(handled))
    BY <1>1 DEF HandledInOrder, FramesAhead
  <2> HIDE DEF IInv
  <2>2. /\ Framed(buffer, wire', yielded', Len(handled))
        /\ Len(buffer) + Len(wire') = 5 * (Len(yielded') - Len(handled))
    BY <1>1, <1>2, <2>1, FrameSent
  <2> QED
    BY <1>1, <2>2 DEF FramesAhead, Framed, Ahead
<1>7. HandledInOrder'
  BY <1>1, <1>2, <1>3 DEF HandledInOrder
<1>8. EndsOnce'
  <2>1. ASSUME NEW i \in 1..Len(yielded), yielded[i] \in {"done", "error"}
        PROVE  FALSE
    <3>1. i = Len(yielded) /\ Len(yielded) # 0
      BY <1>2, <2>1 DEF EndsOnce
    <3>2. yielded # <<>> /\ Last(yielded) \in {"done", "error"}
      BY <2>1, <3>1 DEF Last
    <3> QED
      BY <3>2 DEF Yield, MayYield, Kinds
  <2> QED
    BY <1>2, <1>3, <2>1 DEF EndsOnce
<1> QED
  BY <1>1, <1>5, <1>6, <1>7, <1>8 DEF SettledRight

LEMMA EndBodyStep ==
  ASSUME IInv, EndBody
  PROVE  IInv'
<1> USE DEF IInv
<1>1. /\ body = "open" /\ body' = "ended"
      /\ UNCHANGED <<yielded, wire, buffer, handled, result>>
  BY DEF EndBody
<1> QED
  BY <1>1 DEF TypeOK, FramesAhead, Framed, Ahead, HandledInOrder, EndsOnce, SettledRight

LEMMA BreakOffStep ==
  ASSUME IInv, BreakOff
  PROVE  IInv'
<1> USE DEF IInv
<1>1. /\ body = "open" /\ body' \in {"ended", "broken"}
      /\ UNCHANGED <<yielded, buffer, handled, result>>
  BY DEF BreakOff
<1>2. PICK n \in 0..Len(wire) : wire' = SubSeq(wire, 1, n)
  BY DEF BreakOff
<1>3. /\ yielded \in Seq(Kinds) /\ wire \in Seq(Token) /\ buffer \in Seq(Token)
      /\ Len(handled) \in Nat /\ Framed(buffer, wire, yielded, Len(handled))
  BY LenProperties DEF TypeOK, FramesAhead
<1>4. wire' \in Seq(Token) /\ Framed(buffer, wire', yielded, Len(handled))
  BY <1>2, <1>3, WireCut
<1>5. TypeOK'
  BY <1>1, <1>4 DEF TypeOK
<1>6. FramesAhead'
  BY <1>1, <1>4 DEF FramesAhead, Framed, Ahead
<1> QED
  BY <1>1, <1>5, <1>6 DEF HandledInOrder, EndsOnce, SettledRight

LEMMA ReadStep ==
  ASSUME NEW n \in 1..Len(wire), IInv, Read(n)
  PROVE  IInv'
<1> USE DEF IInv
<1>1. /\ buffer' = buffer \o SubSeq(wire, 1, n) /\ wire' = SubSeq(wire, n + 1, Len(wire))
      /\ UNCHANGED <<yielded, body, handled, result>>
  BY DEF Read
<1>2. /\ yielded \in Seq(Kinds) /\ wire \in Seq(Token) /\ buffer \in Seq(Token)
      /\ Len(handled) \in Nat /\ Framed(buffer, wire, yielded, Len(handled))
  BY LenProperties DEF TypeOK, FramesAhead
<1>3. /\ buffer' \in Seq(Token) /\ wire' \in Seq(Token)
      /\ Framed(buffer', wire', yielded, Len(handled))
      /\ Len(buffer') + Len(wire') = Len(buffer) + Len(wire)
  BY <1>1, <1>2, PieceRead
<1>4. TypeOK'
  BY <1>1, <1>3 DEF TypeOK
<1>5. FramesAhead'
  BY <1>1, <1>3 DEF FramesAhead, Framed, Ahead
<1> QED
  BY <1>1, <1>4, <1>5 DEF HandledInOrder, EndsOnce, SettledRight

\* The events handled stay a prefix of those yielded.
LEMMA HandleStep ==
  ASSUME IInv, Handle
  PROVE  IInv'
<1> USE DEF IInv
<1> DEFINE h == Len(handled)
           k == yielded[h + 1]
<1>1. /\ result = "pending" /\ Boundaries(buffer) # {}
      /\ buffer' = Rest(buffer) /\ handled' = handled \o Parsed(Chunk(buffer))
      /\ result' = IF Contains(Parsed(Chunk(buffer)), "error") THEN "rejected" ELSE result
      /\ UNCHANGED <<yielded, wire, body>>
  BY DEF Handle
<1>2. /\ yielded \in Seq(Kinds) /\ wire \in Seq(Token) /\ buffer \in Seq(Token)
      /\ handled \in Seq(Kinds) /\ h \in Nat /\ Len(yielded) \in Nat
      /\ Len(wire) \in Nat /\ Len(buffer) \in Nat
      /\ Framed(buffer, wire, yielded, h)
  BY LenProperties DEF TypeOK, FramesAhead
<1>3. /\ h + 1 \in 1..Len(yielded) /\ Parsed(Chunk(buffer)) = <<k>>
      /\ buffer' \in Seq(Token) /\ Len(buffer') + Len(wire) = Len(buffer) + Len(wire) - 5
      /\ Framed(buffer', wire, yielded, h + 1)
  BY <1>1, <1>2, FrameHandled
<1>4. k \in Kinds
  BY <1>2, <1>3
<1>5. /\ handled' \in Seq(Kinds) /\ Len(handled') = h + 1
      /\ \A i \in 1..h : handled'[i] = handled[i]
      /\ handled'[h + 1] = k
  <2>1. handled' = Append(handled, k)
    BY <1>1, <1>2, <1>3, <1>4, AppendIsConcat
  <2> QED
    BY <1>2, <1>4, <2>1, AppendProperties
<1>6. result' = IF k = "error" THEN "rejected" ELSE "pending"
  <2>1. Contains(<<k>>, "error") <=> k = "error"
    BY DEF Contains
  <2> QED
    BY <1>1, <1>3, <2>1
<1> HIDE DEF k
<1>7. TypeOK'
  BY <1>1, <1>3, <1>5, <1>6 DEF TypeOK
<1>8. FramesAhead'
  <2>1. Framed(buffer', wire', yielded', Len(handled'))
    BY <1>1, <1>3, <1>5
  <2>2. body = "open" => Len(buffer') + Len(wire') = 5 * (Len(yielded) - (h + 1))
    BY <1>1, <1>2, <1>3 DEF FramesAhead
  <2> QED
    BY <1>1, <1>5, <2>1, <2>2 DEF FramesAhead, Framed, Ahead
<1>9. HandledInOrder'
  BY <1>1, <1>2, <1>3, <1>5 DEF HandledInOrder, k
<1>10. SettledRight'
  <2>1. ASSUME result' = "rejected"
        PROVE  ~Contains(handled', "done")
    <3>1. k = "error"
      BY <1>6, <2>1
    <3>2. h + 1 = Len(yielded)
      BY <1>3, <3>1 DEF EndsOnce, k
    <3>3. ASSUME NEW i \in 1..(h + 1), handled'[i] = "done"
          PROVE  FALSE
      <4>1. i # h + 1
        BY <1>5, <3>1, <3>3
      <4>2. i \in 1..h /\ handled[i] = "done"
        BY <1>2, <1>5, <3>3, <4>1
      <4>3. i \in 1..Len(yielded) /\ yielded[i] = "done"
        BY <1>2, <4>2, <3>2 DEF HandledInOrder
      <4> QED
        BY <3>2, <4>1, <4>3 DEF EndsOnce
    <3> QED
      BY <1>5, <3>3 DEF Contains
  <2> QED
    BY <1>6, <2>1 DEF SettledRight
<1> QED
  BY <1>1, <1>7, <1>8, <1>9, <1>10 DEF EndsOnce

LEMMA StepIInv == IInv /\ [Next]_vars => IInv'
<1> SUFFICES ASSUME IInv, [Next]_vars
             PROVE  IInv'
  OBVIOUS
<1>1. ASSUME NEW k \in Kinds, Yield(k)
      PROVE  IInv'
  BY <1>1, YieldStep
<1>2. CASE EndBody
  BY <1>2, EndBodyStep
<1>3. CASE BreakOff
  BY <1>3, BreakOffStep
<1>4. ASSUME NEW n \in 1..Len(wire), Read(n)
      PROVE  IInv'
  BY <1>4, ReadStep
<1> USE DEF IInv, TypeOK, FramesAhead, Framed, Ahead, HandledInOrder, EndsOnce, SettledRight
<1>5. CASE ReadEnd
  BY <1>5 DEF ReadEnd
<1>6. CASE ReadFails
  BY <1>6 DEF ReadFails
<1>7. CASE UNCHANGED vars
  BY <1>7 DEF vars
<1> HIDE DEF IInv, TypeOK, FramesAhead, Framed, Ahead, HandledInOrder, EndsOnce, SettledRight
<1>8. CASE Handle
  BY <1>8, HandleStep
<1> QED
  BY <1>1, <1>2, <1>3, <1>4, <1>5, <1>6, <1>7, <1>8 DEF Next

LEMMA Invariance == Spec => []IInv
BY InitIInv, StepIInv, PTL DEF Spec

-----------------------------------------------------------------------------
(* Theorems.                                                                  *)

\* TypeOK: what was yielded and handled are event kinds, the wire and the buffer hold
\* tokens of frames (and no piece of anything else), and the outcomes are as declared.
THEOREM StreamTypeCorrect == Spec => []TypeOK
<1>1. IInv => TypeOK
  BY DEF IInv
<1> QED
  BY <1>1, Invariance, PTL

\* HandledIsPrefix: the page handles what was yielded, in order, none twice, none
\* invented and none skipped, however the body was cut into pieces.
THEOREM EventsArriveInOrder == Spec => []HandledIsPrefix
<1>1. IInv => HandledIsPrefix
  <2> SUFFICES ASSUME IInv PROVE HandledIsPrefix
    OBVIOUS
  <2> DEFINE h == Len(handled)
  <2>1. /\ handled \in Seq(Kinds) /\ yielded \in Seq(Kinds)
        /\ h \in Nat /\ Len(yielded) \in Nat /\ h <= Len(yielded)
        /\ \A i \in 1..h : handled[i] = yielded[i]
    BY LenProperties DEF IInv, TypeOK, HandledInOrder
  <2>2. SubSeq(handled, 1, h) = handled
    BY <2>1, SubSeqFull
  <2>3. /\ SubSeq(yielded, 1, h) \in Seq(Kinds) /\ Len(SubSeq(yielded, 1, h)) = h
        /\ \A i \in 1..h : SubSeq(yielded, 1, h)[i] = yielded[i]
    BY <2>1, SubSeqProperties
  <2> DEFINE p == SubSeq(yielded, 1, h)
  <2> HIDE DEF p
  <2>4. p = handled
    <3>1. p \in Seq(Kinds) /\ Len(p) = Len(handled) /\ \A i \in 1..Len(p) : p[i] = handled[i]
      BY <2>1, <2>3 DEF p
    <3> QED
      BY <2>1, <3>1, SeqEqual
  <2> QED
    BY <2>1, <2>2, <2>4 DEF HandledIsPrefix, IsPrefix, p
<1> QED
  BY <1>1, Invariance, PTL

\* AnsweredIffDone: only a "done" event makes an answer, and a body that ends after
\* it always does.
THEOREM OnlyDoneAnswers == Spec => []AnsweredIffDone
<1>1. IInv => AnsweredIffDone
  BY DEF IInv, TypeOK, SettledRight, AnsweredIffDone
<1> QED
  BY <1>1, Invariance, PTL
==============================================================================
