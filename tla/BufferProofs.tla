------------------------------ MODULE BufferProofs -----------------------------
(* For every initial size, reserve, data and bound on the vector: the      *)
(* indices of a buffer stay in order and inside the vector, makeSpace      *)
(* makes the space it is asked for without touching the data, and whatever *)
(* it, readFd and shrink do with the vector, the callers see a queue of    *)
(* bytes (ByteQueue).  The vector does not grow for bytes that would fit,  *)
(* and the searches for line ends find them.                               *)
EXTENDS Buffer, DataLemmas

(* The inductive invariant: TypeOK with the indices typed and ordered.     *)
IsBuffer(b) ==
    /\ b \in [buffer_ : Seq(Byte), readerIndex_ : Nat, writerIndex_ : Nat]
    /\ b.readerIndex_ <= b.writerIndex_
    /\ b.writerIndex_ <= Len(b.buffer_)
    /\ kCheapPrepend <= Len(b.buffer_)

(* What an assignment to one field or two leaves of the other.             *)
LEMMA FieldFacts ==
    ASSUME NEW b, IsBuffer(b), NEW v, NEW r, NEW w
    PROVE  /\ [b EXCEPT !.buffer_ = v, !.writerIndex_ = w] =
                 [buffer_ |-> v, readerIndex_ |-> b.readerIndex_, writerIndex_ |-> w]
           /\ [b EXCEPT !.buffer_ = v, !.readerIndex_ = r] =
                 [buffer_ |-> v, readerIndex_ |-> r, writerIndex_ |-> b.writerIndex_]
           /\ [b EXCEPT !.readerIndex_ = r, !.writerIndex_ = w] =
                 [buffer_ |-> b.buffer_, readerIndex_ |-> r, writerIndex_ |-> w]
<1>1. b = [buffer_ |-> b.buffer_, readerIndex_ |-> b.readerIndex_, writerIndex_ |-> b.writerIndex_]
  BY DEF IsBuffer
<1>2. PICK x, y, z : b = [buffer_ |-> x, readerIndex_ |-> y, writerIndex_ |-> z]
  BY <1>1
<1> DEFINE c == [b EXCEPT !.buffer_ = v]
           d == [b EXCEPT !.readerIndex_ = r]
<1>3. c = [buffer_ |-> v, readerIndex_ |-> y, writerIndex_ |-> z]
        /\ d = [buffer_ |-> x, readerIndex_ |-> r, writerIndex_ |-> z]
  BY <1>2
<1>4. /\ [b EXCEPT !.buffer_ = v, !.writerIndex_ = w] = [c EXCEPT !.writerIndex_ = w]
      /\ [b EXCEPT !.buffer_ = v, !.readerIndex_ = r] = [c EXCEPT !.readerIndex_ = r]
      /\ [b EXCEPT !.readerIndex_ = r, !.writerIndex_ = w] = [d EXCEPT !.writerIndex_ = w]
  OBVIOUS
<1> HIDE DEF c, d
<1>5. /\ [c EXCEPT !.writerIndex_ = w] = [buffer_ |-> v, readerIndex_ |-> y, writerIndex_ |-> w]
      /\ [c EXCEPT !.readerIndex_ = r] = [buffer_ |-> v, readerIndex_ |-> r, writerIndex_ |-> z]
      /\ [d EXCEPT !.writerIndex_ = w] = [buffer_ |-> x, readerIndex_ |-> r, writerIndex_ |-> w]
  BY <1>3
<1>6. x = b.buffer_ /\ y = b.readerIndex_ /\ z = b.writerIndex_
  BY <1>2
<1> QED
  BY <1>4, <1>5, <1>6

(* ------------------------------- the vector ----------------------------- *)
(* std::copy into a range of the vector keeps its size and the rest of it. *)
LEMMA CopiedFacts ==
    ASSUME NEW v \in Seq(Byte), NEW s \in Seq(Byte), NEW at \in Nat, at + Len(s) <= Len(v)
    PROVE  /\ Copied(v, at, s) \in Seq(Byte)
           /\ Len(Copied(v, at, s)) = Len(v)
           /\ \A i \in 1 .. Len(v) :
                  Copied(v, at, s)[i] = IF i \in at + 1 .. at + Len(s) THEN s[i - at] ELSE v[i]
<1>1. \A i \in 1 .. Len(v) : (IF i \in at + 1 .. at + Len(s) THEN s[i - at] ELSE v[i]) \in Byte
  OBVIOUS
<1> QED
  BY <1>1 DEF Copied

(* The vector grows by bytes of value 0.                                   *)
LEMMA ZerosFacts ==
    ASSUME NEW n \in Nat
    PROVE  Zeros(n) \in Seq(Byte) /\ Len(Zeros(n)) = n
<1>1. 0 \in Byte
  BY BufferAssumption DEF Byte
<1> QED
  BY <1>1 DEF Zeros

(* Resizing keeps what was in the vector in front of the new bytes.        *)
LEMMA ConcatFacts ==
    ASSUME NEW S, NEW s \in Seq(S), NEW t \in Seq(S)
    PROVE  s \o t \in Seq(S) /\ Len(s \o t) = Len(s) + Len(t)
OBVIOUS

(* The readable bytes are a byte string as long as readableBytes() says.   *)
LEMMA ContentFacts ==
    ASSUME NEW b, IsBuffer(b)
    PROVE  /\ Content(b) \in Seq(Byte) /\ Len(Content(b)) = readableBytes(b)
           /\ \A i \in 1 .. readableBytes(b) : Content(b)[i] = b.buffer_[b.readerIndex_ + i]
<1>1. Content(b) \in Seq(Byte)
  BY DEF IsBuffer, Content
<1> QED
  BY <1>1 DEF IsBuffer, Content, readableBytes

(* ------------------------------ the operators --------------------------- *)
(* makeSpace, both ways: the vector resized, or the data moved forward.    *)
LEMMA makeSpaceFacts ==
    ASSUME NEW b, IsBuffer(b), NEW len \in Nat, writableBytes(b) < len
    PROVE  /\ IsBuffer(makeSpace(b, len))
           /\ writableBytes(makeSpace(b, len)) >= len
           /\ Content(makeSpace(b, len)) = Content(b)
<1> DEFINE c == makeSpace(b, len)
<1>1. CASE MustGrow(b, len)
  <2> DEFINE n == b.writerIndex_ + len - Len(b.buffer_)
  <2>1. n \in Nat
    BY DEF IsBuffer, writableBytes
  <2>2. c = [b EXCEPT !.buffer_ = @ \o Zeros(n)]
    BY <1>1 DEF makeSpace
  <2>3. c.buffer_ = b.buffer_ \o Zeros(n)
          /\ c.readerIndex_ = b.readerIndex_ /\ c.writerIndex_ = b.writerIndex_
          /\ DOMAIN c = DOMAIN b
    BY <2>2 DEF IsBuffer
  <2> DEFINE z == Zeros(n)
  <2>4. c.buffer_ \in Seq(Byte) /\ Len(c.buffer_) = b.writerIndex_ + len
    <3>1. z \in Seq(Byte) /\ Len(z) = n
      BY <2>1, ZerosFacts
    <3>2. b.buffer_ \in Seq(Byte) /\ c.buffer_ = b.buffer_ \o z
      BY <2>3 DEF IsBuffer
    <3> HIDE DEF z
    <3>3. c.buffer_ \in Seq(Byte) /\ Len(c.buffer_) = Len(b.buffer_) + Len(z)
      BY <3>1, <3>2, ConcatFacts
    <3> QED
      BY <2>1, <3>1, <3>3 DEF IsBuffer
  <2>5. IsBuffer(c)
    <3>1. c \in [buffer_ : Seq(Byte), readerIndex_ : Nat, writerIndex_ : Nat]
      BY <2>2, <2>3, <2>4 DEF IsBuffer
    <3>2. Len(b.buffer_) \in Nat
      BY DEF IsBuffer
    <3> QED
      BY <2>1, <2>3, <2>4, <3>1, <3>2, BufferAssumption DEF IsBuffer
  <2>6. writableBytes(c) >= len
    BY <2>3, <2>4 DEF writableBytes, IsBuffer
  <2>7. Content(c) = Content(b)
    <3>1. \A i \in 1 .. Len(b.buffer_) : c.buffer_[i] = b.buffer_[i]
      BY <2>1, <2>3, ZerosFacts DEF IsBuffer
    <3>2. readableBytes(c) = readableBytes(b) /\ readableBytes(b) \in Nat
      BY <2>3 DEF readableBytes, IsBuffer
    <3>3. \A i \in 1 .. readableBytes(b) : c.buffer_[c.readerIndex_ + i] = b.buffer_[b.readerIndex_ + i]
      BY <2>3, <3>1 DEF readableBytes, IsBuffer
    <3> QED
      BY <2>5, <3>2, <3>3, ContentFacts
  <2> QED
    BY <2>5, <2>6, <2>7
<1>2. CASE ~MustGrow(b, len)
  <2> DEFINE v == Copied(b.buffer_, kCheapPrepend, Content(b))
  <2>1. c = [buffer_ |-> v, readerIndex_ |-> kCheapPrepend,
             writerIndex_ |-> kCheapPrepend + readableBytes(b)]
    BY <1>2 DEF makeSpace
  <2>2. kCheapPrepend + readableBytes(b) + len <= Len(b.buffer_) /\ kCheapPrepend \in Nat
    BY <1>2, BufferAssumption DEF MustGrow, IsBuffer, writableBytes, prependableBytes, readableBytes
  <2>3. readableBytes(b) \in Nat
    BY DEF IsBuffer, readableBytes
  <2>4. /\ v \in Seq(Byte) /\ Len(v) = Len(b.buffer_)
        /\ \A i \in 1 .. readableBytes(b) : v[kCheapPrepend + i] = Content(b)[i]
    <3>1. /\ Len(Content(b)) = readableBytes(b)
          /\ kCheapPrepend + Len(Content(b)) <= Len(b.buffer_)
          /\ Len(b.buffer_) \in Nat
      BY <2>2, <2>3, ContentFacts DEF IsBuffer
    <3>2. /\ v \in Seq(Byte) /\ Len(v) = Len(b.buffer_)
          /\ \A i \in 1 .. Len(b.buffer_) :
                v[i] = IF i \in kCheapPrepend + 1 .. kCheapPrepend + Len(Content(b))
                       THEN Content(b)[i - kCheapPrepend] ELSE b.buffer_[i]
      <4> DEFINE x == b.buffer_
                 y == Content(b)
      <4>1. x \in Seq(Byte) /\ y \in Seq(Byte) /\ kCheapPrepend + Len(y) <= Len(x)
        BY <3>1, ContentFacts DEF IsBuffer
      <4> HIDE DEF x, y
      <4> QED BY <2>2, <4>1, CopiedFacts DEF x, y
    <3> HIDE DEF v
    <3>3. ASSUME NEW i \in 1 .. readableBytes(b)
          PROVE  v[kCheapPrepend + i] = Content(b)[i]
      <4> DEFINE k == kCheapPrepend + i
      <4>1. k \in 1 .. Len(b.buffer_) /\ k - kCheapPrepend = i
              /\ k \in kCheapPrepend + 1 .. kCheapPrepend + Len(Content(b))
        BY <2>2, <2>3, <3>1
      <4> HIDE DEF k
      <4>2. v[k] = Content(b)[k - kCheapPrepend]
        BY <3>2, <4>1
      <4> QED
        BY <4>1, <4>2 DEF k
    <3> QED
      BY <3>2, <3>3
  <2> HIDE DEF v
  <2>5. IsBuffer(c) /\ readableBytes(c) = readableBytes(b) /\ writableBytes(c) >= len
    <3> DEFINE n == readableBytes(b)
    <3>1. c.buffer_ = v /\ c.readerIndex_ = kCheapPrepend /\ c.writerIndex_ = kCheapPrepend + n
      BY <2>1
    <3>2. c \in [buffer_ : Seq(Byte), readerIndex_ : Nat, writerIndex_ : Nat]
      BY <2>1, <2>2, <2>3, <2>4
    <3> HIDE DEF c, n
    <3>3. n \in Nat /\ kCheapPrepend + n + len <= Len(v) /\ Len(v) \in Nat /\ kCheapPrepend \in Nat
      BY <2>2, <2>3, <2>4 DEF n, IsBuffer
    <3>4. IsBuffer(c)
      BY <3>1, <3>2, <3>3 DEF IsBuffer
    <3>5. readableBytes(c) = n /\ writableBytes(c) >= len
      BY <3>1, <3>3 DEF readableBytes, writableBytes
    <3> QED BY <3>4, <3>5 DEF n
  <2>6. Content(c) = Content(b)
    BY <2>1, <2>3, <2>4, <2>5, ContentFacts
  <2> QED
    BY <2>5, <2>6
<1> QED
  BY <1>1, <1>2

(* ensureWritableBytes: what its assertion promises, and no other change.  *)
LEMMA ensureWritableBytesFacts ==
    ASSUME NEW b, IsBuffer(b), NEW len \in Nat
    PROVE  LET c == ensureWritableBytes(b, len) IN
           /\ IsBuffer(c) /\ writableBytes(c) >= len /\ Content(c) = Content(b)
<1>1. CASE writableBytes(b) < len
  BY <1>1, makeSpaceFacts DEF ensureWritableBytes
<1>2. CASE ~(writableBytes(b) < len)
  <2>1. writableBytes(b) \in Nat
    BY DEF IsBuffer, writableBytes
  <2> QED
    BY <1>2, <2>1 DEF ensureWritableBytes
<1> QED
  BY <1>1, <1>2

(* Bytes written at beginWrite(), where there is room, and hasWritten.     *)
LEMMA WrittenFacts ==
    ASSUME NEW b, IsBuffer(b), NEW s \in Seq(Byte), Len(s) <= writableBytes(b)
    PROVE  IsBuffer(Written(b, s))
<1> DEFINE v == Copied(b.buffer_, b.writerIndex_, s)
<1>1. b.writerIndex_ \in Nat /\ b.readerIndex_ \in Nat /\ b.buffer_ \in Seq(Byte)
        /\ b.writerIndex_ + Len(s) <= Len(b.buffer_) /\ Len(s) \in Nat
  BY DEF IsBuffer, writableBytes
<1>2. v \in Seq(Byte) /\ Len(v) = Len(b.buffer_)
  BY <1>1, CopiedFacts
<1>3. Written(b, s) = [b EXCEPT !.buffer_ = v, !.writerIndex_ = b.writerIndex_ + Len(s)]
  BY DEF Written
<1>4. Written(b, s) = [buffer_ |-> v, readerIndex_ |-> b.readerIndex_,
                       writerIndex_ |-> b.writerIndex_ + Len(s)]
  BY <1>3, FieldFacts
<1> HIDE DEF v
<1> QED
  BY <1>1, <1>2, <1>4 DEF IsBuffer

(* append makes the space it writes to. *)
LEMMA appendFacts ==
    ASSUME NEW b, IsBuffer(b), NEW s \in Seq(Byte)
    PROVE  IsBuffer(append(b, s))
<1>1. Len(s) \in Nat
  OBVIOUS
<1>2. LET c == ensureWritableBytes(b, Len(s)) IN IsBuffer(c) /\ writableBytes(c) >= Len(s)
  BY <1>1, ensureWritableBytesFacts
<1>3. LET c == ensureWritableBytes(b, Len(s)) IN writableBytes(c) \in Nat
  BY <1>1, <1>2 DEF IsBuffer, writableBytes
<1> QED
  BY <1>1, <1>2, <1>3, WrittenFacts DEF append

(* prepend goes no further to the front than the vector begins.            *)
LEMMA prependFacts ==
    ASSUME NEW b, IsBuffer(b), NEW s \in Seq(Byte), Len(s) <= prependableBytes(b)
    PROVE  IsBuffer(prepend(b, s))
<1> DEFINE v == Copied(b.buffer_, b.readerIndex_ - Len(s), s)
<1>1. b.readerIndex_ - Len(s) \in Nat /\ b.readerIndex_ \in Nat /\ b.writerIndex_ \in Nat
        /\ b.buffer_ \in Seq(Byte) /\ Len(s) \in Nat
        /\ b.readerIndex_ - Len(s) + Len(s) <= Len(b.buffer_)
  BY DEF IsBuffer, prependableBytes
<1>2. v \in Seq(Byte) /\ Len(v) = Len(b.buffer_)
  BY <1>1, CopiedFacts
<1>3. prepend(b, s) = [b EXCEPT !.buffer_ = v, !.readerIndex_ = b.readerIndex_ - Len(s)]
  BY DEF prepend
<1>4. prepend(b, s) = [buffer_ |-> v, readerIndex_ |-> b.readerIndex_ - Len(s),
                       writerIndex_ |-> b.writerIndex_]
  BY <1>3, FieldFacts
<1> HIDE DEF v
<1> QED
  BY <1>1, <1>2, <1>4 DEF IsBuffer

(* A new buffer, of any size. *)
LEMMA NewBufferFacts ==
    ASSUME NEW n \in Nat
    PROVE  IsBuffer(NewBuffer(n)) /\ Content(NewBuffer(n)) = <<>>
<1> DEFINE v == Zeros(kCheapPrepend + n)
<1>1. kCheapPrepend \in Nat /\ v \in Seq(Byte) /\ Len(v) = kCheapPrepend + n
  BY BufferAssumption, ZerosFacts
<1>2. NewBuffer(n) = [buffer_ |-> v, readerIndex_ |-> kCheapPrepend, writerIndex_ |-> kCheapPrepend]
  BY DEF NewBuffer
<1> HIDE DEF v
<1> QED
  BY <1>1, <1>2 DEF IsBuffer, Content

(* Retrieving all there is, or less, leaves the vector as it is.           *)
LEMMA retrieveFacts ==
    ASSUME NEW b, IsBuffer(b), NEW len \in Nat
    PROVE  IsBuffer(retrieve(b, len)) /\ IsBuffer(retrieveAll(b))
<1>1. IsBuffer(retrieveAll(b))
  <2>1. retrieveAll(b) = [buffer_ |-> b.buffer_, readerIndex_ |-> kCheapPrepend,
                          writerIndex_ |-> kCheapPrepend]
    <3>1. retrieveAll(b) = [b EXCEPT !.readerIndex_ = kCheapPrepend, !.writerIndex_ = kCheapPrepend]
      BY DEF retrieveAll
    <3> QED
      BY <3>1, FieldFacts
  <2> QED
    BY <2>1, BufferAssumption DEF IsBuffer
<1>2. CASE len < readableBytes(b)
  <2> DEFINE c == [b EXCEPT !.readerIndex_ = b.readerIndex_ + len]
  <2>1. retrieve(b, len) = c
    BY <1>2 DEF retrieve
  <2>2. b.readerIndex_ + len \in Nat /\ b.readerIndex_ + len <= b.writerIndex_
    BY <1>2 DEF IsBuffer, readableBytes
  <2>3. c.buffer_ = b.buffer_ /\ c.writerIndex_ = b.writerIndex_ /\ c.readerIndex_ = b.readerIndex_ + len
    BY DEF IsBuffer
  <2>4. c \in [buffer_ : Seq(Byte), readerIndex_ : Nat, writerIndex_ : Nat]
    BY <2>2 DEF IsBuffer
  <2> HIDE DEF c
  <2> QED BY <1>1, <2>1, <2>2, <2>3, <2>4 DEF IsBuffer
<1>3. CASE ~(len < readableBytes(b))
  BY <1>1, <1>3 DEF retrieve
<1> QED
  BY <1>1, <1>2, <1>3

(* readFd: what did not fit is appended. *)
LEMMA readFdFacts ==
    ASSUME NEW b, IsBuffer(b), NEW s \in Seq(Byte)
    PROVE  IsBuffer(readFd(b, s))
<1> DEFINE n == writableBytes(b)
<1>1. n \in Nat /\ Len(s) \in Nat
  BY DEF IsBuffer, writableBytes
<1>2. CASE Len(s) <= n
  BY <1>2, WrittenFacts DEF readFd
<1>3. CASE ~(Len(s) <= n)
  <2> DEFINE first == SubSeq(s, 1, n)
             rest == SubSeq(s, n + 1, Len(s))
  <2>1. first \in Seq(Byte) /\ Len(first) = n /\ rest \in Seq(Byte)
    BY <1>1, <1>3
  <2>2. readFd(b, s) = append(Written(b, first), rest)
    BY <1>3 DEF readFd
  <2> HIDE DEF first, rest
  <2>3. Len(first) <= writableBytes(b)
    BY <1>1, <2>1
  <2> QED
    BY <2>1, <2>2, <2>3, WrittenFacts, appendFacts
<1> QED
  BY <1>2, <1>3

(* shrink fills a new buffer with the content of the old. *)
LEMMA shrinkFacts ==
    ASSUME NEW b, IsBuffer(b), NEW reserve \in Nat
    PROVE  IsBuffer(shrink(b, reserve))
<1>1. readableBytes(b) + reserve \in Nat
  BY DEF IsBuffer, readableBytes
<1>2. IsBuffer(NewBuffer(kInitialSize))
  BY BufferAssumption, NewBufferFacts
<1>3. IsBuffer(ensureWritableBytes(NewBuffer(kInitialSize), readableBytes(b) + reserve))
  BY <1>1, <1>2, ensureWritableBytesFacts
<1> QED
  BY <1>3, ContentFacts, appendFacts DEF shrink, swap

(* The powers of the base, and what the larger is of the smaller.          *)
LEMMA PowersPositive ==
    ASSUME NEW w \in Widths
    PROVE  \A i \in 0 .. w : Base^i \in Nat \ {0}
<1> DEFINE S == {i \in 0 .. w : Base^i \in Nat \ {0}}
<1>1. w \in Nat /\ Base \in Nat \ {0} /\ Base^0 = 1
  BY BufferAssumption, Powers
<1>2. 0 \in S
  BY <1>1
<1>3. ASSUME NEW i \in 0 .. w - 1, i \in S
      PROVE  i + 1 \in S
  <2> DEFINE p == Base^i
             q == Base^(i + 1)
  <2>1. i + 1 \in 1 .. w /\ p \in Nat \ {0}
    BY <1>1, <1>3
  <2>2. q = Base * p
    <3>1. Base^(i + 1) = Base * Base^((i + 1) - 1)
      BY <2>1, Powers
    <3>2. (i + 1) - 1 = i
      OBVIOUS
    <3> QED BY <3>1, <3>2
  <2> HIDE DEF p, q
  <2>3. q \in Nat \ {0}
    BY <1>1, <2>1, <2>2
  <2> QED BY <1>1, <2>1, <2>3 DEF q
<1> HIDE DEF S
<1>4. 0 .. w \subseteq S
  BY <1>1, <1>2, <1>3, UpTo
<1> QED BY <1>4 DEF S

LEMMA PowersDivide ==
    ASSUME NEW w \in Widths, NEW j \in 0 .. w, NEW n \in j .. w
    PROVE  \E c \in Nat \ {0} : Base^n = Base^j * c
<1> DEFINE S == {i \in 0 .. w - j : \E c \in Nat \ {0} : Base^(j + i) = Base^j * c}
           p == Base^j
<1>1. w \in Nat /\ Base \in Nat \ {0} /\ j \in Nat /\ w - j \in Nat /\ p \in Nat \ {0}
  BY BufferAssumption, PowersPositive
<1>2. 0 \in S
  <2>1. p = p * 1 /\ j + 0 = j /\ 0 \in 0 .. w - j
    BY <1>1
  <2> QED BY <2>1
<1>3. ASSUME NEW i \in 0 .. (w - j) - 1, i \in S
      PROVE  i + 1 \in S
  <2>1. PICK c \in Nat \ {0} : Base^(j + i) = p * c
    BY <1>3
  <2>2. j + (i + 1) \in 1 .. w /\ (j + (i + 1)) - 1 = j + i
    BY <1>1
  <2>3. Base^(j + (i + 1)) = Base * Base^(j + i)
    <3>1. Base^(j + (i + 1)) = Base * Base^((j + (i + 1)) - 1)
      BY <2>2, Powers
    <3> QED BY <2>2, <3>1
  <2> HIDE DEF p
  <2>4. Base * (p * c) = p * (Base * c) /\ Base * c \in Nat \ {0}
    BY <1>1
  <2>5. Base^(j + (i + 1)) = p * (Base * c)
    BY <2>1, <2>3, <2>4
  <2> DEFINE d == Base * c
  <2>6. d \in Nat \ {0} /\ Base^(j + (i + 1)) = p * d /\ i + 1 \in 0 .. w - j
    BY <1>1, <2>4, <2>5
  <2> HIDE DEF d
  <2> QED BY <2>6 DEF p
<1> HIDE DEF S, p
<1>4. 0 .. w - j \subseteq S
  BY <1>1, <1>2, <1>3, UpTo
<1>5. n - j \in 0 .. w - j /\ j + (n - j) = n
  BY <1>1
<1>6. n - j \in S
  BY <1>4, <1>5
<1> QED BY <1>5, <1>6 DEF S

(* An integer goes into the buffer as bytes.                               *)
LEMMA hostToNetworkFacts ==
    ASSUME NEW x \in Int, NEW w \in Widths
    PROVE  hostToNetwork(x, w) \in Seq(Byte) /\ Len(hostToNetwork(x, w)) = w
<1>1. w \in Nat /\ Base \in Nat \ {0}
  BY BufferAssumption
<1>2. \A i \in 1 .. w : ((x % Base^w) \div Base^(i - 1)) % Base \in Byte
  <2> TAKE i \in 1 .. w
  <2>1. Base^w \in Nat \ {0} /\ Base^(i - 1) \in Nat \ {0}
    BY <1>1, PowersPositive
  <2>2. (x % Base^w) \div Base^(i - 1) \in Int
    BY <2>1
  <2> DEFINE n == (x % Base^w) \div Base^(i - 1)
  <2> HIDE DEF n
  <2>3. n \in Int => n % Base \in Byte
    BY <1>1 DEF Byte
  <2> QED
    BY <2>2, <2>3 DEF n
<1> DEFINE h == HostBytes(x, w)
<1>3. h \in Seq(Byte) /\ Len(h) = w
  BY <1>1, <1>2 DEF HostBytes
<1> HIDE DEF h
<1>4. [i \in 1 .. w |-> h[w + 1 - i]] \in Seq(Byte) /\ Len([i \in 1 .. w |-> h[w + 1 - i]]) = w
  <2>1. \A i \in 1 .. w : h[w + 1 - i] \in Byte
    BY <1>1, <1>3
  <2> QED
    BY <1>1, <2>1
<1> QED
  BY <1>3, <1>4 DEF hostToNetwork, Swapped, h

(* --------------------------- the specification -------------------------- *)
Inv == IsBuffer(buf)

LEMMA InitBuffer == Init => Inv
BY BufferAssumption, NewBufferFacts DEF Init, Inv

(* No function that is called within its precondition leaves the indices   *)
(* out of order or outside the vector.                                     *)
LEMMA NextBuffer == Inv /\ [Next]_buf => Inv'
<1> SUFFICES ASSUME IsBuffer(buf), [Next]_buf PROVE IsBuffer(buf')
  BY DEF Inv
<1> USE BufferAssumption
<1>1. ASSUME NEW s \in Data, AppendBytes(s) \/ HasWritten(s) \/ Prepend(s) \/ ReadFd(s)
      PROVE  IsBuffer(buf')
  <2>1. s \in Seq(Byte)
    OBVIOUS
  <2>2. CASE AppendBytes(s)
    BY <2>1, <2>2, appendFacts DEF AppendBytes, Becomes
  <2>3. CASE HasWritten(s)
    BY <2>1, <2>3, WrittenFacts DEF HasWritten, Becomes
  <2>4. CASE Prepend(s)
    BY <2>1, <2>4, prependFacts DEF Prepend
  <2>5. CASE ReadFd(s)
    BY <2>1, <2>5, readFdFacts DEF ReadFd, Becomes
  <2> QED
    BY <1>1, <2>2, <2>3, <2>4, <2>5
<1>2. ASSUME NEW w \in Widths, NEW x \in Numbers, AppendInt(x, w) \/ PrependInt(x, w)
      PROVE  IsBuffer(buf')
  <2>1. hostToNetwork(x, w) \in Seq(Byte) /\ Len(hostToNetwork(x, w)) = w
    BY hostToNetworkFacts
  <2>2. CASE AppendInt(x, w)
    BY <2>1, <2>2, appendFacts DEF AppendInt, Becomes
  <2>3. CASE PrependInt(x, w)
    BY <2>1, <2>3, prependFacts DEF PrependInt
  <2> QED
    BY <1>2, <2>2, <2>3
<1>3. ASSUME NEW w \in Widths, ReadInt(w)
      PROVE  IsBuffer(buf')
  <2>1. w \in Nat
    OBVIOUS
  <2>2. buf' = retrieve(buf, w)
    BY <1>3 DEF ReadInt, retrieveInt
  <2> QED
    BY <2>1, <2>2, retrieveFacts
<1>4. ASSUME NEW len \in 0 .. MaxSize, EnsureWritable(len)
      PROVE  IsBuffer(buf')
  BY <1>4, ensureWritableBytesFacts DEF EnsureWritable, Becomes
<1>5. ASSUME NEW len \in 0 .. MaxSize, Unwrite(len)
      PROVE  IsBuffer(buf')
  <2>1. buf' = [buffer_ |-> buf.buffer_, readerIndex_ |-> buf.readerIndex_,
                writerIndex_ |-> buf.writerIndex_ - len]
    BY <1>5 DEF Unwrite, IsBuffer
  <2>2. len \in Nat /\ len <= buf.writerIndex_ - buf.readerIndex_
    BY <1>5 DEF Unwrite, readableBytes
  <2> QED
    BY <2>1, <2>2 DEF IsBuffer
<1>6. ASSUME NEW len \in 0 .. MaxSize, Retrieve(len)
      PROVE  IsBuffer(buf')
  BY <1>6, retrieveFacts DEF Retrieve
<1>7. CASE RetrieveAll
  BY <1>7, retrieveFacts DEF RetrieveAll
<1>8. CASE RetrieveLine
  <2> DEFINE P == {p \in buf.readerIndex_ .. buf.writerIndex_ - 2 :
                      buf.buffer_[p + 1] = CR /\ buf.buffer_[p + 2] = LF}
             crlf == findCRLF(buf, buf.readerIndex_)
  <2>1. crlf # -1 /\ buf' = retrieve(buf, crlf + 2 - buf.readerIndex_)
    BY <1>8 DEF RetrieveLine
  <2>2. crlf \in P
    <3> DEFINE first == FirstOf(P, buf.writerIndex_)
    <3>1. crlf = IF first = buf.writerIndex_ THEN -1 ELSE first
      BY DEF findCRLF
    <3>2. P # {} /\ crlf = first
      BY <2>1, <3>1 DEF FirstOf
    <3>3. P \subseteq Nat
      BY DEF IsBuffer
    <3> HIDE DEF P, crlf
    <3>4. \E p \in P : \A q \in P : p <= q
      BY <3>2, <3>3, LeastNumber
    <3> QED
      BY <3>2, <3>4 DEF FirstOf
  <2>3. crlf + 2 - buf.readerIndex_ \in Nat
    BY <2>2 DEF IsBuffer
  <2> QED
    BY <2>1, <2>3, retrieveFacts
<1>9. ASSUME NEW reserve \in Reserves, Shrink(reserve)
      PROVE  IsBuffer(buf')
  BY <1>9, shrinkFacts DEF Shrink, Becomes
<1>10. CASE buf' = buf
  BY <1>10
<1> QED
  BY <1>1, <1>2, <1>3, <1>4, <1>5, <1>6, <1>7, <1>8, <1>9, <1>10 DEF Next

(* 0 <= readerIndex_ <= writerIndex_ <= size, as Buffer.h draws it, in     *)
(* every buffer.                                                           *)
THEOREM IndicesOrdered == Spec => []TypeOK
<1>1. Inv => TypeOK
  BY DEF Inv, IsBuffer, TypeOK, Indexed
<1> QED
  BY <1>1, InitBuffer, NextBuffer, PTL DEF Spec

(* The assertions of makeSpace and ensureWritableBytes hold in every       *)
(* buffer: there is room, the data is as it was, and it is only ever moved *)
(* towards the front.                                                      *)
THEOREM SpaceAlwaysMade == Spec => []SpaceIsMade
<1>1. Inv => SpaceIsMade
  <2> SUFFICES ASSUME IsBuffer(buf), NEW len \in 0 .. MaxSize
               PROVE  /\ LET b == ensureWritableBytes(buf, len)
                         IN  writableBytes(b) >= len /\ Content(b) = Content(buf)
                      /\ writableBytes(buf) < len /\ ~MustGrow(buf, len)
                            => kCheapPrepend < buf.readerIndex_
    BY DEF SpaceIsMade, Inv
  <2>1. len \in Nat
    BY BufferAssumption
  <2>2. writableBytes(buf) < len /\ ~MustGrow(buf, len) => kCheapPrepend < buf.readerIndex_
    BY <2>1, BufferAssumption DEF IsBuffer, MustGrow, writableBytes, prependableBytes
  <2> QED
    BY <2>1, <2>2, ensureWritableBytesFacts
<1> QED
  BY <1>1, InitBuffer, NextBuffer, PTL DEF Spec

--------------------------------------------------------------------------------
(* The room in front that the queue promises.                              *)
Front(b) == IF b.readerIndex_ < kCheapPrepend THEN b.readerIndex_ ELSE kCheapPrepend

--------------------------------------------------------------------------------
(* ----------------------------- byte strings ----------------------------- *)
LEMMA SameBytes ==
    ASSUME NEW s \in Seq(Byte), NEW t \in Seq(Byte), Len(s) = Len(t),
           \A i \in 1 .. Len(s) : s[i] = t[i]
    PROVE  s = t
OBVIOUS

LEMMA ConcatElements ==
    ASSUME NEW s \in Seq(Byte), NEW t \in Seq(Byte)
    PROVE  /\ s \o t \in Seq(Byte) /\ Len(s \o t) = Len(s) + Len(t)
           /\ \A i \in 1 .. Len(s) : (s \o t)[i] = s[i]
           /\ \A i \in 1 .. Len(t) : (s \o t)[Len(s) + i] = t[i]
OBVIOUS

LEMMA SubSeqElements ==
    ASSUME NEW s \in Seq(Byte), NEW m \in Nat, NEW n \in Nat, m <= n, n <= Len(s)
    PROVE  /\ SubSeq(s, m + 1, n) \in Seq(Byte) /\ Len(SubSeq(s, m + 1, n)) = n - m
           /\ \A i \in 1 .. n - m : SubSeq(s, m + 1, n)[i] = s[m + i]
OBVIOUS

LEMMA ConcatEmptyBytes ==
    ASSUME NEW s \in Seq(Byte)
    PROVE  s \o <<>> = s /\ <<>> \o s = s /\ <<>> \in Seq(Byte)
OBVIOUS

(* readFd puts together again what it split.                               *)
LEMMA SplitConcat ==
    ASSUME NEW s \in Seq(Byte), NEW n \in Nat, n <= Len(s)
    PROVE  SubSeq(s, 1, n) \o SubSeq(s, n + 1, Len(s)) = s
<1> DEFINE first == SubSeq(s, 1, n)
           rest == SubSeq(s, n + 1, Len(s))
<1>1. /\ first \in Seq(Byte) /\ Len(first) = n
      /\ \A i \in 1 .. n : first[i] = s[i]
  OBVIOUS
<1>2. /\ rest \in Seq(Byte) /\ Len(rest) = Len(s) - n
      /\ \A i \in 1 .. Len(s) - n : rest[i] = s[n + i]
  BY SubSeqElements
<1> HIDE DEF first, rest
<1>3. /\ first \o rest \in Seq(Byte) /\ Len(first \o rest) = Len(s)
      /\ \A i \in 1 .. n : (first \o rest)[i] = s[i]
      /\ \A i \in 1 .. Len(s) - n : (first \o rest)[n + i] = s[n + i]
  BY <1>1, <1>2, ConcatElements
<1>4. ASSUME NEW i \in 1 .. Len(s) PROVE (first \o rest)[i] = s[i]
  <2>1. CASE i <= n
    BY <1>3, <2>1
  <2>2. CASE i > n
    <3>1. i - n \in 1 .. Len(s) - n /\ n + (i - n) = i
      BY <2>2
    <3>2. (first \o rest)[n + (i - n)] = s[n + (i - n)]
      BY <1>3, <3>1
    <3> QED BY <3>1, <3>2
  <2>3. i <= n \/ i > n
    OBVIOUS
  <2> QED BY <2>1, <2>2, <2>3
<1> QED BY <1>3, <1>4, SameBytes DEF first, rest

LEMMA ConcatAssociative ==
    ASSUME NEW s \in Seq(Byte), NEW t \in Seq(Byte), NEW u \in Seq(Byte)
    PROVE  (s \o t) \o u = s \o (t \o u)
OBVIOUS

(* Two of them joined give either of them back.                            *)
LEMMA ConcatParts ==
    ASSUME NEW s \in Seq(Byte), NEW t \in Seq(Byte)
    PROVE  /\ SubSeq(s \o t, Len(s) + 1, Len(s \o t)) = t
           /\ SubSeq(s \o t, 1, Len(s)) = s
<1> DEFINE u == s \o t
<1>1. /\ u \in Seq(Byte) /\ Len(u) = Len(s) + Len(t) /\ Len(s) \in Nat /\ Len(t) \in Nat
      /\ \A i \in 1 .. Len(s) : u[i] = s[i]
      /\ \A i \in 1 .. Len(t) : u[Len(s) + i] = t[i]
  BY ConcatElements
<1> HIDE DEF u
<1>2. /\ SubSeq(u, Len(s) + 1, Len(u)) \in Seq(Byte)
      /\ Len(SubSeq(u, Len(s) + 1, Len(u))) = Len(t)
      /\ \A i \in 1 .. Len(t) : SubSeq(u, Len(s) + 1, Len(u))[i] = t[i]
  BY <1>1, SubSeqElements
<1>3. /\ SubSeq(u, 1, Len(s)) \in Seq(Byte)
      /\ Len(SubSeq(u, 1, Len(s))) = Len(s)
      /\ \A i \in 1 .. Len(s) : SubSeq(u, 1, Len(s))[i] = s[i]
  BY <1>1
<1> QED BY <1>2, <1>3, SameBytes DEF u

--------------------------------------------------------------------------------
(* ------------------- what each function does to the queue --------------- *)
(* A byte after the first n of those between r and w lies beyond w.        *)
LEMMA OffsetBeyond ==
    ASSUME NEW r \in Nat, NEW n \in Nat, NEW m \in Nat, NEW size \in Nat, NEW i \in Nat,
           i > n, i <= n + m, r + n + m <= size
    PROVE  /\ i - n \in 1 .. m /\ n + (i - n) = i /\ (r + i) - (r + n) = i - n
           /\ r + i \in (r + n) + 1 .. (r + n) + m /\ r + i \in 1 .. size
OBVIOUS

LEMMA OffsetWithin ==
    ASSUME NEW r \in Nat, NEW n \in Nat, NEW m \in Nat, NEW size \in Nat, NEW i \in 1 .. n,
           r + n <= size
    PROVE  r + i \in 1 .. size /\ r + i \notin (r + n) + 1 .. (r + n) + m
OBVIOUS

LEMMA ContentIs ==
    ASSUME NEW b, IsBuffer(b), NEW c \in Seq(Byte), Len(c) = readableBytes(b),
           \A i \in 1 .. Len(c) : c[i] = b.buffer_[b.readerIndex_ + i]
    PROVE  Content(b) = c
BY ContentFacts, SameBytes

LEMMA FrontFacts ==
    ASSUME NEW b, IsBuffer(b)
    PROVE  Front(b) \in 0 .. kCheapPrepend
BY BufferAssumption DEF IsBuffer, Front

(* makeSpace moves the data only when there is more room in front than the *)
(* queue promises, and then keeps what it promises; it resizes the vector  *)
(* only when all the room there is would not do.                           *)
LEMMA makeSpaceFront ==
    ASSUME NEW b, IsBuffer(b), NEW len \in Nat, writableBytes(b) < len
    PROVE  /\ Front(makeSpace(b, len)) = Front(b)
           /\ MustGrow(b, len) => Len(makeSpace(b, len).buffer_) = b.writerIndex_ + len
           /\ ~MustGrow(b, len) => Len(makeSpace(b, len).buffer_) = Len(b.buffer_)
<1> DEFINE c == makeSpace(b, len)
<1>1. CASE MustGrow(b, len)
  <2> DEFINE n == b.writerIndex_ + len - Len(b.buffer_)
             z == Zeros(n)
  <2>1. n \in Nat
    BY DEF IsBuffer, writableBytes
  <2>2. z \in Seq(Byte) /\ Len(z) = n
    BY <2>1, ZerosFacts, Zenon
  <2>3. c.buffer_ = b.buffer_ \o z /\ c.readerIndex_ = b.readerIndex_
    BY <1>1 DEF makeSpace, IsBuffer
  <2> HIDE DEF z, c
  <2>4. Len(b.buffer_ \o z) = Len(b.buffer_) + Len(z)
    BY <2>2, ConcatFacts DEF IsBuffer
  <2>5. Len(c.buffer_) = b.writerIndex_ + len
    BY <2>1, <2>2, <2>3, <2>4 DEF IsBuffer
  <2> QED BY <1>1, <2>3, <2>5 DEF Front, c
<1>2. CASE ~MustGrow(b, len)
  <2>1. c = [buffer_ |-> Copied(b.buffer_, kCheapPrepend, Content(b)),
             readerIndex_ |-> kCheapPrepend, writerIndex_ |-> kCheapPrepend + readableBytes(b)]
    BY <1>2 DEF makeSpace
  <2>2. Len(Copied(b.buffer_, kCheapPrepend, Content(b))) = Len(b.buffer_)
    BY DEF Copied, IsBuffer
  <2>3. kCheapPrepend < b.readerIndex_ /\ kCheapPrepend \in Nat
    BY <1>2, BufferAssumption DEF IsBuffer, MustGrow, writableBytes, prependableBytes
  <2> QED BY <1>2, <2>1, <2>2, <2>3 DEF Front, IsBuffer
<1> QED BY <1>1, <1>2

LEMMA ensureWritableBytesFront ==
    ASSUME NEW b, IsBuffer(b), NEW len \in Nat
    PROVE  LET c == ensureWritableBytes(b, len) IN
           /\ Front(c) = Front(b)
           /\ \/ Len(c.buffer_) = Len(b.buffer_)
              \/ MustGrow(b, len) /\ Len(c.buffer_) = b.writerIndex_ + len
BY makeSpaceFront DEF ensureWritableBytes

(* What is written at beginWrite() becomes the end of the content.         *)
LEMMA WrittenContent ==
    ASSUME NEW b, IsBuffer(b), NEW s \in Seq(Byte), Len(s) <= writableBytes(b)
    PROVE  /\ Content(Written(b, s)) = Content(b) \o s
           /\ Front(Written(b, s)) = Front(b)
           /\ Len(Written(b, s).buffer_) = Len(b.buffer_)
           /\ Written(b, s).readerIndex_ = b.readerIndex_
           /\ Written(b, s).writerIndex_ = b.writerIndex_ + Len(s)
<1> DEFINE v == Copied(b.buffer_, b.writerIndex_, s)
           c == Written(b, s)
<1>1. /\ b.writerIndex_ \in Nat /\ b.readerIndex_ \in Nat /\ b.buffer_ \in Seq(Byte)
      /\ Len(b.buffer_) \in Nat /\ Len(s) \in Nat
      /\ b.readerIndex_ <= b.writerIndex_ /\ b.writerIndex_ + Len(s) <= Len(b.buffer_)
  BY DEF IsBuffer, writableBytes
<1>2. /\ Len(v) = Len(b.buffer_)
      /\ \A i \in 1 .. Len(b.buffer_) :
            v[i] = IF i \in b.writerIndex_ + 1 .. b.writerIndex_ + Len(s)
                   THEN s[i - b.writerIndex_] ELSE b.buffer_[i]
  BY <1>1, CopiedFacts
<1>3. c = [buffer_ |-> v, readerIndex_ |-> b.readerIndex_, writerIndex_ |-> b.writerIndex_ + Len(s)]
  BY FieldFacts DEF Written
<1>4. IsBuffer(c)
  BY WrittenFacts
<1> HIDE DEF v, c
<1>5. /\ c.buffer_ = v /\ c.readerIndex_ = b.readerIndex_ /\ c.writerIndex_ = b.writerIndex_ + Len(s)
      /\ Front(c) = Front(b)
  BY <1>3 DEF Front
<1> DEFINE t == Content(b) \o s
           n == readableBytes(b)
           a == Content(b)
<1>6. /\ n \in Nat /\ b.readerIndex_ + n = b.writerIndex_
      /\ Content(b) \in Seq(Byte) /\ Len(Content(b)) = n
      /\ \A i \in 1 .. n : Content(b)[i] = b.buffer_[b.readerIndex_ + i]
  BY <1>1, ContentFacts DEF readableBytes
<1>7. /\ t \in Seq(Byte) /\ Len(t) = n + Len(s)
      /\ \A i \in 1 .. n : t[i] = Content(b)[i]
      /\ \A i \in 1 .. Len(s) : t[n + i] = s[i]
  <2>1. a \in Seq(Byte) /\ Len(a) = n
    BY <1>6
  <2> HIDE DEF a, n
  <2>2. /\ a \o s \in Seq(Byte) /\ Len(a \o s) = n + Len(s)
        /\ \A i \in 1 .. n : (a \o s)[i] = a[i]
        /\ \A i \in 1 .. Len(s) : (a \o s)[n + i] = s[i]
    BY <2>1, ConcatElements
  <2> QED BY <2>2 DEF a
<1> HIDE DEF t, n
<1>8. ASSUME NEW i \in 1 .. n + Len(s) PROVE t[i] = v[b.readerIndex_ + i]
  <2>1. CASE i <= n
    <3> DEFINE k == b.readerIndex_ + i
    <3>1. i \in 1 .. n /\ k \in 1 .. Len(b.buffer_)
          /\ ~(k \in b.writerIndex_ + 1 .. b.writerIndex_ + Len(s))
      <4> DEFINE r == b.readerIndex_
                 size == Len(b.buffer_)
                 m == Len(s)
      <4>1. /\ r \in Nat /\ n \in Nat /\ m \in Nat /\ size \in Nat /\ i \in 1 .. n
            /\ r + n <= size /\ b.writerIndex_ = r + n
        BY <1>1, <1>6, <2>1
      <4> HIDE DEF r, size, m
      <4>2. r + i \in 1 .. size /\ r + i \notin (r + n) + 1 .. (r + n) + m
        BY <4>1, OffsetWithin
      <4> QED BY <4>1, <4>2 DEF r, size, m
    <3>2. t[i] = b.buffer_[k]
      BY <1>6, <1>7, <3>1
    <3> HIDE DEF k
    <3>3. v[k] = b.buffer_[k]
      BY <1>2, <3>1
    <3> QED BY <3>2, <3>3 DEF k
  <2>2. CASE i > n
    <3> DEFINE k == b.readerIndex_ + i
               j == i - n
    <3>1. j \in 1 .. Len(s) /\ n + j = i /\ k - b.writerIndex_ = j
          /\ k \in b.writerIndex_ + 1 .. b.writerIndex_ + Len(s) /\ k \in 1 .. Len(b.buffer_)
      <4>1. n \in Nat /\ b.readerIndex_ + n = b.writerIndex_ /\ i \in Nat /\ i <= n + Len(s)
        BY <1>1, <1>6
      <4>2. b.readerIndex_ + n + Len(s) <= Len(b.buffer_) /\ i > n
        BY <1>1, <2>2, <4>1
      <4> DEFINE r == b.readerIndex_
                 size == Len(b.buffer_)
                 m == Len(s)
      <4>3. /\ n \in Nat /\ m \in Nat /\ r \in Nat /\ size \in Nat /\ i \in Nat
            /\ i > n /\ i <= n + m /\ r + n + m <= size
        BY <1>1, <4>1, <4>2
      <4> HIDE DEF r, size, m
      <4>4. /\ i - n \in 1 .. m /\ n + (i - n) = i /\ (r + i) - (r + n) = i - n
            /\ r + i \in (r + n) + 1 .. (r + n) + m /\ r + i \in 1 .. size
        BY <4>3, OffsetBeyond
      <4> QED BY <4>1, <4>4 DEF r, size, m
    <3> HIDE DEF k, j
    <3>2. t[n + j] = s[j]
      BY <1>7, <3>1
    <3>3. v[k] = s[k - b.writerIndex_]
      BY <1>2, <3>1
    <3> QED BY <3>1, <3>2, <3>3 DEF k
  <2> QED BY <1>6, <2>1, <2>2
<1>9. readableBytes(c) = Len(t)
  BY <1>1, <1>5, <1>7 DEF readableBytes, n
<1>10. Content(c) = t
  BY <1>4, <1>5, <1>7, <1>8, <1>9, ContentIs
<1> QED BY <1>2, <1>5, <1>10 DEF c, t

(* append: the bytes join the end, the room in front is kept, and the      *)
(* vector is resized only when MustGrow says so.                           *)
LEMMA appendContent ==
    ASSUME NEW b, IsBuffer(b), NEW s \in Seq(Byte)
    PROVE  /\ Content(append(b, s)) = Content(b) \o s
           /\ Front(append(b, s)) = Front(b)
           /\ \/ Len(append(b, s).buffer_) = Len(b.buffer_)
              \/ MustGrow(b, Len(s)) /\ Len(append(b, s).buffer_) = b.writerIndex_ + Len(s)
<1> DEFINE c == ensureWritableBytes(b, Len(s))
<1>1. Len(s) \in Nat
  OBVIOUS
<1>2. /\ IsBuffer(c) /\ writableBytes(c) >= Len(s) /\ Content(c) = Content(b)
      /\ Front(c) = Front(b)
      /\ \/ Len(c.buffer_) = Len(b.buffer_)
         \/ MustGrow(b, Len(s)) /\ Len(c.buffer_) = b.writerIndex_ + Len(s)
  BY <1>1, ensureWritableBytesFacts, ensureWritableBytesFront
<1>3. append(b, s) = Written(c, s)
  BY DEF append
<1> HIDE DEF c
<1>4. Len(s) <= writableBytes(c)
  BY <1>1, <1>2 DEF IsBuffer, writableBytes
<1>5. /\ Content(Written(c, s)) = Content(c) \o s /\ Front(Written(c, s)) = Front(c)
      /\ Len(Written(c, s).buffer_) = Len(c.buffer_)
  BY <1>2, <1>4, WrittenContent
<1> QED BY <1>2, <1>3, <1>5

(* readFd: the two parts of what arrived join the end in order.            *)
LEMMA readFdContent ==
    ASSUME NEW b, IsBuffer(b), NEW s \in Seq(Byte)
    PROVE  /\ Content(readFd(b, s)) = Content(b) \o s
           /\ Front(readFd(b, s)) = Front(b)
           /\ \/ Len(readFd(b, s).buffer_) = Len(b.buffer_)
              \/ /\ MustGrow(b, Len(s))
                 /\ Len(readFd(b, s).buffer_) = b.writerIndex_ + Len(s)
<1> DEFINE n == writableBytes(b)
<1>1. n \in Nat /\ Len(s) \in Nat /\ b.writerIndex_ + n = Len(b.buffer_)
  BY DEF IsBuffer, writableBytes
<1>2. CASE Len(s) <= n
  BY <1>2, WrittenContent DEF readFd
<1>3. CASE ~(Len(s) <= n)
  <2> DEFINE first == SubSeq(s, 1, n)
             rest == SubSeq(s, n + 1, Len(s))
             c == Written(b, first)
             d == append(c, rest)
  <2>1. /\ first \in Seq(Byte) /\ Len(first) = n
        /\ rest \in Seq(Byte) /\ Len(rest) = Len(s) - n
        /\ first \o rest = s
    <3>1. n <= Len(s) /\ Len(s) <= Len(s)
      BY <1>1, <1>3
    <3>2. first \in Seq(Byte) /\ Len(first) = n
      BY <1>1, <3>1
    <3>3. rest \in Seq(Byte) /\ Len(rest) = Len(s) - n
      BY <1>1, <3>1, SubSeqElements
    <3>4. first \o rest = s
      BY <1>1, <3>1, SplitConcat
    <3> QED BY <3>2, <3>3, <3>4
  <2>2. readFd(b, s) = d
    BY <1>3 DEF readFd
  <2> HIDE DEF first, rest
  <2>3. Len(first) <= writableBytes(b)
    BY <1>1, <2>1
  <2>4. /\ IsBuffer(c) /\ Content(c) = Content(b) \o first /\ Front(c) = Front(b)
        /\ Len(c.buffer_) = Len(b.buffer_) /\ c.readerIndex_ = b.readerIndex_
        /\ c.writerIndex_ = b.writerIndex_ + n
    BY <2>1, <2>3, WrittenFacts, WrittenContent
  <2> HIDE DEF c
  <2>5. /\ Content(d) = Content(c) \o rest /\ Front(d) = Front(c)
        /\ \/ Len(d.buffer_) = Len(c.buffer_)
           \/ MustGrow(c, Len(rest)) /\ Len(d.buffer_) = c.writerIndex_ + Len(rest)
    BY <2>1, <2>4, appendContent
  <2> HIDE DEF d
  <2>6. Content(d) = Content(b) \o s
    <3> DEFINE a == Content(b)
    <3>1. a \in Seq(Byte) /\ Content(d) = (a \o first) \o rest
      BY <2>4, <2>5, ContentFacts
    <3> HIDE DEF a
    <3>2. (a \o first) \o rest = a \o (first \o rest)
      BY <2>1, <3>1, ConcatAssociative
    <3> QED BY <2>1, <3>1, <3>2 DEF a
  <2>7. MustGrow(c, Len(rest)) => MustGrow(b, Len(s))
    <3>1. /\ b.writerIndex_ \in Nat /\ b.readerIndex_ \in Nat /\ Len(b.buffer_) \in Nat
          /\ kCheapPrepend \in Nat
      BY BufferAssumption DEF IsBuffer
    <3>2. writableBytes(b) = n /\ writableBytes(c) = 0
      BY <1>1, <2>4, <3>1 DEF writableBytes
    <3>3. prependableBytes(c) = b.readerIndex_ /\ prependableBytes(b) = b.readerIndex_
      BY <2>4 DEF prependableBytes
    <3> HIDE DEF n
    <3> QED BY <1>1, <2>1, <3>1, <3>2, <3>3 DEF MustGrow
  <2>8. c.writerIndex_ + Len(rest) = b.writerIndex_ + Len(s)
    BY <1>1, <2>1, <2>4 DEF IsBuffer
  <2> QED BY <2>2, <2>4, <2>5, <2>6, <2>7, <2>8
<1> QED BY <1>2, <1>3

(* prepend: the bytes join the front and take their own length of room.    *)
LEMMA prependContent ==
    ASSUME NEW b, IsBuffer(b), NEW s \in Seq(Byte), Len(s) <= prependableBytes(b)
    PROVE  /\ Content(prepend(b, s)) = s \o Content(b)
           /\ Front(prepend(b, s)) >= Front(b) - Len(s)
           /\ Len(prepend(b, s).buffer_) = Len(b.buffer_)
           /\ prepend(b, s).readerIndex_ = b.readerIndex_ - Len(s)
<1> DEFINE at == b.readerIndex_ - Len(s)
           v == Copied(b.buffer_, at, s)
           c == prepend(b, s)
<1>1. /\ b.writerIndex_ \in Nat /\ b.readerIndex_ \in Nat /\ b.buffer_ \in Seq(Byte)
      /\ Len(b.buffer_) \in Nat /\ Len(s) \in Nat /\ at \in Nat /\ at + Len(s) = b.readerIndex_
      /\ b.readerIndex_ <= b.writerIndex_ /\ b.writerIndex_ <= Len(b.buffer_)
  BY DEF IsBuffer, prependableBytes
<1> HIDE DEF at
<1>2. /\ Len(v) = Len(b.buffer_)
      /\ \A i \in 1 .. Len(b.buffer_) :
            v[i] = IF i \in at + 1 .. at + Len(s) THEN s[i - at] ELSE b.buffer_[i]
  <2>1. at + Len(s) <= Len(b.buffer_)
    BY <1>1
  <2> QED BY <1>1, <2>1, CopiedFacts
<1>3. c = [buffer_ |-> v, readerIndex_ |-> at, writerIndex_ |-> b.writerIndex_]
  <2>1. c = [b EXCEPT !.buffer_ = v, !.readerIndex_ = at]
    BY DEF prepend, at
  <2> QED BY <2>1, FieldFacts
<1>4. IsBuffer(c)
  BY prependFacts
<1> HIDE DEF v, c
<1>5. c.buffer_ = v /\ c.readerIndex_ = at /\ c.writerIndex_ = b.writerIndex_
  BY <1>3
<1>6. Front(c) >= Front(b) - Len(s)
  BY <1>1, <1>5, BufferAssumption DEF Front
<1> DEFINE a == Content(b)
           n == readableBytes(b)
           t == s \o a
<1>7. /\ n \in Nat /\ b.readerIndex_ + n = b.writerIndex_
      /\ a \in Seq(Byte) /\ Len(a) = n
      /\ \A i \in 1 .. n : a[i] = b.buffer_[b.readerIndex_ + i]
  BY <1>1, ContentFacts DEF readableBytes
<1> HIDE DEF a, n
<1>8. /\ t \in Seq(Byte) /\ Len(t) = Len(s) + n
      /\ \A i \in 1 .. Len(s) : t[i] = s[i]
      /\ \A i \in 1 .. n : t[Len(s) + i] = a[i]
  BY <1>7, ConcatElements
<1> HIDE DEF t
<1>9. ASSUME NEW i \in 1 .. Len(s) + n PROVE t[i] = v[at + i]
  <2> DEFINE k == at + i
  <2>1. CASE i <= Len(s)
    <3>1. i \in 1 .. Len(s) /\ k \in 1 .. Len(b.buffer_) /\ k \in at + 1 .. at + Len(s) /\ k - at = i
      BY <1>1, <2>1
    <3> HIDE DEF k
    <3>2. v[k] = s[k - at]
      BY <1>2, <3>1
    <3> QED BY <1>8, <3>1, <3>2 DEF k
  <2>2. CASE i > Len(s)
    <3> DEFINE j == i - Len(s)
    <3>1. /\ Len(s) \in Nat /\ n \in Nat /\ at \in Nat /\ i \in Nat /\ Len(b.buffer_) \in Nat
          /\ i > Len(s) /\ i <= Len(s) + n /\ at + Len(s) + n <= Len(b.buffer_)
      BY <1>1, <1>7, <2>2
    <3>2. j \in 1 .. n /\ Len(s) + j = i /\ (at + Len(s)) + j = k
          /\ ~(k \in at + 1 .. at + Len(s)) /\ k \in 1 .. Len(b.buffer_)
      BY <3>1
    <3> HIDE DEF k, j
    <3>3. v[k] = b.buffer_[k]
      BY <1>2, <3>2
    <3>4. t[Len(s) + j] = a[j]
      BY <1>8, <3>2
    <3>5. a[j] = b.buffer_[b.readerIndex_ + j]
      BY <1>7, <3>2
    <3>6. b.readerIndex_ + j = k
      BY <1>1, <3>2
    <3> QED BY <3>2, <3>3, <3>4, <3>5, <3>6 DEF k
  <2>3. i <= Len(s) \/ i > Len(s)
    BY <1>1, <1>7
  <2> QED BY <2>1, <2>2, <2>3
<1>10. readableBytes(c) = Len(t)
  BY <1>1, <1>5, <1>7, <1>8 DEF readableBytes
<1>11. Content(c) = t
  BY <1>4, <1>5, <1>8, <1>9, <1>10, ContentIs
<1> QED BY <1>2, <1>5, <1>6, <1>11 DEF c, t, a, at

LEMMA EmptyBuffer ==
    ASSUME NEW b, IsBuffer(b), readableBytes(b) = 0
    PROVE  Content(b) = <<>>
<1>1. Content(b) \in Seq(Byte) /\ Len(Content(b)) = 0
  BY ContentFacts
<1> QED BY <1>1

LEMMA retrieveAllContent ==
    ASSUME NEW b, IsBuffer(b)
    PROVE  /\ IsBuffer(retrieveAll(b)) /\ Content(retrieveAll(b)) = <<>>
           /\ Front(retrieveAll(b)) = kCheapPrepend
           /\ Len(retrieveAll(b).buffer_) = Len(b.buffer_)
<1> DEFINE c == retrieveAll(b)
<1>1. c = [buffer_ |-> b.buffer_, readerIndex_ |-> kCheapPrepend, writerIndex_ |-> kCheapPrepend]
  <2>1. c = [b EXCEPT !.readerIndex_ = kCheapPrepend, !.writerIndex_ = kCheapPrepend]
    BY DEF retrieveAll
  <2> QED BY <2>1, FieldFacts
<1>2. IsBuffer(c)
  BY retrieveFacts, 0 \in Nat
<1> HIDE DEF c
<1>3. readableBytes(c) = 0
  BY <1>1, BufferAssumption DEF readableBytes
<1>4. Content(c) = <<>>
  BY <1>2, <1>3, EmptyBuffer
<1> QED BY <1>1, <1>2, <1>4, BufferAssumption DEF c, Front

(* retrieve: the bytes leave the front, whose room grows by as much; all   *)
(* the room is back when nothing is left.                                  *)
LEMMA retrieveContent ==
    ASSUME NEW b, IsBuffer(b), NEW len \in Nat, len <= readableBytes(b)
    PROVE  /\ Content(retrieve(b, len)) = SubSeq(Content(b), len + 1, Len(Content(b)))
           /\ Front(retrieve(b, len)) =
                 IF len = Len(Content(b)) THEN kCheapPrepend
                 ELSE IF Front(b) + len < kCheapPrepend THEN Front(b) + len ELSE kCheapPrepend
           /\ Len(retrieve(b, len).buffer_) = Len(b.buffer_)
<1> DEFINE c == retrieve(b, len)
           a == Content(b)
           n == readableBytes(b)
           t == SubSeq(a, len + 1, Len(a))
<1>1. /\ n \in Nat /\ a \in Seq(Byte) /\ Len(a) = n /\ n = b.writerIndex_ - b.readerIndex_
      /\ b.readerIndex_ \in Nat /\ b.writerIndex_ \in Nat
      /\ \A i \in 1 .. n : a[i] = b.buffer_[b.readerIndex_ + i]
  BY ContentFacts DEF IsBuffer, readableBytes
<1>2. IsBuffer(c)
  BY retrieveFacts
<1> HIDE DEF a
<1>3. /\ t \in Seq(Byte) /\ Len(t) = n - len
      /\ \A i \in 1 .. n - len : t[i] = a[len + i]
  <2>1. len <= Len(a) /\ Len(a) \in Nat
    BY <1>1
  <2> QED BY <1>1, <2>1, SubSeqElements
<1>4. CASE len < n
  <2>1. c = [b EXCEPT !.readerIndex_ = b.readerIndex_ + len]
    BY <1>4 DEF retrieve
  <2>2. /\ c.buffer_ = b.buffer_ /\ c.readerIndex_ = b.readerIndex_ + len
        /\ c.writerIndex_ = b.writerIndex_
    BY <2>1 DEF IsBuffer
  <2> HIDE DEF c, n, t
  <2>3. readableBytes(c) = Len(t)
    BY <1>1, <1>3, <2>2 DEF readableBytes
  <2>4. ASSUME NEW i \in 1 .. Len(t) PROVE t[i] = c.buffer_[c.readerIndex_ + i]
    <3>1. len + i \in 1 .. n /\ i \in 1 .. n - len
      BY <1>1, <1>3
    <3>2. t[i] = a[len + i] /\ a[len + i] = b.buffer_[b.readerIndex_ + (len + i)]
      BY <1>1, <1>3, <3>1
    <3>3. b.readerIndex_ + (len + i) = c.readerIndex_ + i
      BY <1>1, <2>2, <3>1
    <3> QED BY <2>2, <3>2, <3>3
  <2>5. Content(c) = t
    BY <1>2, <1>3, <2>3, <2>4, ContentIs
  <2>6. /\ len # Len(a)
        /\ Front(c) = IF Front(b) + len < kCheapPrepend THEN Front(b) + len ELSE kCheapPrepend
    BY <1>1, <1>4, <2>2, BufferAssumption DEF Front
  <2> QED BY <2>2, <2>5, <2>6 DEF c, t, a
<1>5. CASE ~(len < n)
  <2>1. len = n /\ c = retrieveAll(b)
    BY <1>1, <1>5 DEF retrieve
  <2>2. t = <<>>
    <3>1. t \in Seq(Byte) /\ Len(t) = 0
      BY <1>1, <1>3, <2>1
    <3> HIDE DEF t
    <3> QED BY <3>1
  <2> QED BY <1>1, <2>1, <2>2, retrieveAllContent DEF a
<1> QED BY <1>4, <1>5

(* unwrite: the bytes leave the back.                                      *)
LEMMA unwriteContent ==
    ASSUME NEW b, IsBuffer(b), NEW len \in Nat, len <= readableBytes(b)
    PROVE  LET c == [b EXCEPT !.writerIndex_ = @ - len] IN
           /\ Content(c) = SubSeq(Content(b), 1, Len(Content(b)) - len)
           /\ Front(c) = Front(b)
           /\ Len(c.buffer_) = Len(b.buffer_)
<1> DEFINE c == [b EXCEPT !.writerIndex_ = @ - len]
           a == Content(b)
           n == readableBytes(b)
           t == SubSeq(a, 1, Len(a) - len)
<1>1. /\ n \in Nat /\ a \in Seq(Byte) /\ Len(a) = n /\ n = b.writerIndex_ - b.readerIndex_
      /\ b.readerIndex_ \in Nat /\ b.writerIndex_ \in Nat
      /\ \A i \in 1 .. n : a[i] = b.buffer_[b.readerIndex_ + i]
  BY ContentFacts DEF IsBuffer, readableBytes
<1>2. /\ c = [buffer_ |-> b.buffer_, readerIndex_ |-> b.readerIndex_,
              writerIndex_ |-> b.writerIndex_ - len]
  BY DEF IsBuffer
<1> HIDE DEF c
<1>3. IsBuffer(c)
  BY <1>1, <1>2 DEF IsBuffer
<1> HIDE DEF a
<1>4. /\ t \in Seq(Byte) /\ Len(t) = n - len
      /\ \A i \in 1 .. n - len : t[i] = a[i]
  <2>1. 0 <= Len(a) - len /\ Len(a) - len <= Len(a) /\ Len(a) - len \in Nat /\ 0 + 1 = 1
    BY <1>1
  <2> QED BY <1>1, <2>1
<1> HIDE DEF t, n
<1>5. readableBytes(c) = Len(t)
  BY <1>1, <1>2, <1>4 DEF readableBytes
<1>6. ASSUME NEW i \in 1 .. Len(t) PROVE t[i] = c.buffer_[c.readerIndex_ + i]
  <2>1. i \in 1 .. n /\ i \in 1 .. n - len
    BY <1>1, <1>4
  <2> QED BY <1>1, <1>2, <1>4, <2>1
<1>7. Content(c) = t
  BY <1>3, <1>4, <1>5, <1>6, ContentIs
<1> QED BY <1>2, <1>7 DEF c, t, a, Front

(* shrink: the data as it was, behind all the room.                        *)
LEMMA shrinkContent ==
    ASSUME NEW b, IsBuffer(b), NEW reserve \in Nat
    PROVE  Content(shrink(b, reserve)) = Content(b) /\ Front(shrink(b, reserve)) = kCheapPrepend
<1> DEFINE new == NewBuffer(kInitialSize)
           other == ensureWritableBytes(new, readableBytes(b) + reserve)
           a == Content(b)
<1>1. readableBytes(b) + reserve \in Nat /\ a \in Seq(Byte)
  <2>1. readableBytes(b) + reserve \in Nat
    BY DEF IsBuffer, readableBytes
  <2> QED BY <2>1, ContentFacts
<1>2. IsBuffer(new) /\ Content(new) = <<>>
  BY BufferAssumption, NewBufferFacts
<1>3. Front(new) = kCheapPrepend
  BY BufferAssumption DEF NewBuffer, Front
<1>4. shrink(b, reserve) = append(other, a)
  BY DEF shrink, swap
<1> HIDE DEF new, a
<1>5. IsBuffer(other) /\ Content(other) = <<>> /\ Front(other) = kCheapPrepend
  BY <1>1, <1>2, <1>3, ensureWritableBytesFacts, ensureWritableBytesFront
<1> HIDE DEF other
<1>6. Content(append(other, a)) = <<>> \o a /\ Front(append(other, a)) = kCheapPrepend
  BY <1>1, <1>5, appendContent
<1> QED BY <1>1, <1>4, <1>6, ConcatEmptyBytes DEF a

--------------------------------------------------------------------------------
(* -------------------------- the abstract queue -------------------------- *)
(* A step of the buffer that does these things to content and room is the  *)
(* step of the queue of that name.                                         *)
LEMMA QueuePut ==
    ASSUME NEW s, Content(buf') = Content(buf) \o s, Front(buf') = Front(buf)
    PROVE  Queue!Put(s)
BY DEF Queue!Put, Front

LEMMA QueuePutFront ==
    ASSUME NEW s, Content(buf') = s \o Content(buf), Front(buf') \in 0 .. kCheapPrepend,
           Front(buf') >= Front(buf) - Len(s)
    PROVE  Queue!PutFront(s)
BY DEF Queue!PutFront, Front

LEMMA QueueTake ==
    ASSUME NEW len,
           Content(buf') = SubSeq(Content(buf), len + 1, Len(Content(buf))),
           Front(buf') = IF len = Len(Content(buf)) THEN kCheapPrepend
                         ELSE IF Front(buf) + len < kCheapPrepend THEN Front(buf) + len
                         ELSE kCheapPrepend
    PROVE  Queue!Take(len)
BY DEF Queue!Take, Queue!LeastOf, Front

LEMMA QueueWithdraw ==
    ASSUME NEW len, Content(buf') = SubSeq(Content(buf), 1, Len(Content(buf)) - len),
           Front(buf') = Front(buf)
    PROVE  Queue!Withdraw(len)
BY DEF Queue!Withdraw, Front

LEMMA QueueRenew ==
    ASSUME Content(buf') = Content(buf), Front(buf') = kCheapPrepend
    PROVE  Queue!Renew
BY DEF Queue!Renew, Front

QueueUnchanged == UNCHANGED <<Content(buf), Front(buf)>>
QueueStep == Queue!Next \/ QueueUnchanged

LEMMA PutSteps ==
    ASSUME NEW s \in Seq(Byte), IsBuffer(buf), Queue!Put(s)
    PROVE  QueueStep
<1> DEFINE a == Content(buf)
<1>1. a \in Seq(Byte) /\ Content(buf') = a \o s /\ Front(buf') = Front(buf)
  BY ContentFacts DEF Queue!Put, Front
<1>2. CASE s = <<>>
  BY <1>1, <1>2, ConcatEmptyBytes DEF QueueStep, QueueUnchanged
<1>3. CASE s # <<>>
  <2> DEFINE n == Len(a) + 1
             u == a \o s
  <2> HIDE DEF a
  <2>1. Len(s) \in Nat \ {0} /\ Len(a) \in Nat /\ Len(u) = Len(a) + Len(s)
    BY <1>1, <1>3, ConcatElements
  <2>2. n \in 1 .. Len(u)
    BY <2>1
  <2>3. SubSeq(u, n, Len(u)) = s
    BY <1>1, ConcatParts
  <2> HIDE DEF n, u
  <2>4. \E i \in 1 .. Len(Content(buf')) : Queue!Put(SubSeq(Content(buf'), i, Len(Content(buf'))))
    BY <1>1, <2>2, <2>3 DEF u
  <2> QED BY <2>4 DEF Queue!Next, QueueStep
<1> QED BY <1>2, <1>3

LEMMA PutFrontSteps ==
    ASSUME NEW s \in Seq(Byte), s # <<>>, IsBuffer(buf), Queue!PutFront(s)
    PROVE  QueueStep
<1> DEFINE a == Content(buf)
           u == s \o a
<1>1. a \in Seq(Byte) /\ Content(buf') = u
  BY ContentFacts DEF Queue!PutFront
<1> HIDE DEF a
<1>2. Len(s) \in Nat \ {0} /\ Len(a) \in Nat /\ Len(u) = Len(s) + Len(a)
  BY <1>1, ConcatElements
<1>3. Len(s) \in 1 .. Len(u) /\ SubSeq(u, 1, Len(s)) = s
  BY <1>1, <1>2, ConcatParts
<1> HIDE DEF u
<1>4. \E i \in 1 .. Len(Content(buf')) : Queue!PutFront(SubSeq(Content(buf'), 1, i))
  BY <1>1, <1>3
<1> QED BY <1>4 DEF Queue!Next, QueueStep

LEMMA TakeSteps ==
    ASSUME NEW n \in Nat, IsBuffer(buf), n <= readableBytes(buf), Queue!Take(n) \/ Queue!Withdraw(n)
    PROVE  QueueStep
<1>1. n \in 0 .. Len(Content(buf))
  BY ContentFacts DEF IsBuffer, readableBytes
<1> QED BY <1>1 DEF Queue!Next, QueueStep

(* Each call does to the queue what its name says.                         *)
LEMMA PutCalls ==
    ASSUME IsBuffer(buf), NEW s \in Seq(Byte),
           \/ buf' = append(buf, s) \/ buf' = readFd(buf, s)
           \/ Len(s) <= writableBytes(buf) /\ buf' = Written(buf, s)
    PROVE  Queue!Put(s)
<1>1. Content(buf') = Content(buf) \o s /\ Front(buf') = Front(buf)
  <2>1. CASE buf' = append(buf, s)
    BY <2>1, appendContent
  <2>2. CASE buf' = readFd(buf, s)
    BY <2>2, readFdContent
  <2>3. CASE Len(s) <= writableBytes(buf) /\ buf' = Written(buf, s)
    BY <2>3, WrittenContent
  <2> QED BY <2>1, <2>2, <2>3
<1> QED BY <1>1, QueuePut

LEMMA PrependCalls ==
    ASSUME IsBuffer(buf), NEW s \in Seq(Byte), Len(s) <= prependableBytes(buf), buf' = prepend(buf, s)
    PROVE  Queue!PutFront(s)
BY prependFacts, prependContent, FrontFacts, QueuePutFront

LEMMA RetrieveCalls ==
    ASSUME IsBuffer(buf), NEW len \in Nat, len <= readableBytes(buf), buf' = retrieve(buf, len)
    PROVE  Queue!Take(len)
BY retrieveContent, QueueTake

LEMMA RetrieveAllCalls ==
    ASSUME IsBuffer(buf), RetrieveAll
    PROVE  Queue!Take(readableBytes(buf)) /\ readableBytes(buf) \in Nat
<1> DEFINE a == Content(buf)
<1>1. readableBytes(buf) \in Nat /\ a \in Seq(Byte) /\ Len(a) = readableBytes(buf)
  BY ContentFacts DEF IsBuffer, readableBytes
<1> HIDE DEF a
<1>2. SubSeq(a, Len(a) + 1, Len(a)) = <<>>
  BY <1>1
<1>3. Content(buf') = <<>> /\ Front(buf') = kCheapPrepend
  BY retrieveAllContent DEF RetrieveAll
<1> QED BY <1>1, <1>2, <1>3, QueueTake DEF a

LEMMA UnwriteCalls ==
    ASSUME IsBuffer(buf), NEW len \in Nat, Unwrite(len)
    PROVE  Queue!Withdraw(len)
BY unwriteContent, QueueWithdraw DEF Unwrite

LEMMA EnsureCalls ==
    ASSUME IsBuffer(buf), NEW len \in Nat, EnsureWritable(len)
    PROVE  Queue!Put(<<>>)
<1>1. Content(buf') = Content(buf) /\ Front(buf') = Front(buf)
  BY ensureWritableBytesFacts, ensureWritableBytesFront DEF EnsureWritable, Becomes
<1>2. Content(buf) \o <<>> = Content(buf)
  BY ContentFacts, ConcatEmptyBytes
<1> QED BY <1>1, <1>2, QueuePut

LEMMA ShrinkCalls ==
    ASSUME IsBuffer(buf), NEW reserve \in Nat, Shrink(reserve)
    PROVE  Queue!Renew
BY shrinkContent, QueueRenew DEF Shrink, Becomes

LEMMA CallsStep ==
    ASSUME IsBuffer(buf)
    PROVE  CallsOnQueue
<1>1. ASSUME NEW s \in Data
      PROVE  /\ (AppendBytes(s) \/ HasWritten(s) \/ ReadFd(s)) => Queue!Put(s)
             /\ Prepend(s) => Queue!PutFront(s)
  <2>1. s \in Seq(Byte)
    BY BufferAssumption
  <2>2. ASSUME AppendBytes(s) \/ HasWritten(s) \/ ReadFd(s) PROVE Queue!Put(s)
    BY <2>1, <2>2, PutCalls DEF AppendBytes, HasWritten, ReadFd, Becomes
  <2>3. ASSUME Prepend(s) PROVE Queue!PutFront(s)
    BY <2>1, <2>3, PrependCalls DEF Prepend
  <2> QED BY <2>2, <2>3
<1>2. ASSUME NEW len \in 0 .. MaxSize
      PROVE  /\ Retrieve(len) => Queue!Take(len)
             /\ Unwrite(len) => Queue!Withdraw(len)
             /\ EnsureWritable(len) => Queue!Put(<<>>)
  <2>1. len \in Nat
    BY BufferAssumption
  <2>2. ASSUME Retrieve(len) PROVE Queue!Take(len)
    BY <2>1, <2>2, RetrieveCalls DEF Retrieve
  <2>3. ASSUME Unwrite(len) PROVE Queue!Withdraw(len)
    BY <2>1, <2>3, UnwriteCalls
  <2>4. ASSUME EnsureWritable(len) PROVE Queue!Put(<<>>)
    BY <2>1, <2>4, EnsureCalls
  <2> QED BY <2>2, <2>3, <2>4
<1>3. RetrieveAll => Queue!Take(readableBytes(buf))
  BY RetrieveAllCalls
<1>4. ASSUME NEW reserve \in Reserves, Shrink(reserve) PROVE Queue!Renew
  BY <1>4, BufferAssumption, ShrinkCalls
<1> QED BY <1>1, <1>2, <1>3, <1>4 DEF CallsOnQueue

--------------------------------------------------------------------------------
(* ------------------------------ line ends ------------------------------- *)
LEMMA FirstOfFacts ==
    ASSUME NEW P \in SUBSET Nat, NEW none
    PROVE  /\ P = {} => FirstOf(P, none) = none
           /\ P # {} => FirstOf(P, none) \in P /\ \A q \in P : FirstOf(P, none) <= q
<1>1. CASE P = {}
  BY <1>1 DEF FirstOf
<1>2. CASE P # {}
  <2>1. \E p \in P : \A q \in P : p <= q
    BY <1>2, LeastNumber
  <2> QED BY <1>2, <2>1 DEF FirstOf
<1> QED BY <1>1, <1>2

(* The offsets at which the readable bytes from start have a line end.     *)
CRLFs(b, start) ==
    {p \in start .. b.writerIndex_ - 2 : b.buffer_[p + 1] = CR /\ b.buffer_[p + 2] = LF}
LFs(b, start) == {p \in start .. b.writerIndex_ - 1 : b.buffer_[p + 1] = LF}

LEMMA findCRLFFacts ==
    ASSUME NEW b, IsBuffer(b), NEW start \in b.readerIndex_ .. b.writerIndex_
    PROVE  /\ CRLFs(b, start) = {} => findCRLF(b, start) = -1
           /\ CRLFs(b, start) # {} => /\ findCRLF(b, start) \in CRLFs(b, start)
                                      /\ \A q \in CRLFs(b, start) : findCRLF(b, start) <= q
<1> DEFINE P == CRLFs(b, start)
           first == FirstOf(P, b.writerIndex_)
<1>1. P \in SUBSET Nat /\ \A p \in P : p # b.writerIndex_
  BY DEF CRLFs, IsBuffer
<1>2. findCRLF(b, start) = IF first = b.writerIndex_ THEN -1 ELSE first
  BY DEF findCRLF, CRLFs
<1> HIDE DEF P
<1>3. /\ P = {} => first = b.writerIndex_
      /\ P # {} => first \in P /\ \A q \in P : first <= q
  BY <1>1, FirstOfFacts
<1> HIDE DEF first
<1>4. /\ P = {} => findCRLF(b, start) = -1
      /\ P # {} => /\ findCRLF(b, start) \in P
                   /\ \A q \in P : findCRLF(b, start) <= q
  BY <1>1, <1>2, <1>3
<1> QED BY <1>4 DEF P

LEMMA findEOLFacts ==
    ASSUME NEW b, IsBuffer(b), NEW start \in b.readerIndex_ .. b.writerIndex_
    PROVE  /\ LFs(b, start) = {} => findEOL(b, start) = -1
           /\ LFs(b, start) # {} => /\ findEOL(b, start) \in LFs(b, start)
                                    /\ \A q \in LFs(b, start) : findEOL(b, start) <= q
<1> DEFINE P == LFs(b, start)
<1>1. P \in SUBSET Nat
  BY DEF LFs, IsBuffer
<1>2. findEOL(b, start) = FirstOf(P, -1)
  BY DEF findEOL, LFs
<1> HIDE DEF P
<1>3. /\ P = {} => findEOL(b, start) = -1
      /\ P # {} => /\ findEOL(b, start) \in P
                   /\ \A q \in P : findEOL(b, start) <= q
  BY <1>1, <1>2, FirstOfFacts
<1> QED BY <1>3 DEF P

(* The readable bytes from start on, as the property reads them.           *)
LEMMA RestFacts ==
    ASSUME NEW b, IsBuffer(b), NEW start \in b.readerIndex_ .. b.writerIndex_
    PROVE  /\ SubSeq(b.buffer_, start + 1, b.writerIndex_) \in Seq(Byte)
           /\ Len(SubSeq(b.buffer_, start + 1, b.writerIndex_)) = b.writerIndex_ - start
           /\ \A i \in 1 .. b.writerIndex_ - start :
                 SubSeq(b.buffer_, start + 1, b.writerIndex_)[i] = b.buffer_[start + i]
<1>1. /\ start \in Nat /\ b.writerIndex_ \in Nat /\ start <= b.writerIndex_
      /\ b.buffer_ \in Seq(Byte) /\ b.writerIndex_ <= Len(b.buffer_)
  BY DEF IsBuffer
<1> DEFINE v == b.buffer_
           n == b.writerIndex_
<1> HIDE DEF v, n
<1>2. v \in Seq(Byte) /\ n \in Nat /\ start <= n /\ n <= Len(v)
  BY <1>1 DEF v, n
<1>3. /\ SubSeq(v, start + 1, n) \in Seq(Byte) /\ Len(SubSeq(v, start + 1, n)) = n - start
      /\ \A i \in 1 .. n - start : SubSeq(v, start + 1, n)[i] = v[start + i]
  BY <1>1, <1>2, SubSeqElements
<1> QED BY <1>3 DEF v, n

(* findCRLF and findEOL give the first line end after start, and -1 only   *)
(* when there is none: the bytes beyond writerIndex_ never matter.         *)
THEOREM LineEndsAreFound == Spec => []LineEndsFound
<1>1. ASSUME IsBuffer(buf), NEW start \in buf.readerIndex_ .. buf.writerIndex_
      PROVE  LET rest == SubSeq(buf.buffer_, start + 1, buf.writerIndex_)
                 IsCRLF(i) == rest[i] = CR /\ rest[i + 1] = LF
                 crlf == findCRLF(buf, start) - start + 1
                 eol == findEOL(buf, start) - start + 1
             IN  /\ IF \E i \in 1 .. Len(rest) - 1 : IsCRLF(i)
                    THEN IsCRLF(crlf) /\ \A i \in 1 .. crlf - 1 : ~IsCRLF(i)
                    ELSE findCRLF(buf, start) = -1
                 /\ IF \E i \in 1 .. Len(rest) : rest[i] = LF
                    THEN rest[eol] = LF /\ \A i \in 1 .. eol - 1 : rest[i] # LF
                    ELSE findEOL(buf, start) = -1
  <2> DEFINE v == buf.buffer_
             w == buf.writerIndex_
             rest == SubSeq(buf.buffer_, start + 1, buf.writerIndex_)
             m == w - start
             c == findCRLF(buf, start)
             e == findEOL(buf, start)
             C == CRLFs(buf, start)
             L == LFs(buf, start)
  <2>1. w \in Nat /\ start \in Nat /\ m \in Nat /\ w = start + m
    BY <1>1 DEF IsBuffer
  <2>2. Len(rest) = m /\ \A i \in 1 .. m : rest[i] = v[start + i]
    BY <1>1, RestFacts
  <2>3. /\ C = {} => c = -1
        /\ C # {} => c \in C /\ \A q \in C : c <= q
    BY <1>1, findCRLFFacts
  <2>4. /\ L = {} => e = -1
        /\ L # {} => e \in L /\ \A q \in L : e <= q
    BY <1>1, findEOLFacts
  <2>5. C = {p \in start .. w - 2 : v[p + 1] = CR /\ v[p + 2] = LF}
    BY DEF CRLFs
  <2>6. L = {p \in start .. w - 1 : v[p + 1] = LF}
    BY DEF LFs
  <2> HIDE DEF v, w, rest, m, c, e, C, L
  <2> DEFINE IsCRLF(i) == rest[i] = CR /\ rest[i + 1] = LF
             crlf == c - start + 1
             eol == e - start + 1
  <2>7. \A i \in 1 .. m - 1 : IsCRLF(i) <=> start + i - 1 \in C
    <3> TAKE i \in 1 .. m - 1
    <3> DEFINE p == start + i - 1
    <3>1. /\ i \in 1 .. m /\ i + 1 \in 1 .. m /\ p \in start .. w - 2
          /\ start + i = p + 1 /\ start + (i + 1) = p + 2
      BY <2>1
    <3> HIDE DEF p
    <3>2. rest[i] = v[p + 1] /\ rest[i + 1] = v[p + 2]
      BY <2>2, <3>1
    <3> QED BY <2>5, <3>1, <3>2 DEF p
  <2>8. \A i \in 1 .. m : rest[i] = LF <=> start + i - 1 \in L
    <3> TAKE i \in 1 .. m
    <3> DEFINE p == start + i - 1
    <3>1. p \in start .. w - 1 /\ start + i = p + 1
      BY <2>1
    <3> HIDE DEF p
    <3>2. rest[i] = v[p + 1]
      BY <2>2, <3>1
    <3> QED BY <2>6, <3>1, <3>2 DEF p
  <2> HIDE DEF IsCRLF
  <2>9. IF \E i \in 1 .. m - 1 : IsCRLF(i)
        THEN IsCRLF(crlf) /\ \A i \in 1 .. crlf - 1 : ~IsCRLF(i)
        ELSE c = -1
    <3>1. CASE C # {}
      <4>1. c \in C /\ \A q \in C : c <= q
        BY <2>3, <3>1
      <4>2. c \in start .. w - 2
        BY <2>5, <4>1
      <4>3. crlf \in 1 .. m - 1 /\ start + crlf - 1 = c
        BY <2>1, <4>2
      <4>4. \A i \in 1 .. crlf - 1 : i \in 1 .. m - 1 /\ ~(c <= start + i - 1)
        BY <2>1, <4>3
      <4> HIDE DEF crlf
      <4>5. IsCRLF(crlf)
        BY <2>7, <4>1, <4>3
      <4>6. \A i \in 1 .. crlf - 1 : ~IsCRLF(i)
        BY <2>7, <4>1, <4>4
      <4> QED BY <4>3, <4>5, <4>6
    <3>2. CASE C = {}
      BY <2>3, <2>7, <3>2
    <3> QED BY <3>1, <3>2
  <2>10. IF \E i \in 1 .. m : rest[i] = LF
         THEN rest[eol] = LF /\ \A i \in 1 .. eol - 1 : rest[i] # LF
         ELSE e = -1
    <3>1. CASE L # {}
      <4>1. e \in L /\ \A q \in L : e <= q
        BY <2>4, <3>1
      <4>2. e \in start .. w - 1
        BY <2>6, <4>1
      <4>3. eol \in 1 .. m /\ start + eol - 1 = e
        BY <2>1, <4>2
      <4>4. \A i \in 1 .. eol - 1 : i \in 1 .. m /\ ~(e <= start + i - 1)
        BY <2>1, <4>3
      <4> HIDE DEF eol
      <4>5. rest[eol] = LF
        BY <2>8, <4>1, <4>3
      <4>6. \A i \in 1 .. eol - 1 : rest[i] # LF
        BY <2>8, <4>1, <4>4
      <4> QED BY <4>3, <4>5, <4>6
    <3>2. CASE L = {}
      BY <2>4, <2>8, <3>2
    <3> QED BY <3>1, <3>2
  <2>11. m = Len(rest)
    BY <2>2
  <2> QED BY ONLY <2>9, <2>10, <2>11 DEF rest, c, e, IsCRLF
<1>2. Inv => LineEndsFound
  BY <1>1 DEF Inv, LineEndsFound
<1> QED BY <1>2, InitBuffer, NextBuffer, PTL DEF Spec

--------------------------------------------------------------------------------
(* ---------------------------- the refinement ---------------------------- *)
(* Every call is a step of the queue or leaves it as it is.                *)
LEMMA QueueSteps == Inv /\ [Next]_buf => QueueStep
<1> SUFFICES ASSUME IsBuffer(buf), [Next]_buf PROVE QueueStep
  BY DEF Inv
<1> USE BufferAssumption
<1>1. ASSUME NEW s \in Seq(Byte),
             \/ buf' = append(buf, s) \/ buf' = readFd(buf, s)
             \/ Len(s) <= writableBytes(buf) /\ buf' = Written(buf, s)
      PROVE  QueueStep
  BY <1>1, PutCalls, PutSteps
<1>2. ASSUME NEW s \in Seq(Byte), Len(s) <= prependableBytes(buf), buf' = prepend(buf, s)
      PROVE  QueueStep
  <2>1. Queue!PutFront(s)
    BY <1>2, PrependCalls
  <2>2. CASE s # <<>>
    BY <2>1, <2>2, PutFrontSteps
  <2>3. CASE s = <<>>
    <3>1. Content(buf') = <<>> \o Content(buf) /\ buf'.readerIndex_ = buf.readerIndex_ - 0
      BY <1>2, <2>3, prependContent
    <3>2. buf.readerIndex_ - 0 = buf.readerIndex_
      BY DEF IsBuffer
    <3>3. <<>> \o Content(buf) = Content(buf)
      BY ContentFacts, ConcatEmptyBytes
    <3> QED BY <3>1, <3>2, <3>3 DEF QueueStep, QueueUnchanged, Front
  <2> QED BY <2>2, <2>3
<1>3. ASSUME NEW len \in Nat, len <= readableBytes(buf), buf' = retrieve(buf, len)
      PROVE  QueueStep
  BY <1>3, RetrieveCalls, TakeSteps
<1>4. ASSUME NEW s \in Data, AppendBytes(s) \/ HasWritten(s) \/ Prepend(s) \/ ReadFd(s)
      PROVE  QueueStep
  <2>1. s \in Seq(Byte)
    OBVIOUS
  <2> QED BY <1>1, <1>2, <1>4, <2>1 DEF AppendBytes, HasWritten, Prepend, ReadFd, Becomes
<1>5. ASSUME NEW w \in Widths, NEW x \in Numbers, AppendInt(x, w) \/ PrependInt(x, w)
      PROVE  QueueStep
  <2>1. hostToNetwork(x, w) \in Seq(Byte) /\ Len(hostToNetwork(x, w)) = w
    BY hostToNetworkFacts
  <2> QED BY <1>1, <1>2, <1>5, <2>1 DEF AppendInt, PrependInt, Becomes
<1>6. ASSUME NEW w \in Widths, ReadInt(w) PROVE QueueStep
  <2>1. w \in Nat
    OBVIOUS
  <2> QED BY <1>3, <1>6, <2>1 DEF ReadInt, retrieveInt
<1>7. ASSUME NEW len \in 0 .. MaxSize, EnsureWritable(len) PROVE QueueStep
  <2>1. <<>> \in Seq(Byte) /\ Queue!Put(<<>>)
    BY <1>7, EnsureCalls
  <2> QED BY <2>1, PutSteps
<1>8. ASSUME NEW len \in 0 .. MaxSize, Unwrite(len) PROVE QueueStep
  <2>1. Queue!Withdraw(len) /\ len <= readableBytes(buf)
    BY <1>8, UnwriteCalls DEF Unwrite
  <2> QED BY <2>1, TakeSteps
<1>9. ASSUME NEW len \in 0 .. MaxSize, Retrieve(len) PROVE QueueStep
  BY <1>3, <1>9 DEF Retrieve
<1>10. CASE RetrieveAll
  <2>1. Queue!Take(readableBytes(buf)) /\ readableBytes(buf) \in Nat
    BY <1>10, RetrieveAllCalls
  <2>2. readableBytes(buf) <= readableBytes(buf)
    BY <2>1
  <2> QED BY <2>1, <2>2, TakeSteps
<1>11. CASE RetrieveLine
  <2> DEFINE crlf == findCRLF(buf, buf.readerIndex_)
  <2>1. crlf # -1 /\ buf' = retrieve(buf, crlf + 2 - buf.readerIndex_)
    BY <1>11 DEF RetrieveLine
  <2>2. buf.readerIndex_ \in buf.readerIndex_ .. buf.writerIndex_
    BY DEF IsBuffer
  <2>3. crlf \in CRLFs(buf, buf.readerIndex_)
    BY <2>1, <2>2, findCRLFFacts
  <2>4. crlf \in buf.readerIndex_ .. buf.writerIndex_ - 2
    BY <2>3 DEF CRLFs
  <2>5. /\ crlf + 2 - buf.readerIndex_ \in Nat
        /\ crlf + 2 - buf.readerIndex_ <= readableBytes(buf)
    BY <2>4 DEF IsBuffer, readableBytes
  <2> QED BY <1>3, <2>1, <2>5
<1>12. ASSUME NEW reserve \in Reserves, Shrink(reserve) PROVE QueueStep
  <2>1. Queue!Renew
    BY <1>12, ShrinkCalls
  <2> QED BY <2>1 DEF QueueStep, Queue!Next
<1>13. CASE buf' = buf
  BY <1>13 DEF QueueStep, QueueUnchanged
<1> QED BY <1>4, <1>5, <1>6, <1>7, <1>8, <1>9, <1>10, <1>11, <1>12, <1>13 DEF Next

LEMMA InitQueue == Init => Queue!Init
<1> SUFFICES ASSUME Init PROVE Queue!Init
  OBVIOUS
<1>1. Content(buf) = <<>>
  BY BufferAssumption, NewBufferFacts DEF Init
<1>2. buf.readerIndex_ = kCheapPrepend
  BY DEF Init, NewBuffer
<1> QED BY <1>1, <1>2, BufferAssumption DEF Queue!Init

(* The promise of Buffer's member functions to its callers: a queue of     *)
(* bytes with room in front, in which each call does what its name says.   *)
THEOREM BufferIsByteQueue == Spec => IsByteQueue
<1>1. QueueStep => [Queue!Next]_<<Content(buf), IF buf.readerIndex_ < kCheapPrepend
                                                THEN buf.readerIndex_ ELSE kCheapPrepend>>
  BY DEF QueueStep, QueueUnchanged, Front
<1>2. Inv => CallsOnQueue
  BY CallsStep DEF Inv
<1>3. Spec => Queue!Spec
  BY <1>1, InitQueue, InitBuffer, NextBuffer, QueueSteps, PTL DEF Spec, Queue!Spec
<1>4. Spec => [][CallsOnQueue]_buf
  BY <1>2, InitBuffer, NextBuffer, PTL DEF Spec
<1> QED BY <1>3, <1>4 DEF IsByteQueue

--------------------------------------------------------------------------------
(* ------------------------------- growth --------------------------------- *)
(* The vector is resized only for bytes for which all the room there is,   *)
(* behind and in front of the data, would not do.                          *)
THEOREM GrowsOnlyWhenFull == Spec => NoNeedlessGrowth
<1> DEFINE Grown == Len(buf'.buffer_) > Len(buf.buffer_) =>
              \/ Len(buf.buffer_) - readableBytes(buf) - kCheapPrepend
                    < Len(buf'.buffer_) - buf.writerIndex_
              \/ \E reserve \in Reserves : buf' = shrink(buf, reserve)
<1>1. ASSUME IsBuffer(buf), Next PROVE Grown
  <2> USE BufferAssumption
  <2>1. ASSUME Len(buf'.buffer_) = Len(buf.buffer_) PROVE Grown
    BY <1>1, <2>1 DEF IsBuffer
  <2>2. ASSUME NEW len \in Nat, MustGrow(buf, len), Len(buf'.buffer_) = buf.writerIndex_ + len
        PROVE  Grown
    <3>1. /\ Len(buf.buffer_) \in Nat /\ buf.writerIndex_ \in Nat /\ buf.readerIndex_ \in Nat
          /\ Len(buf.buffer_) - buf.writerIndex_ + buf.readerIndex_ < len + kCheapPrepend
      BY <1>1, <2>2 DEF IsBuffer, MustGrow, writableBytes, prependableBytes
    <3>2. Len(buf.buffer_) - readableBytes(buf) - kCheapPrepend < Len(buf'.buffer_) - buf.writerIndex_
      BY <2>2, <3>1 DEF readableBytes
    <3> QED BY <3>2
  <2> HIDE DEF Grown
  <2>3. ASSUME NEW s \in Seq(Byte),
               \/ buf' = append(buf, s) \/ buf' = readFd(buf, s)
               \/ Len(s) <= writableBytes(buf) /\ buf' = Written(buf, s)
               \/ Len(s) <= prependableBytes(buf) /\ buf' = prepend(buf, s)
        PROVE  Grown
    <3>1. Len(s) \in Nat
      OBVIOUS
    <3>2. CASE buf' = append(buf, s)
      BY <1>1, <2>1, <2>2, <3>1, <3>2, appendContent
    <3>3. CASE buf' = readFd(buf, s)
      BY <1>1, <2>1, <2>2, <3>1, <3>3, readFdContent
    <3>4. CASE Len(s) <= writableBytes(buf) /\ buf' = Written(buf, s)
      BY <1>1, <2>1, <3>4, WrittenContent
    <3>5. CASE Len(s) <= prependableBytes(buf) /\ buf' = prepend(buf, s)
      BY <1>1, <2>1, <3>5, prependContent
    <3> QED BY <2>3, <3>2, <3>3, <3>4, <3>5
  <2>4. ASSUME NEW n \in Int, buf' = retrieve(buf, n) PROVE Grown
    <3>1. buf'.buffer_ = buf.buffer_
      BY <1>1, <2>4 DEF retrieve, retrieveAll, IsBuffer
    <3> QED BY <2>1, <3>1
  <2>5. ASSUME NEW s \in Data, AppendBytes(s) \/ HasWritten(s) \/ Prepend(s) \/ ReadFd(s)
        PROVE  Grown
    <3>1. s \in Seq(Byte)
      OBVIOUS
    <3> QED BY <2>3, <2>5, <3>1 DEF AppendBytes, HasWritten, Prepend, ReadFd, Becomes
  <2>6. ASSUME NEW w \in Widths, NEW x \in Numbers, AppendInt(x, w) \/ PrependInt(x, w)
        PROVE  Grown
    <3>1. hostToNetwork(x, w) \in Seq(Byte) /\ Len(hostToNetwork(x, w)) = w
      BY hostToNetworkFacts
    <3> QED BY <2>3, <2>6, <3>1 DEF AppendInt, PrependInt, Becomes
  <2>7. ASSUME NEW w \in Widths, ReadInt(w) PROVE Grown
    <3>1. w \in Int
      OBVIOUS
    <3> QED BY <2>4, <2>7, <3>1 DEF ReadInt, retrieveInt
  <2>8. ASSUME NEW len \in 0 .. MaxSize, EnsureWritable(len) PROVE Grown
    <3>1. len \in Nat /\ buf' = ensureWritableBytes(buf, len)
      BY <2>8 DEF EnsureWritable, Becomes
    <3> QED BY <1>1, <2>1, <2>2, <3>1, ensureWritableBytesFront
  <2>9. ASSUME NEW len \in 0 .. MaxSize, Unwrite(len) PROVE Grown
    <3>1. buf'.buffer_ = buf.buffer_
      BY <1>1, <2>9 DEF Unwrite, IsBuffer
    <3> QED BY <2>1, <3>1
  <2>10. ASSUME NEW len \in 0 .. MaxSize, Retrieve(len) PROVE Grown
    BY <2>4, <2>10 DEF Retrieve
  <2>11. CASE RetrieveAll
    BY <1>1, <2>1, <2>11, retrieveAllContent DEF RetrieveAll
  <2>12. CASE RetrieveLine
    <3> DEFINE crlf == findCRLF(buf, buf.readerIndex_)
    <3>1. crlf # -1 /\ buf' = retrieve(buf, crlf + 2 - buf.readerIndex_)
      BY <2>12 DEF RetrieveLine
    <3>2. buf.readerIndex_ \in buf.readerIndex_ .. buf.writerIndex_
      BY <1>1 DEF IsBuffer
    <3>3. crlf \in CRLFs(buf, buf.readerIndex_)
      BY <1>1, <3>1, <3>2, findCRLFFacts
    <3>4. crlf + 2 - buf.readerIndex_ \in Int
      BY <1>1, <3>3 DEF CRLFs, IsBuffer
    <3> QED BY <2>4, <3>1, <3>4
  <2>13. ASSUME NEW reserve \in Reserves, Shrink(reserve) PROVE Grown
    BY <2>13 DEF Shrink, Becomes, Grown
  <2> QED BY <1>1, <2>5, <2>6, <2>7, <2>8, <2>9, <2>10, <2>11, <2>12, <2>13 DEF Next
<1>2. Inv /\ [Next]_buf => [Grown]_buf
  BY <1>1 DEF Inv
<1>3. Spec => [][Grown]_buf
  BY <1>2, InitBuffer, NextBuffer, PTL DEF Spec
<1> QED BY <1>3 DEF NoNeedlessGrowth

--------------------------------------------------------------------------------
(* ------------------------------- integers ------------------------------- *)
(* Multiples of a higher power do not touch a digit.                       *)
LEMMA SameDigit ==
    ASSUME NEW P \in Nat \ {0}, NEW y \in Int, NEW t \in Int
    PROVE  ((y + P * (Base * t)) \div P) % Base = (y \div P) % Base
<1> DEFINE q == y \div P
           r == y % P
           a == q \div Base
           e == q % Base
           u == Base * t
<1>1. Base \in Nat \ {0}
  BY BufferAssumption
<1>2. q \in Int /\ r \in Nat /\ r < P /\ y = P * q + r
  BY SMT
<1> HIDE DEF q, r
<1>3. a \in Int /\ e \in Nat /\ e < Base /\ q = Base * a + e
  BY <1>1, <1>2
<1> HIDE DEF a, e
<1>4. u \in Int /\ q + u = Base * (a + t) + e /\ a + t \in Int
  BY <1>1, <1>2, <1>3
<1> HIDE DEF u
<1>5. y + P * u = P * (q + u) + r /\ q + u \in Int
  BY <1>2, <1>4
<1>6. (y + P * u) \div P = q + u
  BY <1>2, <1>5, IntDivMod
<1>7. (q + u) % Base = e
  BY <1>1, <1>3, <1>4, IntDivMod
<1>8. q % Base = e
  BY <1>1, <1>3, IntDivMod
<1> QED BY <1>6, <1>7, <1>8 DEF u, q

(* The bytes of an integer go out from the highest to the lowest.          *)
LEMMA HighByteFirst ==
    ASSUME NEW w \in Widths, NEW x \in Int, NEW i \in 1 .. w
    PROVE  hostToNetwork(x, w)[i] = ((x + Base^w) \div Base^(w - i)) % Base
<1> DEFINE P == Base^(w - i)
           M == Base^w
           low == x % M
           h == HostBytes(x, w)
<1>1. w \in Nat /\ i \in 1 .. w /\ w - i \in 0 .. w /\ w - i + 1 \in 1 .. w /\ Base \in Nat \ {0}
  BY BufferAssumption
<1>2. P \in Nat \ {0} /\ M \in Nat \ {0}
  BY <1>1, PowersPositive
<1>3. PICK c \in Nat \ {0} : M = P * (Base * c)
  <2>1. PICK c \in Nat \ {0} : M = Base^(w - i + 1) * c
    <3>1. w \in (w - i + 1) .. w /\ w - i + 1 \in 0 .. w
      BY <1>1
    <3> QED BY <3>1, PowersDivide
  <2>2. Base^(w - i + 1) = Base * P
    <3>1. Base^(w - i + 1) = Base * Base^((w - i + 1) - 1)
      BY <1>1, Powers
    <3>2. (w - i + 1) - 1 = w - i
      BY <1>1
    <3> QED BY <3>1, <3>2
  <2> HIDE DEF P, M
  <2>3. (Base * P) * c = P * (Base * c)
    BY <1>1, <1>2
  <2> QED BY <2>1, <2>2, <2>3
<1>4. hostToNetwork(x, w)[i] = (low \div P) % Base
  <2>1. h = [j \in 1 .. w |-> (low \div Base^(j - 1)) % Base]
    BY DEF HostBytes
  <2>2. Len(h) = w /\ w + 1 - i \in 1 .. w /\ (w + 1 - i) - 1 = w - i
    <3> HIDE DEF low
    <3> QED BY <1>1, <2>1
  <2>3. h[w + 1 - i] = (low \div Base^(w - i)) % Base
    <3>1. h[w + 1 - i] = (low \div Base^((w + 1 - i) - 1)) % Base
      <4> HIDE DEF low, h
      <4> QED BY <2>1, <2>2
    <3> QED BY <2>2, <3>1
  <2> HIDE DEF h, low
  <2>4. Swapped(h)[i] = h[w + 1 - i]
    BY <1>1, <2>2 DEF Swapped
  <2> QED BY <2>3, <2>4 DEF hostToNetwork, h
<1> HIDE DEF P, M
<1>5. PICK t \in Int : x + M = low + M * t
  <2>1. x \div M \in Int /\ low \in Int /\ x = M * (x \div M) + low
    BY <1>2
  <2> DEFINE q == x \div M
  <2> HIDE DEF q, low
  <2>2. x + M = low + M * (q + 1) /\ q + 1 \in Int
    BY <1>2, <2>1 DEF q
  <2> QED BY <2>2
<1>6. low \in Int
  BY <1>2
<1> HIDE DEF low
<1>7. M * t = P * (Base * (c * t)) /\ c * t \in Int
  <2>1. c * t \in Int /\ Base * c \in Int /\ (Base * c) * t = Base * (c * t)
    BY <1>1
  <2>2. M * t = (P * (Base * c)) * t
    BY <1>3
  <2> DEFINE d == Base * c
  <2>3. (P * d) * t = P * (d * t)
    <3> HIDE DEF d
    <3> QED BY <1>2, <2>1 DEF d
  <2> QED BY <2>1, <2>2, <2>3
<1>8. ((x + M) \div P) % Base = (low \div P) % Base
  <2> DEFINE u == c * t
  <2>1. x + M = low + P * (Base * u) /\ u \in Int
    BY <1>5, <1>7
  <2> HIDE DEF u
  <2>2. ((low + P * (Base * u)) \div P) % Base = (low \div P) % Base
    BY <1>2, <1>6, <2>1, SameDigit
  <2> QED BY <2>1, <2>2
<1> QED BY <1>4, <1>8 DEF M, P

(* What HostValue adds up: the bytes, each with the weight of its place.   *)
Weighed(s) ==
    CHOOSE weighed : weighed = [i \in 0 .. Len(s) |->
        IF i = 0 THEN 0 ELSE weighed[i - 1] + s[i] * Base^(i - 1)]

LEMMA HostValueWeighs ==
    ASSUME NEW s
    PROVE  HostValue(s) = IF 2 * Weighed(s)[Len(s)] >= Base^Len(s)
                          THEN Weighed(s)[Len(s)] - Base^Len(s) ELSE Weighed(s)[Len(s)]
BY Zenon DEF HostValue, Weighed

LEMMA WeighedFacts ==
    ASSUME NEW w \in Widths, NEW s \in Seq(Byte), Len(s) = w
    PROVE  /\ Weighed(s)[0] = 0
           /\ \A i \in 1 .. w : Weighed(s)[i] = Weighed(s)[i - 1] + s[i] * Base^(i - 1)
           /\ \A i \in 0 .. w : Weighed(s)[i] \in Int
<1> DEFINE addend == [i \in 1 .. w |-> s[i] * Base^(i - 1)]
           W == Weighed(s)
<1>1. w \in Nat
  BY BufferAssumption
<1>2. ASSUME NEW i \in 1 .. w
      PROVE  s[i] * Base^(i - 1) \in Int
  <2>1. s[i] \in Byte /\ i - 1 \in 0 .. w
    BY <1>1
  <2>2. s[i] \in Int /\ Base^(i - 1) \in Int
    BY <2>1, PowersPositive, BufferAssumption DEF Byte
  <2> DEFINE b == s[i]
             p == Base^(i - 1)
  <2> HIDE DEF b, p
  <2>3. b \in Int /\ p \in Int => b * p \in Int
    OBVIOUS
  <2> QED BY <2>2, <2>3 DEF b, p
<1>3. addend \in [1 .. w -> Int] /\ \A i \in 1 .. w : addend[i] = s[i] * Base^(i - 1)
  BY <1>2
<1> HIDE DEF addend
<1>4. \A f : [i \in 0 .. w |-> IF i = 0 THEN 0 ELSE f[i - 1] + addend[i]] =
             [i \in 0 .. Len(s) |-> IF i = 0 THEN 0 ELSE f[i - 1] + s[i] * Base^(i - 1)]
  BY <1>1, <1>3
<1>5. \E f : f = [i \in 0 .. Len(s) |-> IF i = 0 THEN 0 ELSE f[i - 1] + s[i] * Base^(i - 1)]
  <2>1. addend \in [1 .. w -> Int]
    BY <1>3
  <2>2. PICK f : Sums(f, w, addend)
    BY <1>1, <2>1, SumsExist
  <2>3. f = [i \in 0 .. Len(s) |-> IF i = 0 THEN 0 ELSE f[i - 1] + s[i] * Base^(i - 1)]
    BY <1>4, <2>2, Zenon DEF Sums
  <2> QED BY <2>3, Zenon
<1>6. W = [i \in 0 .. Len(s) |-> IF i = 0 THEN 0 ELSE W[i - 1] + s[i] * Base^(i - 1)]
  BY <1>5 DEF Weighed
<1> HIDE DEF W
<1>7. Sums(W, w, addend)
  BY <1>4, <1>6, Zenon DEF Sums
<1>8. /\ W[0] = 0 /\ \A i \in 0 .. w : W[i] \in Int
      /\ \A i \in 1 .. w : W[i] = W[i - 1] + addend[i]
  <2>1. addend \in [1 .. w -> Int]
    BY <1>3
  <2> QED BY <1>1, <1>7, <2>1, SumsAdd, Zenon
<1> QED BY <1>3, <1>8 DEF W

(* The first i bytes weigh less than the place after them.                 *)
LEMMA WeighedBounds ==
    ASSUME NEW w \in Widths, NEW s \in Seq(Byte), Len(s) = w
    PROVE  \A i \in 0 .. w : Weighed(s)[i] \in 0 .. Base^i - 1
<1> DEFINE W == Weighed(s)
           S == {i \in 0 .. w : W[i] \in 0 .. Base^i - 1}
<1>1. w \in Nat /\ Base \in Nat \ {0} /\ Base^0 = 1
  BY BufferAssumption, Powers
<1>2. 0 \in S
  BY <1>1, WeighedFacts
<1>3. ASSUME NEW i \in 0 .. w - 1, i \in S
      PROVE  i + 1 \in S
  <2> DEFINE p == Base^i
             b == s[i + 1]
             v == W[i]
  <2>1. i + 1 \in 1 .. w /\ (i + 1) - 1 = i /\ i \in 0 .. w
    BY <1>1
  <2>2. p \in Nat \ {0} /\ v \in 0 .. p - 1
    BY <1>3, <2>1, PowersPositive
  <2>3. b \in Nat /\ b <= Base - 1
    <3>1. b \in Byte
      BY <2>1
    <3> QED BY <1>1, <3>1 DEF Byte
  <2>4. W[i + 1] = v + b * p
    <3>1. W[i + 1] = W[(i + 1) - 1] + s[i + 1] * Base^((i + 1) - 1)
      BY <2>1, WeighedFacts
    <3> QED BY <2>1, <3>1
  <2>5. Base^(i + 1) = Base * p
    <3>1. Base^(i + 1) = Base * Base^((i + 1) - 1)
      BY <2>1, Powers
    <3> QED BY <2>1, <3>1
  <2> HIDE DEF p, b, v, W
  <2>6. b * p <= (Base - 1) * p /\ b * p \in Nat /\ (Base - 1) * p = Base * p - p
    BY <1>1, <2>2, <2>3
  <2> DEFINE x == b * p
             y == Base * p
  <2>7. x \in Nat /\ x <= y - p /\ y \in Int
    BY <1>1, <2>2, <2>6
  <2>8. W[i + 1] = v + x /\ Base^(i + 1) = y
    BY <2>4, <2>5
  <2> HIDE DEF x, y
  <2>9. W[i + 1] \in 0 .. Base^(i + 1) - 1
    BY <2>2, <2>7, <2>8
  <2> QED BY <2>1, <2>9
<1> HIDE DEF S
<1>4. 0 .. w \subseteq S
  BY <1>1, <1>2, <1>3, UpTo
<1> QED BY <1>4 DEF S, W

(* What follows the first j bytes weighs a multiple of the place after them. *)
LEMMA WeighedAbove ==
    ASSUME NEW w \in Widths, NEW s \in Seq(Byte), Len(s) = w, NEW j \in 0 .. w
    PROVE  \E t \in Int : Weighed(s)[w] = Weighed(s)[j] + Base^j * t
<1> DEFINE W == Weighed(s)
           p == Base^j
           S == {i \in 0 .. w - j : \E t \in Int : W[j + i] = W[j] + p * t}
<1>1. w \in Nat /\ j \in Nat /\ w - j \in Nat /\ p \in Nat \ {0} /\ W[j] \in Int
  BY BufferAssumption, PowersPositive, WeighedFacts
<1>2. 0 \in S
  <2>1. W[j + 0] = W[j] + p * 0
    BY <1>1
  <2> QED BY <1>1, <2>1
<1>3. ASSUME NEW i \in 0 .. (w - j) - 1, i \in S
      PROVE  i + 1 \in S
  <2> DEFINE n == j + i
             b == s[n + 1]
  <2>1. n + 1 \in 1 .. w /\ (n + 1) - 1 = n /\ n \in j .. w /\ n + 1 = j + (i + 1)
    BY <1>1
  <2>2. PICK t \in Int : W[n] = W[j] + p * t
    BY <1>3
  <2>3. PICK c \in Nat \ {0} : Base^n = p * c
    BY <2>1, PowersDivide
  <2>4. b \in Int
    <3>1. b \in Byte
      BY <2>1
    <3> QED BY <3>1, BufferAssumption DEF Byte
  <2>5. W[n + 1] = W[n] + b * (p * c)
    <3>1. W[n + 1] = W[(n + 1) - 1] + s[n + 1] * Base^((n + 1) - 1)
      BY <2>1, WeighedFacts
    <3> QED BY <2>1, <2>3, <3>1
  <2> HIDE DEF p, b, W, n
  <2>6. b * (p * c) = p * (b * c) /\ b * c \in Int
    BY <1>1, <2>4
  <2> DEFINE d == b * c
  <2>7. W[n + 1] = W[j] + p * t + p * d /\ d \in Int
    BY <2>2, <2>5, <2>6
  <2> HIDE DEF d
  <2>8. p * t + p * d = p * (t + d) /\ p * t \in Int /\ p * d \in Int /\ t + d \in Int
    BY <1>1, <2>2, <2>7
  <2> DEFINE x == p * t
             y == p * d
             z == t + d
  <2>9. W[n + 1] = W[j] + x + y /\ x \in Int /\ y \in Int /\ x + y = p * z /\ z \in Int
    BY <2>7, <2>8
  <2> HIDE DEF x, y, z
  <2>10. W[n + 1] = W[j] + p * z
    BY <1>1, <2>9
  <2>11. W[j + (i + 1)] = W[j] + p * z /\ i + 1 \in 0 .. w - j
    BY <1>1, <2>1, <2>10
  <2> QED BY <2>9, <2>11
<1> HIDE DEF S, W, p
<1>4. 0 .. w - j \subseteq S
  BY <1>1, <1>2, <1>3, UpTo
<1>5. w - j \in 0 .. w - j /\ j + (w - j) = w
  BY <1>1
<1>6. w - j \in S
  BY <1>4, <1>5
<1>7. \E t \in Int : W[j + (w - j)] = W[j] + p * t
  BY <1>6 DEF S
<1> QED BY <1>5, <1>7 DEF W, p

(* Each byte is a digit of what the bytes weigh.                           *)
LEMMA WeighedDigit ==
    ASSUME NEW w \in Widths, NEW s \in Seq(Byte), Len(s) = w, NEW j \in 1 .. w, NEW e \in Int
    PROVE  ((Weighed(s)[w] + Base^w * e) \div Base^(j - 1)) % Base = s[j]
<1> DEFINE W == Weighed(s)
           P == Base^(j - 1)
           b == s[j]
<1>1. w \in Nat /\ j \in 0 .. w /\ j - 1 \in 0 .. w /\ w \in j .. w /\ Base \in Nat \ {0}
  BY BufferAssumption
<1>2. P \in Nat \ {0} /\ W[j - 1] \in 0 .. P - 1
  BY <1>1, PowersPositive, WeighedBounds
<1>3. b \in Nat /\ b < Base
  <2>1. b \in Byte
    BY <1>1
  <2> QED BY <1>1, <2>1 DEF Byte
<1>4. Base^j = Base * P
  BY Powers
<1>5. PICK t \in Int : W[w] = W[j] + Base^j * t
  BY <1>1, WeighedAbove
<1>6. PICK c \in Nat \ {0} : Base^w = Base^j * c
  BY <1>1, PowersDivide
<1>7. W[j] = W[j - 1] + b * P
  BY WeighedFacts
<1> HIDE DEF W, P, b
<1> DEFINE v == W[j - 1] + b * P
           u == t + c * e
           d == c * e
           q == Base * P
<1>8. v \in Int /\ d \in Int /\ u = t + d /\ u \in Int /\ q \in Int
  BY <1>1, <1>2, <1>3, <1>5, <1>6
<1>9. W[w] + Base^w * e = v + P * (Base * u)
  <2>1. Base^w * e = q * d
    <3>1. Base^w * e = (q * c) * e
      BY <1>4, <1>6
    <3> HIDE DEF q
    <3>2. (q * c) * e = q * (c * e)
      BY <1>6, <1>8
    <3> QED BY <3>1, <3>2
  <2>2. W[w] = v + q * t
    BY <1>4, <1>5, <1>7
  <2>3. q * t + q * d = q * (t + d) /\ q * t \in Int /\ q * d \in Int
    <3> HIDE DEF q, d
    <3> QED BY <1>5, <1>8
  <2>4. q * u = P * (Base * u)
    <3> HIDE DEF u
    <3> QED BY <1>1, <1>2, <1>8
  <2> DEFINE x == q * t
             y == q * d
             z == q * u
  <2>5. W[w] + Base^w * e = v + x + y /\ x \in Int /\ y \in Int /\ x + y = z
    BY <1>8, <2>1, <2>2, <2>3
  <2> HIDE DEF x, y, z, v
  <2>6. W[w] + Base^w * e = v + z
    BY <1>8, <2>5
  <2> QED BY <2>4, <2>6 DEF z
<1>10. (v \div P) % Base = b
  <2> DEFINE r == W[j - 1]
  <2>1. v = P * b + r /\ b \in Int /\ r \in Nat /\ r < P
    <3>1. r \in Nat /\ r < P
      BY <1>2
    <3> HIDE DEF r
    <3>2. b * P = P * b /\ b * P \in Int /\ b \in Int
      BY <1>2, <1>3
    <3>3. v = b * P + r
      BY <3>1, <3>2 DEF v, r
    <3> QED BY <3>1, <3>2, <3>3
  <2> HIDE DEF v, r
  <2>2. v \div P = b
    BY <1>2, <2>1, IntDivMod
  <2>3. b % Base = b
    BY <1>1, <1>3
  <2> QED BY <2>2, <2>3
<1> HIDE DEF v, u
<1>11. ((v + P * (Base * u)) \div P) % Base = (v \div P) % Base
  BY <1>2, <1>8, SameDigit
<1> QED BY <1>9, <1>10, <1>11 DEF W, P, b

(* What peekInt reads: a signed integer of w bytes, the bytes at the front. *)
LEMMA PeekedInt ==
    ASSUME NEW b, IsBuffer(b), NEW w \in Widths, w <= readableBytes(b)
    PROVE  /\ 2 * peekInt(b, w) \in -(Base^w) .. Base^w - 1
           /\ \A i \in 1 .. w :
                  Content(b)[i] = ((peekInt(b, w) + Base^w) \div Base^(w - i)) % Base
<1> DEFINE s == Swapped(peek(b, w))
           M == Base^w
           v == Weighed(s)[w]
           n == peekInt(b, w)
<1>1. w \in Nat /\ Base \in Nat \ {0}
  BY BufferAssumption
<1>2. /\ b.buffer_ \in Seq(Byte) /\ b.readerIndex_ \in Nat
      /\ b.readerIndex_ + w <= b.writerIndex_ /\ b.writerIndex_ <= Len(b.buffer_) /\ b.writerIndex_ \in Nat
  BY <1>1 DEF IsBuffer, readableBytes
<1>3. /\ peek(b, w) = [i \in 1 .. w |-> b.buffer_[b.readerIndex_ + i]]
      /\ \A i \in 1 .. w : b.buffer_[b.readerIndex_ + i] \in Byte
  <2>1. b.readerIndex_ + w <= Len(b.buffer_)
    BY <1>1, <1>2
  <2>2. peek(b, w) = SubSeq(b.buffer_, b.readerIndex_ + 1, b.readerIndex_ + w)
    BY DEF peek
  <2>3. /\ peek(b, w) \in Seq(Byte) /\ Len(peek(b, w)) = w
        /\ \A i \in 1 .. w : peek(b, w)[i] = b.buffer_[b.readerIndex_ + i]
    <3> DEFINE from == b.readerIndex_
               to == b.readerIndex_ + w
               t == b.buffer_
    <3>1. from \in Nat /\ to \in Nat /\ from <= to /\ to <= Len(t) /\ t \in Seq(Byte) /\ to - from = w
      BY <1>1, <1>2, <2>1
    <3>2. peek(b, w) = SubSeq(t, from + 1, to)
      BY <2>2
    <3> HIDE DEF from, to, t
    <3>3. /\ peek(b, w) \in Seq(Byte) /\ Len(peek(b, w)) = w
          /\ \A i \in 1 .. w : peek(b, w)[i] = t[from + i]
      BY <3>1, <3>2, SubSeqElements
    <3> QED BY <3>3 DEF t, from
  <2>4. peek(b, w) = [i \in 1 .. w |-> peek(b, w)[i]]
    BY <1>1, <2>3
  <2>5. \A i \in 1 .. w : peek(b, w)[i] \in Byte
    BY <1>1, <2>3
  <2> QED BY <2>3, <2>4, <2>5
<1>4. peek(b, w) \in Seq(Byte) /\ Len(peek(b, w)) = w
  BY <1>1, <1>3
<1>5. s = [i \in 1 .. w |-> b.buffer_[b.readerIndex_ + (w + 1 - i)]]
  BY <1>1, <1>3, <1>4 DEF Swapped
<1>6. s \in Seq(Byte) /\ Len(s) = w
  <2>1. \A i \in 1 .. w : b.buffer_[b.readerIndex_ + (w + 1 - i)] \in Byte
    BY <1>1, <1>3
  <2> HIDE DEF s
  <2> QED BY <1>1, <1>5, <2>1
<1>7. \A i \in 1 .. w : Content(b)[i] = s[w + 1 - i]
  <2> TAKE i \in 1 .. w
  <2>1. Content(b)[i] = b.buffer_[b.readerIndex_ + i]
    BY <1>1, <1>2 DEF Content
  <2>2. w + 1 - i \in 1 .. w /\ w + 1 - (w + 1 - i) = i
    BY <1>1
  <2> HIDE DEF s
  <2>3. s[w + 1 - i] = b.buffer_[b.readerIndex_ + (w + 1 - (w + 1 - i))]
    BY <1>5, <2>2
  <2> QED BY <2>1, <2>2, <2>3
<1>8. n = IF 2 * v >= M THEN v - M ELSE v
  BY <1>6, HostValueWeighs DEF peekInt, networkToHost
<1>9. M \in Nat \ {0} /\ v \in 0 .. M - 1
  BY <1>1, <1>6, PowersPositive, WeighedBounds
<1> HIDE DEF s, M, v, n
<1>10. 2 * n \in -M .. M - 1
  BY <1>8, <1>9
<1>11. PICK e \in Int : n + M = v + M * e
  <2>1. v - M + M = v + M * 0 /\ v + M = v + M * 1
    BY <1>9
  <2>2. CASE 2 * v >= M
    <3>1. n + M = v + M * 0
      BY <1>8, <2>1, <2>2
    <3> QED BY <3>1
  <2>3. CASE ~(2 * v >= M)
    <3>1. n + M = v + M * 1
      BY <1>8, <2>1, <2>3
    <3> QED BY <3>1
  <2> QED BY <2>2, <2>3
<1>12. ASSUME NEW i \in 1 .. w
       PROVE  Content(b)[i] = ((n + M) \div Base^(w - i)) % Base
  <2>1. w + 1 - i \in 1 .. w /\ (w + 1 - i) - 1 = w - i
    BY <1>1
  <2>2. ((v + M * e) \div Base^((w + 1 - i) - 1)) % Base = s[w + 1 - i]
    BY <1>6, <2>1, WeighedDigit DEF v, M
  <2> QED BY <1>7, <1>11, <2>1, <2>2
<1> QED BY <1>10, <1>12 DEF n, M

--------------------------------------------------------------------------------
(* For every base, width and integer: hostToNetwork puts the highest byte  *)
(* first, and peekInt gives the signed integer whose bytes are at the      *)
(* front of the buffer.                                                    *)
THEOREM IntegersTravelWhole == Spec => []IntegersInNetworkOrder
<1>1. Inv => IntegersInNetworkOrder
  <2> SUFFICES ASSUME Inv
               PROVE  IntegersInNetworkOrder
    OBVIOUS
  <2>1. ASSUME NEW w \in Widths, NEW x \in Numbers, NEW i \in 1 .. w
        PROVE  hostToNetwork(x, w)[i] = ((x + Base^w) \div Base^(w - i)) % Base
    <3>1. x \in Int
      BY BufferAssumption
    <3> QED BY <3>1, HighByteFirst
  <2>2. ASSUME NEW w \in Widths, w <= readableBytes(buf)
        PROVE  /\ 2 * peekInt(buf, w) \in -(Base^w) .. Base^w - 1
               /\ \A i \in 1 .. w :
                      Content(buf)[i] = ((peekInt(buf, w) + Base^w) \div Base^(w - i)) % Base
    BY <2>2, PeekedInt DEF Inv
  <2> QED BY <2>1, <2>2 DEF IntegersInNetworkOrder
<1> QED BY <1>1, InitBuffer, NextBuffer, PTL DEF Spec

================================================================================
