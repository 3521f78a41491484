--------------------------------- MODULE Buffer --------------------------------
(***************************************************************************)
(* muduo::net::Buffer (src/event_server/network/Buffer.h, Buffer.cc): a    *)
(* vector of bytes with a read and a write index.  A buffer is a record    *)
(* value and a member function an operator on it, so that a function that  *)
(* calls others (append, shrink, readFd) is the composition of theirs.     *)
(* One object, used by one thread at a time, as in TcpConnection.          *)
(*                                                                         *)
(* The precondition a function asserts is the guard of its action: what    *)
(* the class requires of its caller.  The assertions the class makes about *)
(* itself are in the invariant SpaceIsMade.                                *)
(***************************************************************************)
EXTENDS Integers, Sequences

CONSTANTS
    kCheapPrepend, kInitialSize,
    ExtraSize,   \* sizeof extrabuf, the stack buffer of readFd
    Base,        \* the number of values of a byte
    CR, LF,      \* the bytes '\r' and '\n'
    Widths,      \* the sizes of the integer types, in bytes
    Numbers,     \* the integers the callers append and prepend
    Data,        \* the byte strings the callers append, and that arrive on a socket
    Reserves,    \* the arguments of shrink
    MaxSize      \* bound: the size of the vector

Byte == 0 .. Base - 1

ASSUME BufferAssumption ==
    /\ kCheapPrepend \in Nat /\ kInitialSize \in Nat /\ ExtraSize \in Nat
    /\ Base \in Nat \ {0} /\ CR \in Byte /\ LF \in Byte
    /\ Widths \subseteq 1 .. kCheapPrepend
    /\ Numbers \subseteq Int
    /\ Data \subseteq Seq(Byte) /\ Reserves \subseteq Nat /\ MaxSize \in Nat

(* True of every base: the provers of the theorems have no theory of ^.    *)
ASSUME Powers ==
    \A w \in Widths : Base^0 = 1 /\ \A i \in 1 .. w : Base^i = Base * Base^(i - 1)

VARIABLE buf   \* [buffer_ |-> the vector, readerIndex_ |-> ..., writerIndex_ |-> ...]

(* ------------------------------ the indices ----------------------------- *)
readableBytes(b) == b.writerIndex_ - b.readerIndex_
writableBytes(b) == Len(b.buffer_) - b.writerIndex_
prependableBytes(b) == b.readerIndex_
Content(b) == SubSeq(b.buffer_, b.readerIndex_ + 1, b.writerIndex_)

Zeros(n) == [i \in 1 .. n |-> 0]

NewBuffer(initialSize) ==
    [buffer_ |-> Zeros(kCheapPrepend + initialSize),
     readerIndex_ |-> kCheapPrepend, writerIndex_ |-> kCheapPrepend]

(* std::copy of s to the cells after offset at *)
Copied(v, at, s) ==
    [i \in 1 .. Len(v) |-> IF i \in at + 1 .. at + Len(s) THEN s[i - at] ELSE v[i]]

(* ------------------------------- writing -------------------------------- *)
(* Slips: the reserve, or the room in front, is left out of the sum.      *)
MustGrowForgetsReserve(b, len) == writableBytes(b) + prependableBytes(b) < len
MustGrowForgetsFront(b, len) == writableBytes(b) < len + kCheapPrepend

(* The test of makeSpace: moving the data to the front would not do.       *)
MustGrow(b, len) == writableBytes(b) + prependableBytes(b) < len + kCheapPrepend

makeSpace(b, len) ==
    IF MustGrow(b, len)
    THEN [b EXCEPT !.buffer_ = @ \o Zeros(b.writerIndex_ + len - Len(@))]
    ELSE [buffer_ |-> Copied(b.buffer_, kCheapPrepend, Content(b)),
          readerIndex_ |-> kCheapPrepend,
          writerIndex_ |-> kCheapPrepend + readableBytes(b)]

ensureWritableBytes(b, len) ==
    IF writableBytes(b) < len THEN makeSpace(b, len) ELSE b

(* The caller's bytes at beginWrite(), then hasWritten. *)
Written(b, s) ==
    [b EXCEPT !.buffer_ = Copied(@, b.writerIndex_, s), !.writerIndex_ = @ + Len(s)]

append(b, s) == Written(ensureWritableBytes(b, Len(s)), s)

prepend(b, s) ==
    [b EXCEPT !.buffer_ = Copied(@, b.readerIndex_ - Len(s), s),
              !.readerIndex_ = @ - Len(s)]

(* The vectors and both indices change places. *)
swap(b, rhs) == [this |-> rhs, rhs |-> b]

(* shrink swaps with a new buffer that it filled. *)
shrink(b, reserve) ==
    LET other == ensureWritableBytes(NewBuffer(kInitialSize), readableBytes(b) + reserve)
    IN  swap(b, append(other, Content(b))).this

(* The most one readv can bring: the second iovec is left out when the     *)
(* buffer has more room than extrabuf.                                     *)
Iov(b) == writableBytes(b) + IF writableBytes(b) < ExtraSize THEN ExtraSize ELSE 0

(* Slips: what came into extrabuf is counted as written, or taken from the *)
(* start of the block.                                                     *)
readFdAllWritable(b, s) ==
    [b EXCEPT !.buffer_ = Copied(@, b.writerIndex_, s), !.writerIndex_ = @ + Len(s)]

readFdRepeats(b, s) ==
    LET writable == writableBytes(b)
    IN  IF Len(s) <= writable THEN Written(b, s)
        ELSE append(Written(b, SubSeq(s, 1, writable)), SubSeq(s, 1, Len(s) - writable))

readFd(b, s) ==
    LET writable == writableBytes(b)
    IN  IF Len(s) <= writable THEN Written(b, s)
        ELSE append(Written(b, SubSeq(s, 1, writable)), SubSeq(s, writable + 1, Len(s)))

(* ------------------------------- reading -------------------------------- *)
retrieveAll(b) == [b EXCEPT !.readerIndex_ = kCheapPrepend, !.writerIndex_ = kCheapPrepend]

retrieve(b, len) ==
    IF len < readableBytes(b) THEN [b EXCEPT !.readerIndex_ = @ + len] ELSE retrieveAll(b)

retrieveInt(b, w) == retrieve(b, w)

(* The searches give an offset into the buffer, or -1 for NULL.  std::search *)
(* gives its second argument, beginWrite(), when there is nothing to find. *)
FirstOf(P, none) == IF P = {} THEN none ELSE CHOOSE p \in P : \A q \in P : p <= q

findCRLF(b, start) ==
    LET crlf == FirstOf({p \in start .. b.writerIndex_ - 2 :
                            b.buffer_[p + 1] = CR /\ b.buffer_[p + 2] = LF}, b.writerIndex_)
    IN  IF crlf = b.writerIndex_ THEN -1 ELSE crlf

(* A slip: the search runs to the end of the vector.                       *)
findEOLInVector(b, start) ==
    FirstOf({p \in start .. Len(b.buffer_) - 1 : b.buffer_[p + 1] = LF}, -1)

findEOL(b, start) ==
    FirstOf({p \in start .. b.writerIndex_ - 1 : b.buffer_[p + 1] = LF}, -1)

(* ----------------------- integers in network order ---------------------- *)
(* A little-endian host keeps the low byte of a w-byte integer first;      *)
(* htobe and betoh reverse the bytes.                                      *)
HostBytes(x, w) == [i \in 1 .. w |-> ((x % Base^w) \div Base^(i - 1)) % Base]
HostValue(s) ==
    LET w == Len(s)
        weighed[i \in 0 .. w] == IF i = 0 THEN 0 ELSE weighed[i - 1] + s[i] * Base^(i - 1)
    IN  IF 2 * weighed[w] >= Base^w THEN weighed[w] - Base^w ELSE weighed[w]
Swapped(s) == [i \in 1 .. Len(s) |-> s[Len(s) + 1 - i]]

hostToNetwork(x, w) == Swapped(HostBytes(x, w))
networkToHost(s) == HostValue(Swapped(s))

(* The w bytes at readerIndex_. *)
peek(b, w) == SubSeq(b.buffer_, b.readerIndex_ + 1, b.readerIndex_ + w)

(* A slip: no networkToHost.                                               *)
peekIntHostOrder(b, w) == HostValue(peek(b, w))

peekInt(b, w) == networkToHost(peek(b, w))

(* -------------------------------- actions ------------------------------- *)
Fits(b) == Len(b.buffer_) <= MaxSize
Becomes(b) == Fits(b) /\ buf' = b

Init == buf = NewBuffer(kInitialSize)

AppendBytes(s) == Becomes(append(buf, s))
AppendInt(x, w) == Becomes(append(buf, hostToNetwork(x, w)))
EnsureWritable(len) == Becomes(ensureWritableBytes(buf, len))
HasWritten(s) == Len(s) <= writableBytes(buf) /\ Becomes(Written(buf, s))
Unwrite(len) ==
    /\ len <= readableBytes(buf)
    /\ buf' = [buf EXCEPT !.writerIndex_ = @ - len]
Prepend(s) == Len(s) <= prependableBytes(buf) /\ buf' = prepend(buf, s)
PrependInt(x, w) == w <= prependableBytes(buf) /\ buf' = prepend(buf, hostToNetwork(x, w))
Retrieve(len) == len <= readableBytes(buf) /\ buf' = retrieve(buf, len)
RetrieveAll == buf' = retrieveAll(buf)
ReadInt(w) == w <= readableBytes(buf) /\ buf' = retrieveInt(buf, w)

(* retrieveUntil(findCRLF() + 2), the way a protocol takes its lines *)
RetrieveLine ==
    LET crlf == findCRLF(buf, buf.readerIndex_)
    IN  crlf # -1 /\ buf' = retrieve(buf, crlf + 2 - buf.readerIndex_)

Shrink(reserve) == Becomes(shrink(buf, reserve))

(* s is what the kernel had; n < 0, an error, changes nothing but errno.   *)
ReadFd(s) == Len(s) <= Iov(buf) /\ Becomes(readFd(buf, s))

Next ==
    \/ \E s \in Data : AppendBytes(s) \/ HasWritten(s) \/ Prepend(s) \/ ReadFd(s)
    \/ \E w \in Widths : ReadInt(w) \/ \E x \in Numbers : AppendInt(x, w) \/ PrependInt(x, w)
    \/ \E len \in 0 .. MaxSize : EnsureWritable(len) \/ Unwrite(len) \/ Retrieve(len)
    \/ RetrieveAll \/ RetrieveLine
    \/ \E reserve \in Reserves : Shrink(reserve)

Spec == Init /\ [][Next]_buf

(* ------------------------------ properties ------------------------------ *)
Indexed(b) ==
    /\ b.buffer_ \in Seq(Byte)
    /\ b.readerIndex_ \in 0 .. b.writerIndex_
    /\ b.writerIndex_ \in 0 .. Len(b.buffer_)
    /\ kCheapPrepend <= Len(b.buffer_)

(* The picture at the head of Buffer.h: 0 <= readerIndex <= writerIndex <= *)
(* size; with it, no function indexes outside the vector.                  *)
TypeOK ==
    /\ DOMAIN buf = {"buffer_", "readerIndex_", "writerIndex_"}
    /\ Indexed(buf)

(* Whatever the history of the indices, makeSpace leaves room for len      *)
(* bytes and the data as it was, and moves the data only towards the       *)
(* front: the assertions of makeSpace and ensureWritableBytes.             *)
SpaceIsMade ==
    \A len \in 0 .. MaxSize :
        LET b == ensureWritableBytes(buf, len)
        IN  /\ writableBytes(b) >= len
            /\ Content(b) = Content(buf)
            /\ writableBytes(buf) < len /\ ~MustGrow(buf, len) => kCheapPrepend < buf.readerIndex_

(* findCRLF and findEOL from any start in the readable bytes give the      *)
(* first line end after it, never bytes left over beyond writerIndex_.     *)
LineEndsFound ==
    \A start \in buf.readerIndex_ .. buf.writerIndex_ :
        LET rest == SubSeq(buf.buffer_, start + 1, buf.writerIndex_)
            IsCRLF(i) == rest[i] = CR /\ rest[i + 1] = LF
            crlf == findCRLF(buf, start) - start + 1
            eol == findEOL(buf, start) - start + 1
        IN  /\ IF \E i \in 1 .. Len(rest) - 1 : IsCRLF(i)
               THEN IsCRLF(crlf) /\ \A i \in 1 .. crlf - 1 : ~IsCRLF(i)
               ELSE findCRLF(buf, start) = -1
            /\ IF \E i \in 1 .. Len(rest) : rest[i] = LF
               THEN rest[eol] = LF /\ \A i \in 1 .. eol - 1 : rest[i] # LF
               ELSE findEOL(buf, start) = -1

(* Integers travel high byte first, and what peekInt gives is the signed   *)
(* value of the bytes at the front, so that a peer of any byte order reads *)
(* the number that was appended.                                           *)
IntegersInNetworkOrder ==
    \A w \in Widths :
        /\ \A x \in Numbers : \A i \in 1 .. w :
               hostToNetwork(x, w)[i] = ((x + Base^w) \div Base^(w - i)) % Base
        /\ w <= readableBytes(buf) =>
               /\ 2 * peekInt(buf, w) \in -(Base^w) .. Base^w - 1
               /\ \A i \in 1 .. w :
                      Content(buf)[i] = ((peekInt(buf, w) + Base^w) \div Base^(w - i)) % Base

(* The vector grows only for bytes that would not fit in all the room there *)
(* is, behind and in front of the data: retrieved bytes are used again.    *)
NoNeedlessGrowth ==
    [][Len(buf'.buffer_) > Len(buf.buffer_) =>
          \/ Len(buf.buffer_) - readableBytes(buf) - kCheapPrepend
                < Len(buf'.buffer_) - buf.writerIndex_
          \/ \E reserve \in Reserves : buf' = shrink(buf, reserve)]_buf

(* A buffer is a byte queue with room in front, and each function does to  *)
(* that queue what its name says: the bytes of append and of readFd, on    *)
(* either side of the vector's end, go to the back whole and in order.     *)
Queue == INSTANCE ByteQueue WITH
    content <- Content(buf), Reserve <- kCheapPrepend,
    front <- IF buf.readerIndex_ < kCheapPrepend THEN buf.readerIndex_ ELSE kCheapPrepend

CallsOnQueue ==
    /\ \A s \in Data :
          /\ (AppendBytes(s) \/ HasWritten(s) \/ ReadFd(s)) => Queue!Put(s)
          /\ Prepend(s) => Queue!PutFront(s)
    /\ \A len \in 0 .. MaxSize :
          /\ Retrieve(len) => Queue!Take(len)
          /\ Unwrite(len) => Queue!Withdraw(len)
          /\ EnsureWritable(len) => Queue!Put(<<>>)
    /\ RetrieveAll => Queue!Take(readableBytes(buf))
    /\ \A reserve \in Reserves : Shrink(reserve) => Queue!Renew

IsByteQueue == Queue!Spec /\ [][CallsOnQueue]_buf
================================================================================
