-------------------------------- MODULE ByteQueue ------------------------------
(***************************************************************************)
(* What a muduo::net::Buffer promises its callers: a queue of bytes that   *)
(* grows at the back, shrinks at both ends, and keeps up to Reserve bytes  *)
(* of room in front of the data for a header.                              *)
(***************************************************************************)
EXTENDS Integers, Sequences

CONSTANTS
    Byte,     \* the values of a byte
    Reserve   \* the room an empty queue has in front

VARIABLES
    content,  \* the bytes not yet taken
    front     \* the room in front that is guaranteed, at most Reserve

Init == content = <<>> /\ front = Reserve

LeastOf(a, b) == IF a < b THEN a ELSE b

(* A prefix of n bytes is taken; its place becomes room, and an emptied    *)
(* queue has all its room again.                                           *)
Take(n) ==
    /\ content' = SubSeq(content, n + 1, Len(content))
    /\ front' = IF n = Len(content) THEN Reserve ELSE LeastOf(front + n, Reserve)

(* Bytes are added at the back.                                            *)
Put(s) == content' = content \o s /\ UNCHANGED front

(* The last n bytes are withdrawn.                                         *)
Withdraw(n) == content' = SubSeq(content, 1, Len(content) - n) /\ UNCHANGED front

(* A header is put in front of the data; whatever room is left is kept.    *)
PutFront(s) ==
    /\ content' = s \o content
    /\ front' \in 0 .. Reserve
    /\ front' >= front - Len(s)

(* The storage is built anew.                                              *)
Renew == UNCHANGED content /\ front' = Reserve

Next ==
    \/ \E n \in 0 .. Len(content) : Take(n) \/ Withdraw(n)
    \/ \E n \in 1 .. Len(content') : \/ Put(SubSeq(content', n, Len(content')))
                                     \/ PutFront(SubSeq(content', 1, n))
    \/ Renew

Spec == Init /\ [][Next]_<<content, front>>
================================================================================
