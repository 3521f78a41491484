------------------------------- MODULE DataLemmas ------------------------------
(* Facts about data that the proofs of several components cite: sequences  *)
(* used as queues, induction over numbers, functions defined by recursion. *)
EXTENDS Integers, Sequences, Functions, FiniteSetTheorems, WellFoundedInduction, TLAPS

(* ------------------------------- queues --------------------------------- *)

(* A queue is empty exactly when its length is 0.                          *)
LEMMA EmptyQueue ==
    ASSUME NEW S, NEW s \in Seq(S)
    PROVE  s = <<>> <=> Len(s) = 0
OBVIOUS

(* A stack of at most one frame is empty or is its only frame.             *)
LEMMA SingletonQueue ==
    ASSUME NEW S, NEW s \in Seq(S), s # <<>>, Len(s) <= 1
    PROVE  Len(s) = 1 /\ s = <<s[1]>> /\ s[1] \in S
<1>1. Len(s) \in Nat /\ Len(s) # 0
  BY EmptyQueue
<1>2. Len(s) = 1
  BY <1>1
<1> QED BY <1>2

LEMMA SingletonType ==
    ASSUME NEW S, NEW e \in S
    PROVE  <<e>> \in Seq(S) /\ Len(<<e>>) = 1 /\ <<e>>[1] = e /\ <<e>> # <<>>
OBVIOUS

LEMMA ReplaceOnly ==
    ASSUME NEW e, NEW g
    PROVE  [<<e>> EXCEPT ![1] = g] = <<g>>
OBVIOUS

(* Assigning to one element of a vector.                                   *)
LEMMA ReplaceOne ==
    ASSUME NEW S, NEW s \in Seq(S), NEW i \in 1..Len(s), NEW e \in S
    PROVE  LET r == [s EXCEPT ![i] = e] IN
             /\ r \in Seq(S) /\ Len(r) = Len(s)
             /\ \A j \in 1..Len(s) : r[j] = IF j = i THEN e ELSE s[j]
OBVIOUS

(* What is in the queue after event_active or a push_back.                 *)
LEMMA RangeAppend ==
    ASSUME NEW S, NEW s \in Seq(S), NEW e
    PROVE  Range(Append(s, e)) = Range(s) \cup {e}
<1>1. ASSUME NEW x \in Range(Append(s, e)) PROVE x \in Range(s) \cup {e}
  BY DEF Range
<1>2. Range(s) \subseteq Range(Append(s, e))
  <2>1. \A i \in 1..Len(s) : i \in 1..Len(Append(s, e)) /\ Append(s, e)[i] = s[i]
    OBVIOUS
  <2> QED BY <2>1 DEF Range
<1>3. e \in Range(Append(s, e))
  <2>1. Len(s) + 1 \in 1..Len(Append(s, e)) /\ Append(s, e)[Len(s) + 1] = e
    OBVIOUS
  <2> QED BY <2>1 DEF Range
<1> QED BY <1>1, <1>2, <1>3

(* Taking the first element off a queue loses nothing else.                *)
LEMMA RangeTail ==
    ASSUME NEW S, NEW s \in Seq(S), s # <<>>, NEW x \in Range(s), x # Head(s)
    PROVE  x \in Range(Tail(s))
<1>1. PICK i \in 1..Len(s) : x = s[i]
  BY DEF Range
<1>2. i - 1 \in 1..Len(Tail(s)) /\ Tail(s)[i - 1] = x
  BY <1>1
<1>3. Tail(s) \in Seq(S)
  OBVIOUS
<1>4. i - 1 \in DOMAIN Tail(s)
  BY <1>2, <1>3
<1> QED BY <1>2, <1>4 DEF Range

(* The file events the poll appends leave the others in the queue.         *)
LEMMA RangeConcat ==
    ASSUME NEW S, NEW s \in Seq(S), NEW u \in Seq(S)
    PROVE  Range(s) \subseteq Range(s \o u)
<1>1. \A i \in 1..Len(s) : i \in 1..Len(s \o u) /\ (s \o u)[i] = s[i]
  OBVIOUS
<1> QED BY <1>1 DEF Range

LEMMA RangeOfConcat ==
    ASSUME NEW S, NEW s \in Seq(S), NEW u \in Seq(S)
    PROVE  Range(s \o u) \subseteq Range(s) \cup Range(u)
<1> SUFFICES ASSUME NEW i \in 1..Len(s) + Len(u) PROVE (s \o u)[i] \in Range(s) \cup Range(u)
  BY DEF Range
<1>1. CASE i <= Len(s)
  BY <1>1 DEF Range
<1>2. CASE i > Len(s)
  <2>1. i - Len(s) \in 1..Len(u) /\ (s \o u)[i] = u[i - Len(s)]
    BY <1>2
  <2> QED BY <2>1 DEF Range
<1> QED BY <1>1, <1>2

(* A group of items taken off a queue and what is left behind it form one  *)
(* queue: how that queue changes when either part does.                    *)
LEMMA ConcatEmpty ==
    ASSUME NEW S, NEW s \in Seq(S)
    PROVE  <<>> \o s = s /\ s \o <<>> = s
OBVIOUS

LEMMA ConcatAppend ==
    ASSUME NEW S, NEW s \in Seq(S), NEW u \in Seq(S), NEW e \in S
    PROVE  s \o Append(u, e) = Append(s \o u, e)
OBVIOUS

LEMMA ConcatTail ==
    ASSUME NEW S, NEW s \in Seq(S), NEW u \in Seq(S), s # <<>>
    PROVE  /\ s \o u # <<>>
           /\ Head(s \o u) = Head(s)
           /\ Tail(s \o u) = Tail(s) \o u
<1>1. Len(s) \in Nat /\ Len(s) # 0 /\ Len(u) \in Nat
  BY EmptyQueue
<1>2. s \o u \in Seq(S) /\ Len(s \o u) = Len(s) + Len(u)
  OBVIOUS
<1>3. s \o u # <<>> /\ Head(s \o u) = Head(s)
  BY <1>1, <1>2
<1>4. Tail(s) \in Seq(S) /\ Len(Tail(s)) = Len(s) - 1
  BY <1>1
<1>5. Tail(s \o u) \in Seq(S) /\ Len(Tail(s \o u)) = Len(s) + Len(u) - 1
  BY <1>1, <1>2, <1>3
<1>6. Tail(s) \o u \in Seq(S) /\ Len(Tail(s) \o u) = Len(s) + Len(u) - 1
  BY <1>1, <1>4
<1>7. \A i \in 1..Len(s) + Len(u) - 1 : Tail(s \o u)[i] = (Tail(s) \o u)[i]
  BY <1>1, <1>2, <1>3, <1>4, <1>5, <1>6
<1> QED BY <1>3, <1>5, <1>6, <1>7

(* What is left of a vector after its first i elements.                    *)
LEMMA SubSeqRest ==
    ASSUME NEW S, NEW s \in Seq(S), NEW i \in Nat, i <= Len(s)
    PROVE  /\ SubSeq(s, i + 1, Len(s)) \in Seq(S)
           /\ Range(SubSeq(s, i + 1, Len(s))) \subseteq Range(s)
           /\ i = Len(s) => SubSeq(s, i + 1, Len(s)) = <<>>
<1>1. /\ SubSeq(s, i + 1, Len(s)) \in Seq(S)
      /\ Len(SubSeq(s, i + 1, Len(s))) = Len(s) - i
      /\ \A j \in 1..Len(s) - i : SubSeq(s, i + 1, Len(s))[j] = s[i + j]
  OBVIOUS
<1>2. \A j \in 1..Len(s) - i : i + j \in 1..Len(s)
  OBVIOUS
<1>3. Range(SubSeq(s, i + 1, Len(s))) \subseteq Range(s)
  <2> DEFINE r == SubSeq(s, i + 1, Len(s))
  <2>1. r \in Seq(S) /\ Len(r) = Len(s) - i /\ \A j \in 1..Len(r) : r[j] = s[i + j] /\ i + j \in 1..Len(s)
    BY <1>1, <1>2
  <2> HIDE DEF r
  <2>2. \A j \in DOMAIN r : \E k \in DOMAIN s : r[j] = s[k]
    BY <2>1
  <2>3. Range(r) \subseteq Range(s)
    BY <2>2 DEF Range
  <2> QED BY <2>3 DEF r
<1> QED BY <1>1, <1>3

(* The first element of what is left of a vector, and the rest.            *)
LEMMA SubSeqStep ==
    ASSUME NEW S, NEW s \in Seq(S), NEW u \in Seq(S), NEW i \in Nat,
           i < Len(s), Len(u) = Len(s), \A j \in i + 2..Len(s) : u[j] = s[j]
    PROVE  /\ SubSeq(s, i + 1, Len(s)) \in Seq(S)
           /\ SubSeq(s, i + 1, Len(s)) # <<>>
           /\ Head(SubSeq(s, i + 1, Len(s))) = s[i + 1]
           /\ Tail(SubSeq(s, i + 1, Len(s))) = SubSeq(u, i + 2, Len(s))
<1>1. /\ SubSeq(s, i + 1, Len(s)) \in Seq(S)
      /\ Len(SubSeq(s, i + 1, Len(s))) = Len(s) - i
      /\ \A j \in 1..Len(s) - i : SubSeq(s, i + 1, Len(s))[j] = s[i + j]
  OBVIOUS
<1>2. SubSeq(s, i + 1, Len(s)) # <<>> /\ Head(SubSeq(s, i + 1, Len(s))) = s[i + 1]
  <2>1. 1 \in 1..Len(s) - i /\ Len(SubSeq(s, i + 1, Len(s))) # 0
    BY <1>1
  <2>2. SubSeq(s, i + 1, Len(s))[1] = s[i + 1]
    BY <1>1, <2>1
  <2>3. SubSeq(s, i + 1, Len(s)) # <<>>
    BY <1>1, <2>1, EmptyQueue
  <2> QED BY <2>2, <2>3
<1>3. /\ Tail(SubSeq(s, i + 1, Len(s))) \in Seq(S)
      /\ Len(Tail(SubSeq(s, i + 1, Len(s)))) = Len(s) - i - 1
      /\ \A j \in 1..Len(s) - i - 1 : Tail(SubSeq(s, i + 1, Len(s)))[j] = s[i + 1 + j]
  BY <1>1, <1>2
<1>4. /\ SubSeq(u, i + 2, Len(s)) \in Seq(S)
      /\ Len(SubSeq(u, i + 2, Len(s))) = Len(s) - i - 1
      /\ \A j \in 1..Len(s) - i - 1 : SubSeq(u, i + 2, Len(s))[j] = s[i + 1 + j]
  OBVIOUS
<1> QED BY <1>1, <1>2, <1>3, <1>4

(* How often an item is in a queue.                                        *)
Places(s, x) == {i \in DOMAIN s : s[i] = x}
Occurrences(s, x) == Cardinality(Places(s, x))

LEMMA OccurrencesType ==
    ASSUME NEW S, NEW s \in Seq(S), NEW x
    PROVE  IsFiniteSet(Places(s, x)) /\ Occurrences(s, x) \in Nat
<1>1. IsFiniteSet(1..Len(s)) /\ Places(s, x) \subseteq 1..Len(s)
  BY FS_Interval DEF Places
<1> QED BY <1>1, FS_Subset, FS_CardinalityType DEF Occurrences

LEMMA OccurrencesEmpty ==
    ASSUME NEW x
    PROVE  Occurrences(<<>>, x) = 0
<1>1. Places(<<>>, x) = {}
  BY DEF Places
<1> QED BY <1>1, FS_EmptySet DEF Occurrences

LEMMA OccurrencesAppend ==
    ASSUME NEW S, NEW s \in Seq(S), NEW e \in S, NEW x
    PROVE  Occurrences(Append(s, e), x) = Occurrences(s, x) + IF e = x THEN 1 ELSE 0
<1> DEFINE P == Places(s, x)  Q == Places(Append(s, e), x)  n == Len(s) + 1
<1>1. IsFiniteSet(P) /\ Cardinality(P) \in Nat
  BY OccurrencesType DEF Occurrences
<1>2. /\ DOMAIN Append(s, e) = DOMAIN s \cup {n} /\ n \notin DOMAIN s /\ Append(s, e)[n] = e
      /\ \A i \in DOMAIN s : Append(s, e)[i] = s[i]
  OBVIOUS
<1>3. Q = IF e = x THEN P \cup {n} ELSE P
  BY <1>2 DEF Places
<1>4. n \notin P
  BY <1>2 DEF Places
<1> HIDE DEF P, Q
<1>5. Cardinality(P \cup {n}) = Cardinality(P) + 1
  BY <1>1, <1>4, FS_AddElement
<1>6. Cardinality(Q) = Cardinality(P) + IF e = x THEN 1 ELSE 0
  BY <1>1, <1>3, <1>5
<1> QED BY <1>6 DEF Occurrences, P, Q

(* The first element is taken: one place less when it was x.               *)
LEMMA OccurrencesTail ==
    ASSUME NEW S, NEW s \in Seq(S), s # <<>>, NEW x
    PROVE  Occurrences(Tail(s), x) <= Occurrences(s, x) - IF Head(s) = x THEN 1 ELSE 0
<1> DEFINE P == Places(s, x)  Q == Places(Tail(s), x)
           f == [i \in Q |-> i + 1]
<1>1. IsFiniteSet(P) /\ Cardinality(P) \in Nat /\ 1 \in DOMAIN s /\ s[1] = Head(s)
  BY OccurrencesType, EmptyQueue DEF Occurrences
<1>2. \A i \in DOMAIN Tail(s) : i \in Nat /\ i + 1 \in DOMAIN s /\ i + 1 # 1 /\ Tail(s)[i] = s[i + 1]
  BY EmptyQueue
<1>3. IsFiniteSet(P \ {1}) /\ Cardinality(P \ {1}) = Cardinality(P) - IF Head(s) = x THEN 1 ELSE 0
  <2>1. 1 \in P <=> Head(s) = x
    BY <1>1 DEF Places
  <2> HIDE DEF P
  <2>2. IsFiniteSet(P \ {1}) /\ Cardinality(P \ {1}) = IF 1 \in P THEN Cardinality(P) - 1 ELSE Cardinality(P)
    BY <1>1, FS_RemoveElement
  <2> QED BY <1>1, <2>1, <2>2
<1>4. \A i \in Q : i \in Nat /\ i + 1 \in P \ {1}
  BY <1>2 DEF Places
<1> HIDE DEF P, Q
<1>5. f \in Injection(Q, P \ {1})
  BY <1>4 DEF Injection, IsInjective
<1>6. Cardinality(Q) <= Cardinality(P \ {1})
  BY <1>3, <1>5, FS_Injection
<1> QED BY <1>3, <1>6 DEF Occurrences, P, Q

(* A queue appended that does not have x.                                  *)
LEMMA OccurrencesConcat ==
    ASSUME NEW S, NEW s \in Seq(S), NEW u \in Seq(S), NEW x, x \notin Range(u)
    PROVE  Occurrences(s \o u, x) = Occurrences(s, x)
<1>1. /\ DOMAIN (s \o u) = 1..Len(s) + Len(u) /\ DOMAIN s = 1..Len(s) /\ DOMAIN u = 1..Len(u)
      /\ Len(s) \in Nat /\ Len(u) \in Nat
      /\ \A i \in 1..Len(s) : (s \o u)[i] = s[i]
      /\ \A i \in 1..Len(s) + Len(u) : i > Len(s) => (s \o u)[i] = u[i - Len(s)]
  OBVIOUS
<1>2. \A i \in 1..Len(u) : u[i] # x
  BY <1>1 DEF Range
<1>3. \A i \in 1..Len(s) + Len(u) : (s \o u)[i] = x => i \in 1..Len(s)
  BY <1>1, <1>2
<1>4. Places(s \o u, x) = Places(s, x)
  BY <1>1, <1>3 DEF Places
<1> QED BY <1>4 DEF Occurrences

(* ------------------------- induction and recursion ---------------------- *)
(* A set of natural numbers that is not empty has a least one.             *)
LEMMA LeastNumber ==
    ASSUME NEW S \in SUBSET Nat, S # {}
    PROVE  \E n \in S : \A m \in S : n <= m
<1>1. PICK n \in S : \A m \in S : ~ (<<m, n>> \in OpToRel(<, Nat))
  BY NatLessThanWellFounded, WFMin
<1>2. \A p, q \in Nat : q < p => <<q, p>> \in OpToRel(<, Nat)
  BY DEF OpToRel
<1>3. \A m \in S : ~(m < n)
  BY <1>1, <1>2
<1>4. \A m \in S : n <= m
  BY <1>3
<1> QED
  BY <1>4

(* Induction: a property of numbers is the set of those that have it.      *)
LEMMA UpTo ==
    ASSUME NEW n \in Nat, NEW S, 0 \in S, \A i \in 0 .. n - 1 : i \in S => i + 1 \in S
    PROVE  0 .. n \subseteq S
<1> SUFFICES ASSUME (0 .. n) \ S # {}
             PROVE  FALSE
  OBVIOUS
<1> DEFINE T == (0 .. n) \ S
<1>1. T \in SUBSET Nat /\ T # {}
  OBVIOUS
<1> HIDE DEF T
<1>2. PICK i \in T : \A j \in T : i <= j
  BY <1>1, LeastNumber
<1>3. i \in 0 .. n /\ i \notin S /\ \A j \in 0 .. n : j \notin S => i <= j
  BY <1>2 DEF T
<1>4. i # 0 /\ i - 1 \in 0 .. n - 1 /\ i - 1 \in S
  BY <1>3
<1> QED
  BY <1>3, <1>4

(* Numbers each of which is less than the next are in order.              *)
LEMMA Ascending ==
    ASSUME NEW n \in Nat, NEW a \in [1 .. n -> Int], \A i \in 1 .. n - 1 : a[i] < a[i + 1]
    PROVE  \A i, j \in 1 .. n : i < j => a[i] < a[j]
<1> SUFFICES ASSUME NEW i \in 1 .. n
             PROVE  \A j \in 1 .. n : i < j => a[i] < a[j]
  OBVIOUS
<1> DEFINE S == {h \in 0 .. n - i - 1 : a[i] < a[i + 1 + h]}
<1>1. CASE i = n
  BY <1>1
<1>2. CASE i < n
  <2>1. 0 \in S
    <3>1. 0 \in 0 .. n - i - 1 /\ a[i] < a[i + 1] /\ i + 1 + 0 = i + 1
      BY <1>2
    <3> QED BY <3>1
  <2>2. ASSUME NEW h \in 0 .. (n - i - 1) - 1, h \in S
        PROVE  h + 1 \in S
    <3>1. i + 1 + h \in 1 .. n - 1 /\ i + 1 + (h + 1) = (i + 1 + h) + 1 /\ h + 1 \in 0 .. n - i - 1
      BY <1>2
    <3>2. a[i] < a[i + 1 + h] /\ a[i + 1 + h] < a[(i + 1 + h) + 1]
      BY <2>2, <3>1
    <3>3. a[i] \in Int /\ a[i + 1 + h] \in Int /\ a[(i + 1 + h) + 1] \in Int
      BY <3>1
    <3> QED BY <3>1, <3>2, <3>3
  <2> HIDE DEF S
  <2>3. 0 .. n - i - 1 \subseteq S
    <3>1. n - i - 1 \in Nat
      BY <1>2
    <3> QED BY <2>1, <2>2, <3>1, UpTo
  <2>4. ASSUME NEW j \in 1 .. n, i < j PROVE a[i] < a[j]
    <3>1. j - i - 1 \in 0 .. n - i - 1 /\ i + 1 + (j - i - 1) = j
      BY <2>4
    <3>2. j - i - 1 \in S
      BY <2>3, <3>1
    <3>3. a[i] < a[i + 1 + (j - i - 1)]
      BY <3>2 DEF S
    <3> QED BY <3>1, <3>3
  <2> QED BY <2>4
<1> QED BY <1>1, <1>2

(* A function f on 0 .. k that starts with c and goes on by step.          *)
Iterates(f, k, V, c, step) ==
    f \in [0 .. k -> V] /\ f[0] = c /\ \A i \in 1 .. k : f[i] = step[<<f[i - 1], i>>]

(* A function defined by recursion on 0 .. n exists.                       *)
LEMMA Iterated ==
    ASSUME NEW n \in Nat, NEW V, NEW c \in V, NEW step \in [V \X (1 .. n) -> V]
    PROVE  \E f : Iterates(f, n, V, c, step)
<1> DEFINE S == {k \in 0 .. n : \E f : Iterates(f, k, V, c, step)}
<1>1. \E f : Iterates(f, 0, V, c, step)
  <2> DEFINE f == [i \in 0 .. 0 |-> c]
  <2>1. f \in [0 .. 0 -> V] /\ f[0] = c
    OBVIOUS
  <2> HIDE DEF f
  <2> WITNESS f
  <2> QED
    BY <2>1 DEF Iterates
<1>2. ASSUME NEW k \in 0 .. n - 1, NEW f, Iterates(f, k, V, c, step)
      PROVE  \E g : Iterates(g, k + 1, V, c, step)
  <2> DEFINE v == step[<<f[k], k + 1>>]
             g == [i \in 0 .. k + 1 |-> IF i = k + 1 THEN v ELSE f[i]]
  <2>1. f[k] \in V /\ k + 1 \in 1 .. n /\ \A i \in 0 .. k : f[i] \in V
    BY <1>2 DEF Iterates
  <2>2. v \in V
    BY <2>1
  <2> HIDE DEF v
  <2>3. g \in [0 .. k + 1 -> V] /\ g[k + 1] = v /\ \A i \in 0 .. k : g[i] = f[i]
    BY <2>1, <2>2
  <2> HIDE DEF g
  <2>4. g[0] = c
    BY <1>2, <2>3 DEF Iterates
  <2>5. ASSUME NEW i \in 1 .. k + 1
        PROVE  g[i] = step[<<g[i - 1], i>>]
    <3>1. g[i - 1] = f[i - 1]
      BY <2>3
    <3>2. CASE i = k + 1
      BY <2>3, <3>1, <3>2 DEF v
    <3>3. CASE i \in 1 .. k
      BY <1>2, <2>3, <3>1, <3>3 DEF Iterates
    <3> QED
      BY <3>2, <3>3
  <2> WITNESS g
  <2> QED
    BY <2>3, <2>4, <2>5 DEF Iterates
<1>3. 0 \in S /\ \A k \in 0 .. n - 1 : k \in S => k + 1 \in S
  BY <1>1, <1>2
<1> HIDE DEF S
<1>4. n \in S
  BY <1>3, UpTo
<1> QED
  BY <1>4 DEF S

(* In particular the sums of the first terms of a finite series.           *)
Sums(f, n, term) == f = [i \in 0 .. n |-> IF i = 0 THEN 0 ELSE f[i - 1] + term[i]]

LEMMA SumsExist ==
    ASSUME NEW n \in Nat, NEW term \in [1 .. n -> Int]
    PROVE  \E f : Sums(f, n, term)
<1> DEFINE step == [p \in Int \X (1 .. n) |-> p[1] + term[p[2]]]
<1>1. /\ step \in [Int \X (1 .. n) -> Int] /\ 0 \in Int
      /\ \A x \in Int, i \in 1 .. n : step[<<x, i>>] = x + term[i]
  OBVIOUS
<1> HIDE DEF step
<1>2. PICK f : Iterates(f, n, Int, 0, step)
  BY <1>1, Iterated
<1>3. f \in [0 .. n -> Int] /\ f[0] = 0 /\ \A i \in 1 .. n : f[i] = step[<<f[i - 1], i>>]
  BY <1>2 DEF Iterates
<1>4. ASSUME NEW i \in 1 .. n
      PROVE  f[i] = f[i - 1] + term[i]
  <2>1. i - 1 \in 0 .. n /\ f[i - 1] \in Int
    BY <1>3
  <2> QED BY <1>1, <1>3, <2>1
<1> DEFINE g == [i \in 0 .. n |-> IF i = 0 THEN 0 ELSE f[i - 1] + term[i]]
<1>5. \A i \in 0 .. n : f[i] = g[i]
  BY <1>3, <1>4
<1>6. f = g
  BY <1>3, <1>5
<1> QED BY <1>6 DEF Sums

LEMMA SumsAdd ==
    ASSUME NEW n \in Nat, NEW term \in [1 .. n -> Int], NEW f, Sums(f, n, term)
    PROVE  /\ f[0] = 0
           /\ \A i \in 1 .. n : f[i] = f[i - 1] + term[i]
           /\ \A i \in 0 .. n : f[i] \in Int
<1> DEFINE S == {i \in 0 .. n : f[i] \in Int}
<1>1. f[0] = 0 /\ \A i \in 1 .. n : f[i] = f[i - 1] + term[i]
  <2> DEFINE g == [i \in 0 .. n |-> IF i = 0 THEN 0 ELSE f[i - 1] + term[i]]
  <2>1. g[0] = 0 /\ \A i \in 1 .. n : g[i] = f[i - 1] + term[i]
    OBVIOUS
  <2>2. f = g
    BY DEF Sums
  <2> HIDE DEF g
  <2> QED BY <2>1, <2>2
<1>2. 0 \in S
  BY <1>1
<1>3. ASSUME NEW i \in 0 .. n - 1, i \in S
      PROVE  i + 1 \in S
  <2>1. i + 1 \in 1 .. n /\ (i + 1) - 1 = i
    OBVIOUS
  <2>2. f[i + 1] = f[i] + term[i + 1] /\ term[i + 1] \in Int
    BY <1>1, <2>1
  <2> QED BY <1>3, <2>1, <2>2
<1> HIDE DEF S
<1>4. 0 .. n \subseteq S
  BY <1>2, <1>3, UpTo
<1> QED BY <1>1, <1>4 DEF S

(* ------------------------------ division -------------------------------- *)
(* A product is less than its factor only when it is 0.                    *)
LEMMA NoMultiple ==
    ASSUME NEW k \in Nat \ {0}, NEW n \in Int, -k < k * n, k * n < k
    PROVE  n = 0
<1>1. n < 1
  <2> SUFFICES ASSUME n >= 1
               PROVE  FALSE
    OBVIOUS
  <2>1. k * n >= k * 1
    OBVIOUS
  <2> QED BY <2>1
<1>2. n > -1
  <2> SUFFICES ASSUME n <= -1
               PROVE  FALSE
    OBVIOUS
  <2>1. k * n <= k * (-1)
    OBVIOUS
  <2> QED BY <2>1
<1> QED BY <1>1, <1>2

(* Quotient and remainder are determined.                                  *)
LEMMA IntDivMod ==
    ASSUME NEW k \in Nat \ {0}, NEW q \in Int, NEW x \in Nat, x < k
    PROVE  (k * q + x) \div k = q /\ (k * q + x) % k = x
<1> DEFINE t == k * q + x
           d == t \div k
           r == t % k
<1>1. t \in Int
  OBVIOUS
<1> HIDE DEF t
<1>2. d \in Int /\ r \in Nat /\ r < k /\ t = k * d + r
  BY <1>1
<1> HIDE DEF d, r
<1>3. k * (q - d) = k * q - k * d
  BY <1>2
<1> DEFINE a == k * q
           b == k * d
<1>4. a \in Int /\ b \in Int /\ t = a + x /\ t = b + r /\ k * (q - d) = a - b
  BY <1>2, <1>3 DEF t
<1> HIDE DEF a, b
<1>5. -k < k * (q - d) /\ k * (q - d) < k
  BY <1>2, <1>4
<1>6. q - d = 0
  BY <1>2, <1>5, NoMultiple
<1>7. d = q
  BY <1>2, <1>6
<1>8. r = x
  BY <1>2, <1>4, <1>7 DEF a, b
<1> QED BY <1>7, <1>8 DEF t, d, r

LEMMA DivMod ==
    ASSUME NEW k \in Nat \ {0}, NEW q \in Nat, NEW x \in Nat, x < k
    PROVE  (k * q + x) \div k = q /\ (k * q + x) % k = x
<1>1. q \in Int
  OBVIOUS
<1> QED BY <1>1, IntDivMod

================================================================================
