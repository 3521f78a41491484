----------------------------- MODULE LocalTimeProofs ---------------------------
(* Zone files and local time in TimeZone.cc: for every zone, a file that   *)
(* is loaded gives the zone that was written and one cut short is refused; *)
(* within the table of transitions local time is UTC shifted by the offset *)
(* in force, and every local time is resolved to its instants.             *)
EXTENDS TimeZoneProofs

--------------------------------------------------------------------------------
(* -------------------------- the fields of a file ------------------------ *)
Texts == {"TZif", "1", "2", "reserved", "name", "leap", "std", "ut", "TZ"}
FieldSet == [value : Int \cup Texts, width : Nat \ {0}]

(* Where each field starts, and the file whose fields are f.               *)
Offsets(f) == CHOOSE offset : offset = [i \in 0 .. Len(f) |->
                  IF i = 0 THEN 0 ELSE offset[i - 1] + f[i].width]
FieldAt(f, o) == f[CHOOSE i \in 1 .. Len(f) : Offsets(f)[i - 1] = o]
FieldsAt(f) == [o \in {Offsets(f)[i - 1] : i \in 1 .. Len(f)} |-> FieldAt(f, o)]

LEMMA FileWritten ==
    ASSUME NEW z
    PROVE  Written(z) = [length |-> Offsets(Fields(z))[Len(Fields(z))], at |-> FieldsAt(Fields(z))]
BY Zenon DEF Written, Offsets, FieldAt, FieldsAt

LEMMA OffsetsAdd ==
    ASSUME NEW f \in Seq(FieldSet)
    PROVE  /\ Offsets(f)[0] = 0
           /\ \A i \in 1 .. Len(f) : Offsets(f)[i] = Offsets(f)[i - 1] + f[i].width
           /\ \A i \in 0 .. Len(f) : Offsets(f)[i] \in Int
<1> DEFINE n == Len(f)
           term == [i \in 1 .. n |-> f[i].width]
           W == Offsets(f)
<1>1. n \in Nat
  OBVIOUS
<1>2. \A i \in 1 .. n : f[i].width \in Int
  <2>1. \A i \in 1 .. n : f[i] \in FieldSet
    OBVIOUS
  <2> QED BY <2>1 DEF FieldSet
<1>3. term \in [1 .. n -> Int] /\ \A i \in 1 .. n : term[i] = f[i].width
  BY <1>2
<1> HIDE DEF term
<1>4. \A g : [i \in 0 .. n |-> IF i = 0 THEN 0 ELSE g[i - 1] + term[i]] =
             [i \in 0 .. n |-> IF i = 0 THEN 0 ELSE g[i - 1] + f[i].width]
  BY <1>1, <1>3
<1>5. PICK g : Sums(g, n, term)
  BY <1>1, <1>3, SumsExist
<1>6. g = [i \in 0 .. n |-> IF i = 0 THEN 0 ELSE g[i - 1] + f[i].width]
  BY <1>4, <1>5 DEF Sums
<1>7. W = [i \in 0 .. n |-> IF i = 0 THEN 0 ELSE W[i - 1] + f[i].width]
  BY <1>6, Zenon DEF Offsets
<1>8. Sums(W, n, term)
  BY <1>4, <1>7 DEF Sums
<1> HIDE DEF W
<1>9. /\ W[0] = 0
      /\ \A i \in 1 .. n : W[i] = W[i - 1] + term[i]
      /\ \A i \in 0 .. n : W[i] \in Int
  BY <1>1, <1>3, <1>8, SumsAdd
<1> QED BY <1>3, <1>9 DEF W

(* No two fields start at the same place.                                  *)
LEMMA OffsetsRise ==
    ASSUME NEW f \in Seq(FieldSet), NEW i \in 0 .. Len(f), NEW j \in 0 .. Len(f), i < j
    PROVE  Offsets(f)[i] < Offsets(f)[j]
<1> DEFINE n == Len(f)
           W == Offsets(f)
           S == {m \in 0 .. n : \A l \in 0 .. m - 1 : W[l] < W[m]}
<1>1. n \in Nat /\ \A m \in 0 .. n : W[m] \in Int
  BY OffsetsAdd
<1>2. \A m \in 1 .. n : W[m] > W[m - 1]
  <2> SUFFICES ASSUME NEW m \in 1 .. n
               PROVE  W[m] > W[m - 1]
    OBVIOUS
  <2>1. f[m] \in FieldSet
    OBVIOUS
  <2>2. W[m] = W[m - 1] + f[m].width
    BY OffsetsAdd
  <2>3. f[m].width \in Nat \ {0} /\ W[m - 1] \in Int
    BY <1>1, <2>1 DEF FieldSet
  <2> HIDE DEF W
  <2> QED BY <2>2, <2>3
<1> HIDE DEF W
<1>3. 0 \in S
  BY <1>1
<1>4. ASSUME NEW m \in 0 .. n - 1, m \in S
      PROVE  m + 1 \in S
  <2>1. m + 1 \in 1 .. n /\ W[m + 1] > W[m] /\ W[m + 1] \in Int /\ W[m] \in Int
    BY <1>1, <1>2
  <2>2. ASSUME NEW l \in 0 .. (m + 1) - 1
        PROVE  W[l] < W[m + 1]
    <3>1. CASE l = m
      BY <2>1, <3>1
    <3>2. CASE l # m
      <4>1. l \in 0 .. m - 1 /\ W[l] \in Int
        BY <1>1, <3>2
      <4>2. W[l] < W[m]
        BY <1>4, <4>1
      <4> QED BY <2>1, <4>1, <4>2
    <3> QED BY <3>1, <3>2
  <2> QED BY <2>1, <2>2
<1> HIDE DEF S
<1>5. 0 .. n \subseteq S
  BY <1>1, <1>3, <1>4, UpTo
<1>6. j \in S
  BY <1>5
<1> QED BY <1>6 DEF S, W

(* At the start of a field, over its width, the file has its value.         *)
LEMMA FieldRead ==
    ASSUME NEW f \in Seq(FieldSet), NEW file, file.at = FieldsAt(f), NEW i \in 1 .. Len(f)
    PROVE  Content(file, Offsets(f)[i - 1], f[i].width) = f[i].value
<1> DEFINE W == Offsets(f)
           o == W[i - 1]
           Q == {W[j - 1] : j \in 1 .. Len(f)}
<1>1. o \in Q
  OBVIOUS
<1>2. \A j \in 1 .. Len(f) : W[j - 1] = o => j = i
  <2> SUFFICES ASSUME NEW j \in 1 .. Len(f), j # i
               PROVE  W[j - 1] # o
    OBVIOUS
  <2>1. i - 1 \in 0 .. Len(f) /\ j - 1 \in 0 .. Len(f)
    OBVIOUS
  <2>2. W[i - 1] \in Int /\ W[j - 1] \in Int
    BY <2>1, OffsetsAdd
  <2>3. CASE j < i
    <3>1. W[j - 1] < W[i - 1]
      BY <2>1, <2>3, OffsetsRise
    <3> HIDE DEF W
    <3> QED BY <2>2, <3>1
  <2>4. CASE i < j
    <3>1. W[i - 1] < W[j - 1]
      BY <2>1, <2>4, OffsetsRise
    <3> HIDE DEF W
    <3> QED BY <2>2, <3>1
  <2> QED BY <2>3, <2>4
<1>3. (CHOOSE j \in 1 .. Len(f) : W[j - 1] = o) = i
  <2> HIDE DEF W
  <2> QED BY <1>2
<1>4. FieldAt(f, o) = f[i]
  BY <1>3 DEF FieldAt
<1>5. o \in DOMAIN file.at /\ file.at[o] = f[i]
  BY <1>1, <1>4 DEF FieldsAt
<1> HIDE DEF o
<1>6. Content(file, o, f[i].width) = f[i].value
  BY <1>5 DEF Content
<1> QED BY <1>6 DEF o

(* ------------------------- sections of a file --------------------------- *)
(* The fields s stand behind the first k fields of f.                      *)
Stands(f, k, s) ==
    /\ k \in Nat /\ k + Len(s) <= Len(f)
    /\ \A i \in 1 .. Len(s) : f[k + i] = s[i]

LEMMA StandsWhole ==
    ASSUME NEW f \in Seq(FieldSet)
    PROVE  Stands(f, 0, f)
BY DEF Stands

LEMMA StandsParts ==
    ASSUME NEW f \in Seq(FieldSet), NEW s \in Seq(FieldSet), NEW t \in Seq(FieldSet),
           NEW k, Stands(f, k, s \o t)
    PROVE  Stands(f, k, s) /\ Stands(f, k + Len(s), t)
<1>1. k \in Nat /\ Len(s) \in Nat /\ Len(t) \in Nat /\ Len(f) \in Nat /\ Len(s \o t) = Len(s) + Len(t)
  BY DEF Stands
<1>2. \A i \in 1 .. Len(s) : f[k + i] = s[i]
  <2> TAKE i \in 1 .. Len(s)
  <2>1. i \in 1 .. Len(s \o t) /\ (s \o t)[i] = s[i]
    BY <1>1
  <2> QED BY <2>1 DEF Stands
<1>3. \A i \in 1 .. Len(t) : f[k + Len(s) + i] = t[i]
  <2> TAKE i \in 1 .. Len(t)
  <2>1. Len(s) + i \in 1 .. Len(s \o t) /\ (s \o t)[Len(s) + i] = t[i]
    BY <1>1
  <2>2. f[k + (Len(s) + i)] = (s \o t)[Len(s) + i]
    BY <2>1 DEF Stands
  <2>3. k + (Len(s) + i) = k + Len(s) + i
    BY <1>1
  <2> QED BY <2>1, <2>2, <2>3
<1>4. k + (Len(s) + Len(t)) <= Len(f)
  BY <1>1 DEF Stands
<1> QED BY <1>1, <1>2, <1>3, <1>4 DEF Stands

(* Fields of one width follow each other at that distance.                 *)
AllOf(s, w) == \A i \in 1 .. Len(s) : s[i].width = w
Wide(w, n) == w * n

LEMMA EvenFields ==
    ASSUME NEW f \in Seq(FieldSet), NEW s \in Seq(FieldSet), NEW k, Stands(f, k, s),
           NEW w \in Nat \ {0}, AllOf(s, w)
    PROVE  \A j \in 0 .. Len(s) : Offsets(f)[k + j] = Offsets(f)[k] + Wide(w, j)
<1> DEFINE n == Len(s)
           W == Offsets(f)
           S == {j \in 0 .. n : W[k + j] = W[k] + Wide(w, j)}
<1>1. n \in Nat /\ k \in Nat /\ k + n <= Len(f) /\ Len(f) \in Nat
  BY DEF Stands
<1>2. W[k] \in Int
  BY <1>1, OffsetsAdd
<1>3. 0 \in S
  <2> HIDE DEF W
  <2>1. Wide(w, 0) = 0 /\ k + 0 = k
    BY <1>1 DEF Wide
  <2> QED BY <1>1, <1>2, <2>1
<1>4. ASSUME NEW j \in 0 .. n - 1, j \in S
      PROVE  j + 1 \in S
  <2>1. k + (j + 1) \in 1 .. Len(f) /\ (k + (j + 1)) - 1 = k + j /\ j + 1 \in 1 .. n
    BY <1>1
  <2>2. W[k + (j + 1)] = W[k + j] + f[k + (j + 1)].width
    BY <2>1, OffsetsAdd
  <2>3. f[k + (j + 1)].width = w
    BY <2>1 DEF Stands, AllOf
  <2>4. Wide(w, j + 1) = Wide(w, j) + w /\ Wide(w, j) \in Int
    BY <1>1 DEF Wide
  <2> HIDE DEF W
  <2>5. W[k + j] = W[k] + Wide(w, j)
    BY <1>4
  <2>6. W[k + (j + 1)] = W[k] + Wide(w, j + 1)
    BY <1>2, <2>2, <2>3, <2>4, <2>5
  <2> QED BY <2>1, <2>6
<1> HIDE DEF S
<1>5. 0 .. n \subseteq S
  BY <1>1, <1>3, <1>4, UpTo
<1> QED BY <1>5 DEF S, W

LEMMA StandsInside ==
    ASSUME NEW f \in Seq(FieldSet), NEW s \in Seq(FieldSet), NEW k, Stands(f, k, s)
    PROVE  /\ k \in Nat /\ Len(s) \in Nat /\ Len(f) \in Nat /\ k + Len(s) <= Len(f)
           /\ \A i \in 0 .. Len(s) : k + i \in 0 .. Len(f) /\ Offsets(f)[k + i] \in Int
<1>1. k \in Nat /\ Len(s) \in Nat /\ Len(f) \in Nat /\ k + Len(s) <= Len(f)
  BY DEF Stands
<1>2. \A i \in 0 .. Len(s) : k + i \in 0 .. Len(f)
  BY <1>1
<1> QED BY <1>1, <1>2, OffsetsAdd

LEMMA FieldParts ==
    ASSUME NEW v, NEW w
    PROVE  Field(v, w).value = v /\ Field(v, w).width = w
BY DEF Field

(* What the file has at the section's fields.                              *)
LEMMA StandingRead ==
    ASSUME NEW f \in Seq(FieldSet), NEW file, file.at = FieldsAt(f),
           NEW s \in Seq(FieldSet), NEW k, Stands(f, k, s), NEW i \in 1 .. Len(s)
    PROVE  /\ Content(file, Offsets(f)[k + (i - 1)], s[i].width) = s[i].value
           /\ Offsets(f)[k + i] = Offsets(f)[k + (i - 1)] + s[i].width
<1>1. k \in Nat /\ k + i \in 1 .. Len(f) /\ (k + i) - 1 = k + (i - 1) /\ f[k + i] = s[i]
  BY DEF Stands
<1>2. Content(file, Offsets(f)[(k + i) - 1], f[k + i].width) = f[k + i].value
  BY <1>1, FieldRead
<1>3. Offsets(f)[k + i] = Offsets(f)[(k + i) - 1] + f[k + i].width
  BY <1>1, OffsetsAdd
<1> QED BY <1>1, <1>2, <1>3

CanRead(f, file, k, s) ==
    \A i \in 1 .. Len(s) :
        /\ Content(file, Offsets(f)[k + (i - 1)], s[i].width) = s[i].value
        /\ Offsets(f)[k + i] = Offsets(f)[k + (i - 1)] + s[i].width

LEMMA StandingReads ==
    ASSUME NEW f \in Seq(FieldSet), NEW file, file.at = FieldsAt(f),
           NEW s \in Seq(FieldSet), NEW k, Stands(f, k, s)
    PROVE  CanRead(f, file, k, s)
BY StandingRead DEF CanRead

(* ------------------------------ the header ------------------------------ *)
LEMMA HeaderFields ==
    ASSUME NEW z, IsBlock(z), NEW version \in {"1", "2"}
    PROVE  Header(z, version) \in Seq(FieldSet) /\ Len(Header(z, version)) = 9
<1> DEFINE h == Header(z, version)
<1>1. z.isut \in Int /\ z.isstd \in Int /\ z.leap \in Int /\ Len(z.trans) \in Int /\ Len(z.types) \in Int
  BY DEF IsBlock
<1>2. \A v \in Int \cup Texts : \A w \in Nat \ {0} : Field(v, w) \in FieldSet
  BY DEF Field, FieldSet
<1>3. /\ "TZif" \in Int \cup Texts /\ version \in Int \cup Texts /\ "reserved" \in Int \cup Texts
      /\ 3 \in Int \cup Texts /\ {4, 1, 15} \subseteq Nat \ {0}
  BY DEF Texts
<1>4. /\ Field("TZif", 4) \in FieldSet /\ Field(version, 1) \in FieldSet /\ Field("reserved", 15) \in FieldSet
      /\ Field(z.isut, 4) \in FieldSet /\ Field(z.isstd, 4) \in FieldSet /\ Field(z.leap, 4) \in FieldSet
      /\ Field(Len(z.trans), 4) \in FieldSet /\ Field(Len(z.types), 4) \in FieldSet /\ Field(3, 4) \in FieldSet
  BY <1>1, <1>2, <1>3
<1> QED BY <1>4 DEF Header

LEMMA HeaderRead ==
    ASSUME NEW f \in Seq(FieldSet), NEW file, file.at = FieldsAt(f), NEW z, IsBlock(z),
           NEW version \in {"1", "2"}, NEW k, Stands(f, k, Header(z, version))
    PROVE  LET pos == Offsets(f)[k] IN
           /\ pos \in Int /\ Offsets(f)[k + 9] = pos + 44
           /\ Content(file, pos, 4) = "TZif" /\ Content(file, pos + 4, 1) = version
           /\ Content(file, pos + 5, 15) = "reserved"
           /\ Content(file, pos + 20, 4) = z.isut /\ Content(file, pos + 24, 4) = z.isstd
           /\ Content(file, pos + 28, 4) = z.leap
           /\ Content(file, pos + 32, 4) = Len(z.trans) /\ Content(file, pos + 36, 4) = Len(z.types)
           /\ Content(file, pos + 40, 4) = 3
<1> DEFINE h == Header(z, version)
           W == Offsets(f)
           pos == W[k]
<1>1. h \in Seq(FieldSet) /\ Len(h) = 9
  BY HeaderFields
<1>2. k \in Nat /\ k + 9 <= Len(f) /\ pos \in Int
  BY <1>1, OffsetsAdd DEF Stands
<1>3. /\ h[1] = Field("TZif", 4) /\ h[2] = Field(version, 1) /\ h[3] = Field("reserved", 15)
      /\ h[4] = Field(z.isut, 4) /\ h[5] = Field(z.isstd, 4) /\ h[6] = Field(z.leap, 4)
      /\ h[7] = Field(Len(z.trans), 4) /\ h[8] = Field(Len(z.types), 4) /\ h[9] = Field(3, 4)
  BY DEF Header
<1>4. \A i \in 1 .. 9 : /\ Content(file, W[k + (i - 1)], h[i].width) = h[i].value
                        /\ W[k + i] = W[k + (i - 1)] + h[i].width
  <2>1. Stands(f, k, h)
    OBVIOUS
  <2> HIDE DEF h
  <2>2. CanRead(f, file, k, h)
    BY <1>1, <2>1, StandingReads
  <2> QED BY <1>1, <2>2 DEF CanRead
<1> HIDE DEF h, W
<1>5. /\ Content(file, W[k + 0], 4) = "TZif" /\ W[k + 1] = W[k + 0] + 4
      /\ Content(file, W[k + 1], 1) = version /\ W[k + 2] = W[k + 1] + 1
      /\ Content(file, W[k + 2], 15) = "reserved" /\ W[k + 3] = W[k + 2] + 15
      /\ Content(file, W[k + 3], 4) = z.isut /\ W[k + 4] = W[k + 3] + 4
      /\ Content(file, W[k + 4], 4) = z.isstd /\ W[k + 5] = W[k + 4] + 4
      /\ Content(file, W[k + 5], 4) = z.leap /\ W[k + 6] = W[k + 5] + 4
      /\ Content(file, W[k + 6], 4) = Len(z.trans) /\ W[k + 7] = W[k + 6] + 4
      /\ Content(file, W[k + 7], 4) = Len(z.types) /\ W[k + 8] = W[k + 7] + 4
      /\ Content(file, W[k + 8], 4) = 3 /\ W[k + 9] = W[k + 8] + 4
  <2>1. /\ 1 \in 1 .. 9 /\ 2 \in 1 .. 9 /\ 3 \in 1 .. 9 /\ 4 \in 1 .. 9 /\ 5 \in 1 .. 9 /\ 6 \in 1 .. 9
        /\ 7 \in 1 .. 9 /\ 8 \in 1 .. 9 /\ 9 \in 1 .. 9
        /\ 1 - 1 = 0 /\ 2 - 1 = 1 /\ 3 - 1 = 2 /\ 4 - 1 = 3 /\ 5 - 1 = 4 /\ 6 - 1 = 5 /\ 7 - 1 = 6
        /\ 8 - 1 = 7 /\ 9 - 1 = 8
    OBVIOUS
  <2>2. /\ h[1].width = 4 /\ h[1].value = "TZif" /\ h[2].width = 1 /\ h[2].value = version
        /\ h[3].width = 15 /\ h[3].value = "reserved" /\ h[4].width = 4 /\ h[4].value = z.isut
        /\ h[5].width = 4 /\ h[5].value = z.isstd /\ h[6].width = 4 /\ h[6].value = z.leap
        /\ h[7].width = 4 /\ h[7].value = Len(z.trans) /\ h[8].width = 4 /\ h[8].value = Len(z.types)
        /\ h[9].width = 4 /\ h[9].value = 3
    BY <1>3 DEF Field
  <2>3. /\ Content(file, W[k + 0], 4) = "TZif" /\ W[k + 1] = W[k + 0] + 4
        /\ Content(file, W[k + 1], 1) = version /\ W[k + 2] = W[k + 1] + 1
        /\ Content(file, W[k + 2], 15) = "reserved" /\ W[k + 3] = W[k + 2] + 15
    BY <1>4, <2>1, <2>2
  <2>4. /\ Content(file, W[k + 3], 4) = z.isut /\ W[k + 4] = W[k + 3] + 4
        /\ Content(file, W[k + 4], 4) = z.isstd /\ W[k + 5] = W[k + 4] + 4
        /\ Content(file, W[k + 5], 4) = z.leap /\ W[k + 6] = W[k + 5] + 4
    BY <1>4, <2>1, <2>2
  <2>5. /\ Content(file, W[k + 6], 4) = Len(z.trans) /\ W[k + 7] = W[k + 6] + 4
        /\ Content(file, W[k + 7], 4) = Len(z.types) /\ W[k + 8] = W[k + 7] + 4
        /\ Content(file, W[k + 8], 4) = 3 /\ W[k + 9] = W[k + 8] + 4
    BY <1>4, <2>1, <2>2
  <2> QED BY <2>3, <2>4, <2>5
<1>6. W[k + 0] = pos
  BY <1>2
<1>7. /\ W[k + 1] = pos + 4 /\ W[k + 2] = pos + 5 /\ W[k + 3] = pos + 20 /\ W[k + 4] = pos + 24
      /\ W[k + 5] = pos + 28 /\ W[k + 6] = pos + 32 /\ W[k + 7] = pos + 36 /\ W[k + 8] = pos + 40
      /\ W[k + 9] = pos + 44
  <2> HIDE DEF pos
  <2> QED BY <1>2, <1>5, <1>6
<1> QED BY <1>2, <1>5, <1>6, <1>7 DEF W

(* ------------------------------ a data block ---------------------------- *)
(* What is a type, a transition and its index.                             *)
LEMMA BlockParts ==
    ASSUME NEW z, IsBlock(z)
    PROVE  /\ Len(z.types) \in Nat /\ Len(z.trans) \in Nat
           /\ z.leap \in Nat /\ z.isstd \in Nat /\ z.isut \in Nat
           /\ \A i \in 1 .. Len(z.types) :
                  /\ z.types[i] \in [utcOffset : Int, isDst : {0, 1}, desigIdx : Nat]
                  /\ z.types[i].utcOffset \in Int
                  /\ z.types[i].isDst \in Int /\ z.types[i].desigIdx \in Int
           /\ \A i \in 1 .. Len(z.trans) :
                  z.trans[i][1] \in Int /\ z.trans[i][2] \in 0 .. Len(z.types) - 1
<1> DEFINE R == [utcOffset : Int, isDst : {0, 1}, desigIdx : Nat]
           P == Int \X (0 .. Len(z.types) - 1)
<1>1. z.types \in Seq(R) /\ z.trans \in Seq(P)
  BY DEF IsBlock
<1>2. \A i \in 1 .. Len(z.types) : z.types[i] \in R
  <2> HIDE DEF R
  <2> QED BY <1>1
<1>3. \A i \in 1 .. Len(z.trans) : z.trans[i] \in P
  <2> HIDE DEF P
  <2> QED BY <1>1
<1>4. \A r \in R : r.utcOffset \in Int /\ r.isDst \in Int /\ r.desigIdx \in Int
  OBVIOUS
<1>5. \A p \in P : p[1] \in Int /\ p[2] \in 0 .. Len(z.types) - 1
  OBVIOUS
<1>6. Len(z.types) \in Nat /\ Len(z.trans) \in Nat
  BY <1>1
<1>7. z.leap \in Nat /\ z.isstd \in Nat /\ z.isut \in Nat
  BY DEF IsBlock
<1> HIDE DEF P
<1> QED BY <1>2, <1>3, <1>4, <1>5, <1>6, <1>7

LEMMA TypesAndTheirFields ==
    ASSUME NEW z, IsBlock(z), NEW i \in 1 .. Len(z.types)
    PROVE  /\ 3 * (i - 1) + 1 \in 1 .. 3 * Len(z.types)
           /\ 3 * (i - 1) + 2 \in 1 .. 3 * Len(z.types)
           /\ 3 * (i - 1) + 3 \in 1 .. 3 * Len(z.types)
           /\ LocalTypes(z)[3 * (i - 1) + 1] = Field(z.types[i].utcOffset, 4)
           /\ LocalTypes(z)[3 * (i - 1) + 2] = Field(z.types[i].isDst, 1)
           /\ LocalTypes(z)[3 * (i - 1) + 3] = Field(z.types[i].desigIdx, 1)
<1>1. Len(z.types) \in Nat
  BY BlockParts
<1>2. /\ 3 * (i - 1) + 1 \in 1 .. 3 * Len(z.types)
      /\ 3 * (i - 1) + 2 \in 1 .. 3 * Len(z.types)
      /\ 3 * (i - 1) + 3 \in 1 .. 3 * Len(z.types)
  BY <1>1
<1>3. /\ ((3 * (i - 1) + 1) + 2) \div 3 = i /\ (3 * (i - 1) + 1) % 3 = 1
      /\ ((3 * (i - 1) + 2) + 2) \div 3 = i /\ (3 * (i - 1) + 2) % 3 = 2
      /\ ((3 * (i - 1) + 3) + 2) \div 3 = i /\ (3 * (i - 1) + 3) % 3 = 0
  BY <1>1
<1> DEFINE T(m) == LET t == z.types[(m + 2) \div 3]
                   IN  CASE m % 3 = 1 -> Field(t.utcOffset, 4)
                         [] m % 3 = 2 -> Field(t.isDst, 1)
                         [] m % 3 = 0 -> Field(t.desigIdx, 1)
<1>4. ASSUME NEW m \in Int, (m + 2) \div 3 = i
      PROVE  /\ m % 3 = 1 => T(m) = Field(z.types[i].utcOffset, 4)
             /\ m % 3 = 2 => T(m) = Field(z.types[i].isDst, 1)
             /\ m % 3 = 0 => T(m) = Field(z.types[i].desigIdx, 1)
  <2>1. \A o, d, x : /\ 1 = 1 => (CASE 1 = 1 -> o [] 1 = 2 -> d [] 1 = 0 -> x) = o
                     /\ (CASE 2 = 1 -> o [] 2 = 2 -> d [] 2 = 0 -> x) = d
                     /\ (CASE 0 = 1 -> o [] 0 = 2 -> d [] 0 = 0 -> x) = x
    OBVIOUS
  <2> QED BY <1>4, <2>1
<1>5. \A m \in 1 .. 3 * Len(z.types) : LocalTypes(z)[m] = T(m)
  BY DEF LocalTypes
<1> HIDE DEF T
<1>6. /\ LocalTypes(z)[3 * (i - 1) + 1] = T(3 * (i - 1) + 1)
      /\ LocalTypes(z)[3 * (i - 1) + 2] = T(3 * (i - 1) + 2)
      /\ LocalTypes(z)[3 * (i - 1) + 3] = T(3 * (i - 1) + 3)
  BY <1>2, <1>5
<1>7. 3 * (i - 1) + 1 \in Int /\ 3 * (i - 1) + 2 \in Int /\ 3 * (i - 1) + 3 \in Int
  BY <1>2
<1>8. /\ T(3 * (i - 1) + 1) = Field(z.types[i].utcOffset, 4)
      /\ T(3 * (i - 1) + 2) = Field(z.types[i].isDst, 1)
      /\ T(3 * (i - 1) + 3) = Field(z.types[i].desigIdx, 1)
  BY <1>3, <1>4, <1>7
<1> QED BY <1>2, <1>6, <1>8

LEMMA LocalTypesFields ==
    ASSUME NEW z, IsBlock(z)
    PROVE  LocalTypes(z) \in Seq(FieldSet) /\ Len(LocalTypes(z)) = 3 * Len(z.types)
<1> DEFINE n == Len(z.types)
           L == LocalTypes(z)
<1>1. n \in Nat
  BY BlockParts
<1>2. ASSUME NEW m \in 1 .. 3 * n
      PROVE  L[m] \in FieldSet
  <2> DEFINE i == (m + 2) \div 3
  <2>1. i \in 1 .. n /\ (m = 3 * (i - 1) + 1 \/ m = 3 * (i - 1) + 2 \/ m = 3 * (i - 1) + 3)
    BY <1>1
  <2> HIDE DEF i, L
  <2>2. \/ L[m] = Field(z.types[i].utcOffset, 4) \/ L[m] = Field(z.types[i].isDst, 1)
        \/ L[m] = Field(z.types[i].desigIdx, 1)
    BY <2>1, TypesAndTheirFields DEF L
  <2>3. z.types[i].utcOffset \in Int /\ z.types[i].isDst \in Int /\ z.types[i].desigIdx \in Int
    BY <2>1, BlockParts
  <2> QED BY <2>2, <2>3 DEF Field, FieldSet
<1>3. L = [m \in 1 .. 3 * n |-> L[m]]
  BY DEF LocalTypes
<1> HIDE DEF L
<1> QED BY <1>1, <1>2, <1>3 DEF L

LEMMA TransitionFields ==
    ASSUME NEW z, IsBlock(z), NEW time_size \in {4, 8}
    PROVE  /\ Times(z, time_size) \in Seq(FieldSet) /\ Len(Times(z, time_size)) = Len(z.trans)
           /\ Indices(z) \in Seq(FieldSet) /\ Len(Indices(z)) = Len(z.trans)
           /\ \A i \in 1 .. Len(z.trans) :
                  /\ Times(z, time_size)[i] = Field(z.trans[i][1], time_size)
                  /\ Indices(z)[i] = Field(z.trans[i][2], 1)
<1> DEFINE n == Len(z.trans)
<1>1. n \in Nat /\ \A i \in 1 .. n : z.trans[i][1] \in Int /\ z.trans[i][2] \in Int
  BY BlockParts
<1>2. \A i \in 1 .. n : Field(z.trans[i][1], time_size) \in FieldSet /\ Field(z.trans[i][2], 1) \in FieldSet
  BY <1>1 DEF Field, FieldSet
<1> QED BY <1>1, <1>2 DEF Times, Indices

LEMMA ConcatFields ==
    ASSUME NEW s \in Seq(FieldSet), NEW t \in Seq(FieldSet)
    PROVE  s \o t \in Seq(FieldSet) /\ Len(s \o t) = Len(s) + Len(t)
OBVIOUS

LEMMA RepeatedFields ==
    ASSUME NEW x \in FieldSet, NEW n \in Nat
    PROVE  /\ Repeat(x, n) \in Seq(FieldSet) /\ Len(Repeat(x, n)) = n
           /\ \A i \in 1 .. n : Repeat(x, n)[i] = x
BY DEF Repeat

LEMMA BlockPieces ==
    ASSUME NEW z, IsBlock(z), NEW time_size \in {4, 8}
    PROVE  /\ Times(z, time_size) \in Seq(FieldSet) /\ Len(Times(z, time_size)) = Len(z.trans)
           /\ Indices(z) \in Seq(FieldSet) /\ Len(Indices(z)) = Len(z.trans)
           /\ LocalTypes(z) \in Seq(FieldSet) /\ Len(LocalTypes(z)) = 3 * Len(z.types)
           /\ <<Field("name", 3)>> \in Seq(FieldSet) /\ Len(<<Field("name", 3)>>) = 1
           /\ Repeat(Field("leap", time_size + 4), z.leap) \in Seq(FieldSet)
           /\ Len(Repeat(Field("leap", time_size + 4), z.leap)) = z.leap
           /\ \A i \in 1 .. z.leap :
                  Repeat(Field("leap", time_size + 4), z.leap)[i] = Field("leap", time_size + 4)
           /\ Repeat(Field("std", 1), z.isstd) \in Seq(FieldSet)
           /\ Len(Repeat(Field("std", 1), z.isstd)) = z.isstd
           /\ \A i \in 1 .. z.isstd : Repeat(Field("std", 1), z.isstd)[i] = Field("std", 1)
           /\ Repeat(Field("ut", 1), z.isut) \in Seq(FieldSet)
           /\ Len(Repeat(Field("ut", 1), z.isut)) = z.isut
           /\ \A i \in 1 .. z.isut : Repeat(Field("ut", 1), z.isut)[i] = Field("ut", 1)
<1>1. /\ Field("name", 3) \in FieldSet /\ Field("leap", time_size + 4) \in FieldSet
      /\ Field("std", 1) \in FieldSet /\ Field("ut", 1) \in FieldSet
  BY DEF Field, FieldSet, Texts
<1>2. z.leap \in Nat /\ z.isstd \in Nat /\ z.isut \in Nat
  BY BlockParts
<1>3. <<Field("name", 3)>> \in Seq(FieldSet) /\ Len(<<Field("name", 3)>>) = 1
  BY <1>1
<1>4. /\ Times(z, time_size) \in Seq(FieldSet) /\ Len(Times(z, time_size)) = Len(z.trans)
      /\ Indices(z) \in Seq(FieldSet) /\ Len(Indices(z)) = Len(z.trans)
  BY TransitionFields
<1>5. LocalTypes(z) \in Seq(FieldSet) /\ Len(LocalTypes(z)) = 3 * Len(z.types)
  BY LocalTypesFields
<1>6. /\ Repeat(Field("leap", time_size + 4), z.leap) \in Seq(FieldSet)
      /\ Len(Repeat(Field("leap", time_size + 4), z.leap)) = z.leap
      /\ \A i \in 1 .. z.leap :
             Repeat(Field("leap", time_size + 4), z.leap)[i] = Field("leap", time_size + 4)
  <2> DEFINE F == Field("leap", time_size + 4)
  <2>1. F \in FieldSet
    BY <1>1
  <2> HIDE DEF F
  <2>2. /\ Repeat(F, z.leap) \in Seq(FieldSet) /\ Len(Repeat(F, z.leap)) = z.leap
        /\ \A i \in 1 .. z.leap : Repeat(F, z.leap)[i] = F
    BY <1>2, <2>1, RepeatedFields, Zenon
  <2> QED BY <2>2 DEF F
<1>7. /\ Repeat(Field("std", 1), z.isstd) \in Seq(FieldSet)
      /\ Len(Repeat(Field("std", 1), z.isstd)) = z.isstd
      /\ \A i \in 1 .. z.isstd : Repeat(Field("std", 1), z.isstd)[i] = Field("std", 1)
  BY <1>1, <1>2, RepeatedFields
<1>8. /\ Repeat(Field("ut", 1), z.isut) \in Seq(FieldSet)
      /\ Len(Repeat(Field("ut", 1), z.isut)) = z.isut
      /\ \A i \in 1 .. z.isut : Repeat(Field("ut", 1), z.isut)[i] = Field("ut", 1)
  BY <1>1, <1>2, RepeatedFields
<1> QED BY <1>3, <1>4, <1>5, <1>6, <1>7, <1>8, Zenon

LEMMA BlockFields ==
    ASSUME NEW z, IsBlock(z), NEW time_size \in {4, 8}
    PROVE  /\ Block(z, time_size) \in Seq(FieldSet)
           /\ Len(Block(z, time_size)) =
                 Len(z.trans) + Len(z.trans) + 3 * Len(z.types) + 1 + z.leap + z.isstd + z.isut
<1> DEFINE A == Times(z, time_size)
           B == Indices(z)
           C == LocalTypes(z)
           D == <<Field("name", 3)>>
           E == Repeat(Field("leap", time_size + 4), z.leap)
           F == Repeat(Field("std", 1), z.isstd)
           G == Repeat(Field("ut", 1), z.isut)
<1>1. /\ A \in Seq(FieldSet) /\ B \in Seq(FieldSet) /\ C \in Seq(FieldSet) /\ D \in Seq(FieldSet)
      /\ E \in Seq(FieldSet) /\ F \in Seq(FieldSet) /\ G \in Seq(FieldSet)
      /\ Len(A) = Len(z.trans) /\ Len(B) = Len(z.trans) /\ Len(C) = 3 * Len(z.types) /\ Len(D) = 1
      /\ Len(E) = z.leap /\ Len(F) = z.isstd /\ Len(G) = z.isut
  BY BlockPieces, Zenon
<1>2. Block(z, time_size) = A \o B \o C \o D \o E \o F \o G
  BY DEF Block
<1> HIDE DEF A, B, C, D, E, F, G
<1>3. A \o B \in Seq(FieldSet) /\ Len(A \o B) = Len(A) + Len(B)
  BY <1>1, ConcatFields
<1>4. A \o B \o C \in Seq(FieldSet) /\ Len(A \o B \o C) = Len(A) + Len(B) + Len(C)
  BY <1>1, <1>3, ConcatFields
<1>5. A \o B \o C \o D \in Seq(FieldSet) /\ Len(A \o B \o C \o D) = Len(A) + Len(B) + Len(C) + Len(D)
  BY <1>1, <1>4, ConcatFields
<1>6. /\ A \o B \o C \o D \o E \in Seq(FieldSet)
      /\ Len(A \o B \o C \o D \o E) = Len(A) + Len(B) + Len(C) + Len(D) + Len(E)
  BY <1>1, <1>5, ConcatFields
<1>7. /\ A \o B \o C \o D \o E \o F \in Seq(FieldSet)
      /\ Len(A \o B \o C \o D \o E \o F) = Len(A) + Len(B) + Len(C) + Len(D) + Len(E) + Len(F)
  BY <1>1, <1>6, ConcatFields
<1>8. /\ A \o B \o C \o D \o E \o F \o G \in Seq(FieldSet)
      /\ Len(A \o B \o C \o D \o E \o F \o G) =
            Len(A) + Len(B) + Len(C) + Len(D) + Len(E) + Len(F) + Len(G)
  BY <1>1, <1>7, ConcatFields
<1> QED BY <1>1, <1>2, <1>8, Zenon

(* The parts of a block and where each of them starts.                     *)
LEMMA BlockLaidOut ==
    ASSUME NEW f \in Seq(FieldSet), NEW z, IsBlock(z), NEW time_size \in {4, 8},
           NEW k, Stands(f, k, Block(z, time_size))
    PROVE  LET timecnt == Len(z.trans)
               typecnt == Len(z.types)
               types == k + timecnt + timecnt
               name == types + 3 * typecnt
           IN  /\ Stands(f, k, Times(z, time_size))
               /\ Stands(f, k + timecnt, Indices(z))
               /\ Stands(f, types, LocalTypes(z))
               /\ Stands(f, name, <<Field("name", 3)>>)
               /\ Stands(f, name + 1, Repeat(Field("leap", time_size + 4), z.leap))
               /\ Stands(f, name + 1 + z.leap, Repeat(Field("std", 1), z.isstd))
               /\ Stands(f, name + 1 + z.leap + z.isstd, Repeat(Field("ut", 1), z.isut))
<1> DEFINE A == Times(z, time_size)
           B == Indices(z)
           C == LocalTypes(z)
           D == <<Field("name", 3)>>
           E == Repeat(Field("leap", time_size + 4), z.leap)
           F == Repeat(Field("std", 1), z.isstd)
           G == Repeat(Field("ut", 1), z.isut)
<1>2. Len(z.types) \in Nat /\ Len(z.trans) \in Nat /\ z.leap \in Nat /\ z.isstd \in Nat /\ z.isut \in Nat
  BY BlockParts
<1>3. /\ A \in Seq(FieldSet) /\ Len(A) = Len(z.trans) /\ B \in Seq(FieldSet) /\ Len(B) = Len(z.trans)
      /\ C \in Seq(FieldSet) /\ Len(C) = 3 * Len(z.types)
      /\ D \in Seq(FieldSet) /\ Len(D) = 1
      /\ E \in Seq(FieldSet) /\ Len(E) = z.leap /\ F \in Seq(FieldSet) /\ Len(F) = z.isstd
      /\ G \in Seq(FieldSet) /\ Len(G) = z.isut
  BY BlockPieces, Zenon
<1>4. Block(z, time_size) = A \o B \o C \o D \o E \o F \o G
  BY DEF Block
<1> DEFINE AB == A \o B
           ABC == AB \o C
           ABCD == ABC \o D
           ABCDE == ABCD \o E
           ABCDEF == ABCDE \o F
<1>5. Block(z, time_size) = ABCDEF \o G
  BY <1>4
<1> HIDE DEF A, B, C, D, E, F, G
<1>6. AB \in Seq(FieldSet) /\ Len(AB) = Len(A) + Len(B)
  BY <1>3, ConcatFields
<1> HIDE DEF AB
<1>7. ABC \in Seq(FieldSet) /\ Len(ABC) = Len(AB) + Len(C)
  BY <1>3, <1>6, ConcatFields
<1> HIDE DEF ABC
<1>8. ABCD \in Seq(FieldSet) /\ Len(ABCD) = Len(ABC) + Len(D)
  BY <1>3, <1>7, ConcatFields
<1> HIDE DEF ABCD
<1>9. ABCDE \in Seq(FieldSet) /\ Len(ABCDE) = Len(ABCD) + Len(E)
  BY <1>3, <1>8, ConcatFields
<1> HIDE DEF ABCDE
<1>10. ABCDEF \in Seq(FieldSet) /\ Len(ABCDEF) = Len(ABCDE) + Len(F)
  BY <1>3, <1>9, ConcatFields
<1> HIDE DEF ABCDEF
<1>11. Stands(f, k, ABCDEF) /\ Stands(f, k + Len(ABCDEF), G)
  BY <1>3, <1>5, <1>10, StandsParts, SMTT(60)
<1>12. Stands(f, k, ABCDE) /\ Stands(f, k + Len(ABCDE), F)
  BY <1>3, <1>9, <1>11, StandsParts DEF ABCDEF
<1>13. Stands(f, k, ABCD) /\ Stands(f, k + Len(ABCD), E)
  BY <1>3, <1>8, <1>12, StandsParts DEF ABCDE
<1>14. Stands(f, k, ABC) /\ Stands(f, k + Len(ABC), D)
  BY <1>3, <1>7, <1>13, StandsParts DEF ABCD
<1>15. Stands(f, k, AB) /\ Stands(f, k + Len(AB), C)
  BY <1>3, <1>6, <1>14, StandsParts DEF ABC
<1>16. Stands(f, k, A) /\ Stands(f, k + Len(A), B)
  BY <1>3, <1>15, StandsParts DEF AB
<1>17. k \in Nat
  BY <1>16 DEF Stands
<1>18. /\ k + Len(A) = k + Len(z.trans)
       /\ k + Len(AB) = k + Len(z.trans) + Len(z.trans)
       /\ k + Len(ABC) = k + Len(z.trans) + Len(z.trans) + 3 * Len(z.types)
       /\ k + Len(ABCD) = k + Len(z.trans) + Len(z.trans) + 3 * Len(z.types) + 1
       /\ k + Len(ABCDE) = k + Len(z.trans) + Len(z.trans) + 3 * Len(z.types) + 1 + z.leap
       /\ k + Len(ABCDEF) =
             k + Len(z.trans) + Len(z.trans) + 3 * Len(z.types) + 1 + z.leap + z.isstd
  <2> DEFINE m == Len(z.trans)
             t == Len(z.types)
             n1 == Len(AB)
             n2 == Len(ABC)
             n3 == Len(ABCD)
             n4 == Len(ABCDE)
             n5 == Len(ABCDEF)
  <2>1. m \in Nat /\ t \in Nat /\ z.leap \in Nat /\ z.isstd \in Nat
    BY <1>2
  <2>2. n1 = m + m /\ n2 = n1 + 3 * t /\ n3 = n2 + 1 /\ n4 = n3 + z.leap /\ n5 = n4 + z.isstd
    BY <1>3, <1>6, <1>7, <1>8, <1>9, <1>10
  <2>3. k + Len(A) = k + m
    BY <1>3
  <2> HIDE DEF m, t, n1, n2, n3, n4, n5
  <2>4. /\ k + n1 = k + m + m /\ k + n2 = k + m + m + 3 * t /\ k + n3 = k + m + m + 3 * t + 1
        /\ k + n4 = k + m + m + 3 * t + 1 + z.leap
        /\ k + n5 = k + m + m + 3 * t + 1 + z.leap + z.isstd
    BY <1>17, <2>1, <2>2
  <2> QED BY <2>3, <2>4 DEF m, t, n1, n2, n3, n4, n5
<1>19. /\ Stands(f, k, A)
       /\ Stands(f, k + Len(z.trans), B)
       /\ Stands(f, k + Len(z.trans) + Len(z.trans), C)
       /\ Stands(f, k + Len(z.trans) + Len(z.trans) + 3 * Len(z.types), D)
       /\ Stands(f, k + Len(z.trans) + Len(z.trans) + 3 * Len(z.types) + 1, E)
       /\ Stands(f, k + Len(z.trans) + Len(z.trans) + 3 * Len(z.types) + 1 + z.leap, F)
       /\ Stands(f, k + Len(z.trans) + Len(z.trans) + 3 * Len(z.types) + 1 + z.leap + z.isstd, G)
  BY <1>11, <1>12, <1>13, <1>14, <1>15, <1>16, <1>18
<1> QED BY <1>19 DEF A, B, C, D, E, F, G

(* The offsets of its parts, as readDataBlock counts them.                 *)
BlockSays(f, k, z, time_size) ==
    LET timecnt == Len(z.trans)
        typecnt == Len(z.types)
        types == k + timecnt + timecnt
        name == types + 3 * typecnt
        end == name + 1 + z.leap + z.isstd + z.isut
        W == Offsets(f)
    IN  /\ k \in Nat /\ end <= Len(f) /\ W[k] \in Int
        /\ \A i \in 0 .. timecnt : W[k + i] = W[k] + Wide(time_size, i)
        /\ \A i \in 0 .. timecnt : W[k + timecnt + i] = W[k] + Wide(time_size, timecnt) + i
        /\ \A i \in 0 .. typecnt :
               W[types + 3 * i] = W[k] + Wide(time_size, timecnt) + timecnt + 6 * i
        /\ W[name + 1] = W[k] + Wide(time_size, timecnt) + timecnt + 6 * typecnt + 3
        /\ W[end] = W[k] + Wide(time_size, timecnt) + timecnt + 6 * typecnt + 3
                       + Wide(time_size + 4, z.leap) + z.isstd + z.isut

LEMMA BlockOffsets ==
    ASSUME NEW f \in Seq(FieldSet), NEW z, IsBlock(z), NEW time_size \in {4, 8},
           NEW k, Stands(f, k, Block(z, time_size))
    PROVE  BlockSays(f, k, z, time_size)
<1> DEFINE n == Len(z.trans)
           m == Len(z.types)
           types == k + n + n
           name == types + 3 * m
           W == Offsets(f)
           p == W[k]
<1>1. /\ n \in Nat /\ m \in Nat /\ z.leap \in Nat /\ z.isstd \in Nat /\ z.isut \in Nat
  BY BlockParts
<1>2. /\ Stands(f, k, Times(z, time_size))
      /\ Stands(f, k + n, Indices(z))
      /\ Stands(f, types, LocalTypes(z))
      /\ Stands(f, name, <<Field("name", 3)>>)
      /\ Stands(f, name + 1, Repeat(Field("leap", time_size + 4), z.leap))
      /\ Stands(f, name + 1 + z.leap, Repeat(Field("std", 1), z.isstd))
      /\ Stands(f, name + 1 + z.leap + z.isstd, Repeat(Field("ut", 1), z.isut))
  BY BlockLaidOut
<1>3. k \in Nat /\ types \in Nat /\ name \in Nat
  <2>1. k \in Nat
    BY <1>2 DEF Stands
  <2> HIDE DEF n, m
  <2> QED BY <1>1, <2>1
<1>4. \A i \in 0 .. n : W[k + i] = p + Wide(time_size, i)
  <2> DEFINE s == Times(z, time_size)
  <2>1. s \in Seq(FieldSet) /\ Len(s) = n /\ Stands(f, k, s)
    BY <1>2, BlockPieces
  <2>2. \A i \in 1 .. n : s[i].width = time_size
    BY TransitionFields, FieldParts
  <2>3. time_size \in Nat \ {0}
    OBVIOUS
  <2> HIDE DEF n, s
  <2>4. AllOf(s, time_size)
    BY <2>1, <2>2 DEF AllOf
  <2>5. \A i \in 0 .. Len(s) : Offsets(f)[k + i] = Offsets(f)[k] + Wide(time_size, i)
    BY <2>1, <2>3, <2>4, EvenFields
  <2> QED BY <2>1, <2>5
<1>5. \A i \in 0 .. n : W[k + n + i] = W[k + n] + 1 * i
  <2> DEFINE s == Indices(z)
  <2>1. s \in Seq(FieldSet) /\ Len(s) = n /\ Stands(f, k + n, s)
    BY <1>2, BlockPieces
  <2>2. \A i \in 1 .. n : s[i].width = 1
    <3>1. \A i \in 1 .. n : s[i] = Field(z.trans[i][2], 1)
      BY TransitionFields
    <3> HIDE DEF s
    <3> QED BY <3>1, FieldParts
  <2> HIDE DEF n, s
  <2>3. AllOf(s, 1)
    BY <2>1, <2>2 DEF AllOf
  <2>4. \A i \in 0 .. Len(s) : Offsets(f)[k + n + i] = Offsets(f)[k + n] + Wide(1, i)
    BY <2>1, <2>3, EvenFields
  <2> QED BY <2>1, <2>4 DEF Wide
<1>6. \A i \in 0 .. m : W[types + 3 * i] = W[types] + 6 * i
  <2> DEFINE S == {i \in 0 .. m : W[types + 3 * i] = W[types] + 6 * i}
             L == LocalTypes(z)
  <2>1. L \in Seq(FieldSet) /\ Len(L) = 3 * m
    BY LocalTypesFields
  <2>2. types + 3 * m <= Len(f) /\ Len(f) \in Nat
    <3>1. types + Len(L) <= Len(f) /\ Len(f) \in Nat
      BY <1>2, <2>1, StandsInside
    <3> QED BY <2>1, <3>1
  <2> HIDE DEF n, types
  <2>3. \A j \in 0 .. 3 * m : W[types + j] \in Int
    <3> TAKE j \in 0 .. 3 * m
    <3>1. types + j \in 0 .. Len(f)
      BY <1>1, <1>3, <2>2
    <3> QED BY <3>1, OffsetsAdd
  <2>4. ASSUME NEW i \in 0 .. m - 1, i \in S
        PROVE  i + 1 \in S
    <3> DEFINE i1 == 3 * i + 1
               i2 == 3 * i + 2
               i3 == 3 * i + 3
    <3>1. i + 1 \in 1 .. m /\ (i + 1) - 1 = i /\ 3 * (i + 1) = i3
      BY <1>1
    <3>2. /\ i1 \in 1 .. 3 * m /\ i2 \in 1 .. 3 * m /\ i3 \in 1 .. 3 * m
          /\ i1 - 1 = 3 * i /\ i2 - 1 = i1 /\ i3 - 1 = i2
      BY <1>1
    <3>3. /\ L[i1] = Field(z.types[i + 1].utcOffset, 4)
          /\ L[i2] = Field(z.types[i + 1].isDst, 1)
          /\ L[i3] = Field(z.types[i + 1].desigIdx, 1)
      BY <3>1, TypesAndTheirFields
    <3>4. L[i1].width = 4 /\ L[i2].width = 1 /\ L[i3].width = 1
      BY <3>3 DEF Field
    <3> HIDE DEF i1, i2, i3, m, L
    <3>5. ASSUME NEW j \in 1 .. 3 * m
          PROVE  W[types + j] = W[types + (j - 1)] + L[j].width
      <4>1. \A at : at \in Nat /\ Stands(f, at, L) => W[at + j] = W[at + (j - 1)] + L[j].width
        <5> SUFFICES ASSUME NEW at, Stands(f, at, L)
                     PROVE  W[at + j] = W[at + (j - 1)] + L[j].width
          OBVIOUS
        <5>1. at \in Nat /\ at + j \in 1 .. Len(f) /\ (at + j) - 1 = at + (j - 1) /\ f[at + j] = L[j]
          BY <2>1, <1>1 DEF Stands
        <5>2. W[at + j] = W[(at + j) - 1] + f[at + j].width
          BY <5>1, OffsetsAdd
        <5> QED BY <5>1, <5>2
      <4>2. Stands(f, types, L)
        BY <1>2 DEF L
      <4> QED BY <1>3, <4>1, <4>2
    <3>6. /\ W[types + i1] = W[types + 3 * i] + 4 /\ W[types + i2] = W[types + i1] + 1
          /\ W[types + i3] = W[types + i2] + 1
      BY <3>2, <3>4, <3>5
    <3>7. W[types + 3 * i] = W[types] + 6 * i
      BY <2>4
    <3>8. W[types] \in Int
      <4>1. types + 0 = types /\ 0 \in 0 .. 3 * m
        BY <1>1, <1>3
      <4> QED BY <2>3, <4>1
    <3> HIDE DEF W
    <3>9. W[types + i3] = W[types] + 6 * i + 6 /\ 6 * (i + 1) = 6 * i + 6
      BY <3>6, <3>7, <3>8
    <3>10. W[types + 3 * (i + 1)] = W[types] + 6 * (i + 1)
      BY <3>1, <3>8, <3>9
    <3> QED BY <3>1, <3>10
  <2>5. 0 \in S
    <3>1. types + 0 = types /\ 0 \in 0 .. 3 * m /\ 3 * 0 = 0
      BY <1>1, <1>3
    <3>2. W[types] \in Int
      BY <2>3, <3>1
    <3> HIDE DEF W
    <3>3. W[types + 3 * 0] = W[types] + 6 * 0
      BY <3>1, <3>2
    <3> QED BY <1>1, <3>3
  <2> HIDE DEF S
  <2>6. 0 .. m \subseteq S
    BY <1>1, <2>4, <2>5, UpTo
  <2> QED BY <2>6 DEF S
<1>7. W[name + 1] = W[name] + 3
  <2> DEFINE s == <<Field("name", 3)>>
  <2>1. s \in Seq(FieldSet) /\ Len(s) = 1 /\ Stands(f, name, s)
    BY <1>2, BlockPieces
  <2>2. s[1].width = 3
    BY FieldParts
  <2> HIDE DEF s, name
  <2>3. AllOf(s, 3)
    BY <2>1, <2>2 DEF AllOf
  <2>4. \A j \in 0 .. Len(s) : Offsets(f)[name + j] = Offsets(f)[name] + Wide(3, j)
    BY <2>1, <2>3, EvenFields
  <2>5. Offsets(f)[name + 1] = Offsets(f)[name] + Wide(3, 1)
    BY <1>1, <2>1, <2>4
  <2> QED BY <2>5 DEF Wide
<1>8. W[name + 1 + z.leap] = W[name + 1] + Wide(time_size + 4, z.leap)
  <2> DEFINE s == Repeat(Field("leap", time_size + 4), z.leap)
             at == name + 1
             w == time_size + 4
  <2>1. /\ s \in Seq(FieldSet) /\ Len(s) = z.leap /\ Stands(f, at, s)
        /\ \A i \in 1 .. z.leap : s[i] = Field("leap", w)
    BY <1>2, BlockPieces
  <2>2. w \in Nat \ {0}
    OBVIOUS
  <2> HIDE DEF s, at, w
  <2>3. AllOf(s, w)
    BY <2>1, FieldParts DEF AllOf
  <2>4. \A j \in 0 .. Len(s) : Offsets(f)[at + j] = Offsets(f)[at] + Wide(w, j)
    BY <2>1, <2>2, <2>3, EvenFields
  <2>5. Offsets(f)[at + z.leap] = Offsets(f)[at] + Wide(w, z.leap)
    BY <1>1, <2>1, <2>4
  <2> QED BY <2>5 DEF at, w, Wide
<1>9. W[name + 1 + z.leap + z.isstd] = W[name + 1 + z.leap] + 1 * z.isstd
  <2> DEFINE s == Repeat(Field("std", 1), z.isstd)
             at == name + 1 + z.leap
  <2>1. /\ s \in Seq(FieldSet) /\ Len(s) = z.isstd /\ Stands(f, at, s)
        /\ \A i \in 1 .. z.isstd : s[i] = Field("std", 1)
    BY <1>2, BlockPieces
  <2> HIDE DEF s, at
  <2>2. AllOf(s, 1)
    BY <2>1, FieldParts DEF AllOf
  <2>3. \A j \in 0 .. Len(s) : Offsets(f)[at + j] = Offsets(f)[at] + Wide(1, j)
    BY <2>1, <2>2, EvenFields
  <2>4. Offsets(f)[at + z.isstd] = Offsets(f)[at] + Wide(1, z.isstd)
    BY <1>1, <2>1, <2>3
  <2> QED BY <2>4 DEF at, Wide
<1>10. W[name + 1 + z.leap + z.isstd + z.isut] = W[name + 1 + z.leap + z.isstd] + 1 * z.isut
  <2> DEFINE s == Repeat(Field("ut", 1), z.isut)
             at == name + 1 + z.leap + z.isstd
  <2>1. /\ s \in Seq(FieldSet) /\ Len(s) = z.isut /\ Stands(f, at, s)
        /\ \A i \in 1 .. z.isut : s[i] = Field("ut", 1)
    BY <1>2, BlockPieces
  <2> HIDE DEF s, at
  <2>2. AllOf(s, 1)
    BY <2>1, FieldParts DEF AllOf
  <2>3. \A j \in 0 .. Len(s) : Offsets(f)[at + j] = Offsets(f)[at] + Wide(1, j)
    BY <2>1, <2>2, EvenFields
  <2>4. Offsets(f)[at + z.isut] = Offsets(f)[at] + Wide(1, z.isut)
    BY <1>1, <2>1, <2>3
  <2> QED BY <2>4 DEF at, Wide
<1>11. name + 1 + z.leap + z.isstd + z.isut <= Len(f) /\ p \in Int
  <2>1. Len(Repeat(Field("ut", 1), z.isut)) = z.isut
    BY BlockPieces
  <2>2. k + Len(Times(z, time_size)) <= Len(f) /\ Len(f) \in Nat /\ Len(Times(z, time_size)) \in Nat
    <3>1. Len(Times(z, time_size)) = Len(z.trans)
      BY BlockPieces
    <3>2. k + Len(Times(z, time_size)) <= Len(f)
      BY <1>2 DEF Stands
    <3> QED BY <1>2, <3>1, <3>2
  <2>3. k \in 0 .. Len(f)
    BY <1>3, <2>2
  <2> QED BY <1>2, <2>1, <2>3, OffsetsAdd DEF Stands
<1> DEFINE x == Wide(time_size, n)
           y == Wide(time_size + 4, z.leap)
           end == name + 1 + z.leap + z.isstd + z.isut
<1>12. x \in Int /\ y \in Int
  <2> HIDE DEF n
  <2>1. time_size \in Int /\ time_size + 4 \in Int
    OBVIOUS
  <2> QED BY <1>1, <2>1 DEF Wide
<1>13. W[k + n] = p + x
  <2> HIDE DEF W, n
  <2> QED BY <1>1, <1>4
<1>14. \A i \in 0 .. n : W[k + n + i] = p + x + i
  <2> HIDE DEF W, p, x, n
  <2> QED BY <1>5, <1>13
<1>15. W[types] = p + x + n
  <2> HIDE DEF W, p, x, n
  <2> QED BY <1>1, <1>14
<1>16. \A i \in 0 .. m : W[types + 3 * i] = p + x + n + 6 * i
  <2> HIDE DEF W, p, x, n, m, types
  <2> QED BY <1>6, <1>15
<1>17. W[name] = p + x + n + 6 * m
  <2> HIDE DEF W, p, x, n, m, types
  <2> QED BY <1>1, <1>16
<1>18. W[name + 1] = p + x + n + 6 * m + 3
  <2> HIDE DEF W, p, x, n, m, name
  <2> QED BY <1>7, <1>17
<1>19. W[end] = p + x + n + 6 * m + 3 + y + z.isstd + z.isut
  <2> DEFINE d == p + x + n + 6 * m + 3
             w1 == W[name + 1 + z.leap]
             w2 == W[name + 1 + z.leap + z.isstd]
  <2>1. d \in Int
    <3> HIDE DEF p, x, n, m
    <3> QED BY <1>1, <1>11, <1>12
  <2> HIDE DEF d
  <2>2. w1 = d + y /\ w2 = w1 + 1 * z.isstd /\ W[end] = w2 + 1 * z.isut
    BY <1>8, <1>9, <1>10, <1>18 DEF d
  <2> HIDE DEF w1, w2, y, end, W
  <2>3. W[end] = d + y + z.isstd + z.isut
    BY <1>1, <1>12, <2>1, <2>2
  <2> QED BY <2>3 DEF d
<1> QED BY Zenon, <1>3, <1>4, <1>11, <1>14, <1>16, <1>18, <1>19 DEF BlockSays

(* What the file has where readDataBlock reads a block.                    *)
LEMMA BlockReads ==
    ASSUME NEW f \in Seq(FieldSet), NEW file, file.at = FieldsAt(f), NEW z, IsBlock(z),
           NEW time_size \in {4, 8}, NEW k, Stands(f, k, Block(z, time_size))
    PROVE  LET timecnt == Len(z.trans)
               typecnt == Len(z.types)
               times == Offsets(f)[k]
               indices == times + Wide(time_size, timecnt)
               types == indices + timecnt
           IN  /\ \A i \in 1 .. timecnt :
                      /\ Content(file, times + Wide(time_size, i - 1), time_size) = z.trans[i][1]
                      /\ Content(file, indices + i - 1, 1) = z.trans[i][2]
               /\ \A i \in 1 .. typecnt :
                      /\ Content(file, types + 6 * (i - 1), 4) = z.types[i].utcOffset
                      /\ Content(file, types + 6 * (i - 1) + 4, 1) = z.types[i].isDst
                      /\ Content(file, types + 6 * (i - 1) + 5, 1) = z.types[i].desigIdx
               /\ Content(file, types + 6 * typecnt, 3) = "name"
<1> DEFINE n == Len(z.trans)
           m == Len(z.types)
           W == Offsets(f)
           p == W[k]
           x == Wide(time_size, n)
           ix == k + n
           ty == k + n + n
           nm == ty + 3 * m
           A == Times(z, time_size)
           B == Indices(z)
           L == LocalTypes(z)
           D == <<Field("name", 3)>>
<1>1. n \in Nat /\ m \in Nat /\ k \in Nat /\ p \in Int /\ x \in Int
  <2>1. time_size \in Int
    OBVIOUS
  <2>2. n \in Nat /\ m \in Nat /\ k \in Nat /\ p \in Int
    BY BlockParts, BlockOffsets DEF BlockSays
  <2> HIDE DEF n, m, p
  <2> QED BY <2>1, <2>2 DEF Wide
<1>2. Stands(f, k, A) /\ Stands(f, ix, B) /\ Stands(f, ty, L) /\ Stands(f, nm, D)
  BY BlockLaidOut
<1>3. /\ A \in Seq(FieldSet) /\ Len(A) = n /\ B \in Seq(FieldSet) /\ Len(B) = n
      /\ L \in Seq(FieldSet) /\ Len(L) = 3 * m /\ D \in Seq(FieldSet) /\ Len(D) = 1
  BY BlockPieces, Zenon
<1>4. /\ \A i \in 1 .. n : A[i] = Field(z.trans[i][1], time_size) /\ B[i] = Field(z.trans[i][2], 1)
  BY TransitionFields
<1>5. \A i \in 1 .. m : /\ L[3 * (i - 1) + 1] = Field(z.types[i].utcOffset, 4)
                        /\ L[3 * (i - 1) + 2] = Field(z.types[i].isDst, 1)
                        /\ L[3 * (i - 1) + 3] = Field(z.types[i].desigIdx, 1)
  BY TypesAndTheirFields
<1>6. D[1] = Field("name", 3)
  OBVIOUS
<1>7. /\ \A i \in 0 .. n : W[k + i] = p + Wide(time_size, i)
      /\ \A i \in 0 .. n : W[ix + i] = p + x + i
      /\ \A i \in 0 .. m : W[ty + 3 * i] = p + x + n + 6 * i
  BY BlockOffsets DEF BlockSays
<1> HIDE DEF n, m, W, p, x, A, B, L, D, ix, ty, nm
<1>8. /\ CanRead(f, file, k, A) /\ CanRead(f, file, ix, B)
       /\ CanRead(f, file, ty, L) /\ CanRead(f, file, nm, D)
  BY <1>2, <1>3, StandingReads
<1>9. ASSUME NEW i \in 1 .. n
      PROVE  /\ Content(file, p + Wide(time_size, i - 1), time_size) = z.trans[i][1]
             /\ Content(file, p + x + i - 1, 1) = z.trans[i][2]
  <2>1. i - 1 \in 0 .. n /\ p + x + (i - 1) = p + x + i - 1
    BY <1>1
  <2>2. Content(file, W[k + (i - 1)], A[i].width) = A[i].value
    BY <1>3, <1>8 DEF W, CanRead
  <2>3. Content(file, W[ix + (i - 1)], B[i].width) = B[i].value
    BY <1>3, <1>8 DEF W, CanRead
  <2>4. W[k + (i - 1)] = p + Wide(time_size, i - 1) /\ W[ix + (i - 1)] = p + x + i - 1
    BY <1>7, <2>1
  <2>5. /\ A[i].width = time_size /\ A[i].value = z.trans[i][1]
        /\ B[i].width = 1 /\ B[i].value = z.trans[i][2]
    BY <1>4, FieldParts
  <2> QED BY <2>2, <2>3, <2>4, <2>5
<1>10. ASSUME NEW i \in 1 .. m
      PROVE  /\ Content(file, p + x + n + 6 * (i - 1), 4) = z.types[i].utcOffset
             /\ Content(file, p + x + n + 6 * (i - 1) + 4, 1) = z.types[i].isDst
             /\ Content(file, p + x + n + 6 * (i - 1) + 5, 1) = z.types[i].desigIdx
  <2> DEFINE a == 3 * (i - 1) + 1
             b == 3 * (i - 1) + 2
             c == 3 * (i - 1) + 3
             o == p + x + n + 6 * (i - 1)
  <2>1. /\ i - 1 \in 0 .. m /\ a \in 1 .. Len(L) /\ b \in 1 .. Len(L) /\ c \in 1 .. Len(L)
        /\ a - 1 = 3 * (i - 1) /\ b - 1 = a /\ c - 1 = b
    BY <1>1, <1>3
  <2>2. /\ L[a].width = 4 /\ L[a].value = z.types[i].utcOffset
        /\ L[b].width = 1 /\ L[b].value = z.types[i].isDst
        /\ L[c].width = 1 /\ L[c].value = z.types[i].desigIdx
    BY <1>5, FieldParts
  <2>3. W[ty + (a - 1)] = o
    BY <1>7, <2>1
  <2>4. o \in Int
    BY <1>1
  <2> HIDE DEF a, b, c, o
  <2>5. /\ Content(file, W[ty + (a - 1)], L[a].width) = L[a].value
        /\ W[ty + a] = W[ty + (a - 1)] + L[a].width
    BY <2>1, <1>8 DEF W, CanRead
  <2>6. /\ Content(file, W[ty + (b - 1)], L[b].width) = L[b].value
        /\ W[ty + b] = W[ty + (b - 1)] + L[b].width
    BY <2>1, <1>8 DEF W, CanRead
  <2>7. Content(file, W[ty + (c - 1)], L[c].width) = L[c].value
    BY <2>1, <1>8 DEF W, CanRead
  <2>8. W[ty + (b - 1)] = o + 4
    BY <2>1, <2>2, <2>3, <2>5
  <2>9. W[ty + (c - 1)] = o + 5
    BY <2>1, <2>2, <2>4, <2>6, <2>8
  <2>10. /\ Content(file, o, 4) = z.types[i].utcOffset
         /\ Content(file, o + 4, 1) = z.types[i].isDst
         /\ Content(file, o + 5, 1) = z.types[i].desigIdx
    BY <2>2, <2>3, <2>5, <2>6, <2>7, <2>8, <2>9
  <2> QED BY <2>10 DEF o
<1>11. Content(file, p + x + n + 6 * m, 3) = "name"
  <2>1. Content(file, W[nm + (1 - 1)], D[1].width) = D[1].value
    BY <1>3, <1>8 DEF W, CanRead
  <2>2. D[1].width = 3 /\ D[1].value = "name"
    BY <1>6, FieldParts
  <2>3. W[ty + 3 * m] = p + x + n + 6 * m
    BY <1>1, <1>7
  <2>4. nm + (1 - 1) = ty + 3 * m
    BY <1>1 DEF nm, ty
  <2> QED BY <2>1, <2>2, <2>3, <2>4
<1> QED BY <1>9, <1>10, <1>11 DEF n, m, W, p, x

(* A read gives what the file has, or throws because the file ends.        *)
LEMMA ReadOrEnd ==
    ASSUME NEW file, file.length \in Int, NEW pos \in Int, NEW width \in Int
    PROVE  /\ pos + width <= file.length => Read(file, pos, width) = Content(file, pos, width)
           /\ file.length < pos + width => Read(file, pos, width) = EndOfFile
           /\ Read(file, pos, width) # EndOfFile => Read(file, pos, width) = Content(file, pos, width)
BY DEF Read

LEMMA WideUpTo ==
    ASSUME NEW w \in {4, 8}, NEW n \in Nat
    PROVE  /\ Wide(w, n) \in Nat
           /\ \A i \in 1 .. n : Wide(w, i - 1) \in Nat /\ Wide(w, i - 1) + w <= Wide(w, n)
<1>1. CASE w = 4
  BY <1>1 DEF Wide
<1>2. CASE w = 8
  BY <1>2 DEF Wide
<1> QED BY <1>1, <1>2

(* The reads of a block lie before its end.                                *)
LEMMA InsideBlock ==
    ASSUME NEW t \in Int, NEW x \in Nat, NEW n \in Nat, NEW m \in Nat, NEW l \in Int,
           l >= t + x + n + 6 * m + 3
    PROVE  /\ \A o \in Nat : \A w \in Nat : o + w <= x => t + o \in Int /\ (t + o) + w <= l
           /\ \A i \in 1 .. n : t + x + i - 1 \in Int /\ (t + x + i - 1) + 1 <= l
           /\ \A i \in 1 .. m :
                  LET o == t + x + n + 6 * (i - 1) IN
                  /\ o \in Int /\ o + 4 <= l
                  /\ o + 4 \in Int /\ (o + 4) + 1 <= l
                  /\ o + 5 \in Int /\ (o + 5) + 1 <= l
OBVIOUS

(* A block gives what its zone says when the file goes on to the end of    *)
(* the name, and is refused by one of its reads when it does not.          *)
LEMMA BlockLoaded ==
    ASSUME NEW f \in Seq(FieldSet), NEW file, file.at = FieldsAt(f), file.length \in Int,
           NEW z, IsZoneFile(z), NEW version \in {"1", "2"},
           NEW v1 \in BOOLEAN, NEW time_size, time_size = IF v1 THEN 4 ELSE 8,
           NEW k, Stands(f, k, Header(z, version)), Stands(f, k + 9, Block(z, time_size))
    PROVE  LET pos == Offsets(f)[k] + 20
               name == k + 9 + Len(z.trans) + Len(z.trans) + 3 * Len(z.types)
           IN  readDataBlock(file, pos, v1) =
                   IF file.length < Offsets(f)[name + 1] THEN Invalid ELSE DataOf(z)
<1> DEFINE n == Len(z.trans)
           m == Len(z.types)
           W == Offsets(f)
           pos == W[k] + 20
           name == k + 9 + n + n + 3 * m
           end == W[name + 1]
           Count(i) == Read(file, pos + 4 * i, 4)
           isutccnt == Count(0)
           isstdcnt == Count(1)
           leapcnt == Count(2)
           timecnt == Count(3)
           typecnt == Count(4)
           charcnt == Count(5)
           times == pos + 24
           indices == times + time_size * timecnt
           types == indices + timecnt
           chars == types + 6 * typecnt
           Index(i) == Read(file, indices + i - 1, 1)
           Time(i) == Read(file, times + time_size * (i - 1), time_size)
           localtimes == [i \in 1 .. typecnt |->
               LET type == types + 6 * (i - 1)
               IN  addLocalTime(Read(file, type, 4), Read(file, type + 4, 1), Read(file, type + 5, 1))]
           transitions == [i \in 1 .. timecnt |-> addTransition(localtimes, Time(i), Index(i))]
           abbreviation == Read(file, chars, charcnt)
           refused == \/ \E i \in 0 .. 5 : Count(i) = EndOfFile
                      \/ leapcnt # 0
                      \/ isutccnt \notin {0, typecnt}
                      \/ isstdcnt \notin {0, typecnt}
                      \/ \E i \in 1 .. timecnt : EndOfFile \in {Time(i), Index(i)}
                      \/ \E i \in 1 .. typecnt : \E x \in DOMAIN localtimes[i] : localtimes[i][x] = EndOfFile
                      \/ \E i \in 1 .. timecnt : ~CanAddTransition(localtimes, Index(i))
                      \/ abbreviation = EndOfFile
           data == [localtimes |-> localtimes, transitions |-> transitions, abbreviation |-> abbreviation]
<1>1. readDataBlock(file, pos, v1) = IF refused THEN Invalid ELSE data
  <2>1. time_size = IF v1 THEN 4 ELSE 8
    OBVIOUS
  <2> QED BY <2>1, SMTT(100) DEF readDataBlock
<1>2. /\ IsBlock(z) /\ time_size \in {4, 8} /\ n \in Nat /\ m \in Nat
      /\ z.isut \in Nat /\ z.isstd \in Nat /\ z.leap \in Nat
      /\ \A i \in 1 .. m : z.types[i] \in [utcOffset : Int, isDst : {0, 1}, desigIdx : Nat]
      /\ \A i \in 1 .. n : z.trans[i][1] \in Int /\ z.trans[i][2] \in 0 .. m - 1
  <2>1. IsBlock(z)
    BY DEF IsZoneFile
  <2>2. time_size \in {4, 8}
    OBVIOUS
  <2> QED BY <2>1, <2>2, BlockParts
<1>2a. /\ time_size \in {4, 8} /\ n \in Nat /\ m \in Nat
       /\ z.isut \in Nat /\ z.isstd \in Nat /\ z.leap \in Nat
  BY <1>2
<1>3. /\ W[k] \in Int /\ W[k + 9] = pos + 24
      /\ Content(file, pos, 4) = z.isut /\ Content(file, pos + 4, 4) = z.isstd
      /\ Content(file, pos + 8, 4) = z.leap /\ Content(file, pos + 12, 4) = n
      /\ Content(file, pos + 16, 4) = m /\ Content(file, pos + 20, 4) = 3
  <2>1. /\ W[k] \in Int /\ W[k + 9] = W[k] + 44
        /\ Content(file, W[k] + 20, 4) = z.isut /\ Content(file, W[k] + 24, 4) = z.isstd
        /\ Content(file, W[k] + 28, 4) = z.leap /\ Content(file, W[k] + 32, 4) = n
        /\ Content(file, W[k] + 36, 4) = m /\ Content(file, W[k] + 40, 4) = 3
    BY <1>2, HeaderRead
  <2> DEFINE o == W[k]
  <2>2. o \in Int
    BY <2>1
  <2>3. /\ o + 20 = pos /\ o + 24 = pos + 4 /\ o + 28 = pos + 8 /\ o + 32 = pos + 12
        /\ o + 36 = pos + 16 /\ o + 40 = pos + 20 /\ o + 44 = pos + 24
    <3>1. pos = o + 20
      OBVIOUS
    <3> HIDE DEF o, pos
    <3> QED BY <2>2, <3>1
  <2> HIDE DEF pos
  <2> QED BY <2>1, <2>3
<1>4. times = W[k + 9] /\ times \in Int /\ pos \in Int
  <2>1. pos \in Int
    BY <1>3
  <2>2. W[k + 9] = pos + 24
    BY <1>3
  <2> HIDE DEF pos, W
  <2> QED BY <2>1, <2>2
<1>5. /\ Content(file, pos + 4 * 0, 4) = z.isut /\ Content(file, pos + 4 * 1, 4) = z.isstd
      /\ Content(file, pos + 4 * 2, 4) = z.leap /\ Content(file, pos + 4 * 3, 4) = n
      /\ Content(file, pos + 4 * 4, 4) = m /\ Content(file, pos + 4 * 5, 4) = 3
  <2> HIDE DEF pos, n, m
  <2>1. /\ pos + 4 * 0 = pos /\ pos + 4 * 1 = pos + 4 /\ pos + 4 * 2 = pos + 8
        /\ pos + 4 * 3 = pos + 12 /\ pos + 4 * 4 = pos + 16 /\ pos + 4 * 5 = pos + 20
    BY <1>4
  <2> QED BY <1>3, <2>1
<1> DEFINE x == Wide(time_size, n)
<1>6. end = times + x + n + 6 * m + 3
  <2>1. BlockSays(f, k + 9, z, time_size)
    BY <1>2, BlockOffsets
  <2> QED BY <1>4, <2>1 DEF BlockSays
<1>7. x \in Nat
  BY <1>2, WideUpTo
<1>8. \A i : time_size * i = Wide(time_size, i)
  BY DEF Wide
<1>9. /\ \A i \in 1 .. n :
             /\ Content(file, times + Wide(time_size, i - 1), time_size) = z.trans[i][1]
             /\ Content(file, times + x + i - 1, 1) = z.trans[i][2]
      /\ \A i \in 1 .. m :
             /\ Content(file, times + x + n + 6 * (i - 1), 4) = z.types[i].utcOffset
             /\ Content(file, times + x + n + 6 * (i - 1) + 4, 1) = z.types[i].isDst
             /\ Content(file, times + x + n + 6 * (i - 1) + 5, 1) = z.types[i].desigIdx
      /\ Content(file, times + x + n + 6 * m, 3) = "name"
  <2>1. /\ \A i \in 1 .. n :
               /\ Content(file, W[k + 9] + Wide(time_size, i - 1), time_size) = z.trans[i][1]
               /\ Content(file, W[k + 9] + x + i - 1, 1) = z.trans[i][2]
        /\ \A i \in 1 .. m :
               /\ Content(file, W[k + 9] + x + n + 6 * (i - 1), 4) = z.types[i].utcOffset
               /\ Content(file, W[k + 9] + x + n + 6 * (i - 1) + 4, 1) = z.types[i].isDst
               /\ Content(file, W[k + 9] + x + n + 6 * (i - 1) + 5, 1) = z.types[i].desigIdx
        /\ Content(file, W[k + 9] + x + n + 6 * m, 3) = "name"
    BY <1>2, BlockReads
  <2> HIDE DEF W, times, x, n, m
  <2> QED BY <1>4, <2>1
<1>10. times = pos + 24
  OBVIOUS
<1> HIDE DEF x, n, m, W, name, end, pos, times
(* The counts are right when they can be read at all.                      *)
<1>11. ASSUME \A i \in 0 .. 5 : Count(i) # EndOfFile
       PROVE  /\ isutccnt = z.isut /\ isstdcnt = z.isstd /\ leapcnt = z.leap
              /\ timecnt = n /\ typecnt = m /\ charcnt = 3
  <2>1. \A i \in 0 .. 5 : Count(i) = Content(file, pos + 4 * i, 4)
    <3> TAKE i \in 0 .. 5
    <3>1. pos + 4 * i \in Int /\ Count(i) # EndOfFile
      BY <1>4, <1>11
    <3> HIDE DEF n, m
    <3> QED BY <3>1, ReadOrEnd
  <2>2. 0 \in 0 .. 5 /\ 1 \in 0 .. 5 /\ 2 \in 0 .. 5 /\ 3 \in 0 .. 5 /\ 4 \in 0 .. 5 /\ 5 \in 0 .. 5
    OBVIOUS
  <2> QED BY <1>5, <2>1, <2>2
<1> HIDE DEF isutccnt, isstdcnt, leapcnt, timecnt, typecnt, charcnt
<1>12. ASSUME timecnt = n, typecnt = m, charcnt = 3
       PROVE  /\ indices = times + x /\ types = times + x + n /\ chars = times + x + n + 6 * m
              /\ chars \in Int /\ chars + charcnt = end
  <2>1. indices = times + x
    BY <1>8, <1>12 DEF x
  <2>2. types = times + x + n /\ chars = times + x + n + 6 * m
    BY <1>12, <2>1
  <2> HIDE DEF chars
  <2> QED BY <1>2, <1>4, <1>6, <1>7, <1>12, <2>1, <2>2
(* A file that ends before the end of the name.                            *)
<1>13. CASE file.length < end
  <2>1. SUFFICES ASSUME ~refused PROVE FALSE
    BY <1>1, <1>13 DEF end, W, name, pos, n, m
  <2>2. \A i \in 0 .. 5 : Count(i) # EndOfFile
    BY <2>1
  <2>3. timecnt = n /\ typecnt = m /\ charcnt = 3
    BY <1>11, <2>2
  <2>4. chars \in Int /\ chars + charcnt = end
    BY <1>12, <2>3
  <2> HIDE DEF chars
  <2>5. Read(file, chars, charcnt) = EndOfFile
    BY <1>13, <2>3, <2>4, ReadOrEnd
  <2> QED BY <2>1, <2>5
(* A file that goes on to it.                                              *)
<1>14. CASE ~(file.length < end)
  <2>1. file.length >= times + x + n + 6 * m + 3
    <3>1. times + x + n + 6 * m + 3 \in Int
      BY <1>2a, <1>4, <1>7
    <3> QED BY <1>6, <1>14, <3>1
  <2>0. /\ \A o \in Nat : \A w \in Nat :
                 o + w <= x => times + o \in Int /\ (times + o) + w <= file.length
        /\ \A i \in 1 .. n : times + x + i - 1 \in Int /\ (times + x + i - 1) + 1 <= file.length
        /\ \A i \in 1 .. m :
               LET o == times + x + n + 6 * (i - 1) IN
               /\ o \in Int /\ o + 4 <= file.length
               /\ o + 4 \in Int /\ (o + 4) + 1 <= file.length
               /\ o + 5 \in Int /\ (o + 5) + 1 <= file.length
    BY <1>2a, <1>4, <1>7, <2>1, InsideBlock
  <2>2. \A i \in 0 .. 5 : Count(i) # EndOfFile
    <3>1. \A i \in 0 .. 5 : Count(i) = Content(file, pos + 4 * i, 4)
      <4> TAKE i \in 0 .. 5
      <4>1. pos + 4 * i \in Int /\ pos + 4 * i + 4 <= file.length
        BY <1>2a, <1>4, <1>7, <1>10, <2>1
      <4> QED BY <4>1, ReadOrEnd
    <3>2. \A i \in 0 .. 5 : Content(file, pos + 4 * i, 4) \in Int
      <4> DEFINE C(i) == Content(file, pos + 4 * i, 4)
      <4>1. C(0) \in Int /\ C(1) \in Int /\ C(2) \in Int /\ C(3) \in Int /\ C(4) \in Int /\ C(5) \in Int
        BY <1>2a, <1>5
      <4> HIDE DEF C
      <4>2. \A i \in 0 .. 5 : i \in {0, 1, 2, 3, 4, 5}
        OBVIOUS
      <4>3. \A i \in 0 .. 5 : C(i) \in Int
        BY <4>1, <4>2
      <4> QED BY <4>3 DEF C
    <3> QED BY <3>1, <3>2, TimeZoneAssumption
  <2>3. /\ isutccnt = z.isut /\ isstdcnt = z.isstd /\ leapcnt = z.leap
        /\ timecnt = n /\ typecnt = m /\ charcnt = 3
    BY <1>11, <2>2
  <2>4. /\ indices = times + x /\ types = times + x + n /\ chars = times + x + n + 6 * m
    BY <1>12, <2>3
  <2>5. \A i \in 1 .. n : Time(i) = z.trans[i][1] /\ Index(i) = z.trans[i][2]
    <3> TAKE i \in 1 .. n
    <3> DEFINE o == Wide(time_size, i - 1)
    <3>1. o \in Nat /\ o + time_size <= x
      BY <1>2a, WideUpTo DEF x
    <3>0. time_size \in Nat
      BY <1>2a
    <3> HIDE DEF o
    <3>2. /\ times + o \in Int /\ (times + o) + time_size <= file.length
          /\ times + x + i - 1 \in Int /\ (times + x + i - 1) + 1 <= file.length
      BY <2>0, <3>0, <3>1
    <3>3. /\ Read(file, times + o, time_size) = Content(file, times + o, time_size)
          /\ Read(file, times + x + i - 1, 1) = Content(file, times + x + i - 1, 1)
      BY <3>0, <3>1, <3>2, ReadOrEnd
    <3> HIDE DEF indices
    <3> QED BY <1>8, <1>9, <2>4, <3>3 DEF o
  <2>6. \A i \in 1 .. m :
            /\ Read(file, types + 6 * (i - 1), 4) = z.types[i].utcOffset
            /\ Read(file, types + 6 * (i - 1) + 4, 1) = z.types[i].isDst
            /\ Read(file, types + 6 * (i - 1) + 5, 1) = z.types[i].desigIdx
    <3> TAKE i \in 1 .. m
    <3> DEFINE o == times + x + n + 6 * (i - 1)
    <3>1. /\ o \in Int /\ o + 4 <= file.length
          /\ o + 4 \in Int /\ (o + 4) + 1 <= file.length
          /\ o + 5 \in Int /\ (o + 5) + 1 <= file.length
      BY <2>0
    <3>2. /\ Content(file, o, 4) = z.types[i].utcOffset
          /\ Content(file, o + 4, 1) = z.types[i].isDst
          /\ Content(file, o + 5, 1) = z.types[i].desigIdx
      BY <1>9
    <3>3. types + 6 * (i - 1) = o
      BY <2>4
    <3> HIDE DEF o, types
    <3> QED BY <3>1, <3>2, <3>3, ReadOrEnd
  <2>7. abbreviation = "name"
    <3>1. chars \in Int /\ chars + 3 <= file.length
      BY <1>2a, <1>4, <1>7, <2>1, <2>4
    <3>2. Content(file, chars, 3) = "name"
      BY <1>9, <2>4
    <3> HIDE DEF chars
    <3> QED BY <2>3, <3>1, <3>2, ReadOrEnd
  <2> HIDE DEF Index, Time, types, abbreviation
  <2>8. localtimes = z.types
    <3>1. \A i \in 1 .. m :
              addLocalTime(Read(file, types + 6 * (i - 1), 4), Read(file, types + 6 * (i - 1) + 4, 1),
                           Read(file, types + 6 * (i - 1) + 5, 1)) = z.types[i]
      <4> TAKE i \in 1 .. m
      <4>1. z.types[i] \in [utcOffset : Int, isDst : {0, 1}, desigIdx : Nat]
        BY <1>2
      <4>2. z.types[i] = [utcOffset |-> z.types[i].utcOffset, isDst |-> z.types[i].isDst,
                          desigIdx |-> z.types[i].desigIdx]
        BY <4>1
      <4> QED BY <2>6, <4>2 DEF addLocalTime
    <3>2. z.types = [i \in 1 .. m |-> z.types[i]]
      BY <1>2 DEF IsBlock, m
    <3> QED BY <2>3, <3>1, <3>2
  <2> HIDE DEF localtimes
  <2>9. transitions = [i \in 1 .. n |-> addTransition(z.types, z.trans[i][1], z.trans[i][2])]
    BY <2>3, <2>5, <2>8
  <2> HIDE DEF transitions
  <2>10. data = DataOf(z)
    <3>1. transitions = [i \in 1 .. n |->
              [utctime |-> z.trans[i][1],
               localtime |-> z.trans[i][1] + z.types[z.trans[i][2] + 1].utcOffset,
               localtimeIdx |-> z.trans[i][2]]]
      BY <2>9 DEF addTransition, Transition
    <3> QED BY <2>7, <2>8, <3>1 DEF DataOf, IsZoneFile, n
  <2>11. \A i \in 1 .. timecnt : EndOfFile \notin {Time(i), Index(i)}
    <3> TAKE i \in 1 .. timecnt
    <3>1. i \in 1 .. n /\ Time(i) = z.trans[i][1] /\ Index(i) = z.trans[i][2]
      BY <2>3, <2>5
    <3>2. z.trans[i][1] \in Int /\ z.trans[i][2] \in Int
      BY <1>2, <1>2a, <3>1
    <3> QED BY <3>1, <3>2, TimeZoneAssumption
  <2>12. \A i \in 1 .. typecnt : \A y \in DOMAIN localtimes[i] : localtimes[i][y] # EndOfFile
    <3> TAKE i \in 1 .. typecnt
    <3>1. z.types[i] \in [utcOffset : Int, isDst : {0, 1}, desigIdx : Nat]
      BY <1>2, <2>3
    <3>2. \A y \in DOMAIN z.types[i] : z.types[i][y] \in Int
      BY <3>1
    <3> QED BY <2>8, <3>2, TimeZoneAssumption
  <2>13. \A i \in 1 .. timecnt : CanAddTransition(localtimes, Index(i))
    <3> TAKE i \in 1 .. timecnt
    <3>1. Index(i) \in 0 .. m - 1
      BY <1>2, <2>3, <2>5
    <3> QED BY <1>2, <2>8, <3>1 DEF CanAddTransition, m
  <2>14. leapcnt = 0 /\ isutccnt \in {0, typecnt} /\ isstdcnt \in {0, typecnt}
    BY <2>3 DEF IsZoneFile, m
  <2>15. abbreviation # EndOfFile
    BY <2>7, TimeZoneAssumption
  <2>16. ~refused
    BY <2>2, <2>11, <2>12, <2>13, <2>14, <2>15
  <2> HIDE DEF refused, data
  <2>17. readDataBlock(file, pos, v1) = DataOf(z)
    BY <1>1, <2>10, <2>16
  <2> QED BY <1>14, <2>17 DEF end, W, name, pos, n, m
<1> QED BY <1>13, <1>14

LEMMA OffsetsInOrder ==
    ASSUME NEW f \in Seq(FieldSet), NEW i \in 0 .. Len(f), NEW j \in 0 .. Len(f), i <= j
    PROVE  /\ Offsets(f)[i] \in Int /\ Offsets(f)[j] \in Int
           /\ Offsets(f)[i] <= Offsets(f)[j]
<1>1. Offsets(f)[i] \in Int /\ Offsets(f)[j] \in Int
  BY OffsetsAdd
<1>2. CASE i < j
  BY <1>1, <1>2, OffsetsRise
<1>3. CASE i = j
  BY <1>1, <1>3
<1> QED BY <1>1, <1>2, <1>3

(* --------------- what a header and a block say, at a field -------------- *)
HeaderSays(f, file, k, y, version) ==
    LET pos == Offsets(f)[k] IN
    /\ pos \in Int /\ Offsets(f)[k + 9] = pos + 44
    /\ Content(file, pos, 4) = "TZif" /\ Content(file, pos + 4, 1) = version
    /\ Content(file, pos + 5, 15) = "reserved"
    /\ Content(file, pos + 20, 4) = y.isut /\ Content(file, pos + 24, 4) = y.isstd
    /\ Content(file, pos + 28, 4) = y.leap
    /\ Content(file, pos + 32, 4) = Len(y.trans) /\ Content(file, pos + 36, 4) = Len(y.types)
    /\ Content(file, pos + 40, 4) = 3

(* The number of the field behind the name, for a block that starts at k.  *)
BehindName(y, k) == k + Len(y.trans) + Len(y.trans) + 3 * Len(y.types) + 1
BehindBlock(y, k) == BehindName(y, k) + y.leap + y.isstd + y.isut

LoadsFrom(f, file, z, v1, k) ==
    LET pos == Offsets(f)[k] + 20 IN
    readDataBlock(file, pos, v1) =
        IF file.length < Offsets(f)[BehindName(z, k + 9)] THEN Invalid ELSE DataOf(z)

LEMMA HeaderAt ==
    ASSUME NEW f \in Seq(FieldSet), NEW file, file.at = FieldsAt(f), NEW y, IsBlock(y),
           NEW version \in {"1", "2"}, NEW k, Stands(f, k, Header(y, version))
    PROVE  HeaderSays(f, file, k, y, version)
BY HeaderRead DEF HeaderSays

LEMMA BlockEnds ==
    ASSUME NEW f \in Seq(FieldSet), NEW y, IsBlock(y), NEW time_size \in {4, 8},
           NEW k, Stands(f, k, Block(y, time_size))
    PROVE  /\ k \in Nat /\ BehindBlock(y, k) <= Len(f) /\ Offsets(f)[k] \in Int
           /\ Offsets(f)[BehindBlock(y, k)] =
                  Offsets(f)[k] + Wide(time_size, Len(y.trans)) + Len(y.trans) + 6 * Len(y.types) + 3
                      + Wide(time_size + 4, y.leap) + y.isstd + y.isut
           /\ Offsets(f)[BehindBlock(y, k)] =
                  Offsets(f)[BehindName(y, k)] + Wide(time_size + 4, y.leap) + y.isstd + y.isut
<1>1. BlockSays(f, k, y, time_size)
  BY BlockOffsets
<1>2. Offsets(f)[BehindName(y, k)] =
          Offsets(f)[k] + Wide(time_size, Len(y.trans)) + Len(y.trans) + 6 * Len(y.types) + 3
  BY Zenon, <1>1 DEF BlockSays, BehindName
<1>3. /\ k \in Nat /\ BehindBlock(y, k) <= Len(f) /\ Offsets(f)[k] \in Int
      /\ Offsets(f)[BehindBlock(y, k)] =
             Offsets(f)[k] + Wide(time_size, Len(y.trans)) + Len(y.trans) + 6 * Len(y.types) + 3
                 + Wide(time_size + 4, y.leap) + y.isstd + y.isut
  BY Zenon, <1>1 DEF BlockSays, BehindBlock, BehindName
<1> QED BY Zenon, <1>2, <1>3

(* A block takes as many fields as there are up to its end.                *)
LEMMA BehindFields ==
    ASSUME NEW y, IsBlock(y), NEW time_size \in {4, 8}, NEW k \in Nat
    PROVE  k <= BehindName(y, k) /\ BehindBlock(y, k) = k + Len(Block(y, time_size))
<1> DEFINE n == Len(y.trans)
           m == Len(y.types)
           b == Len(Block(y, time_size))
<1>1. n \in Nat /\ m \in Nat /\ y.leap \in Nat /\ y.isstd \in Nat /\ y.isut \in Nat
  BY BlockParts
<1>2. b = n + n + 3 * m + 1 + y.leap + y.isstd + y.isut
  BY BlockFields
<1>3. /\ BehindName(y, k) = k + n + n + 3 * m + 1
      /\ BehindBlock(y, k) = BehindName(y, k) + y.leap + y.isstd + y.isut
  BY DEF BehindName, BehindBlock
<1> HIDE DEF n, m, b
<1>4. k <= BehindName(y, k) /\ BehindBlock(y, k) = k + b
  BY <1>1, <1>2, <1>3
<1> QED BY <1>4 DEF b

LEMMA DataLoaded ==
    ASSUME NEW f \in Seq(FieldSet), NEW file, file.at = FieldsAt(f), file.length \in Int,
           NEW z, IsZoneFile(z), NEW version \in {"1", "2"},
           NEW v1 \in BOOLEAN, NEW time_size, time_size = IF v1 THEN 4 ELSE 8,
           NEW k, Stands(f, k, Header(z, version)), Stands(f, k + 9, Block(z, time_size))
    PROVE  LoadsFrom(f, file, z, v1, k)
BY BlockLoaded DEF LoadsFrom, BehindName

LEMMA NamePassed ==
    ASSUME NEW f \in Seq(FieldSet), NEW y, IsBlock(y), NEW time_size \in {4, 8},
           NEW k, Stands(f, k, Block(y, time_size))
    PROVE  BehindName(y, k) \in 0 .. Len(f) /\ k \in 0 .. Len(f) /\ Len(f) \in 0 .. Len(f)
<1> DEFINE n == Len(y.trans)
           m == Len(y.types)
           l == Len(f)
<1>1. k \in Nat /\ BehindBlock(y, k) <= l
  BY BlockEnds
<1>2. n \in Nat /\ m \in Nat /\ y.leap \in Nat /\ y.isstd \in Nat /\ y.isut \in Nat /\ l \in Nat
  BY BlockParts
<1>3. BehindName(y, k) = k + n + n + 3 * m + 1
  BY DEF BehindName
<1>4. BehindBlock(y, k) = BehindName(y, k) + y.leap + y.isstd + y.isut
  BY DEF BehindBlock
<1> HIDE DEF n, m, l
<1>5. BehindName(y, k) \in 0 .. l /\ k \in 0 .. l /\ l \in 0 .. l
  BY <1>1, <1>2, <1>3, <1>4
<1> QED BY <1>5 DEF l

(* ------------------------------ whole files ----------------------------- *)
(* readTimeZoneFile gives up in the first header of the file.              *)
HeadRefused(file) ==
    \/ Read(file, 0, 4) # "TZif"
    \/ EndOfFile \in {Read(file, 4, 1), Read(file, 5, 15)}
    \/ \E i \in 0 .. 5 : Read(file, 20 + 4 * i, 4) = EndOfFile

LEMMA HeadPassed ==
    ASSUME NEW file, file.length \in Int, NEW version \in {"1", "2"},
           Content(file, 0, 4) = "TZif", Content(file, 4, 1) = version,
           Content(file, 5, 15) = "reserved",
           \A i \in 0 .. 5 : Content(file, 20 + 4 * i, 4) \in Int
    PROVE  /\ file.length >= 44 => ~HeadRefused(file)
           /\ ~HeadRefused(file) =>
                  /\ Read(file, 4, 1) = version
                  /\ \A i \in 0 .. 5 : Read(file, 20 + 4 * i, 4) = Content(file, 20 + 4 * i, 4)
<1>1. ASSUME file.length >= 44 PROVE ~HeadRefused(file)
  <2>1. /\ Read(file, 0, 4) = "TZif" /\ Read(file, 4, 1) = version
        /\ Read(file, 5, 15) = "reserved"
    <3>1. 0 + 4 <= file.length /\ 4 + 1 <= file.length /\ 5 + 15 <= file.length
      BY <1>1
    <3> QED BY <3>1, ReadOrEnd
  <2>2. \A i \in 0 .. 5 : Read(file, 20 + 4 * i, 4) \in Int
    <3> TAKE i \in 0 .. 5
    <3>1. 20 + 4 * i \in Int /\ (20 + 4 * i) + 4 <= file.length
      BY <1>1
    <3> QED BY <3>1, ReadOrEnd
  <2> QED BY <2>1, <2>2, TimeZoneAssumption DEF HeadRefused
<1>2. ASSUME ~HeadRefused(file)
      PROVE  /\ Read(file, 4, 1) = version
             /\ \A i \in 0 .. 5 : Read(file, 20 + 4 * i, 4) = Content(file, 20 + 4 * i, 4)
  <2>1. Read(file, 4, 1) # EndOfFile /\ \A i \in 0 .. 5 : Read(file, 20 + 4 * i, 4) # EndOfFile
    BY <1>2 DEF HeadRefused
  <2>2. \A i \in 0 .. 5 : 20 + 4 * i \in Int
    OBVIOUS
  <2> QED BY <2>1, <2>2, ReadOrEnd
<1> QED BY <1>1, <1>2

(* What the first header says, at its offsets.                             *)
LEMMA HeadRead ==
    ASSUME NEW f, NEW file, NEW y, NEW version, HeaderSays(f, file, 0, y, version), Offsets(f)[0] = 0,
           y.isut \in Int, y.isstd \in Int, y.leap \in Int, Len(y.trans) \in Int, Len(y.types) \in Int
    PROVE  /\ Offsets(f)[0 + 9] = 44 /\ Content(file, 0, 4) = "TZif" /\ Content(file, 4, 1) = version
           /\ Content(file, 5, 15) = "reserved"
           /\ Content(file, 20 + 4 * 0, 4) = y.isut /\ Content(file, 20 + 4 * 1, 4) = y.isstd
           /\ Content(file, 20 + 4 * 2, 4) = y.leap /\ Content(file, 20 + 4 * 3, 4) = Len(y.trans)
           /\ Content(file, 20 + 4 * 4, 4) = Len(y.types) /\ Content(file, 20 + 4 * 5, 4) = 3
           /\ \A i \in 0 .. 5 : Content(file, 20 + 4 * i, 4) \in Int
<1> DEFINE C(i) == Content(file, 20 + 4 * i, 4)
<1>1. /\ 0 + 4 = 4 /\ 0 + 5 = 5 /\ 0 + 44 = 44
      /\ 0 + 20 = 20 + 4 * 0 /\ 0 + 24 = 20 + 4 * 1 /\ 0 + 28 = 20 + 4 * 2
      /\ 0 + 32 = 20 + 4 * 3 /\ 0 + 36 = 20 + 4 * 4 /\ 0 + 40 = 20 + 4 * 5
  OBVIOUS
<1>2. /\ Offsets(f)[0 + 9] = 0 + 44 /\ Content(file, 0, 4) = "TZif"
      /\ Content(file, 0 + 4, 1) = version /\ Content(file, 0 + 5, 15) = "reserved"
      /\ Content(file, 0 + 20, 4) = y.isut /\ Content(file, 0 + 24, 4) = y.isstd
      /\ Content(file, 0 + 28, 4) = y.leap /\ Content(file, 0 + 32, 4) = Len(y.trans)
      /\ Content(file, 0 + 36, 4) = Len(y.types) /\ Content(file, 0 + 40, 4) = 3
  BY Zenon DEF HeaderSays
<1>3. /\ C(0) = y.isut /\ C(1) = y.isstd /\ C(2) = y.leap /\ C(3) = Len(y.trans)
      /\ C(4) = Len(y.types) /\ C(5) = 3
  BY <1>1, <1>2
<1>4. \A i \in 0 .. 5 : C(i) \in Int
  <2> HIDE DEF C
  <2>1. \A i \in 0 .. 5 : i \in {0, 1, 2, 3, 4, 5}
    OBVIOUS
  <2>2. C(0) \in Int /\ C(1) \in Int /\ C(2) \in Int /\ C(3) \in Int /\ C(4) \in Int /\ C(5) \in Int
    BY <1>3
  <2> QED BY <2>1, <2>2
<1> QED BY <1>1, <1>2, <1>3, <1>4

(* The bytes before the end of the name are those that are read, in the    *)
(* only block of a version 1 file and in the second one of the others.     *)
LEMMA FirstVersionLoaded ==
    ASSUME NEW z, IsZoneFile(z), z.version = "1", NEW file, file.at = FieldsAt(Fields(z)),
           file.length \in Int, file # NoFile
    PROVE  LET W == Offsets(Fields(z))
               end == W[BehindName(z, 0 + 9)]
           IN  /\ readTimeZoneFile(file) = IF file.length < end THEN Invalid ELSE DataOf(z)
               /\ end \in Nat /\ W[Len(Fields(z))] = end + (z.isstd + z.isut)
<1> DEFINE f == Fields(z)
           h == Header(z, "1")
           b == Block(z, 4)
           W == Offsets(f)
           name == BehindName(z, 0 + 9)
           end == W[name]
<1>1. IsBlock(z)
  BY DEF IsZoneFile
<1>2. h \in Seq(FieldSet) /\ Len(h) = 9 /\ b \in Seq(FieldSet)
  BY <1>1, HeaderFields, BlockFields
<1>3. f = h \o b
  BY DEF Fields
<1> HIDE DEF f, h, b
<1>4. f \in Seq(FieldSet) /\ Len(f) = Len(h) + Len(b)
  BY <1>2, <1>3, ConcatFields
<1>5. Stands(f, 0, h) /\ Stands(f, 0 + 9, b)
  <2>1. Stands(f, 0, h \o b)
    BY <1>3, <1>4, StandsWhole
  <2>2. Stands(f, 0, h) /\ Stands(f, 0 + Len(h), b)
    BY <1>2, <1>4, <2>1, StandsParts
  <2> QED BY <1>2, <2>2
<1>6. W[0] = 0
  BY <1>4, OffsetsAdd
<1>7. file.at = FieldsAt(f)
  BY DEF f
<1>8. /\ Len(z.trans) \in Nat /\ Len(z.types) \in Nat
      /\ z.isut \in Nat /\ z.isstd \in Nat /\ z.leap = 0
  BY <1>1, BlockParts DEF IsZoneFile
<1>9. /\ W[0 + 9] = 44 /\ Content(file, 0, 4) = "TZif" /\ Content(file, 4, 1) = "1"
      /\ Content(file, 5, 15) = "reserved"
      /\ \A i \in 0 .. 5 : Content(file, 20 + 4 * i, 4) \in Int
  <2>1. HeaderSays(f, file, 0, z, "1")
    BY <1>1, <1>4, <1>5, <1>7, HeaderAt DEF h
  <2> QED BY <1>6, <1>8, <2>1, HeadRead DEF W
<1>10. readDataBlock(file, 20, TRUE) = IF file.length < end THEN Invalid ELSE DataOf(z)
  <2>1. "1" \in {"1", "2"} /\ TRUE \in BOOLEAN /\ 4 = (IF TRUE THEN 4 ELSE 8)
    OBVIOUS
  <2>2. LoadsFrom(f, file, z, TRUE, 0)
    BY <1>4, <1>5, <1>7, <2>1, DataLoaded DEF h, b
  <2>3. readDataBlock(file, W[0] + 20, TRUE) = IF file.length < end THEN Invalid ELSE DataOf(z)
    BY Zenon, <2>2 DEF LoadsFrom
  <2>4. W[0] + 20 = 20
    <3> HIDE DEF W
    <3> QED BY <1>6
  <2> QED BY <2>3, <2>4
<1>11. W[0 + 9] <= end /\ end \in Int
  <2>1. name \in 0 .. Len(f) /\ 0 + 9 \in 0 .. Len(f)
    BY <1>1, <1>4, <1>5, NamePassed DEF b
  <2>2. 0 + 9 <= name
    BY <1>1, BehindFields
  <2> HIDE DEF name
  <2> QED BY <1>4, <2>1, <2>2, OffsetsInOrder
<1>12. W[Len(f)] = end + (z.isstd + z.isut)
  <2>0. 0 + 9 \in Nat /\ 4 \in {4, 8}
    OBVIOUS
  <2>1. Len(f) = BehindBlock(z, 0 + 9)
    <3>1. BehindBlock(z, 0 + 9) = 0 + 9 + Len(b)
      BY <1>1, <2>0, BehindFields, Zenon DEF b
    <3> QED BY <1>2, <1>4, <3>1
  <2>2. W[BehindBlock(z, 0 + 9)] = end + Wide(4 + 4, z.leap) + z.isstd + z.isut
    <3>1. Stands(f, 0 + 9, Block(z, 4))
      BY <1>5 DEF b
    <3> QED BY <1>1, <1>4, <2>0, <3>1, BlockEnds, Zenon
  <2>3. Wide(4 + 4, z.leap) = 0
    BY <1>8 DEF Wide
  <2> HIDE DEF W, end, name
  <2> QED BY <1>8, <1>11, <2>1, <2>2, <2>3
<1> HIDE DEF W, name, end
<1>13. readTimeZoneFile(file) = IF file.length < end THEN Invalid ELSE DataOf(z)
  <2>1. ~HeadRefused(file) => Read(file, 4, 1) = "1"
    BY <1>9, HeadPassed
  <2>2. ~(file.length < end) => ~HeadRefused(file)
    <3>1. ~(file.length < end) => file.length >= 44
      BY <1>9, <1>11
    <3> QED BY <1>9, <3>1, HeadPassed
  <2>3. readTimeZoneFile(file) = IF HeadRefused(file) THEN Invalid ELSE readDataBlock(file, 20, TRUE)
    BY <2>1 DEF readTimeZoneFile, File, HeadRefused
  <2> QED BY <1>10, <2>2, <2>3
<1>14. end \in Nat
  BY <1>9, <1>11
<1> QED BY <1>12, <1>13, <1>14 DEF W, f, end, name

LEMMA SecondVersionLoaded ==
    ASSUME NEW z, IsZoneFile(z), z.version = "2", NEW file, file.at = FieldsAt(Fields(z)),
           file.length \in Int, file # NoFile
    PROVE  LET W == Offsets(Fields(z))
               end == W[BehindName(z, BehindBlock(z.v1, 0 + 9) + 9)]
           IN  /\ readTimeZoneFile(file) = IF file.length < end THEN Invalid ELSE DataOf(z)
               /\ end \in Nat /\ W[Len(Fields(z))] = end + (z.isstd + z.isut) + 1
<1> DEFINE f == Fields(z)
           y == z.v1
           h1 == Header(y, "2")
           b1 == Block(y, 4)
           h == Header(z, "2")
           b == Block(z, 8)
           e == <<Field("TZ", 1)>>
           n == Len(y.trans)
           m == Len(y.types)
           W == Offsets(f)
           k == BehindBlock(y, 0 + 9)
           name == BehindName(z, k + 9)
           end == W[name]
<1>1. IsBlock(z) /\ IsBlock(y)
  BY DEF IsZoneFile
<1>2. /\ h1 \in Seq(FieldSet) /\ Len(h1) = 9 /\ b1 \in Seq(FieldSet)
      /\ Len(b1) = n + n + 3 * m + 1 + y.leap + y.isstd + y.isut
      /\ h \in Seq(FieldSet) /\ Len(h) = 9 /\ b \in Seq(FieldSet)
  BY <1>1, HeaderFields, BlockFields
<1>3. e \in Seq(FieldSet) /\ Len(e) = 1
  <2>1. Field("TZ", 1) \in FieldSet
    BY DEF Field, FieldSet, Texts
  <2> QED BY <2>1
<1>3a. e[1].width = 1
  BY FieldParts
<1>4. f = h1 \o b1 \o h \o b \o e
  BY DEF Fields
<1>5. n \in Nat /\ m \in Nat /\ y.leap \in Nat /\ y.isstd \in Nat /\ y.isut \in Nat
  BY <1>1, BlockParts
<1>5a. /\ Len(z.trans) \in Nat /\ Len(z.types) \in Nat
       /\ z.isut \in Nat /\ z.isstd \in Nat /\ z.leap = 0
  BY <1>1, BlockParts DEF IsZoneFile
<1> HIDE DEF f, h1, b1, h, b, e
<1>6. h1 \o b1 \in Seq(FieldSet) /\ Len(h1 \o b1) = Len(h1) + Len(b1)
  BY <1>2, ConcatFields
<1>7. h1 \o b1 \o h \in Seq(FieldSet) /\ Len(h1 \o b1 \o h) = Len(h1 \o b1) + Len(h)
  BY <1>2, <1>6, ConcatFields
<1>8. h1 \o b1 \o h \o b \in Seq(FieldSet) /\ Len(h1 \o b1 \o h \o b) = Len(h1 \o b1 \o h) + Len(b)
  BY <1>2, <1>7, ConcatFields
<1>9. f \in Seq(FieldSet) /\ Len(f) = Len(h1 \o b1 \o h \o b) + Len(e)
  BY <1>3, <1>4, <1>8, ConcatFields
<1>10. Stands(f, 0, h1 \o b1 \o h \o b) /\ Stands(f, 0 + Len(h1 \o b1 \o h \o b), e)
  BY <1>3, <1>4, <1>8, <1>9, StandsWhole, StandsParts
<1>11. Stands(f, 0, h1 \o b1 \o h) /\ Stands(f, 0 + Len(h1 \o b1 \o h), b)
  BY <1>2, <1>7, <1>9, <1>10, StandsParts
<1>12. Stands(f, 0, h1 \o b1) /\ Stands(f, 0 + Len(h1 \o b1), h)
  BY <1>2, <1>6, <1>9, <1>11, StandsParts
<1>13. Stands(f, 0, h1) /\ Stands(f, 0 + Len(h1), b1)
  BY <1>2, <1>9, <1>12, StandsParts
<1>14. 0 + Len(h1) = 0 + 9 /\ 0 + Len(h1 \o b1) = k /\ 0 + Len(h1 \o b1 \o h) = k + 9 /\ k \in Nat
  <2>1. Len(h1 \o b1) = 9 + (n + n + 3 * m + 1 + y.leap + y.isstd + y.isut)
    BY <1>2, <1>6
  <2>2. k = 0 + 9 + n + n + 3 * m + 1 + y.leap + y.isstd + y.isut
    BY DEF BehindBlock, BehindName
  <2>3. Len(h1 \o b1 \o h) = Len(h1 \o b1) + 9
    BY <1>2, <1>7
  <2> DEFINE g == Len(h1 \o b1)
  <2> HIDE DEF n, m, k, g
  <2>4. g = k /\ k \in Nat
    <3> DEFINE rest == n + n + 3 * m + 1 + y.leap + y.isstd + y.isut
    <3>1. rest \in Nat
      BY <1>5
    <3>2. g = 9 + rest
      BY <2>1 DEF g
    <3>3. k = 9 + rest
      BY <1>5, <2>2
    <3> HIDE DEF rest
    <3> QED BY <3>1, <3>2, <3>3
  <2> QED BY <1>2, <2>3, <2>4 DEF g
<1> HIDE DEF k
<1>15. Stands(f, 0, h1) /\ Stands(f, 0 + 9, b1) /\ Stands(f, k, h) /\ Stands(f, k + 9, b)
  BY <1>11, <1>12, <1>13, <1>14
<1>16. W[0] = 0
  BY <1>9, OffsetsAdd
<1>17. file.at = FieldsAt(f)
  BY DEF f
<1>18. /\ W[0 + 9] = 44 /\ Content(file, 0, 4) = "TZif" /\ Content(file, 4, 1) = "2"
       /\ Content(file, 5, 15) = "reserved"
       /\ Content(file, 20 + 4 * 0, 4) = y.isut /\ Content(file, 20 + 4 * 1, 4) = y.isstd
       /\ Content(file, 20 + 4 * 2, 4) = y.leap /\ Content(file, 20 + 4 * 3, 4) = n
       /\ Content(file, 20 + 4 * 4, 4) = m /\ Content(file, 20 + 4 * 5, 4) = 3
       /\ \A i \in 0 .. 5 : Content(file, 20 + 4 * i, 4) \in Int
  <2>1. HeaderSays(f, file, 0, y, "2")
    BY <1>1, <1>9, <1>15, <1>17, HeaderAt DEF h1
  <2>2. y.isut \in Int /\ y.isstd \in Int /\ y.leap \in Int /\ n \in Int /\ m \in Int
    BY <1>5
  <2> QED BY Zenon, <1>16, <2>1, <2>2, HeadRead DEF W
<1>19. ASSUME ~HeadRefused(file) PROVE V2Block(file) = W[k]
  <2>1. W[k] = W[0 + 9] + Wide(4, n) + n + 6 * m + 3 + Wide(4 + 4, y.leap) + y.isstd + y.isut
    <3>1. Offsets(f)[BehindBlock(y, 0 + 9)] =
              Offsets(f)[0 + 9] + Wide(4, Len(y.trans)) + Len(y.trans) + 6 * Len(y.types) + 3
                  + Wide(4 + 4, y.leap) + y.isstd + y.isut
      <4> DEFINE s == 0 + 9
      <4>1. Stands(f, s, Block(y, 4)) /\ 4 \in {4, 8}
        BY <1>15 DEF b1
      <4> HIDE DEF s, y, k
      <4>2. Offsets(f)[BehindBlock(y, s)] =
                Offsets(f)[s] + Wide(4, Len(y.trans)) + Len(y.trans) + 6 * Len(y.types) + 3
                    + Wide(4 + 4, y.leap) + y.isstd + y.isut
        BY <1>1, <1>9, <4>1, BlockEnds
      <4> QED BY Zenon, <4>2 DEF s
    <3> QED BY Zenon, <3>1 DEF k
  <2>2. V2Block(file) = 44 + 4 * n + n + 6 * m + 3 + 8 * y.leap + y.isstd + y.isut
    <3>1. \A i \in 0 .. 5 : Read(file, 20 + 4 * i, 4) = Content(file, 20 + 4 * i, 4)
      BY <1>18, <1>19, HeadPassed
    <3>2. 0 \in 0 .. 5 /\ 1 \in 0 .. 5 /\ 2 \in 0 .. 5 /\ 3 \in 0 .. 5 /\ 4 \in 0 .. 5 /\ 5 \in 0 .. 5
      OBVIOUS
    <3>3. /\ Read(file, 20 + 4 * 0, 4) = y.isut /\ Read(file, 20 + 4 * 1, 4) = y.isstd
          /\ Read(file, 20 + 4 * 2, 4) = y.leap /\ Read(file, 20 + 4 * 3, 4) = n
          /\ Read(file, 20 + 4 * 4, 4) = m /\ Read(file, 20 + 4 * 5, 4) = 3
      BY <1>18, <3>1, <3>2
    <3> HIDE DEF n, m
    <3> QED BY <1>5, <3>3 DEF V2Block
  <2> HIDE DEF n, m, W, k
  <2>3. Wide(4, n) = 4 * n /\ Wide(4 + 4, y.leap) = 8 * y.leap
    BY DEF Wide
  <2> QED BY <1>18, <2>1, <2>2, <2>3
<1>20. W[k] \in Int /\ W[k + 9] = W[k] + 44 /\ Content(file, W[k], 4) = "TZif"
  <2>1. HeaderSays(f, file, k, z, "2")
    BY <1>1, <1>9, <1>15, <1>17, HeaderAt DEF h
  <2> QED BY Zenon, <2>1 DEF HeaderSays
<1>21. readDataBlock(file, W[k] + 20, FALSE) = IF file.length < end THEN Invalid ELSE DataOf(z)
  <2>1. "2" \in {"1", "2"} /\ FALSE \in BOOLEAN /\ 8 = (IF FALSE THEN 4 ELSE 8)
    OBVIOUS
  <2>2. LoadsFrom(f, file, z, FALSE, k)
    BY <1>9, <1>15, <1>17, <2>1, DataLoaded DEF h, b
  <2> QED BY Zenon, <2>2 DEF LoadsFrom
<1>22. W[0 + 9] <= end /\ W[k + 9] <= end /\ end \in Int
  <2>1. name \in 0 .. Len(f) /\ k + 9 \in 0 .. Len(f)
    BY <1>1, <1>9, <1>15, NamePassed DEF b
  <2>2. 0 + 9 \in 0 .. Len(f)
    BY <1>1, <1>9, <1>15, NamePassed DEF b1
  <2>3. 0 + 9 <= name /\ k + 9 <= name
    <3>1. k + 9 \in Nat /\ 0 + 9 <= k + 9
      BY <1>14
    <3>2. k + 9 <= name
      BY <1>1, <3>1, BehindFields
    <3>3. name \in Int
      BY <2>1
    <3> HIDE DEF name
    <3> QED BY <3>1, <3>2, <3>3
  <2> HIDE DEF name
  <2> QED BY <1>9, <2>1, <2>2, <2>3, OffsetsInOrder
<1>23. W[Len(f)] = end + (z.isstd + z.isut) + 1
  <2> DEFINE last == BehindBlock(z, k + 9)
  <2>1. last = 0 + Len(h1 \o b1 \o h \o b)
    <3>1. k + 9 \in Nat /\ 8 \in {4, 8}
      BY <1>14
    <3>2. last = (k + 9) + Len(b)
      BY <1>1, <3>1, BehindFields, Zenon DEF b
    <3> DEFINE g == Len(h1 \o b1 \o h \o b)
               g1 == Len(h1 \o b1 \o h)
    <3>3. g = g1 + Len(b) /\ 0 + g1 = k + 9
      BY <1>8, <1>14
    <3>4. g1 \in Nat /\ Len(b) \in Nat
      <4>1. h1 \o b1 \o h \in Seq(FieldSet) /\ b \in Seq(FieldSet)
        BY <1>2, <1>7
      <4> QED BY <4>1
    <3> HIDE DEF last, g, g1
    <3>5. last = 0 + g
      BY <3>2, <3>3, <3>4
    <3> QED BY <3>5 DEF g
  <2>2. W[last] = end + Wide(8 + 4, z.leap) + z.isstd + z.isut
    <3>1. Stands(f, k + 9, Block(z, 8)) /\ 8 \in {4, 8}
      BY <1>15 DEF b
    <3> QED BY <1>1, <1>9, <3>1, BlockEnds, Zenon
  <2>3. Wide(8 + 4, z.leap) = 0
    BY <1>5a DEF Wide
  <2> HIDE DEF last
  <2>4. Stands(f, last, e) /\ last \in Nat /\ Len(f) = last + 1
    BY <1>3, <1>9, <1>10, <2>1, <1>8
  <2>5. W[last + 1] = W[last + (1 - 1)] + e[1].width
    <3>1. last + 1 \in 1 .. Len(f) /\ (last + 1) - 1 = last + (1 - 1)
      BY <2>4
    <3>2. f[last + 1] = e[1]
      BY <1>3, <2>4 DEF Stands
    <3>3. W[last + 1] = W[(last + 1) - 1] + f[last + 1].width
      BY <1>9, <3>1, OffsetsAdd DEF W
    <3> QED BY <3>1, <3>2, <3>3
  <2>6. e[1].width = 1
    BY <1>3a DEF e
  <2>7. last + (1 - 1) = last
    BY <2>4
  <2> HIDE DEF W, end, name, k
  <2> QED BY <1>5a, <1>22, <2>2, <2>3, <2>4, <2>5, <2>6, <2>7
<1> HIDE DEF W, name, end
<1>24. readTimeZoneFile(file) = IF file.length < end THEN Invalid ELSE DataOf(z)
  <2>1. ~HeadRefused(file) => Read(file, 4, 1) = "2"
    BY <1>18, HeadPassed
  <2>2. readTimeZoneFile(file) =
            IF HeadRefused(file) \/ Read(file, W[k], 4) # "TZif" THEN Invalid
            ELSE readDataBlock(file, W[k] + 20, FALSE)
    BY <1>19, <2>1 DEF readTimeZoneFile, File, HeadRefused
  <2>3. ~(file.length < end) => file.length >= 44 /\ W[k] + 4 <= file.length
    <3>1. 44 <= end
      BY <1>18, <1>22
    <3>2. W[k] + 44 <= end /\ W[k] \in Int /\ end \in Int
      BY <1>20, <1>22
    <3> QED BY <3>1, <3>2
  <2>4. ~(file.length < end) => ~HeadRefused(file)
    BY <1>18, <2>3, HeadPassed
  <2>5. ~(file.length < end) => Read(file, W[k], 4) = "TZif"
    BY <1>20, <2>3, ReadOrEnd
  <2> QED BY <1>21, <2>2, <2>4, <2>5
<1>25. end \in Nat
  BY <1>18, <1>22
<1> QED BY <1>23, <1>24, <1>25 DEF W, f, end, name, k

LEMMA FieldsOfFile ==
    ASSUME NEW z, IsZoneFile(z)
    PROVE  Fields(z) \in Seq(FieldSet)
<1>1. IsBlock(z) /\ IsBlock(z.v1) /\ z.version \in {"1", "2"}
  BY DEF IsZoneFile
<1>2. CASE z.version = "1"
  <2>1. Header(z, "1") \in Seq(FieldSet) /\ Block(z, 4) \in Seq(FieldSet)
    BY <1>1, HeaderFields, BlockFields
  <2>2. Header(z, "1") \o Block(z, 4) \in Seq(FieldSet)
    BY <2>1, ConcatFields
  <2> QED BY <1>2, <2>2 DEF Fields
<1>3. CASE z.version = "2"
  <2> DEFINE h1 == Header(z.v1, "2")
             b1 == Block(z.v1, 4)
             h == Header(z, "2")
             b == Block(z, 8)
             e == <<Field("TZ", 1)>>
  <2>1. h1 \in Seq(FieldSet) /\ b1 \in Seq(FieldSet) /\ h \in Seq(FieldSet) /\ b \in Seq(FieldSet)
    BY <1>1, HeaderFields, BlockFields
  <2>2. e \in Seq(FieldSet)
    <3>1. Field("TZ", 1) \in FieldSet
      BY DEF Field, FieldSet, Texts
    <3> QED BY <3>1
  <2>3. Fields(z) = h1 \o b1 \o h \o b \o e
    BY <1>3 DEF Fields
  <2> HIDE DEF h1, b1, h, b, e
  <2>4. h1 \o b1 \in Seq(FieldSet)
    BY <2>1, ConcatFields
  <2>5. h1 \o b1 \o h \in Seq(FieldSet)
    BY <2>1, <2>4, ConcatFields
  <2>6. h1 \o b1 \o h \o b \in Seq(FieldSet)
    BY <2>1, <2>5, ConcatFields
  <2> QED BY <2>2, <2>3, <2>6, ConcatFields
<1> QED BY <1>1, <1>2, <1>3

(* The file whose fields are those of the zone, cut anywhere: it gives the *)
(* zone when the bytes that are read are there, and nothing otherwise.     *)
LEMMA FileLoaded ==
    ASSUME NEW z, IsZoneFile(z)
    PROVE  /\ BytesRead(z) \in Nat
           /\ \A cut \in Int : readTimeZoneFile([Written(z) EXCEPT !.length = cut]) =
                                 IF cut < BytesRead(z) THEN Invalid ELSE DataOf(z)
<1> DEFINE W == Offsets(Fields(z))
           l == W[Len(Fields(z))]
           g == FieldsAt(Fields(z))
           end == IF z.version = "1" THEN W[BehindName(z, 0 + 9)]
                  ELSE W[BehindName(z, BehindBlock(z.v1, 0 + 9) + 9)]
<1>1. Written(z) = [length |-> l, at |-> g]
  BY FileWritten
<1>2. z.version = "1" \/ z.version = "2"
  BY DEF IsZoneFile
<1>3. z.isstd \in Nat /\ z.isut \in Nat
  BY DEF IsZoneFile, IsBlock
<1>4. ASSUME NEW file, file.at = g, file.length \in Int, file # NoFile
      PROVE  /\ readTimeZoneFile(file) = IF file.length < end THEN Invalid ELSE DataOf(z)
             /\ end \in Nat
             /\ l = end + (z.isstd + z.isut) + IF z.version = "2" THEN 1 ELSE 0
  <2>1. CASE z.version = "1"
    <3>1. /\ readTimeZoneFile(file) = IF file.length < end THEN Invalid ELSE DataOf(z)
          /\ end \in Nat /\ l = end + (z.isstd + z.isut)
      BY <1>4, <2>1, FirstVersionLoaded
    <3> HIDE DEF end, l
    <3> QED BY <1>3, <2>1, <3>1
  <2>2. CASE z.version = "2"
    <3>1. /\ readTimeZoneFile(file) = IF file.length < end THEN Invalid ELSE DataOf(z)
          /\ end \in Nat /\ l = end + (z.isstd + z.isut) + 1
      BY <1>4, <2>2, SecondVersionLoaded
    <3> HIDE DEF end, l
    <3> QED BY <2>2, <3>1
  <2> QED BY <1>2, <2>1, <2>2
<1> HIDE DEF l, g, end
<1>5. ASSUME NEW cut \in Int
      PROVE  [length |-> cut, at |-> g] # NoFile
  <2>1. DOMAIN [length |-> cut, at |-> g] = {"length", "at"} /\ DOMAIN NoFile = {"length"}
    BY DEF NoFile
  <2> QED BY <2>1
<1>6. ASSUME NEW cut \in Int
      PROVE  /\ readTimeZoneFile([Written(z) EXCEPT !.length = cut]) =
                     IF cut < end THEN Invalid ELSE DataOf(z)
             /\ end \in Nat
             /\ l = end + (z.isstd + z.isut) + IF z.version = "2" THEN 1 ELSE 0
  <2> DEFINE file == [length |-> cut, at |-> g]
  <2>1. [Written(z) EXCEPT !.length = cut] = file
    BY <1>1
  <2>2. file.at = g /\ file.length = cut /\ file # NoFile
    BY <1>5
  <2> HIDE DEF file
  <2> QED BY <1>4, <2>1, <2>2
<1>7. end \in Nat /\ l = end + (z.isstd + z.isut) + IF z.version = "2" THEN 1 ELSE 0
  <2>1. 0 \in Int
    OBVIOUS
  <2> QED BY <1>6, <2>1
<1>8. BytesRead(z) = end
  <2>1. BytesRead(z) = l - (z.isstd + z.isut) - (IF z.version = "2" THEN 1 ELSE 0)
    BY <1>1 DEF BytesRead
  <2> QED BY <1>3, <1>7, <2>1
<1> QED BY <1>6, <1>7, <1>8

(* ------------------------- the loaded zone, always ---------------------- *)
Zones == ZoneFiles \cup [east : EastOfUtc]

(* The data of a time zone are those of the zone described, or there are   *)
(* none.                                                                   *)
LoadInv ==
    /\ zone \in Zones
    /\ data_ \in {NotLoaded, Invalid, DataOf(zone)}

LEMMA KindOfZone ==
    ASSUME zone \in Zones
    PROVE  /\ "east" \in DOMAIN zone => DataOf(zone) = FixedData(zone.east)
           /\ "east" \notin DOMAIN zone => zone \in ZoneFiles /\ IsZoneFile(zone)
<1>1. zone \in [east : EastOfUtc] => "east" \in DOMAIN zone
  OBVIOUS
<1>2. zone \in ZoneFiles => IsZoneFile(zone)
  BY ZoneAssumption
<1> QED BY <1>1, <1>2 DEF Zones, DataOf, IsZoneFile, FixedData, addLocalTime

LEMMA LoadStarts == Init => LoadInv
BY DEF Init, LoadInv, Zones

LEMMA LoadStep == LoadInv /\ [Next]_vars => LoadInv'
<1> SUFFICES ASSUME LoadInv, [Next]_vars PROVE LoadInv'
  OBVIOUS
<1> USE DEF LoadInv
<1>1. CASE "east" \notin DOMAIN zone /\ \E cut \in -1 .. Written(zone).length : loadZoneFile(Found(cut))
  <2>1. PICK cut \in -1 .. Written(zone).length : loadZoneFile(Found(cut))
    BY <1>1
  <2>2. zone' = zone /\ data_' = readTimeZoneFile(Found(cut))
    BY <2>1 DEF loadZoneFile
  <2>3. CASE cut < 0
    <3>1. data_' = Invalid
      BY <2>2, <2>3 DEF Found, readTimeZoneFile, File
    <3> QED BY <2>2, <3>1
  <2>4. CASE ~(cut < 0)
    <3>1. IsZoneFile(zone)
      BY <1>1, KindOfZone
    <3>2. cut \in Int
      OBVIOUS
    <3>3. Found(cut) = [Written(zone) EXCEPT !.length = cut]
      BY <2>4 DEF Found
    <3>4. data_' \in {Invalid, DataOf(zone)}
      BY <2>2, <3>1, <3>2, <3>3, FileLoaded
    <3> QED BY <2>2, <3>4
  <2> QED BY <2>3, <2>4
<1>2. CASE MakeFixed
  BY <1>2, KindOfZone DEF MakeFixed
<1>3. CASE Tick
  BY <1>3 DEF Tick
<1>4. CASE TickBack
  BY <1>4 DEF TickBack
<1>5. CASE UNCHANGED vars
  BY <1>5 DEF vars
<1> QED BY <1>1, <1>2, <1>3, <1>4, <1>5 DEF Next

LEMMA LoadAlways == Spec => []LoadInv
BY LoadStarts, LoadStep, PTL DEF Spec

(* What a TimeZone holds is what the zone file says, for every file of     *)
(* either version and wherever it was cut: nothing when one of the bytes   *)
(* that are read is missing, since that read throws, and all of the zone   *)
(* otherwise (TimeZone.cc, readTimeZoneFile and readDataBlock).            *)
THEOREM FilesLoadWhole == Spec => []LoadedAsWritten
<1>1. LoadInv => LoadedAsWritten
  <2>1. ASSUME LoadInv, "east" \notin DOMAIN zone, NEW cut \in -1 .. Written(zone).length
        PROVE  readTimeZoneFile(Found(cut)) = IF cut < BytesRead(zone) THEN Invalid ELSE DataOf(zone)
    <3>1. IsZoneFile(zone) /\ cut \in Int
      BY <2>1, KindOfZone DEF LoadInv
    <3>2. CASE cut >= 0
      <4>1. Found(cut) = [Written(zone) EXCEPT !.length = cut]
        BY <3>1, <3>2 DEF Found
      <4> QED BY <3>1, <4>1, FileLoaded
    <3>3. CASE cut < 0
      <4>1. readTimeZoneFile(Found(cut)) = Invalid
        BY <3>3 DEF Found, readTimeZoneFile, File
      <4>2. BytesRead(zone) \in Nat
        BY <3>1, FileLoaded
      <4> QED BY <3>1, <3>3, <4>1, <4>2
    <3> QED BY <3>1, <3>2, <3>3
  <2> QED BY <2>1 DEF LoadInv, LoadedAsWritten, Running
<1> QED BY <1>1, LoadAlways, PTL

(* ------------------------- the clock a few hours off -------------------- *)
(* The year 0 is more than two days before the year 2.                     *)
LEMMA YearsApart ==
    ASSUME NEW d, IsDateTime(d), d.year = 0, NEW e, IsDateTime(e), e.year >= 2
    PROVE  DayOf(d) + 3 <= DayOf(e)
<1> DEFINE Y == ShiftedYear(0, d.month)
           x == DayOfYear(d.month, d.day)
           Z == ShiftedYear(e.year, e.month)
           y == DayOfYear(e.month, e.day)
<1>1. /\ d.month \in 1 .. 12 /\ e.month \in 1 .. 12 /\ e.year \in Nat
      /\ IsDate(0, d.month, d.day) /\ IsDate(e.year, e.month, e.day)
  BY DEF IsDateTime, DateTimes
<1>2. /\ DayOf(d) = x + YearStart(Y) - 32044
      /\ DayOf(e) = y + YearStart(Z) - 32044
  BY <1>1, DayNumberOfDate DEF DayOf
<1>3. /\ x \in 0 .. 365 /\ y \in 0 .. 365
      /\ d.month >= 3 => x < 337
      /\ e.month <= 2 => y >= 306
  <2>1. /\ ShiftedMonth(d.month) \in 0 .. 11 /\ x \in 0 .. 365
        /\ x < (153 * (ShiftedMonth(d.month) + 1) + 2) \div 5
    BY <1>1, DayOfYearBounds
  <2>2. /\ ShiftedMonth(e.month) \in 0 .. 11 /\ y \in 0 .. 365
        /\ (153 * ShiftedMonth(e.month) + 2) \div 5 <= y
    BY <1>1, DayOfYearBounds
  <2> HIDE DEF x, y
  <2> QED BY <1>1, <2>1, <2>2 DEF ShiftedMonth
<1>4. /\ d.month >= 3 => Y = 4800
      /\ d.month <= 2 => Y = 4799
      /\ e.month >= 3 => Z >= 4802
      /\ e.month <= 2 => Z >= 4801
      /\ Z \in Nat
  BY <1>1 DEF ShiftedYear
<1>5. YearStart(4800) = 1753164 /\ YearStart(4799) = 1752798
  BY DEF YearStart
<1>6. YearStart(Z) >= 365 * Z + 1163
  <2> DEFINE q == Z \div 4
             u == Z \div 100
             w == Z \div 400
  <2>1. q \in Nat /\ u \in Nat /\ w \in Nat /\ Z < 4 * q + 4 /\ 100 * u <= Z /\ Z < 400 * w + 400
    BY <1>4
  <2>2. YearStart(Z) = 365 * Z + q - u + w /\ Z >= 4801
    BY <1>1, <1>4 DEF YearStart
  <2> HIDE DEF q, u, w, Z
  <2> QED BY <1>4, <2>1, <2>2
<1> HIDE DEF x, y, Z
<1>7. d.month >= 3 \/ d.month <= 2
  BY <1>1
<1>8. x + YearStart(Y) <= 1753164 + 336 \/ x + YearStart(Y) <= 1752798 + 365
  BY <1>3, <1>4, <1>5, <1>7
<1>9. y + 365 * Z >= 365 * 4801 + 306
  <2>1. e.month >= 3 \/ e.month <= 2
    BY <1>1
  <2> QED BY <1>3, <1>4, <2>1
<1>10. YearStart(Y) \in Int /\ x + YearStart(Y) \in Int /\ YearStart(Z) \in Int
  BY <1>3, <1>4, <1>5, <1>7 DEF YearStart
<1> DEFINE a == x + YearStart(Y)
           b == YearStart(Z)
<1>11. a <= 1753164 + 336 /\ y + b >= 365 * 4801 + 306 + 1163 /\ a \in Int /\ b \in Int
  BY <1>3, <1>4, <1>6, <1>8, <1>9, <1>10
<1>12. DayOf(d) \in Int /\ DayOf(e) \in Int
  BY DayIsNatural
<1> DEFINE D == DayOf(d)
           E == DayOf(e)
<1>13. D = x + YearStart(Y) - 32044 /\ a = x + YearStart(Y)
  BY <1>2
<1>14. E = y + YearStart(Z) - 32044 /\ b = YearStart(Z)
  BY <1>2
<1>15. D \in Int /\ E \in Int
  BY <1>12
<1> HIDE DEF a, b, D, E, Y
<1>16. D = a - 32044
  BY <1>3, <1>10, <1>13
<1>17. E = y + b - 32044
  BY <1>3, <1>10, <1>14
<1>18. D + 3 <= E
  BY <1>3, <1>11, <1>15, <1>16, <1>17
<1> QED BY <1>18 DEF D, E

(* What the clock shows at an instant.                                     *)
Shows(d, t) == IsDateTime(d) /\ Instant(d) = t

LEMMA ShownOnce ==
    ASSUME NEW d, NEW t, Shows(d, t)
    PROVE  t \in Int /\ BreakTime(t) = d
BY TimeBroken DEF Shows

LEMMA ClockMoves ==
    ASSUME NEW d, NEW t, Shows(d, t)
    PROVE  /\ Shows(Later(d), t + 1)
           /\ d.year >= 1 => Shows(Earlier(d), t - 1)
<1>1. t \in Int
  BY ShownOnce
<1>2. Shows(Later(d), t + 1)
  BY LaterClock, SecondPasses DEF Shows
<1>3. ASSUME d.year >= 1 PROVE Shows(Earlier(d), t - 1)
  <2>1. IsDateTime(Earlier(d)) /\ Later(Earlier(d)) = d
    BY <1>3, EarlierClock DEF Shows
  <2>2. Instant(d) = Instant(Earlier(d)) + 1 /\ Instant(Earlier(d)) \in Int
    BY <2>1, SecondPasses, TimeBroken
  <2> QED BY <1>1, <2>1, <2>2 DEF Shows
<1> QED BY <1>2, <1>3

(* Two days from a date of the year 2 or later the year is not 0.          *)
LEMMA YearsLeft ==
    ASSUME NEW dt, NEW t, Shows(dt, t), dt.year >= 2,
           NEW d, NEW s, Shows(d, s), s >= t - 2 * kSecondsPerDay
    PROVE  d.year >= 1
<1> DEFINE k == kSecondsPerDay
           J == kJulianDayOf1970_01_01
<1>1. k \in Nat \ {0} /\ J \in Int /\ DayOf(d) \in Nat /\ DayOf(dt) \in Nat /\ d.year \in Nat
  BY SecondsOfDay, Epoch, DayIsNatural DEF Shows, IsDateTime, DateTimes
<1>2. SecondOf(d) \in Nat /\ SecondOf(d) < k /\ SecondOf(dt) \in Nat
  BY SecondsInDay DEF Shows
<1>3. t = (DayOf(dt) - J) * k + SecondOf(dt) /\ s = (DayOf(d) - J) * k + SecondOf(d)
  BY DEF Shows, Instant
<1> SUFFICES ASSUME d.year = 0 PROVE FALSE
  BY <1>1
<1>4. DayOf(d) + 3 <= DayOf(dt)
  BY YearsApart DEF Shows
<1> DEFINE p == DayOf(d) - J
           q == DayOf(dt) - J
<1>5. p \in Int /\ q \in Int /\ p + 3 <= q
  BY <1>1, <1>4
<1> HIDE DEF p, q
<1>6. p * k + 3 * k <= q * k /\ p * k \in Int /\ q * k \in Int
  <2> HIDE DEF k
  <2>1. (q - (p + 3)) * k >= 0
    BY <1>1, <1>5
  <2>2. (q - (p + 3)) * k = q * k - p * k - 3 * k
    BY <1>1, <1>5
  <2>3. p * k \in Int /\ q * k \in Int /\ 3 * k \in Int
    BY <1>1, <1>5
  <2> QED BY <2>1, <2>2, <2>3
<1>7. t = q * k + SecondOf(dt) /\ s = p * k + SecondOf(d)
  BY <1>3 DEF p, q
<1> DEFINE pk == p * k
           qk == q * k
<1>8. /\ pk + 3 * k <= qk /\ pk \in Int /\ qk \in Int
      /\ t = qk + SecondOf(dt) /\ s = pk + SecondOf(d) /\ s >= t - 2 * k
  BY <1>6, <1>7
<1> HIDE DEF pk, qk, k
<1> QED BY <1>1, <1>2, <1>8

(* Shift, n seconds on or back.                                            *)
Steps(n) == IF n < 0 THEN -n ELSE n
Ahead(n, i) == IF n < 0 THEN -i ELSE i
Shifts(f, dt, n) ==
    f = [i \in 0 .. Steps(n) |->
            IF i = 0 THEN dt ELSE IF n > 0 THEN Later(f[i - 1]) ELSE Earlier(f[i - 1])]

LEMMA ShiftSteps ==
    ASSUME NEW dt, NEW n, NEW g, Shifts(g, dt, n)
    PROVE  \E f : Shifts(f, dt, n) /\ Shift(dt, n) = f[Steps(n)]
<1> DEFINE f == CHOOSE f : Shifts(f, dt, n)
<1>1. Shifts(f, dt, n)
  OBVIOUS
<1>2. Shift(dt, n) = f[Steps(n)]
  BY Zenon DEF Shift, Shifts, Steps
<1> QED BY <1>1, <1>2

LEMMA StepsNear ==
    ASSUME NEW n \in Int, NEW h \in Nat, -h <= n, n <= h, NEW t \in Int
    PROVE  /\ Steps(n) \in Nat /\ Ahead(n, 0) = 0 /\ Ahead(n, Steps(n)) = n
           /\ \A i \in 0 .. Steps(n) : t + Ahead(n, i) \in Int /\ t + Ahead(n, i) >= t - h
           /\ \A i \in 0 .. Steps(n) - 1 :
                  /\ n # 0
                  /\ n > 0 => t + Ahead(n, i + 1) = (t + Ahead(n, i)) + 1
                  /\ n < 0 => t + Ahead(n, i + 1) = (t + Ahead(n, i)) - 1
<1>1. CASE n < 0
  <2>1. Steps(n) = -n /\ \A i : Ahead(n, i) = -i
    BY <1>1 DEF Steps, Ahead
  <2> QED BY <1>1, <2>1
<1>2. CASE ~(n < 0)
  <2>1. Steps(n) = n /\ \A i : Ahead(n, i) = i
    BY <1>2 DEF Steps, Ahead
  <2> QED BY <1>2, <2>1
<1> QED BY <1>1, <1>2

(* The clock shows a time for each second two days around dt.              *)
LEMMA ShownAround ==
    ASSUME NEW dt, NEW t, Shows(dt, t), dt.year >= 2,
           NEW n \in -(2 * kSecondsPerDay) .. 2 * kSecondsPerDay
    PROVE  \A i \in 0 .. Steps(n) : Shows(BreakTime(t + Ahead(n, i)), t + Ahead(n, i))
<1> DEFINE N == Steps(n)
           h == 2 * kSecondsPerDay
           T(i) == t + Ahead(n, i)
           S == {i \in 0 .. N : Shows(BreakTime(T(i)), T(i))}
<1>1. t \in Int /\ BreakTime(t) = dt /\ h \in Nat /\ n \in Int /\ -h <= n /\ n <= h
  BY ShownOnce, SecondsOfDay
<1>2. /\ N \in Nat /\ Ahead(n, 0) = 0
      /\ \A i \in 0 .. N : T(i) \in Int /\ T(i) >= t - h
      /\ \A i \in 0 .. N - 1 :
             n # 0 /\ (n > 0 => T(i + 1) = T(i) + 1) /\ (n < 0 => T(i + 1) = T(i) - 1)
  <2> HIDE DEF h
  <2> QED BY <1>1, StepsNear
<1> HIDE DEF N
<1>3. 0 \in S
  <2>1. T(0) = t
    BY <1>1, <1>2
  <2> QED BY <1>1, <1>2, <2>1
<1>4. ASSUME NEW i \in 0 .. N - 1, i \in S
      PROVE  i + 1 \in S
  <2> DEFINE d == BreakTime(T(i))
  <2>1. Shows(d, T(i)) /\ i \in 0 .. N /\ i + 1 \in 0 .. N
    BY <1>2, <1>4
  <2>2. Shows(Later(d), T(i) + 1)
    BY <2>1, ClockMoves
  <2>3. Shows(Earlier(d), T(i) - 1)
    <3>1. T(i) >= t - h
      BY <1>2, <2>1
    <3> HIDE DEF d, T
    <3>2. d.year >= 1
      BY <2>1, <3>1, YearsLeft
    <3> QED BY <2>1, <3>2, ClockMoves
  <2>4. \E e : Shows(e, T(i + 1))
    <3> HIDE DEF d, T
    <3>1. CASE n > 0
      BY <1>2, <2>2, <3>1
    <3>2. CASE n < 0
      BY <1>2, <2>3, <3>2
    <3> QED BY <1>1, <1>2, <3>1, <3>2
  <2>5. Shows(BreakTime(T(i + 1)), T(i + 1))
    BY <2>4, ShownOnce
  <2> QED BY <2>1, <2>5
<1> HIDE DEF S
<1>5. 0 .. N \subseteq S
  BY <1>2, <1>3, <1>4, UpTo
<1> QED BY <1>5 DEF S, N

(* Shift gives what the clock shows n seconds later.                       *)
LEMMA ShiftShows ==
    ASSUME NEW dt, NEW t, Shows(dt, t), dt.year >= 2,
           NEW n \in -(2 * kSecondsPerDay) .. 2 * kSecondsPerDay
    PROVE  Shows(Shift(dt, n), t + n)
<1> DEFINE N == Steps(n)
           h == 2 * kSecondsPerDay
           T(i) == t + Ahead(n, i)
           g == [i \in 0 .. N |-> BreakTime(T(i))]
<1>1. t \in Int /\ BreakTime(t) = dt /\ h \in Nat /\ n \in Int /\ -h <= n /\ n <= h
  BY ShownOnce, SecondsOfDay
<1>2. /\ N \in Nat /\ Ahead(n, 0) = 0 /\ Ahead(n, N) = n
      /\ \A i \in 0 .. N : T(i) \in Int /\ T(i) >= t - h
      /\ \A i \in 0 .. N - 1 :
             n # 0 /\ (n > 0 => T(i + 1) = T(i) + 1) /\ (n < 0 => T(i + 1) = T(i) - 1)
  <2> HIDE DEF h
  <2> QED BY <1>1, StepsNear
<1>3. \A i \in 0 .. N : Shows(BreakTime(T(i)), T(i))
  BY ShownAround
<1> HIDE DEF N, h
<1>4. ASSUME NEW i \in 0 .. N - 1, NEW d, Shows(d, T(i))
      PROVE  Shows(IF n > 0 THEN Later(d) ELSE Earlier(d), T(i + 1))
  <2>1. i \in 0 .. N /\ T(i) >= t - h
    BY <1>2
  <2> HIDE DEF T
  <2>2. d.year >= 1
    BY <1>4, <2>1, YearsLeft DEF h
  <2>3. Shows(Later(d), T(i) + 1) /\ Shows(Earlier(d), T(i) - 1)
    BY <1>4, <2>2, ClockMoves
  <2>4. CASE n > 0
    BY <1>2, <2>3, <2>4
  <2>5. CASE n < 0
    BY <1>1, <1>2, <2>3, <2>5
  <2> QED BY <1>1, <1>2, <2>4, <2>5
<1>5. ASSUME NEW i \in 1 .. N
      PROVE  BreakTime(T(i)) = IF n > 0 THEN Later(BreakTime(T(i - 1))) ELSE Earlier(BreakTime(T(i - 1)))
  <2>1. i - 1 \in 0 .. N - 1 /\ (i - 1) + 1 = i /\ i - 1 \in 0 .. N
    BY <1>2
  <2> HIDE DEF T
  <2>2. Shows(IF n > 0 THEN Later(BreakTime(T(i - 1))) ELSE Earlier(BreakTime(T(i - 1))), T(i))
    BY <1>3, <1>4, <2>1
  <2> QED BY <2>2, ShownOnce
<1>6. Shifts(g, dt, n)
  <2>1. g[0] = dt
    <3>1. T(0) = t /\ 0 \in 0 .. N
      BY <1>1, <1>2
    <3> HIDE DEF T
    <3> QED BY <1>1, <3>1
  <2>2. \A i \in 1 .. N : g[i] = IF n > 0 THEN Later(g[i - 1]) ELSE Earlier(g[i - 1])
    <3> HIDE DEF T
    <3>1. \A i \in 1 .. N : i \in 0 .. N /\ i - 1 \in 0 .. N
      BY <1>2
    <3> QED BY <1>5, <3>1
  <2>3. g = [i \in 0 .. N |-> g[i]]
    OBVIOUS
  <2> HIDE DEF g
  <2>4. \A i \in 0 .. N : g[i] = IF i = 0 THEN dt ELSE IF n > 0 THEN Later(g[i - 1]) ELSE Earlier(g[i - 1])
    BY <1>2, <2>1, <2>2
  <2>5. g = [i \in 0 .. N |-> IF i = 0 THEN dt ELSE IF n > 0 THEN Later(g[i - 1]) ELSE Earlier(g[i - 1])]
    BY <2>3, <2>4
  <2> QED BY <2>5 DEF Shifts, N
<1> HIDE DEF g
<1>7. PICK f : Shifts(f, dt, n) /\ Shift(dt, n) = f[N]
  BY <1>6, ShiftSteps DEF N
<1> DEFINE S == {i \in 0 .. N : Shows(f[i], T(i))}
<1>8. /\ f[0] = dt
      /\ \A i \in 0 .. N - 1 : f[i + 1] = IF n > 0 THEN Later(f[i]) ELSE Earlier(f[i])
  <2> DEFINE r == [i \in 0 .. N |->
                      IF i = 0 THEN dt ELSE IF n > 0 THEN Later(f[i - 1]) ELSE Earlier(f[i - 1])]
  <2>1. f = r
    BY <1>7 DEF Shifts, N
  <2>2. r[0] = dt
    BY <1>2
  <2>3. ASSUME NEW i \in 0 .. N - 1
        PROVE  r[i + 1] = IF n > 0 THEN Later(f[i]) ELSE Earlier(f[i])
    <3>1. i + 1 \in 0 .. N /\ i + 1 # 0 /\ (i + 1) - 1 = i
      BY <1>2
    <3> QED BY <3>1
  <2> HIDE DEF r
  <2> QED BY <2>1, <2>2, <2>3
<1>9. 0 \in S
  <2>1. T(0) = t /\ 0 \in 0 .. N
    BY <1>1, <1>2
  <2> HIDE DEF T
  <2> QED BY <1>8, <2>1
<1>10. ASSUME NEW i \in 0 .. N - 1, i \in S
       PROVE  i + 1 \in S
  <2>1. i + 1 \in 0 .. N /\ Shows(f[i], T(i))
    BY <1>2, <1>10
  <2> HIDE DEF T
  <2>2. Shows(IF n > 0 THEN Later(f[i]) ELSE Earlier(f[i]), T(i + 1))
    BY <1>4, <2>1
  <2> QED BY <1>8, <2>1, <2>2
<1> HIDE DEF S
<1>11. 0 .. N \subseteq S
  BY <1>2, <1>9, <1>10, UpTo
<1>12. Shows(f[N], T(N))
  BY <1>2, <1>11 DEF S
<1> QED BY <1>2, <1>7, <1>12

(* --------------------- the transitions of a time zone ------------------- *)
(* n transitions at the times u; o[k] is in force behind the k-th.         *)
Rises(n, a) == n \in Nat /\ a \in [1 .. n -> Int] /\ \A i, j \in 1 .. n : i < j => a[i] < a[j]
Timeline(n, u, o) ==
    /\ n \in Nat /\ u \in [1 .. n -> Int] /\ o \in [0 .. n -> Int]
    /\ \A i \in 1 .. n - 1 : \A j, k \in 0 .. n : u[i + 1] - u[i] > o[j] - o[k]

(* x lies behind the k-th number and before the next.                      *)
Between(n, a, x, k) ==
    /\ k \in 0 .. n
    /\ k >= 1 => a[k] <= x
    /\ k < n => x < a[k + 1]

LEMMA TimesRise ==
    ASSUME NEW n, NEW u, NEW o, Timeline(n, u, o)
    PROVE  Rises(n, u)
<1>1. \A i \in 1 .. n - 1 : u[i] < u[i + 1]
  <2> SUFFICES ASSUME NEW i \in 1 .. n - 1 PROVE u[i] < u[i + 1]
    OBVIOUS
  <2>1. n \in Nat /\ u[i] \in Int /\ u[i + 1] \in Int /\ 0 \in 0 .. n /\ o[0] \in Int
    BY DEF Timeline
  <2>2. u[i + 1] - u[i] > o[0] - o[0]
    BY <2>1 DEF Timeline
  <2> QED BY <2>1, <2>2
<1> QED BY <1>1, Ascending DEF Timeline, Rises

LEMMA SegmentExists ==
    ASSUME NEW n, NEW a, Rises(n, a), NEW x \in Int
    PROVE  \E k : Between(n, a, x, k)
<1> DEFINE S == {i \in 1 .. n + 1 : i <= n => a[i] > x}
<1>1. n \in Nat /\ \A i \in 1 .. n : a[i] \in Int
  BY DEF Rises
<1>2. S \in SUBSET Nat /\ n + 1 \in S
  BY <1>1
<1> HIDE DEF S
<1>3. PICK i \in S : \A j \in S : i <= j
  BY <1>2, LeastNumber
<1>4. i \in 1 .. n + 1 /\ (i <= n => a[i] > x)
  BY <1>3 DEF S
<1>5. i - 1 >= 1 => a[i - 1] <= x
  <2> SUFFICES ASSUME i - 1 >= 1, ~(a[i - 1] <= x) PROVE FALSE
    OBVIOUS
  <2>1. i - 1 \in 1 .. n /\ i - 1 \in 1 .. n + 1
    BY <1>1, <1>4
  <2>2. i - 1 \in S
    BY <1>1, <2>1 DEF S
  <2> QED BY <1>3, <1>4, <2>2
<1>6. i - 1 \in 0 .. n /\ (i - 1) + 1 = i /\ (i - 1 < n => i <= n)
  BY <1>1, <1>4
<1>7. i - 1 < n => x < a[(i - 1) + 1]
  <2> SUFFICES ASSUME i - 1 < n PROVE x < a[i]
    BY <1>6
  <2>1. i \in 1 .. n /\ a[i] > x
    BY <1>1, <1>4
  <2> QED BY <1>1, <2>1
<1>8. Between(n, a, x, i - 1)
  BY <1>5, <1>6, <1>7 DEF Between
<1> QED BY <1>8

LEMMA SegmentSplits ==
    ASSUME NEW n, NEW a, Rises(n, a), NEW x \in Int, NEW k, Between(n, a, x, k)
    PROVE  \A i \in 1 .. n : a[i] <= x <=> i <= k
<1> SUFFICES ASSUME NEW i \in 1 .. n PROVE a[i] <= x <=> i <= k
  OBVIOUS
<1>1. n \in Nat /\ k \in 0 .. n /\ a[i] \in Int /\ (k >= 1 => a[k] \in Int) /\ (k < n => a[k + 1] \in Int)
  BY DEF Between, Rises
<1>2. CASE i <= k
  <2>1. k >= 1 /\ k \in 1 .. n
    BY <1>1, <1>2
  <2>2. i = k \/ a[i] < a[k]
    BY <1>2, <2>1 DEF Rises
  <2>3. a[k] <= x /\ a[k] \in Int
    BY <1>1, <2>1 DEF Between
  <2> QED BY <1>1, <1>2, <2>2, <2>3
<1>3. CASE i > k
  <2>1. k < n /\ k + 1 \in 1 .. n /\ k + 1 <= i
    BY <1>1, <1>3
  <2>2. i = k + 1 \/ a[k + 1] < a[i]
    BY <1>1, <2>1 DEF Rises
  <2>3. x < a[k + 1] /\ a[k + 1] \in Int
    BY <1>1, <2>1 DEF Between
  <2>4. x < a[i]
    BY <1>1, <2>2, <2>3
  <2> QED BY <1>1, <1>3, <2>4
<1> QED BY <1>1, <1>2, <1>3

(* std::upper_bound finds the first number behind x.                       *)
LEMMA UpperBound ==
    ASSUME NEW n, NEW a, Rises(n, a), Len(a) = n, NEW x \in Int, NEW k, Between(n, a, x, k)
    PROVE  upper_bound(a, x) = k + 1
<1> DEFINE P(i) == (\A j \in 1 .. i - 1 : a[j] <= x) /\ (i <= n => a[i] > x)
           ub == CHOOSE i \in 1 .. n + 1 : P(i)
<1>1. n \in Nat /\ k \in 0 .. n /\ \A i \in 1 .. n : a[i] \in Int /\ (a[i] <= x <=> i <= k)
  BY SegmentSplits DEF Between, Rises
<1>2. k + 1 \in 1 .. n + 1 /\ P(k + 1)
  BY <1>1
<1>3. ub \in 1 .. n + 1 /\ P(ub)
  BY <1>2
<1>4. ub = upper_bound(a, x)
  BY DEF upper_bound
<1> HIDE DEF ub
<1>5. ub = k + 1
  BY <1>1, <1>3
<1> QED BY <1>4, <1>5

(* The times of a zone's transitions, and the offsets behind them.         *)
UtcTimes(z) == [i \in 1 .. Len(z.trans) |-> z.trans[i][1]]
OffsetNo(z) ==
    [k \in 0 .. Len(z.trans) |->
        IF k = 0 THEN z.types[1].utcOffset ELSE z.types[z.trans[k][2] + 1].utcOffset]

LEMMA ZoneTimeline ==
    ASSUME NEW z, IsZoneFile(z)
    PROVE  /\ Timeline(Len(z.trans), UtcTimes(z), OffsetNo(z))
           /\ \A k \in 0 .. Len(z.trans) : OffsetNo(z)[k] \in OffsetsOf(z)
<1> DEFINE n == Len(z.trans)
           m == Len(z.types)
           u == UtcTimes(z)
           o == OffsetNo(z)
<1>1. /\ m \in Nat /\ n \in Nat
      /\ \A i \in 1 .. m : z.types[i].utcOffset \in Int
      /\ \A i \in 1 .. n : z.trans[i][1] \in Int /\ z.trans[i][2] \in 0 .. m - 1
  BY BlockParts DEF IsZoneFile
<1>2. m >= 1
  <2>1. z.types \in Seq([utcOffset : Int, isDst : {0, 1}, desigIdx : Nat]) /\ z.types # <<>>
    BY DEF IsZoneFile, IsBlock
  <2> QED BY <2>1
<1>3. OffsetsOf(z) = {z.types[i].utcOffset : i \in 1 .. m}
  BY DEF IsZoneFile, OffsetsOf
<1>4. u \in [1 .. n -> Int] /\ \A i \in 1 .. n : u[i] = z.trans[i][1]
  BY <1>1 DEF UtcTimes
<1>5. ASSUME NEW k \in 0 .. n
      PROVE  o[k] \in OffsetsOf(z) /\ o[k] \in Int
  <2> DEFINE i == IF k = 0 THEN 1 ELSE z.trans[k][2] + 1
  <2>1. i \in 1 .. m
    BY <1>1, <1>2
  <2>2. o[k] = z.types[i].utcOffset
    BY DEF OffsetNo
  <2> HIDE DEF i
  <2> QED BY <1>1, <1>3, <2>1, <2>2
<1>6. o = [k \in 0 .. n |-> o[k]]
  BY DEF OffsetNo
<1>7. o \in [0 .. n -> Int]
  <2> HIDE DEF o
  <2> QED BY <1>5, <1>6
<1>8. ASSUME NEW i \in 1 .. n - 1, NEW j \in 0 .. n, NEW k \in 0 .. n
      PROVE  u[i + 1] - u[i] > o[j] - o[k]
  <2>1. i \in 1 .. n /\ i + 1 \in 1 .. n
    BY <1>1
  <2>2. z.trans[i + 1][1] - z.trans[i][1] > o[j] - o[k]
    <3> HIDE DEF o
    <3> QED BY <1>5 DEF IsZoneFile
  <2> HIDE DEF o, u
  <2> QED BY <1>4, <2>1, <2>2
<1> HIDE DEF o, u
<1>9. Timeline(n, u, o)
  BY <1>1, <1>4, <1>7, <1>8 DEF Timeline
<1> QED BY <1>5, <1>9 DEF o, u

(* A subset of 1 .. n that is not empty has at most n elements.            *)
LEMMA CountedIn ==
    ASSUME NEW n \in Nat, NEW S \in SUBSET (1 .. n), S # {}
    PROVE  Cardinality(S) \in 1 .. n
<1>1. IsFiniteSet(1 .. n) /\ Cardinality(1 .. n) = n
  <2>1. IsFiniteSet(1 .. n) /\ Cardinality(1 .. n) = IF 1 > n THEN 0 ELSE n - 1 + 1
    BY FS_Interval
  <2> QED BY <2>1
<1>2. IsFiniteSet(S) /\ Cardinality(S) <= n
  BY <1>1, FS_Subset
<1>3. Cardinality(S) \in Nat /\ Cardinality(S) # 0
  BY <1>2, FS_CardinalityType, FS_EmptySet
<1> QED BY <1>2, <1>3

(* The table's answer: the offset of the last transition before t, that of *)
(* the first type before the first.  Within the table it is the offset in  *)
(* force.                                                                  *)
TableOffset(z, t) ==
    IF "east" \in DOMAIN z THEN z.east
    ELSE LET before == {i \in 1 .. Len(z.trans) : z.trans[i][1] <= t}
         IN  IF before = {} THEN z.types[1].utcOffset
             ELSE z.types[z.trans[Cardinality(before)][2] + 1].utcOffset

LEMMA OffsetInForce ==
    ASSUME NEW z, IsZoneFile(z), NEW t \in Int, NEW k, Between(Len(z.trans), UtcTimes(z), t, k)
    PROVE  TableOffset(z, t) = OffsetNo(z)[k]
<1> DEFINE n == Len(z.trans)
           u == UtcTimes(z)
           before == {i \in 1 .. n : z.trans[i][1] <= t}
<1>1. n \in Nat /\ k \in 0 .. n /\ \A i \in 1 .. n : u[i] <= t <=> i <= k
  <2>1. Rises(n, u)
    BY ZoneTimeline, TimesRise
  <2> QED BY <2>1, SegmentSplits DEF Between, Rises
<1>2. before = 1 .. k
  <2>1. \A i \in 1 .. n : u[i] = z.trans[i][1]
    BY DEF UtcTimes
  <2> HIDE DEF u
  <2>2. \A i \in 1 .. n : z.trans[i][1] <= t <=> i <= k
    BY <1>1, <2>1
  <2>3. \A i : i \in before <=> i \in 1 .. n /\ i <= k
    BY <2>2
  <2>4. \A i : i \in 1 .. k <=> i \in 1 .. n /\ i <= k
    BY <1>1
  <2> HIDE DEF before
  <2> QED BY <2>3, <2>4
<1>3. Cardinality(before) = k
  <2>1. Cardinality(1 .. k) = IF 1 > k THEN 0 ELSE k - 1 + 1
    BY <1>1, FS_Interval
  <2> HIDE DEF before
  <2> QED BY <1>1, <1>2, <2>1
<1>4. before = {} <=> k = 0
  BY <1>1, <1>2
<1>5. TableOffset(z, t) = IF before = {} THEN z.types[1].utcOffset
                       ELSE z.types[z.trans[Cardinality(before)][2] + 1].utcOffset
  BY DEF TableOffset, IsZoneFile
<1> HIDE DEF before
<1> QED BY <1>1, <1>3, <1>4, <1>5 DEF OffsetNo

LEMMA TransBefore ==
    ASSUME NEW z, IsZoneFile(z), NEW t \in Int
    PROVE  LET n == Len(z.trans)
               before == {i \in 1 .. n : z.trans[i][1] <= t}
           IN  /\ n \in Nat /\ (before = {} => BeforeTable(z, t))
               /\ before # {} => Cardinality(before) \in 1 .. n
<1> DEFINE n == Len(z.trans)
           before == {i \in 1 .. n : z.trans[i][1] <= t}
<1>1. n \in Nat /\ \A i \in 1 .. n : z.trans[i][1] \in Int
  BY BlockParts DEF IsZoneFile
<1>2. n = 0 <=> z.trans = <<>>
  BY DEF IsZoneFile, IsBlock
<1>3. ASSUME before = {} PROVE BeforeTable(z, t)
  <2>1. CASE n = 0
    BY <1>2, <2>1 DEF BeforeTable
  <2>2. CASE n # 0
    <3>1. 1 \in 1 .. n
      BY <1>1, <2>2
    <3>2. ~(z.trans[1][1] <= t)
      BY <1>3, <3>1
    <3> HIDE DEF n
    <3> QED BY <1>1, <3>1, <3>2 DEF BeforeTable
  <2> QED BY <2>1, <2>2
<1> HIDE DEF n
<1>4. ASSUME before # {} PROVE Cardinality(before) \in 1 .. n
  <2>1. before \in SUBSET (1 .. n)
    OBVIOUS
  <2> HIDE DEF before
  <2> QED BY <1>1, <1>4, <2>1, CountedIn
<1> QED BY <1>1, <1>3, <1>4 DEF n

LEMMA OneAfterTheOther ==
    ASSUME NEW P, NEW s \in Seq(P), NEW t \in Seq(P)
    PROVE  /\ Len(s) \in Nat /\ Len(t) \in Nat /\ s \o t \in Seq(P) /\ Len(s \o t) = Len(s) + Len(t)
           /\ \A i \in 1 .. Len(s) : (s \o t)[i] = s[i]
           /\ \A i \in 1 .. Len(s) + Len(t) :
                  i \notin 1 .. Len(s) => i - Len(s) \in 1 .. Len(t) /\ (s \o t)[i] = t[i - Len(s)]
           /\ \A i \in 1 .. Len(s) + Len(t) : (s \o t)[i] \in P
           /\ \A i \in 1 .. Len(t) : t[i] \in P
<1>1. Len(s) \in Nat /\ Len(t) \in Nat /\ s \o t \in Seq(P) /\ Len(s \o t) = Len(s) + Len(t)
  OBVIOUS
<1>2. \A i \in 1 .. Len(s) : (s \o t)[i] = s[i]
  OBVIOUS
<1>3. ASSUME NEW i \in 1 .. Len(s) + Len(t), i \notin 1 .. Len(s)
      PROVE  i - Len(s) \in 1 .. Len(t) /\ (s \o t)[i] = t[i - Len(s)]
  BY <1>1, <1>3
<1>4. \A i \in 1 .. Len(t) : t[i] \in P
  OBVIOUS
<1>5. \A i \in 1 .. Len(s) + Len(t) : (s \o t)[i] \in P
  <2> DEFINE w == s \o t
  <2>1. w \in Seq(P) /\ Len(w) = Len(s) + Len(t)
    BY <1>1
  <2> HIDE DEF w
  <2>2. \A i \in 1 .. Len(w) : w[i] \in P
    BY <2>1
  <2> QED BY <2>1, <2>2 DEF w
<1> QED BY <1>1, <1>2, <1>3, <1>4, <1>5

(* The moves of a zone: its transitions and what the TZ string announces.  *)
LEMMA MovesOfZone ==
    ASSUME NEW z, IsZoneFile(z)
    PROVE  LET n == Len(z.trans)
               r == Len(z.rule)
               moves == z.trans \o z.rule
           IN  /\ n \in Nat /\ r \in Nat /\ Len(moves) = n + r
               /\ \A i \in 1 .. n : moves[i] = z.trans[i]
               /\ \A i \in 1 .. n + r : i \notin 1 .. n => i - n \in 1 .. r /\ moves[i] = z.rule[i - n]
               /\ \A i \in 1 .. r : z.rule[i][1] \in Int
               /\ \A i \in 1 .. n + r : moves[i][1] \in Int /\ moves[i][2] + 1 \in 1 .. Len(z.types)
               /\ Len(z.types) \in Nat /\ Len(z.types) >= 1
<1> DEFINE n == Len(z.trans)
           r == Len(z.rule)
           m == Len(z.types)
           P == Int \X (0 .. m - 1)
           moves == z.trans \o z.rule
<1>1. z.trans \in Seq(P) /\ z.rule \in Seq(P)
  BY DEF IsZoneFile, IsBlock
<1>2. m \in Nat /\ m >= 1
  <2>1. z.types \in Seq([utcOffset : Int, isDst : {0, 1}, desigIdx : Nat]) /\ z.types # <<>>
    BY DEF IsZoneFile, IsBlock
  <2> QED BY <2>1
<1>3. \A p \in P : p[1] \in Int /\ p[2] + 1 \in 1 .. m
  BY <1>2
<1> HIDE DEF P
<1>4. /\ n \in Nat /\ r \in Nat /\ Len(moves) = n + r
      /\ \A i \in 1 .. n : moves[i] = z.trans[i]
      /\ \A i \in 1 .. n + r : i \notin 1 .. n => i - n \in 1 .. r /\ moves[i] = z.rule[i - n]
      /\ \A i \in 1 .. n + r : moves[i] \in P
      /\ \A i \in 1 .. r : z.rule[i] \in P
  <2> DEFINE s == z.trans
             q == z.rule
  <2>1. s \in Seq(P) /\ q \in Seq(P)
    BY <1>1
  <2> HIDE DEF s, q
  <2>2. /\ Len(s) \in Nat /\ Len(q) \in Nat /\ Len(s \o q) = Len(s) + Len(q)
        /\ \A i \in 1 .. Len(s) : (s \o q)[i] = s[i]
        /\ \A i \in 1 .. Len(s) + Len(q) :
               i \notin 1 .. Len(s) => i - Len(s) \in 1 .. Len(q) /\ (s \o q)[i] = q[i - Len(s)]
        /\ \A i \in 1 .. Len(s) + Len(q) : (s \o q)[i] \in P
        /\ \A i \in 1 .. Len(q) : q[i] \in P
    BY <2>1, OneAfterTheOther
  <2> QED BY Zenon, <2>2 DEF s, q
<1> HIDE DEF n, r, m, moves
<1>5. /\ \A i \in 1 .. r : z.rule[i][1] \in Int
      /\ \A i \in 1 .. n + r : moves[i][1] \in Int /\ moves[i][2] + 1 \in 1 .. m
  BY <1>3, <1>4
<1> QED BY <1>2, <1>4, <1>5 DEF n, r, m, moves

LEMMA StandardIsFirst ==
    ASSUME NEW z, Len(z.types) \in Nat, Len(z.types) >= 1
    PROVE  /\ \E i \in 1 .. Len(z.types) : StandardType(z) = z.types[i]
           /\ z.types[1].isDst = 0 => StandardType(z) = z.types[1]
<1> DEFINE m == Len(z.types)
           S == {i \in 1 .. m : z.types[i].isDst = 0}
           c == CHOOSE i \in S : \A j \in S : i <= j
<1> HIDE DEF m
<1>1. StandardType(z) = IF S = {} THEN z.types[1] ELSE z.types[c]
  BY DEF StandardType, m
<1>2. 1 \in 1 .. m /\ m \in Nat
  BY DEF m
<1>3. S \in SUBSET Nat
  BY <1>2
<1>4. S # {} => c \in S
  <2> HIDE DEF S
  <2>1. S # {} => \E i \in S : \A j \in S : i <= j
    BY <1>3, LeastNumber
  <2> QED BY <2>1
<1>5. \E i \in 1 .. m : StandardType(z) = z.types[i]
  <2>1. S \subseteq 1 .. m
    OBVIOUS
  <2> HIDE DEF S, c
  <2> QED BY <1>1, <1>2, <1>4, <2>1
<1>6. ASSUME z.types[1].isDst = 0 PROVE StandardType(z) = z.types[1]
  <2>1. 1 \in S /\ \A j \in S : 1 <= j
    BY <1>2, <1>6
  <2>2. \A i \in S : (\A j \in S : i <= j) => i = 1
    <3> HIDE DEF S
    <3> QED BY <1>3, <2>1
  <2>3. c = 1
    <3> HIDE DEF S
    <3> QED BY <2>1, <2>2
  <2> QED BY <1>1, <2>1, <2>3
<1> QED BY <1>5, <1>6 DEF m

LEMMA WithinTable ==
    ASSUME NEW z, "east" \in DOMAIN z \/ IsZoneFile(z), NEW t \in Int, InTable(z, t)
    PROVE  OffsetAt(z, t) = TableOffset(z, t)
<1>1. CASE "east" \in DOMAIN z
  BY <1>1 DEF OffsetAt, TableOffset
<1>2. CASE "east" \notin DOMAIN z
  <2> DEFINE n == Len(z.trans)
             r == Len(z.rule)
             moves == z.trans \o z.rule
             B == {i \in 1 .. n : z.trans[i][1] <= t}
             C == {i \in 1 .. Len(moves) : moves[i][1] <= t}
  <2>1. IsZoneFile(z) /\ ~AfterTable(z, t) /\ (BeforeTable(z, t) => z.types[1].isDst = 0)
    BY <1>2 DEF InTable
  <2>2. /\ n \in Nat /\ r \in Nat /\ Len(moves) = n + r
        /\ \A i \in 1 .. n : moves[i] = z.trans[i]
        /\ \A i \in 1 .. n + r : i \notin 1 .. n => i - n \in 1 .. r /\ moves[i] = z.rule[i - n]
        /\ Len(z.types) \in Nat /\ Len(z.types) >= 1
    BY <2>1, MovesOfZone
  <2>3. \A i \in 1 .. r : ~(z.rule[i][1] <= t)
    BY <2>1 DEF AfterTable
  <2>4. /\ B = {} => BeforeTable(z, t)
        /\ B # {} => Cardinality(B) \in 1 .. n
    BY <2>1, TransBefore
  <2>5. TableOffset(z, t) = IF B = {} THEN z.types[1].utcOffset
                            ELSE z.types[z.trans[Cardinality(B)][2] + 1].utcOffset
    BY <1>2 DEF TableOffset
  <2>6. OffsetAt(z, t) = IF C = {} THEN StandardType(z).utcOffset
                         ELSE z.types[moves[Cardinality(C)][2] + 1].utcOffset
    BY <1>2 DEF OffsetAt
  <2> HIDE DEF n, r, moves
  <2>7. C = B
    <3>1. \A i : i \in C <=> i \in 1 .. n + r /\ moves[i][1] <= t
      BY <2>2
    <3>2. \A i : i \in B <=> i \in 1 .. n /\ z.trans[i][1] <= t
      OBVIOUS
    <3>3. \A i \in 1 .. n : i \in 1 .. n + r
      BY <2>2
    <3> HIDE DEF B, C
    <3>4. \A i : i \in C <=> i \in B
      BY <2>2, <2>3, <3>1, <3>2, <3>3
    <3> QED BY <3>4
  <2> HIDE DEF B, C
  <2>8. CASE B = {}
    <3>1. StandardType(z) = z.types[1]
      BY <2>1, <2>2, <2>4, <2>8, StandardIsFirst
    <3> QED BY <2>5, <2>6, <2>7, <2>8, <3>1
  <2>9. CASE B # {}
    <3>1. moves[Cardinality(B)] = z.trans[Cardinality(B)]
      BY <2>2, <2>4, <2>9
    <3> QED BY <2>5, <2>6, <2>7, <2>9, <3>1
  <2> QED BY <2>8, <2>9
<1> QED BY <1>1, <1>2

(* The offset in force is one of the zone's, even outside its table.       *)
LEMMA OffsetOfZone ==
    ASSUME NEW z, "east" \in DOMAIN z \/ IsZoneFile(z), NEW t \in Int
    PROVE  OffsetAt(z, t) \in OffsetsOf(z)
<1>1. CASE "east" \in DOMAIN z
  BY <1>1 DEF OffsetAt, OffsetsOf
<1>2. CASE "east" \notin DOMAIN z
  <2> DEFINE m == Len(z.types)
             moves == z.trans \o z.rule
             l == Len(moves)
             C == {i \in 1 .. l : moves[i][1] <= t}
  <2>1. /\ l \in Nat /\ m \in Nat /\ m >= 1
        /\ \A i \in 1 .. l : moves[i][2] + 1 \in 1 .. m
    <3> DEFINE n == Len(z.trans)
               r == Len(z.rule)
    <3>1. /\ n \in Nat /\ r \in Nat /\ l = n + r /\ m \in Nat /\ m >= 1
          /\ \A i \in 1 .. n + r : moves[i][2] + 1 \in 1 .. m
      BY <1>2, MovesOfZone
    <3> HIDE DEF moves, m, l, n, r
    <3> QED BY <3>1
  <2>2. OffsetAt(z, t) = IF C = {} THEN StandardType(z).utcOffset
                         ELSE z.types[moves[Cardinality(C)][2] + 1].utcOffset
    BY <1>2 DEF OffsetAt
  <2>3. OffsetsOf(z) = {z.types[i].utcOffset : i \in 1 .. m}
    BY <1>2 DEF OffsetsOf
  <2> HIDE DEF moves, l
  <2>4. C # {} => Cardinality(C) \in 1 .. l
    <3>1. C \in SUBSET (1 .. l)
      OBVIOUS
    <3> HIDE DEF C
    <3> QED BY <2>1, <3>1, CountedIn
  <2> HIDE DEF C
  <2>5. CASE C = {}
    <3>1. PICK i \in 1 .. m : StandardType(z) = z.types[i]
      BY <2>1, StandardIsFirst
    <3> QED BY <2>2, <2>3, <2>5, <3>1
  <2>6. CASE C # {}
    <3>1. moves[Cardinality(C)][2] + 1 \in 1 .. m
      BY <2>1, <2>4, <2>6
    <3> QED BY <2>2, <2>3, <2>6, <3>1
  <2> QED BY <2>5, <2>6
<1> QED BY <1>1, <1>2

(* What a TimeZone holds of the zone.                                      *)
LocalTimes(z) == [i \in 1 .. Len(z.trans) |-> UtcTimes(z)[i] + OffsetNo(z)[i]]

LEMMA DataParts ==
    ASSUME NEW z, IsZoneFile(z)
    PROVE  LET d == DataOf(z)
               n == Len(z.trans)
           IN  /\ Len(d.transitions) = n /\ (d.transitions = <<>> <=> n = 0)
               /\ d.localtimes[1].utcOffset = OffsetNo(z)[0]
               /\ utctimes(d) = UtcTimes(z) /\ localtimesOf(d) = LocalTimes(z)
               /\ \A i \in 1 .. n : LocalTime(d, i).utcOffset = OffsetNo(z)[i]
               /\ \A i \in 2 .. n : PriorSecond(d, i) = UtcTimes(z)[i] - 1 + OffsetNo(z)[i - 1]
<1> DEFINE d == DataOf(z)
           n == Len(z.trans)
           tr == [i \in 1 .. n |->
                     [utctime |-> z.trans[i][1],
                      localtime |-> z.trans[i][1] + z.types[z.trans[i][2] + 1].utcOffset,
                      localtimeIdx |-> z.trans[i][2]]]
<1>1. d = [localtimes |-> z.types, transitions |-> tr, abbreviation |-> "name"]
  BY DEF DataOf, IsZoneFile
<1>2. n \in Nat /\ \A i \in 1 .. n : z.trans[i][1] \in Int /\ z.trans[i][2] \in Int
  <2>1. IsBlock(z)
    BY DEF IsZoneFile
  <2>2. n \in Nat /\ Len(z.types) \in Nat
    BY <2>1, BlockParts
  <2>3. \A i \in 1 .. n : z.trans[i][1] \in Int /\ z.trans[i][2] \in 0 .. Len(z.types) - 1
    BY <2>1, BlockParts
  <2> HIDE DEF n
  <2> QED BY <2>2, <2>3
<1>3. \A i \in 1 .. n : tr[i] = [utctime |-> z.trans[i][1],
                                 localtime |-> z.trans[i][1] + z.types[z.trans[i][2] + 1].utcOffset,
                                 localtimeIdx |-> z.trans[i][2]]
  OBVIOUS
<1>4. Len(tr) = n /\ (tr = <<>> <=> n = 0)
  <2> DEFINE T == {tr[j] : j \in 1 .. n}
  <2>1. tr = [i \in 1 .. n |-> tr[i]] /\ \A i \in 1 .. n : tr[i] \in T
    OBVIOUS
  <2> HIDE DEF tr, n, T
  <2>2. tr \in [1 .. n -> T]
    BY <2>1
  <2>3. tr \in Seq(T) /\ Len(tr) = n
    BY <1>2, <2>2
  <2> QED BY <1>2, <2>3
<1>5. d.transitions = tr /\ d.localtimes = z.types
  BY <1>1
<1> HIDE DEF d, tr
<1>6. d.localtimes[1].utcOffset = OffsetNo(z)[0]
  BY <1>2, <1>5 DEF OffsetNo
<1>7. \A i \in 1 .. n : /\ d.transitions[i].utctime = UtcTimes(z)[i]
                        /\ d.transitions[i].localtime = UtcTimes(z)[i] + OffsetNo(z)[i]
  <2> SUFFICES ASSUME NEW i \in 1 .. n
               PROVE  /\ d.transitions[i].utctime = UtcTimes(z)[i]
                      /\ d.transitions[i].localtime = UtcTimes(z)[i] + OffsetNo(z)[i]
    OBVIOUS
  <2>1. UtcTimes(z)[i] = z.trans[i][1] /\ OffsetNo(z)[i] = z.types[z.trans[i][2] + 1].utcOffset
    BY <1>2 DEF UtcTimes, OffsetNo
  <2> HIDE DEF n
  <2>2. /\ d.transitions[i].utctime = z.trans[i][1]
        /\ d.transitions[i].localtime = z.trans[i][1] + z.types[z.trans[i][2] + 1].utcOffset
    <3> DEFINE r == [utctime |-> z.trans[i][1],
                     localtime |-> z.trans[i][1] + z.types[z.trans[i][2] + 1].utcOffset,
                     localtimeIdx |-> z.trans[i][2]]
    <3>1. d.transitions[i] = r
      BY Zenon, <1>3, <1>5
    <3> QED BY <3>1
  <2> QED BY <2>1, <2>2
<1>8. \A i \in 1 .. n : LocalTime(d, i).utcOffset = OffsetNo(z)[i]
  <2> SUFFICES ASSUME NEW i \in 1 .. n
               PROVE  LocalTime(d, i).utcOffset = OffsetNo(z)[i]
    OBVIOUS
  <2>1. OffsetNo(z)[i] = z.types[z.trans[i][2] + 1].utcOffset
    BY <1>2 DEF OffsetNo
  <2> HIDE DEF n
  <2>2. LocalTime(d, i) = z.types[z.trans[i][2] + 1]
    <3>1. d.transitions[i].localtimeIdx = z.trans[i][2]
      <4> DEFINE r == [utctime |-> z.trans[i][1],
                       localtime |-> z.trans[i][1] + z.types[z.trans[i][2] + 1].utcOffset,
                       localtimeIdx |-> z.trans[i][2]]
      <4>1. d.transitions[i] = r
        BY Zenon, <1>3, <1>5
      <4> QED BY <4>1
    <3> QED BY <1>5, <3>1 DEF LocalTime
  <2> QED BY <2>1, <2>2
<1>9. utctimes(d) = UtcTimes(z)
  <2>1. utctimes(d) = [i \in 1 .. n |-> d.transitions[i].utctime]
    BY <1>4, <1>5 DEF utctimes
  <2>2. UtcTimes(z) = [i \in 1 .. n |-> UtcTimes(z)[i]]
    BY DEF UtcTimes
  <2> QED BY <1>7, <2>1, <2>2
<1>10. localtimesOf(d) = LocalTimes(z)
  <2>1. localtimesOf(d) = [i \in 1 .. n |-> d.transitions[i].localtime]
    BY <1>4, <1>5 DEF localtimesOf
  <2> QED BY <1>7, <2>1 DEF LocalTimes
<1>11. \A i \in 2 .. n : PriorSecond(d, i) = UtcTimes(z)[i] - 1 + OffsetNo(z)[i - 1]
  <2> SUFFICES ASSUME NEW i \in 2 .. n
               PROVE  PriorSecond(d, i) = UtcTimes(z)[i] - 1 + OffsetNo(z)[i - 1]
    OBVIOUS
  <2>1. i \in 1 .. n /\ i - 1 \in 1 .. n
    BY <1>2
  <2> QED BY <1>7, <1>8, <2>1 DEF PriorSecond
<1> QED BY <1>4, <1>5, <1>6, <1>8, <1>9, <1>10, <1>11 DEF d

(* ------------------------ local times, back to UTC ---------------------- *)
(* Local times are in order, since transitions are further apart than any  *)
(* two offsets.                                                            *)
Locals(n, u, o) == [i \in 1 .. n |-> u[i] + o[i]]

LEMMA LocalsRise ==
    ASSUME NEW n, NEW u, NEW o, Timeline(n, u, o)
    PROVE  Rises(n, Locals(n, u, o)) /\ \A i \in 1 .. n : Locals(n, u, o)[i] = u[i] + o[i]
<1> DEFINE L == Locals(n, u, o)
<1>1. \A i \in 1 .. n : L[i] = u[i] + o[i] /\ u[i] \in Int /\ o[i] \in Int
  BY DEF Locals, Timeline
<1>2. n \in Nat /\ L \in [1 .. n -> Int]
  <2>1. L = [i \in 1 .. n |-> L[i]]
    BY DEF Locals
  <2>2. \A i \in 1 .. n : L[i] \in Int
    BY <1>1
  <2> HIDE DEF L
  <2> QED BY <2>1, <2>2 DEF Timeline
<1>3. ASSUME NEW i \in 1 .. n - 1 PROVE L[i] < L[i + 1]
  <2>1. i \in 1 .. n /\ i + 1 \in 1 .. n /\ i \in 0 .. n /\ i + 1 \in 0 .. n
    BY <1>2
  <2>2. u[i + 1] - u[i] > o[i] - o[i + 1]
    BY <2>1 DEF Timeline
  <2> HIDE DEF L
  <2> QED BY <1>1, <2>1, <2>2
<1> HIDE DEF L
<1>4. Rises(n, L)
  BY <1>2, <1>3, Ascending DEF Rises
<1> QED BY <1>1, <1>4 DEF L

LEMMA SegmentOnce ==
    ASSUME NEW n, NEW a, Rises(n, a), NEW x \in Int, NEW k, Between(n, a, x, k), NEW j, Between(n, a, x, j)
    PROVE  j = k
<1>1. n \in Nat /\ k \in 0 .. n /\ j \in 0 .. n
  BY DEF Rises, Between
<1>2. \A i \in 1 .. n : (a[i] <= x <=> i <= k) /\ (a[i] <= x <=> i <= j)
  BY SegmentSplits
<1>3. CASE j < k
  <2>1. k \in 1 .. n
    BY <1>1, <1>3
  <2> QED BY <1>1, <1>2, <1>3, <2>1
<1>4. CASE k < j
  <2>1. j \in 1 .. n
    BY <1>1, <1>4
  <2> QED BY <1>1, <1>2, <1>4, <2>1
<1> QED BY <1>1, <1>3, <1>4

(* One local time is not shown on both sides of two transitions.           *)
LEMMA NotTwoApart ==
    ASSUME NEW n, NEW u, NEW o, Timeline(n, u, o),
           NEW t \in Int, NEW k, Between(n, u, t, k),
           NEW s \in Int, NEW j, Between(n, u, s, j), t + o[k] = s + o[j]
    PROVE  j <= k + 1
<1> SUFFICES ASSUME j > k + 1 PROVE FALSE
  <2>1. j \in Int /\ k \in Int
    BY DEF Between
  <2> QED BY <2>1
<1>1. /\ n \in Nat /\ k \in 0 .. n /\ j \in 0 .. n /\ k + 2 <= j
      /\ k + 1 \in 1 .. n - 1 /\ k + 1 \in 1 .. n /\ k + 2 \in 1 .. n /\ (k + 1) + 1 = k + 2
      /\ \A i \in 1 .. n : u[i] \in Int
      /\ o[k] \in Int /\ o[j] \in Int
  BY DEF Between, Timeline
<1>2. t < u[k + 1]
  BY <1>1 DEF Between
<1>3. u[k + 2] <= s
  <2>1. Rises(n, u)
    BY TimesRise
  <2> QED BY <1>1, <2>1, SegmentSplits
<1>4. u[(k + 1) + 1] - u[k + 1] > o[k] - o[j]
  BY <1>1 DEF Timeline
<1>5. u[k + 2] \in Int /\ u[k + 1] \in Int /\ u[k + 2] - u[k + 1] > o[k] - o[j]
  BY <1>1, <1>4
<1> QED BY <1>1, <1>2, <1>3, <1>5

(* The offset that findLocalTimeOf gives for x behind h local times.       *)
Resolve(n, u, o, x, post, h) ==
    IF h = 0 THEN o[0] ELSE IF h = n THEN o[n]
    ELSE IF u[h + 1] - 1 + o[h] < x THEN IF post THEN o[h + 1] ELSE o[h]
    ELSE IF h >= 2 /\ x <= u[h] - 1 + o[h - 1] THEN IF post THEN o[h] ELSE o[h - 1]
    ELSE o[h]

LEMMA Searched ==
    ASSUME NEW z, IsZoneFile(z), NEW x \in Int, NEW post \in BOOLEAN,
           NEW h, Between(Len(z.trans), LocalTimes(z), x, h)
    PROVE  findLocalTimeOf(DataOf(z), x, post).utcOffset =
               Resolve(Len(z.trans), UtcTimes(z), OffsetNo(z), x, post, h)
<1> DEFINE n == Len(z.trans)
           u == UtcTimes(z)
           o == OffsetNo(z)
           L == LocalTimes(z)
           d == DataOf(z)
           i == upper_bound(localtimesOf(d), x)
           prior == IF i = 2 THEN [trans |-> 1, second |-> PriorSecond(d, 2)]
                    ELSE [trans |-> i - 2, second |-> PriorSecond(d, i - 1)]
<1>1. /\ Len(d.transitions) = n /\ d.localtimes[1].utcOffset = o[0]
      /\ localtimesOf(d) = L
  BY DataParts
<1>2. /\ \A m \in 1 .. n : LocalTime(d, m).utcOffset = o[m]
      /\ \A m \in 2 .. n : PriorSecond(d, m) = u[m] - 1 + o[m - 1]
  BY DataParts
<1>3. Timeline(n, u, o) /\ L = Locals(n, u, o)
  BY ZoneTimeline DEF LocalTimes, Locals
<1>4. Rises(n, L) /\ Len(L) = n
  <2>1. Rises(n, Locals(n, u, o)) /\ n \in Nat
    BY <1>3, LocalsRise DEF Timeline
  <2>2. Len(Locals(n, u, o)) = n
    BY <2>1 DEF Locals
  <2> QED BY <1>3, <2>1, <2>2
<1>5. i = h + 1
  <2> HIDE DEF n, L
  <2> QED BY <1>1, <1>4, UpperBound DEF n, L
<1>6. findLocalTimeOf(d, x, post) =
          IF n = 0 \/ x < L[1] THEN d.localtimes[1]
          ELSE IF i > n THEN LocalTime(d, n)
          ELSE IF PriorSecond(d, i) < x THEN LocalTime(d, IF post THEN i ELSE i - 1)
          ELSE IF x <= prior.second THEN LocalTime(d, IF post THEN i - 1 ELSE prior.trans)
          ELSE LocalTime(d, i - 1)
  BY <1>1 DEF findLocalTimeOf
<1>7. /\ n \in Nat /\ h \in 0 .. n /\ (n = 0 \/ x < L[1] <=> h = 0)
      /\ \A m \in 0 .. n : o[m] \in Int
      /\ \A m \in 1 .. n : u[m] \in Int
  <2>1. n \in Nat /\ h \in 0 .. n /\ \A m \in 1 .. n : L[m] \in Int /\ (L[m] <= x <=> m <= h)
    BY <1>4, SegmentSplits DEF Between, Rises
  <2>2. n = 0 \/ x < L[1] <=> h = 0
    <3> HIDE DEF n, L
    <3>1. CASE n = 0
      BY <2>1, <3>1
    <3>2. CASE n # 0
      <4>1. 1 \in 1 .. n
        BY <2>1, <3>2
      <4>2. L[1] \in Int /\ (L[1] <= x <=> 1 <= h)
        BY <2>1, <4>1
      <4> QED BY <2>1, <3>2, <4>2
    <3> QED BY <3>1, <3>2
  <2>3. /\ \A m \in 0 .. n : o[m] \in Int
        /\ \A m \in 1 .. n : u[m] \in Int
    BY <1>3 DEF Timeline
  <2> QED BY <2>1, <2>2, <2>3
<1> DEFINE f == findLocalTimeOf(d, x, post)
           R == Resolve(n, u, o, x, post, h)
<1> SUFFICES f.utcOffset = R
  OBVIOUS
<1> HIDE DEF i, n, u, o, L, d, f
<1>8. CASE h = 0
  BY <1>1, <1>6, <1>7, <1>8 DEF Resolve, f
<1>9. CASE h # 0 /\ h = n
  <2>1. f = LocalTime(d, n) /\ n \in 1 .. n
    BY <1>5, <1>6, <1>7, <1>9 DEF f
  <2> QED BY <1>2, <1>9, <2>1 DEF Resolve
<1>10. CASE h # 0 /\ h # n
  <2>1. h \in 1 .. n - 1 /\ h \in 1 .. n /\ h + 1 \in 2 .. n /\ h + 1 \in 1 .. n
    BY <1>7, <1>10
  <2>2. /\ i = h + 1 /\ i - 1 = h /\ i - 2 = h - 1 /\ ~(i > n)
        /\ PriorSecond(d, i) = u[h + 1] - 1 + o[h] /\ PriorSecond(d, i) \in Int
    <3>1. PriorSecond(d, h + 1) = u[h + 1] - 1 + o[(h + 1) - 1] /\ (h + 1) - 1 = h
      BY <1>2, <2>1
    <3>2. u[h + 1] \in Int /\ o[h] \in Int
      BY <1>7, <2>1
    <3> QED BY <1>5, <1>7, <2>1, <3>1, <3>2
  <2>3. f = IF PriorSecond(d, i) < x THEN LocalTime(d, IF post THEN i ELSE i - 1)
            ELSE IF x <= prior.second THEN LocalTime(d, IF post THEN i - 1 ELSE prior.trans)
            ELSE LocalTime(d, i - 1)
    BY <1>6, <1>7, <1>10, <2>2 DEF f
  <2>4. LocalTime(d, h).utcOffset = o[h] /\ LocalTime(d, h + 1).utcOffset = o[h + 1]
    BY <1>2, <2>1
  <2>5. CASE PriorSecond(d, i) < x
    BY <1>10, <2>2, <2>3, <2>4, <2>5 DEF Resolve
  <2>6. CASE ~(PriorSecond(d, i) < x) /\ h = 1
    <3>1. prior.trans = 1 /\ i = 2
      BY <2>2, <2>6
    <3> HIDE DEF prior
    <3>2. f = LocalTime(d, 1)
      BY <2>2, <2>3, <2>6, <3>1
    <3> QED BY <1>10, <2>2, <2>4, <2>6, <3>2 DEF Resolve
  <2>7. CASE ~(PriorSecond(d, i) < x) /\ h # 1
    <3>1. h >= 2 /\ h \in 2 .. n /\ h - 1 \in 1 .. n
      BY <1>7, <2>1, <2>7
    <3>2. prior.trans = h - 1 /\ prior.second = u[h] - 1 + o[h - 1]
      BY <1>2, <2>2, <3>1
    <3>3. LocalTime(d, h - 1).utcOffset = o[h - 1]
      BY <1>2, <3>1
    <3> HIDE DEF prior
    <3> QED BY <1>10, <2>2, <2>3, <2>4, <2>7, <3>1, <3>2, <3>3 DEF Resolve
  <2> QED BY <2>5, <2>6, <2>7
<1> QED BY <1>8, <1>9, <1>10

(* The instants a and b (perhaps the same) are those at which x is shown,  *)
(* k and m the transitions before them.                                    *)
ShownAtBoth(n, u, o, x, a, k, b, m) ==
    /\ a \in Int /\ b \in Int /\ a <= b
    /\ Between(n, u, a, k) /\ a + o[k] = x
    /\ Between(n, u, b, m) /\ b + o[m] = x
    /\ \A s \in Int : \A j : Between(n, u, s, j) /\ s + o[j] = x => s \in {a, b}

ShownTwice(n, u, o, x, a, k, b) ==
    /\ k \in 0 .. n - 1
    /\ ShownAtBoth(n, u, o, x, a, k, b, k + 1)
    /\ a < u[k + 1] /\ u[k + 1] <= b

(* Shown before and behind a transition, x is shown nowhere else.          *)
LEMMA TwiceOnly ==
    ASSUME NEW n, NEW u, NEW o, Timeline(n, u, o), NEW x \in Int, NEW k \in 0 .. n - 1,
           NEW a \in Int, Between(n, u, a, k), a + o[k] = x,
           NEW b \in Int, Between(n, u, b, k + 1), b + o[k + 1] = x
    PROVE  ShownTwice(n, u, o, x, a, k, b)
<1>1. /\ n \in Nat /\ k + 1 \in 1 .. n /\ k + 1 \in 0 .. n /\ k \in 0 .. n
      /\ u[k + 1] \in Int /\ o[k] \in Int /\ o[k + 1] \in Int
  BY DEF Timeline
<1>2. a < u[k + 1] /\ u[k + 1] <= b
  BY <1>1 DEF Between
<1>3. ASSUME NEW s \in Int, NEW j, Between(n, u, s, j), s + o[j] = x
      PROVE  s \in {a, b}
  <2>1. j \in 0 .. n /\ o[j] \in Int
    BY <1>3 DEF Between, Timeline
  <2>2. j <= k + 1
    BY <1>3, NotTwoApart
  <2>3. k + 1 <= j + 1
    BY <1>1, <1>3, NotTwoApart
  <2>4. j = k \/ j = k + 1
    BY <1>1, <2>1, <2>2, <2>3
  <2>5. CASE j = k
    BY <1>1, <1>3, <2>5
  <2>6. CASE j = k + 1
    BY <1>1, <1>3, <2>6
  <2> QED BY <2>4, <2>5, <2>6
<1>4. a <= b
  BY <1>1, <1>2
<1> QED BY <1>1, <1>2, <1>3, <1>4 DEF ShownTwice, ShownAtBoth

(* The transition between the two is an inner one, or the first or last.   *)
LEMMA InnerTransition ==
    ASSUME NEW n, NEW u, NEW o, Timeline(n, u, o), NEW x, NEW a, NEW k, NEW b,
           ShownTwice(n, u, o, x, a, k, b)
    PROVE  (\E i \in 2 .. n - 1 : u[i] \in a + 1 .. b) <=> k + 1 \in 2 .. n - 1
<1>1. /\ n \in Nat /\ k \in 0 .. n - 1 /\ a \in Int /\ b \in Int
      /\ Between(n, u, a, k) /\ Between(n, u, b, k + 1) /\ a < u[k + 1] /\ u[k + 1] <= b
  BY DEF ShownTwice, ShownAtBoth, Timeline
<1>2. Rises(n, u) /\ \A i \in 1 .. n : u[i] \in Int
  BY TimesRise DEF Timeline
<1>3. \A i \in 1 .. n : (u[i] <= a <=> i <= k) /\ (u[i] <= b <=> i <= k + 1)
  BY <1>1, <1>2, SegmentSplits
<1>4. ASSUME NEW i \in 2 .. n - 1, u[i] \in a + 1 .. b
      PROVE  k + 1 \in 2 .. n - 1
  <2>1. i \in 1 .. n
    BY <1>1
  <2>2. ~(u[i] <= a) /\ u[i] <= b
    BY <1>1, <1>2, <1>4, <2>1
  <2>3. i = k + 1
    BY <1>1, <1>3, <2>1, <2>2
  <2> QED BY <2>3
<1>5. ASSUME k + 1 \in 2 .. n - 1
      PROVE  \E i \in 2 .. n - 1 : u[i] \in a + 1 .. b
  <2>1. k + 1 \in 1 .. n
    BY <1>1
  <2>2. u[k + 1] \in a + 1 .. b
    BY <1>1, <1>2, <2>1
  <2> QED BY <1>5, <2>2
<1> QED BY <1>4, <1>5

(* Which of the two findLocalTimeOf leads back to.                         *)
Wanted(n, u, post, a, b) ==
    IF a = b \/ (~post /\ \E i \in 2 .. n - 1 : u[i] \in a + 1 .. b) THEN a ELSE b

LEMMA WantedOfTwo ==
    ASSUME NEW n, NEW u, NEW o, Timeline(n, u, o), NEW x, NEW a, NEW k, NEW b,
           ShownTwice(n, u, o, x, a, k, b), NEW post \in BOOLEAN
    PROVE  Wanted(n, u, post, a, b) = IF ~post /\ k + 1 \in 2 .. n - 1 THEN a ELSE b
<1>1. a # b
  <2>1. a \in Int /\ b \in Int /\ k \in 0 .. n - 1 /\ n \in Nat /\ a < u[k + 1] /\ u[k + 1] <= b
    BY DEF ShownTwice, ShownAtBoth, Timeline
  <2>2. u[k + 1] \in Int
    BY <2>1 DEF Timeline
  <2> QED BY <2>1, <2>2
<1> QED BY <1>1, InnerTransition DEF Wanted

LEMMA ResolvedAs ==
    ASSUME NEW n, NEW u, NEW o, Timeline(n, u, o),
           NEW t \in Int, NEW k, Between(n, u, t, k), NEW x \in Int, x = t + o[k],
           NEW h, Between(n, Locals(n, u, o), x, h)
    PROVE  \E a, i, b, j :
               /\ ShownAtBoth(n, u, o, x, a, i, b, j)
               /\ \A post \in BOOLEAN : x - Resolve(n, u, o, x, post, h) = Wanted(n, u, post, a, b)
<1> DEFINE L == Locals(n, u, o)
<1>1. /\ n \in Nat /\ k \in 0 .. n /\ h \in 0 .. n /\ x \in Int
      /\ \A i \in 0 .. n : o[i] \in Int
      /\ \A i \in 1 .. n : u[i] \in Int
  BY DEF Timeline, Between
<1>2. \A i \in 1 .. n : u[i] <= t <=> i <= k
  BY TimesRise, SegmentSplits
<1>3. \A i \in 1 .. n : u[i] + o[i] <= x <=> i <= h
  <2>1. Rises(n, L) /\ \A i \in 1 .. n : L[i] = u[i] + o[i]
    BY LocalsRise
  <2>2. \A i \in 1 .. n : L[i] <= x <=> i <= h
    BY <1>1, <2>1, SegmentSplits
  <2> HIDE DEF L
  <2> QED BY <2>1, <2>2
<1>4. \A i \in 1 .. n - 1 : \A p, q \in 0 .. n : u[i + 1] - u[i] > o[p] - o[q]
  BY DEF Timeline
<1>5. x = t + o[k] /\ t \in Int
  OBVIOUS
<1>6. k <= h
  <2>1. CASE k = 0
    BY <1>1, <2>1
  <2>2. CASE k # 0
    <3>1. k \in 1 .. n /\ u[k] \in Int /\ o[k] \in Int
      BY <1>1, <2>2
    <3>2. u[k] <= t
      BY <1>2, <3>1
    <3>3. u[k] + o[k] <= x
      BY <1>5, <3>1, <3>2
    <3> QED BY <1>3, <3>1, <3>3
  <2> QED BY <2>1, <2>2
<1>7. h <= k + 1
  <2> SUFFICES ASSUME k + 2 <= n PROVE h < k + 2
    BY <1>1
  <2>1. k + 1 \in 1 .. n - 1 /\ k + 1 \in 1 .. n /\ k + 2 \in 1 .. n /\ (k + 1) + 1 = k + 2
        /\ k + 2 \in 0 .. n /\ k \in 0 .. n
    BY <1>1
  <2>2. u[(k + 1) + 1] - u[k + 1] > o[k] - o[k + 2]
    BY <1>4, <2>1
  <2>3. ~(u[k + 1] <= t)
    BY <1>1, <1>2, <2>1
  <2>4. u[k + 1] \in Int /\ u[k + 2] \in Int /\ o[k] \in Int /\ o[k + 2] \in Int
    BY <1>1, <2>1
  <2>5. ~(u[k + 2] + o[k + 2] <= x)
    BY <1>5, <2>1, <2>2, <2>3, <2>4
  <2> QED BY <1>1, <1>3, <2>1, <2>5
<1> HIDE DEF L
(* x is shown before transition k + 1 and behind it. *)
<1>8. CASE h = k + 1
  <2> DEFINE b == x - o[k + 1]
  <2>1. k \in 0 .. n - 1 /\ k + 1 \in 1 .. n /\ k + 1 \in 0 .. n /\ k \in 0 .. n
    BY <1>1, <1>8
  <2>2. /\ u[k + 1] \in Int /\ o[k] \in Int /\ o[k + 1] \in Int /\ b \in Int /\ b + o[k + 1] = x
    BY <1>1, <2>1
  <2>3. t < u[k + 1] /\ u[k + 1] <= b
    <3>1. ~(u[k + 1] <= t)
      BY <1>1, <1>2, <2>1
    <3>2. u[k + 1] + o[k + 1] <= x
      BY <1>1, <1>3, <1>8, <2>1
    <3> QED BY <1>1, <2>2, <3>1, <3>2
  <2>4. k + 1 < n => b < u[k + 2] /\ u[k + 2] \in Int /\ u[(k + 1) + 1] = u[k + 2]
    <3> SUFFICES ASSUME k + 1 < n PROVE b < u[k + 2] /\ u[k + 2] \in Int /\ u[(k + 1) + 1] = u[k + 2]
      OBVIOUS
    <3>1. k + 2 \in 1 .. n /\ ~(k + 2 <= h) /\ (k + 1) + 1 = k + 2
      BY <1>1, <1>8
    <3>2. k + 1 \in 1 .. n - 1
      BY <1>1, <2>1
    <3>3. u[(k + 1) + 1] - u[k + 1] > o[k] - o[k + 1]
      BY <1>4, <2>1, <3>2
    <3>4. u[k + 2] - u[k + 1] > o[k] - o[k + 1] /\ u[k + 2] \in Int
      BY <1>1, <3>1, <3>3
    <3> QED BY <1>5, <2>2, <2>3, <3>1, <3>4
  <2> HIDE DEF b
  <2>5. Between(n, u, b, k + 1)
    BY <2>1, <2>3, <2>4 DEF Between
  <2>6. ShownTwice(n, u, o, x, t, k, b)
    BY <1>1, <1>5, <2>1, <2>2, <2>5, TwiceOnly
  <2>7. ASSUME NEW post \in BOOLEAN
        PROVE  x - Resolve(n, u, o, x, post, h) = Wanted(n, u, post, t, b)
    <3>1. Wanted(n, u, post, t, b) = IF ~post /\ k + 1 \in 2 .. n - 1 THEN t ELSE b
      BY <2>6, WantedOfTwo
    <3>2. x - o[k + 1] = b /\ x - o[k] = t
      BY <1>1, <1>5, <2>2
    <3>3. CASE h = n
      <4>1. Resolve(n, u, o, x, post, h) = o[k + 1]
        BY <1>8, <2>1, <3>3 DEF Resolve
      <4>2. ~(k + 1 \in 2 .. n - 1)
        BY <1>8, <1>1, <3>3
      <4> QED BY <3>1, <3>2, <4>1, <4>2
    <3>4. CASE h # n
      <4>1. h # 0 /\ k + 1 < n /\ h + 1 = k + 2 /\ h - 1 = k
        BY <1>1, <1>8, <2>1, <3>4
      <4>2. ~(u[h + 1] - 1 + o[h] < x)
        BY <1>1, <1>8, <2>2, <2>4, <4>1
      <4>3. x <= u[h] - 1 + o[h - 1]
        BY <1>1, <1>5, <1>8, <2>2, <2>3, <4>1
      <4>4. Resolve(n, u, o, x, post, h) = IF h >= 2 THEN IF post THEN o[h] ELSE o[h - 1] ELSE o[h]
        BY <3>4, <4>1, <4>2, <4>3 DEF Resolve
      <4>5. h >= 2 <=> k + 1 \in 2 .. n - 1
        BY <1>1, <1>8, <4>1
      <4> QED BY <1>8, <3>1, <3>2, <4>1, <4>4, <4>5
    <3> QED BY <3>3, <3>4
  <2>8. ShownAtBoth(n, u, o, x, t, k, b, k + 1)
    BY <2>6 DEF ShownTwice
  <2> QED BY <2>7, <2>8
<1>9. CASE h = k /\ k # 0 /\ x <= u[k] - 1 + o[k - 1]
  <2> DEFINE a == x - o[k - 1]
  <2>1. k - 1 \in 0 .. n - 1 /\ (k - 1) + 1 = k /\ k \in 1 .. n /\ k - 1 \in 0 .. n
    BY <1>1, <1>9
  <2>2. /\ u[k] \in Int /\ o[k - 1] \in Int /\ o[k] \in Int /\ a \in Int /\ a + o[k - 1] = x
    BY <1>1, <2>1
  <2>3. a < u[k] /\ u[k] <= t
    <3>1. u[k] <= t
      BY <1>2, <2>1
    <3> QED BY <1>1, <1>9, <2>2, <3>1
  <2>4. k - 1 >= 1 => u[k - 1] <= a
    <3> SUFFICES ASSUME k - 1 >= 1 PROVE u[k - 1] <= a
      OBVIOUS
    <3>1. k - 1 \in 1 .. n - 1 /\ k - 1 \in 1 .. n
      BY <1>1, <2>1
    <3>2. u[(k - 1) + 1] - u[k - 1] > o[k - 1] - o[k]
      BY <1>1, <1>4, <2>1, <3>1
    <3>3. u[k] - u[k - 1] > o[k - 1] - o[k] /\ u[k - 1] \in Int
      BY <1>1, <2>1, <3>1, <3>2
    <3> QED BY <1>5, <2>2, <2>3, <3>3
  <2> HIDE DEF a
  <2>5. Between(n, u, a, k - 1)
    BY <2>1, <2>3, <2>4 DEF Between
  <2>6. ShownTwice(n, u, o, x, a, k - 1, t)
    <3> DEFINE l == k - 1
    <3>1. l \in 0 .. n - 1 /\ l + 1 = k /\ Between(n, u, a, l) /\ a + o[l] = x
      BY <2>1, <2>2, <2>5
    <3> HIDE DEF l
    <3>2. Between(n, u, t, l + 1) /\ t + o[l + 1] = x
      BY <1>5, <3>1
    <3>3. ShownTwice(n, u, o, x, a, l, t)
      BY <1>1, <2>2, <3>1, <3>2, TwiceOnly
    <3> QED BY <3>3 DEF l
  <2>7. ASSUME NEW post \in BOOLEAN
        PROVE  x - Resolve(n, u, o, x, post, h) = Wanted(n, u, post, a, t)
    <3>1. Wanted(n, u, post, a, t) = IF ~post /\ k \in 2 .. n - 1 THEN a ELSE t
      <4> DEFINE l == k - 1
      <4>1. ShownTwice(n, u, o, x, a, l, t) /\ l + 1 = k
        BY <2>1, <2>6
      <4> HIDE DEF l
      <4>2. Wanted(n, u, post, a, t) = IF ~post /\ l + 1 \in 2 .. n - 1 THEN a ELSE t
        BY <4>1, WantedOfTwo
      <4> QED BY <4>1, <4>2
    <3>2. x - o[k - 1] = a /\ x - o[k] = t
      BY <1>1, <1>5, <2>2
    <3>3. CASE k = n
      <4>1. Resolve(n, u, o, x, post, h) = o[k]
        BY <1>9, <3>3 DEF Resolve
      <4>2. ~(k \in 2 .. n - 1)
        BY <1>1, <3>3
      <4> QED BY <3>1, <3>2, <4>1, <4>2
    <3>4. CASE k # n
      <4>1. k + 1 \in 1 .. n /\ u[k + 1] \in Int
        BY <1>1, <2>1, <3>4
      <4>2. ~(u[k + 1] - 1 + o[k] < x)
        <5>1. ~(u[k + 1] <= t)
          BY <1>1, <1>2, <4>1
        <5> QED BY <1>1, <1>5, <2>2, <4>1, <5>1
      <4>3. Resolve(n, u, o, x, post, h) = IF k >= 2 THEN IF post THEN o[k] ELSE o[k - 1] ELSE o[k]
        BY <1>9, <3>4, <4>2 DEF Resolve
      <4>4. k >= 2 <=> k \in 2 .. n - 1
        BY <1>1, <2>1, <3>4
      <4> QED BY <3>1, <3>2, <4>3, <4>4
    <3> QED BY <3>3, <3>4
  <2>8. ShownAtBoth(n, u, o, x, a, k - 1, t, (k - 1) + 1)
    BY <2>6 DEF ShownTwice
  <2> QED BY <2>7, <2>8
<1>10. CASE h = k /\ ~(k # 0 /\ x <= u[k] - 1 + o[k - 1])
  <2>1. ASSUME NEW s \in Int, NEW j, Between(n, u, s, j), s + o[j] = x
        PROVE  s = t
    <3>1. j \in 0 .. n /\ o[j] \in Int /\ o[k] \in Int
      BY <1>1, <2>1 DEF Between
    <3>2. j <= k + 1 /\ k <= j + 1
      <4>1. t + o[k] = s + o[j]
        BY <1>5, <2>1
      <4> QED BY <2>1, <4>1, NotTwoApart
    <3>3. CASE j = k
      BY <1>1, <1>5, <2>1, <3>1, <3>3
    <3>4. CASE j = k + 1
      <4>1. j \in 1 .. n /\ u[j] \in Int /\ ~(j <= h)
        BY <1>1, <1>10, <3>1, <3>4
      <4>2. u[j] <= s
        BY <2>1, <4>1 DEF Between
      <4>3. u[j] + o[j] <= x
        BY <2>1, <3>1, <4>1, <4>2
      <4> QED BY <1>3, <4>1, <4>3
    <3>5. CASE j = k - 1
      <4>1. k \in 1 .. n /\ u[k] \in Int /\ k # 0 /\ j + 1 = k /\ j < n
        BY <1>1, <3>1, <3>5
      <4>2. s < u[k]
        BY <2>1, <4>1 DEF Between
      <4>3. x <= u[k] - 1 + o[k - 1]
        BY <2>1, <3>1, <3>5, <4>1, <4>2
      <4> QED BY <1>10, <4>1, <4>3
    <3> QED BY <1>1, <3>1, <3>2, <3>3, <3>4, <3>5
  <2>2. ShownAtBoth(n, u, o, x, t, k, t, k)
    BY <1>5, <2>1 DEF ShownAtBoth
  <2>3. ASSUME NEW post \in BOOLEAN
        PROVE  x - Resolve(n, u, o, x, post, h) = Wanted(n, u, post, t, t)
    <3>1. Wanted(n, u, post, t, t) = t
      BY DEF Wanted
    <3>2. x - o[k] = t
      BY <1>1, <1>5
    <3>3. Resolve(n, u, o, x, post, h) = o[k]
      <4>1. CASE k = 0 \/ k = n
        BY <1>10, <4>1 DEF Resolve
      <4>2. CASE ~(k = 0 \/ k = n)
        <5>1. k + 1 \in 1 .. n /\ u[k + 1] \in Int /\ o[k] \in Int
          BY <1>1, <4>2
        <5>2. ~(u[k + 1] - 1 + o[k] < x)
          <6>1. ~(u[k + 1] <= t)
            BY <1>1, <1>2, <5>1
          <6> QED BY <1>1, <1>5, <5>1, <6>1
        <5> QED BY <1>10, <4>2, <5>2 DEF Resolve
      <4> QED BY <4>1, <4>2
    <3> QED BY <3>1, <3>2, <3>3
  <2> QED BY <2>2, <2>3
<1> QED BY <1>1, <1>6, <1>7, <1>8, <1>9, <1>10

(* A skipped local time is read with the offset that was asked for, at the *)
(* first transition with the offset before it.                             *)
LEMMA SkippedAs ==
    ASSUME NEW n, NEW u, NEW o, Timeline(n, u, o), NEW t \in Int,
           NEW j, Between(n, u, t - 1, j), NEW k, Between(n, u, t, k),
           NEW x \in t + o[j] .. t + o[k] - 1,
           NEW h, Between(n, Locals(n, u, o), x, h), NEW post \in BOOLEAN
    PROVE  n >= 1 /\ Resolve(n, u, o, x, post, h) = IF post /\ t # u[1] THEN o[k] ELSE o[j]
<1>1. /\ n \in Nat /\ k \in 0 .. n /\ j \in 0 .. n /\ h \in 0 .. n
      /\ \A i \in 0 .. n : o[i] \in Int
      /\ \A i \in 1 .. n : u[i] \in Int
  BY DEF Timeline, Between
<1>2. x \in Int /\ o[j] \in Int /\ o[k] \in Int /\ t + o[j] <= x /\ x < t + o[k]
  BY <1>1
<1>3. Rises(n, u) /\ t - 1 \in Int
  BY TimesRise
<1>4. j # k
  BY <1>2
<1>5. \A i \in 1 .. n : (u[i] <= t <=> i <= k) /\ (u[i] <= t - 1 <=> i <= j)
  BY <1>3, SegmentSplits
<1>6. j <= k
  <2> SUFFICES ASSUME j > k PROVE FALSE
    BY <1>1
  <2>1. j \in 1 .. n /\ u[j] \in Int
    BY <1>1
  <2>2. u[j] <= t - 1 /\ ~(u[j] <= t)
    BY <1>1, <1>5, <2>1
  <2> QED BY <2>1, <2>2
<1>7. k \in 1 .. n /\ u[k] = t
  <2>1. k \in 1 .. n /\ u[k] \in Int
    BY <1>1, <1>4, <1>6
  <2>2. u[k] <= t /\ ~(u[k] <= t - 1)
    BY <1>1, <1>4, <1>5, <1>6, <2>1
  <2> QED BY <2>1, <2>2
<1>8. j = k - 1
  <2>1. CASE k = 1
    BY <1>1, <1>4, <1>6, <2>1
  <2>2. CASE k # 1
    <3>1. k - 1 \in 1 .. n /\ k - 1 < k
      BY <1>1, <1>7, <2>2
    <3>2. u[k - 1] < u[k] /\ u[k - 1] \in Int
      BY <1>1, <1>3, <1>7, <3>1 DEF Rises
    <3>3. u[k - 1] <= t - 1
      BY <1>7, <3>2
    <3>4. k - 1 <= j
      BY <1>5, <3>1, <3>3
    <3> QED BY <1>1, <1>4, <1>6, <1>7, <3>4
  <2> QED BY <2>1, <2>2
<1>9. h = j
  <2>1. Rises(n, Locals(n, u, o)) /\ \A i \in 1 .. n : Locals(n, u, o)[i] = u[i] + o[i]
    BY LocalsRise
  <2>2. j < n /\ j + 1 = k
    BY <1>1, <1>7, <1>8
  <2>3. j >= 1 => Locals(n, u, o)[j] <= x
    <3> SUFFICES ASSUME j >= 1 PROVE Locals(n, u, o)[j] <= x
      OBVIOUS
    <3>1. j \in 1 .. n
      BY <1>1
    <3>2. u[j] < u[k] /\ u[j] \in Int
      BY <1>1, <1>3, <1>7, <2>2, <3>1 DEF Rises
    <3>3. u[j] + o[j] <= x
      BY <1>2, <1>7, <3>2
    <3> QED BY <2>1, <3>1, <3>3
  <2>4. x < Locals(n, u, o)[j + 1]
    BY <1>2, <1>7, <2>1, <2>2
  <2>5. Between(n, Locals(n, u, o), x, j)
    BY <1>1, <2>3, <2>4 DEF Between
  <2> QED BY <1>2, <2>1, <2>5, SegmentOnce
<1>10. h # n /\ h + 1 = k /\ n >= 1 /\ 1 \in 1 .. n
  BY <1>1, <1>7, <1>8, <1>9
<1>11. u[h + 1] - 1 + o[h] < x
  BY <1>2, <1>7, <1>9, <1>10
<1>12. CASE h = 0
  <2>1. t = u[1]
    BY <1>7, <1>10, <1>12
  <2> QED BY <1>9, <1>10, <1>12, <2>1 DEF Resolve
<1>13. CASE h # 0
  <2>1. k # 1
    BY <1>1, <1>7, <1>10, <1>13
  <2>2. 1 < k
    BY <1>7, <2>1
  <2>3. u[1] < u[k] /\ u[1] \in Int /\ u[k] \in Int
    BY <1>1, <1>3, <1>7, <1>10, <2>2 DEF Rises
  <2>4. t # u[1]
    BY <1>7, <2>3
  <2> QED BY <1>9, <1>10, <1>11, <1>13, <2>4 DEF Resolve
<1> QED BY <1>12, <1>13

(* --------------------------- the local time shown ----------------------- *)
LocalInv == LoadInv /\ ClockInv

LEMMA LocalAlways == Spec => []LocalInv
<1>1. Spec => []ClockInv
  BY ClockStarts, ClockStep, PTL DEF Spec
<1>2. LoadInv /\ ClockInv <=> LocalInv
  BY DEF LocalInv
<1> QED BY <1>1, <1>2, LoadAlways, PTL

(* findLocalTime gives the table's offset, which is one of the zone's.      *)
LEMMA OffsetFound ==
    ASSUME zone \in Zones, NEW t \in Int
    PROVE  /\ TableOffset(zone, t) \in OffsetsOf(zone)
           /\ findLocalTime(DataOf(zone), t).utcOffset = TableOffset(zone, t)
<1>1. CASE "east" \in DOMAIN zone
  <2>1. TableOffset(zone, t) = zone.east /\ OffsetsOf(zone) = {zone.east}
    BY <1>1 DEF TableOffset, OffsetsOf
  <2>2. findLocalTime(FixedData(zone.east), t).utcOffset = zone.east
    BY DEF findLocalTime, FixedData, addLocalTime
  <2> QED BY <1>1, <2>1, <2>2, KindOfZone
<1>2. CASE "east" \notin DOMAIN zone
  <2> DEFINE n == Len(zone.trans)
             u == UtcTimes(zone)
             o == OffsetNo(zone)
             d == DataOf(zone)
  <2>1. IsZoneFile(zone)
    BY <1>2, KindOfZone
  <2>2. Timeline(n, u, o) /\ Rises(n, u) /\ \A k \in 0 .. n : o[k] \in OffsetsOf(zone)
    <3>1. Timeline(n, u, o) /\ \A k \in 0 .. n : o[k] \in OffsetsOf(zone)
      BY <2>1, ZoneTimeline
    <3> HIDE DEF n, u, o
    <3> QED BY <3>1, TimesRise
  <2>3. PICK k : Between(n, u, t, k)
    <3> HIDE DEF n, u
    <3> QED BY <2>2, SegmentExists
  <2>4. TableOffset(zone, t) = o[k]
    BY <2>1, <2>3, OffsetInForce
  <2>5. n \in Nat /\ k \in 0 .. n /\ \A i \in 1 .. n : u[i] \in Int /\ (u[i] <= t <=> i <= k)
    <3> HIDE DEF n, u
    <3> QED BY <2>2, <2>3, SegmentSplits DEF Between, Rises
  <2>6. /\ Len(d.transitions) = n /\ (d.transitions = <<>> <=> n = 0)
        /\ d.localtimes[1].utcOffset = o[0] /\ utctimes(d) = u
        /\ \A i \in 1 .. n : LocalTime(d, i).utcOffset = o[i]
    BY <2>1, DataParts
  <2>7. k >= 1 => upper_bound(u, t) = k + 1
    <3>1. Len(u) = n
      BY <2>5 DEF UtcTimes
    <3> HIDE DEF n, u
    <3> QED BY <2>2, <2>3, <3>1, UpperBound
  <2> HIDE DEF n, u, o, d
  <2>8. findLocalTime(d, t) = IF d.transitions = <<>> \/ t < utctimes(d)[1] THEN d.localtimes[1]
                              ELSE LocalTime(d, upper_bound(utctimes(d), t) - 1)
    BY DEF findLocalTime
  <2>9. (n = 0 \/ t < u[1]) <=> k = 0
    <3>1. CASE n = 0
      BY <2>5, <3>1
    <3>2. CASE n # 0
      <4>1. 1 \in 1 .. n
        BY <2>5, <3>2
      <4> QED BY <2>5, <3>2, <4>1
    <3> QED BY <3>1, <3>2
  <2>10. CASE k = 0
    BY <2>2, <2>4, <2>5, <2>6, <2>8, <2>9, <2>10 DEF d
  <2>11. CASE k # 0
    <3>1. k \in 1 .. n /\ k >= 1 /\ (k + 1) - 1 = k
      BY <2>5, <2>11
    <3>2. findLocalTime(d, t) = LocalTime(d, k)
      BY <2>6, <2>7, <2>8, <2>9, <2>11, <3>1
    <3> QED BY <2>2, <2>4, <2>5, <2>6, <3>1, <3>2 DEF d
  <2> QED BY <2>10, <2>11
<1> QED BY <1>1, <1>2

(* The clock two days around now.                                          *)
LEMMA ClockAround ==
    ASSUME LocalInv, NEW m \in -(2 * kSecondsPerDay) .. 2 * kSecondsPerDay
    PROVE  /\ now \in Int /\ now + m \in Int
           /\ BreakTime(now + m) = Shift(utc, m)
           /\ fromUtcTime(BreakTime(now + m)) = now + m
<1>1. Shows(utc, now) /\ now \in Int
  BY DEF LocalInv, ClockInv, Shows
<1>2. utc.year >= 2
  <2>1. MinYear > 2 /\ MinYear \in Nat /\ MaxYear \in Nat
    BY ZoneAssumption, Units
  <2>2. utc.year \in MinYear - 1 .. MaxYear + 1
    BY DEF LocalInv, ClockInv
  <2> QED BY <2>1, <2>2
<1>3. Shows(Shift(utc, m), now + m)
  BY <1>1, <1>2, ShiftShows
<1>4. now + m \in Int /\ BreakTime(now + m) = Shift(utc, m)
  BY <1>3, ShownOnce
<1>5. fromUtcTime(Shift(utc, m)) = now + m
  BY <1>3, FromUtc DEF Shows
<1> QED BY <1>1, <1>4, <1>5

LEMMA OffsetsNear ==
    ASSUME zone \in Zones
    PROVE  OffsetsOf(zone) \subseteq -(2 * kSecondsPerDay) .. 2 * kSecondsPerDay
BY ZoneAssumption DEF Zones

LEMMA LocalShown ==
    ASSUME LocalInv, Running
    PROVE  /\ data_ = DataOf(zone)
           /\ TableOffset(zone, now) \in Int
           /\ toLocalTime(data_, now) = BreakTime(now + TableOffset(zone, now))
           /\ toLocalTime(data_, now) = Shift(utc, TableOffset(zone, now))
           /\ fromUtcTime(toLocalTime(data_, now)) = now + TableOffset(zone, now)
<1> DEFINE m == TableOffset(zone, now)
<1>1. zone \in Zones /\ data_ = DataOf(zone) /\ now \in Int
  BY DEF LocalInv, LoadInv, Running, ClockInv
<1>2. m \in OffsetsOf(zone) /\ findLocalTime(DataOf(zone), now).utcOffset = m
  BY <1>1, OffsetFound
<1>3. m \in -(2 * kSecondsPerDay) .. 2 * kSecondsPerDay
  BY <1>1, <1>2, OffsetsNear
<1>4. m \in Int
  BY <1>3, SecondsOfDay
<1>5. toLocalTime(data_, now) = BreakTime(now + m)
  BY <1>1, <1>2 DEF toLocalTime
<1> HIDE DEF m
<1>6. BreakTime(now + m) = Shift(utc, m) /\ fromUtcTime(BreakTime(now + m)) = now + m
  BY <1>3, ClockAround
<1> QED BY <1>1, <1>4, <1>5, <1>6 DEF m

(* What kinds of zones there are, as WithinTable asks for them.            *)
LEMMA KnownZone ==
    ASSUME zone \in Zones
    PROVE  "east" \in DOMAIN zone \/ IsZoneFile(zone)
BY KindOfZone

(* Within the table of transitions toLocalTime shows UTC shifted by the    *)
(* offset in force, for every zone file and every fixed offset: at every   *)
(* second but those before the first transition of a zone whose first type *)
(* is daylight time and those from the first move of the TZ string on      *)
(* (TimeZone.cc, findLocalTime, its binary search and its FIXMEs,          *)
(* BreakTime).                                                             *)
THEOREM LocalTimesAreShown == Spec => []LocalTimeShown
<1>1. ASSUME LocalInv, Running, InTable(zone, now)
      PROVE  toLocalTime(data_, now) = Shift(utc, OffsetAt(zone, now))
  <2>1. zone \in Zones /\ now \in Int
    BY <1>1 DEF LocalInv, LoadInv, ClockInv
  <2>2. OffsetAt(zone, now) = TableOffset(zone, now)
    BY <1>1, <2>1, KnownZone, WithinTable
  <2> QED BY <1>1, <2>2, LocalShown
<1>2. LocalInv => LocalTimeShown
  BY <1>1 DEF LocalTimeShown
<1> QED BY <1>2, LocalAlways, PTL

(* --------------------------- back to the instant ------------------------ *)
(* The instants at which the table shows a local time.                     *)
ShownAt(local) == {t \in {local - o : o \in OffsetsOf(zone)} : t + TableOffset(zone, t) = local}

LEMMA FirstAndLast ==
    ASSUME NEW S, NEW a \in Int, NEW b \in Int, a <= b, S = {a, b}
    PROVE  /\ (CHOOSE t \in S : \A s \in S : t <= s) = a
           /\ (CHOOSE t \in S : \A s \in S : s <= t) = b
<1>1. a \in S /\ \A s \in S : a <= s
  OBVIOUS
<1>2. b \in S /\ \A s \in S : s <= b
  OBVIOUS
<1>3. \A t \in S : (\A s \in S : t <= s) => t = a
  OBVIOUS
<1>4. \A t \in S : (\A s \in S : s <= t) => t = b
  OBVIOUS
<1>5. (CHOOSE t \in S : \A s \in S : t <= s) = a
  BY <1>1, <1>3
<1>6. (CHOOSE t \in S : \A s \in S : s <= t) = b
  BY <1>2, <1>4
<1> QED BY <1>5, <1>6

(* Where a local time leads, in terms of the instants at which it is shown. *)
Leads(local, a, b) ==
    \A postTransition \in BOOLEAN :
        local - findLocalTimeOf(DataOf(zone), local, postTransition).utcOffset =
            Wanted(Len(zone.trans), UtcTimes(zone), postTransition, a, b)

LEMMA LeadsOfFile ==
    ASSUME zone \in Zones, "east" \notin DOMAIN zone, NEW t \in Int
    PROVE  LET local == t + TableOffset(zone, t)
           IN  \E a, b \in Int : a <= b /\ ShownAt(local) = {a, b} /\ Leads(local, a, b)
<1> DEFINE n == Len(zone.trans)
           u == UtcTimes(zone)
           o == OffsetNo(zone)
           x == t + TableOffset(zone, t)
<1>1. IsZoneFile(zone)
  BY KindOfZone
<1>2. Timeline(n, u, o) /\ \A k \in 0 .. n : o[k] \in OffsetsOf(zone) /\ o[k] \in Int
  BY <1>1, ZoneTimeline DEF Timeline
<1>3. \A s \in Int : \A k : Between(n, u, s, k) => TableOffset(zone, s) = o[k]
  BY <1>1, OffsetInForce
<1>4. LocalTimes(zone) = Locals(n, u, o)
  BY DEF LocalTimes, Locals
<1>5. \A y \in Int : \A h : Between(n, LocalTimes(zone), y, h) =>
          \A post \in BOOLEAN :
              findLocalTimeOf(DataOf(zone), y, post).utcOffset = Resolve(n, u, o, y, post, h)
  BY <1>1, Searched
<1>6. OffsetsOf(zone) \subseteq Int
  BY <1>1, OffsetsNear, SecondsOfDay
<1> HIDE DEF n, u, o
<1>7. Rises(n, u) /\ Rises(n, Locals(n, u, o))
  BY <1>2, TimesRise, LocalsRise
<1>8. PICK k : Between(n, u, t, k)
  BY <1>7, SegmentExists
<1>9. k \in 0 .. n /\ x = t + o[k] /\ x \in Int
  <2>1. k \in 0 .. n
    BY <1>8 DEF Between
  <2> QED BY <1>2, <1>3, <1>8, <2>1
<1> HIDE DEF x
<1>10. PICK h : Between(n, Locals(n, u, o), x, h)
  BY <1>7, <1>9, SegmentExists
<1>11. PICK a, i, b, j :
           /\ ShownAtBoth(n, u, o, x, a, i, b, j)
           /\ \A post \in BOOLEAN : x - Resolve(n, u, o, x, post, h) = Wanted(n, u, post, a, b)
  BY <1>2, <1>8, <1>9, <1>10, ResolvedAs
<1>12. /\ a \in Int /\ b \in Int /\ a <= b
       /\ Between(n, u, a, i) /\ a + o[i] = x
       /\ Between(n, u, b, j) /\ b + o[j] = x
       /\ \A s \in Int : \A l : Between(n, u, s, l) /\ s + o[l] = x => s \in {a, b}
  BY <1>11 DEF ShownAtBoth
<1>13. ASSUME NEW s \in Int, NEW l, Between(n, u, s, l), s + o[l] = x
       PROVE  s \in ShownAt(x)
  <2>1. TableOffset(zone, s) = o[l] /\ l \in 0 .. n
    BY <1>3, <1>13 DEF Between
  <2>2. o[l] \in OffsetsOf(zone) /\ o[l] \in Int
    BY <1>2, <2>1
  <2>3. s = x - o[l]
    BY <1>9, <1>13, <2>2
  <2> QED BY <1>13, <2>1, <2>2, <2>3 DEF ShownAt
<1>14. ASSUME NEW s \in ShownAt(x)
       PROVE  s \in {a, b}
  <2>1. s + TableOffset(zone, s) = x /\ s \in Int
    BY <1>6, <1>9 DEF ShownAt
  <2>2. PICK l : Between(n, u, s, l)
    BY <1>7, <2>1, SegmentExists
  <2>3. TableOffset(zone, s) = o[l]
    BY <1>3, <2>1, <2>2
  <2> QED BY <1>12, <2>1, <2>2, <2>3
<1>15. ShownAt(x) = {a, b}
  <2>1. a \in ShownAt(x) /\ b \in ShownAt(x)
    BY <1>12, <1>13
  <2> QED BY <1>14, <2>1
<1>16. Leads(x, a, b)
  <2>1. \A post \in BOOLEAN :
            findLocalTimeOf(DataOf(zone), x, post).utcOffset = Resolve(n, u, o, x, post, h)
    BY <1>4, <1>5, <1>9, <1>10
  <2>2. \A post \in BOOLEAN :
            x - findLocalTimeOf(DataOf(zone), x, post).utcOffset = Wanted(n, u, post, a, b)
    BY <1>11, <2>1
  <2> QED BY <2>2 DEF Leads, n, u
<1> QED BY <1>12, <1>15, <1>16 DEF x

LEMMA LeadsOfFixed ==
    ASSUME zone \in Zones, "east" \in DOMAIN zone, NEW t \in Int, NEW postTransition \in BOOLEAN
    PROVE  LET local == t + TableOffset(zone, t)
           IN  /\ ShownAt(local) = {t, t}
               /\ local - findLocalTimeOf(DataOf(zone), local, postTransition).utcOffset = t
<1> DEFINE e == zone.east
           x == t + e
<1>1. OffsetsOf(zone) = {e} /\ \A s : TableOffset(zone, s) = e
  BY DEF OffsetsOf, TableOffset
<1>2. e \in Int
  BY <1>1, OffsetsNear, SecondsOfDay
<1>3. findLocalTimeOf(DataOf(zone), x, postTransition).utcOffset = e
  <2>1. DataOf(zone) = FixedData(e)
    BY KindOfZone
  <2> HIDE DEF x
  <2>2. Len(FixedData(e).transitions) = 0 /\ FixedData(e).localtimes[1].utcOffset = e
    BY DEF FixedData, addLocalTime
  <2> QED BY <2>1, <2>2 DEF findLocalTimeOf
<1> HIDE DEF e
<1>4. x - e = t
  BY <1>2
<1>5. ShownAt(x) = {t, t}
  <2>1. \A s : s \in ShownAt(x) <=> s = x - e /\ s + e = x
    BY <1>1 DEF ShownAt
  <2>2. t + e = x
    OBVIOUS
  <2> HIDE DEF x
  <2> QED BY <1>4, <2>1, <2>2
<1> QED BY <1>1, <1>3, <1>4, <1>5

LEMMA LeadsBack == LocalInv => LocalTimeLeadsBack
<1> DEFINE y == now + OffsetAt(zone, now)
           near == {y - o : o \in OffsetsOf(zone)}
           shown == {t \in near : t + OffsetAt(zone, t) = y}
           Led == \A postTransition \in BOOLEAN :
                      LET f == CHOOSE t \in shown : \A s \in shown : t <= s
                          l == CHOOSE t \in shown : \A s \in shown : s <= t
                      IN  fromLocalTime(data_, toLocalTime(data_, now), postTransition) =
                              IF f = l \/ (~postTransition
                                            /\ \E i \in 2 .. Len(zone.trans) - 1 : zone.trans[i][1] \in f + 1 .. l)
                              THEN f ELSE l
<1> SUFFICES ASSUME LocalInv, Running, \A o \in OffsetsOf(zone) : InTable(zone, y - o)
             PROVE  Led
  <2>1. LocalTimeLeadsBack <=> (Running /\ (\A t \in near : InTable(zone, t)) => Led)
    BY DEF LocalTimeLeadsBack
  <2> HIDE DEF Led, y
  <2> QED BY <2>1
<1> DEFINE x == now + TableOffset(zone, now)
           first == CHOOSE t \in ShownAt(x) : \A s \in ShownAt(x) : t <= s
           last == CHOOSE t \in ShownAt(x) : \A s \in ShownAt(x) : s <= t
           inner == \E i \in 2 .. Len(zone.trans) - 1 : zone.trans[i][1] \in first + 1 .. last
<1>1. /\ data_ = DataOf(zone) /\ fromUtcTime(toLocalTime(data_, now)) = x
      /\ zone \in Zones /\ now \in Int
  BY LocalShown DEF LocalInv, LoadInv, ClockInv
<1>2. \A postTransition \in BOOLEAN :
          x - findLocalTimeOf(DataOf(zone), x, postTransition).utcOffset =
              IF first = last \/ (~postTransition /\ inner) THEN first ELSE last
  <2>1. CASE "east" \in DOMAIN zone
    <3>1. ShownAt(x) = {now, now}
      BY <1>1, <2>1, LeadsOfFixed
    <3>2. \A postTransition \in BOOLEAN :
              x - findLocalTimeOf(DataOf(zone), x, postTransition).utcOffset = now
      BY <1>1, <2>1, LeadsOfFixed
    <3>3. first = now /\ last = now
      <4> HIDE DEF x
      <4> QED BY <1>1, <3>1, FirstAndLast
    <3> HIDE DEF x, first, last, inner
    <3> QED BY <3>2, <3>3
  <2>2. CASE "east" \notin DOMAIN zone
    <3>1. PICK a, b \in Int : a <= b /\ ShownAt(x) = {a, b} /\ Leads(x, a, b)
      BY <1>1, <2>2, LeadsOfFile
    <3>2. first = a /\ last = b
      <4> HIDE DEF x
      <4> QED BY <3>1, FirstAndLast
    <3> HIDE DEF x, first, last
    <3>3. Len(zone.trans) \in Nat
      BY <1>1, <2>2, KindOfZone, BlockParts DEF IsZoneFile
    <3>4. \A i \in 2 .. Len(zone.trans) - 1 : UtcTimes(zone)[i] = zone.trans[i][1]
      <4>1. \A i \in 2 .. Len(zone.trans) - 1 : i \in 1 .. Len(zone.trans)
        BY <3>3
      <4> QED BY <4>1 DEF UtcTimes
    <3>5. \A postTransition \in BOOLEAN :
              Wanted(Len(zone.trans), UtcTimes(zone), postTransition, a, b) =
                  IF first = last \/ (~postTransition /\ inner) THEN first ELSE last
      BY <3>2, <3>4 DEF Wanted
    <3> HIDE DEF inner
    <3> QED BY <3>1, <3>5 DEF Leads
  <2> QED BY <2>1, <2>2
<1>3. \A postTransition \in BOOLEAN :
          fromLocalTime(data_, toLocalTime(data_, now), postTransition) =
              x - findLocalTimeOf(DataOf(zone), x, postTransition).utcOffset
  <2> HIDE DEF x
  <2> QED BY <1>1 DEF fromLocalTime
<1>4. \A postTransition \in BOOLEAN :
          fromLocalTime(data_, toLocalTime(data_, now), postTransition) =
              IF first = last \/ (~postTransition /\ inner) THEN first ELSE last
  <2> HIDE DEF x, first, last, inner
  <2> QED BY <1>2, <1>3
(* All of it lies within the table.                                        *)
<1>5. y = x
  <2>1. OffsetAt(zone, now) \in OffsetsOf(zone) /\ OffsetAt(zone, now) \in Int
    BY <1>1, KnownZone, OffsetOfZone, OffsetsNear, SecondsOfDay
  <2>2. now = y - OffsetAt(zone, now)
    BY <1>1, <2>1
  <2>3. InTable(zone, y - OffsetAt(zone, now))
    <3> HIDE DEF y
    <3> QED BY <2>1
  <2>4. InTable(zone, now)
    <3> HIDE DEF y
    <3> QED BY <2>2, <2>3
  <2> QED BY <1>1, <2>4, KnownZone, WithinTable
<1>6. shown = ShownAt(x)
  <2>1. near \subseteq Int
    <3>1. OffsetsOf(zone) \subseteq Int
      BY <1>1, OffsetsNear, SecondsOfDay
    <3>2. y \in Int
      BY <1>1, <3>1, KnownZone, OffsetOfZone
    <3> HIDE DEF y
    <3> QED BY <3>1, <3>2
  <2>2. \A t \in near : OffsetAt(zone, t) = TableOffset(zone, t)
    <3> SUFFICES ASSUME NEW t \in near
                 PROVE  OffsetAt(zone, t) = TableOffset(zone, t)
      OBVIOUS
    <3>1. t \in Int /\ InTable(zone, t)
      <4> HIDE DEF y
      <4> QED BY <2>1
    <3> QED BY <1>1, <3>1, KnownZone, WithinTable
  <2>3. near = {x - o : o \in OffsetsOf(zone)}
    <3> HIDE DEF x, y
    <3> QED BY <1>5
  <2> HIDE DEF x, y, near
  <2>4. \A t : t \in shown <=> t \in near /\ t + TableOffset(zone, t) = x
    BY <1>5, <2>2
  <2>5. ShownAt(x) = {t \in near : t + TableOffset(zone, t) = x}
    BY <2>3 DEF ShownAt
  <2> HIDE DEF shown
  <2> QED BY <2>4, <2>5
<1> HIDE DEF shown, x
<1> QED BY Zenon, <1>4, <1>6

LEMMA SkippedRead == LocalInv => SkippedTimesRead
<1> SUFFICES ASSUME LocalInv, Running, InTable(zone, now - 1), InTable(zone, now),
                    NEW local \in now + OffsetAt(zone, now - 1) .. now + OffsetAt(zone, now) - 1,
                    NEW postTransition \in BOOLEAN
             PROVE  fromLocalTime(data_, BreakTime(local), postTransition) =
                        local - IF postTransition /\ ~(now = zone.trans[1][1])
                                THEN OffsetAt(zone, now) ELSE OffsetAt(zone, now - 1)
  BY Zenon DEF SkippedTimesRead
<1> DEFINE n == Len(zone.trans)
           u == UtcTimes(zone)
           o == OffsetNo(zone)
           before == TableOffset(zone, now - 1)
           after == TableOffset(zone, now)
           h2 == 2 * kSecondsPerDay
<1>1. zone \in Zones /\ data_ = DataOf(zone) /\ now \in Int /\ now - 1 \in Int
  BY LocalShown DEF LocalInv, LoadInv, ClockInv
<1>0. OffsetAt(zone, now - 1) = before /\ OffsetAt(zone, now) = after
  BY <1>1, KnownZone, WithinTable
<1>2. IsZoneFile(zone)
  <2> SUFFICES ASSUME "east" \in DOMAIN zone PROVE FALSE
    BY <1>1, KindOfZone
  <2>1. before = zone.east /\ after = zone.east /\ zone.east \in Int
    BY <1>1, OffsetsNear, SecondsOfDay DEF TableOffset, OffsetsOf
  <2>2. local \in now + before .. now + after - 1
    BY <1>0
  <2> HIDE DEF before, after
  <2> QED BY <1>1, <2>1, <2>2
<1>3. Timeline(n, u, o)
  BY <1>2, ZoneTimeline
<1>4. \A s \in Int : \A k : Between(n, u, s, k) => TableOffset(zone, s) = o[k]
  BY <1>2, OffsetInForce
<1>5. n >= 1 => u[1] = zone.trans[1][1]
  <2>1. n \in Nat
    BY <1>3 DEF Timeline
  <2> QED BY <2>1 DEF UtcTimes
<1>6. before \in -h2 .. h2 /\ after \in -h2 .. h2 /\ h2 \in Nat
  <2>1. before \in OffsetsOf(zone) /\ after \in OffsetsOf(zone)
    BY <1>1, OffsetFound
  <2>2. h2 \in Nat
    BY SecondsOfDay
  <2> HIDE DEF before, after
  <2> QED BY <1>1, <2>1, <2>2, OffsetsNear
<1>7. local \in Int /\ fromUtcTime(BreakTime(local)) = local
  <2> DEFINE m == local - now
  <2>1. local \in now + before .. now + after - 1
    BY <1>0
  <2> HIDE DEF before, after
  <2>2. local \in Int /\ m \in -h2 .. h2 /\ now + m = local
    <3> HIDE DEF h2
    <3> QED BY <1>1, <1>6, <2>1
  <2> HIDE DEF m
  <2>3. fromUtcTime(BreakTime(now + m)) = now + m
    BY <2>2, ClockAround
  <2> QED BY <2>2, <2>3
<1>8. \A h : Between(n, LocalTimes(zone), local, h) =>
          findLocalTimeOf(DataOf(zone), local, postTransition).utcOffset =
              Resolve(n, u, o, local, postTransition, h)
  BY <1>2, <1>7, Searched
<1>9. LocalTimes(zone) = Locals(n, u, o)
  BY DEF LocalTimes, Locals
<1> HIDE DEF n, u, o
<1>10. Rises(n, u) /\ Rises(n, Locals(n, u, o))
  BY <1>3, TimesRise, LocalsRise
<1>11. PICK j : Between(n, u, now - 1, j)
  BY <1>1, <1>10, SegmentExists
<1>12. PICK k : Between(n, u, now, k)
  BY <1>1, <1>10, SegmentExists
<1>13. PICK h : Between(n, Locals(n, u, o), local, h)
  BY <1>7, <1>10, SegmentExists
<1>14. before = o[j] /\ after = o[k]
  BY <1>1, <1>4, <1>11, <1>12
<1>15. local \in now + o[j] .. now + o[k] - 1
  BY <1>0, <1>14
<1>16. findLocalTimeOf(DataOf(zone), local, postTransition).utcOffset =
           IF postTransition /\ ~(now = zone.trans[1][1]) THEN after ELSE before
  <2>1. /\ n >= 1
        /\ Resolve(n, u, o, local, postTransition, h) =
               IF postTransition /\ now # u[1] THEN o[k] ELSE o[j]
    BY <1>1, <1>3, <1>11, <1>12, <1>13, <1>15, SkippedAs
  <2>2. findLocalTimeOf(DataOf(zone), local, postTransition).utcOffset =
            Resolve(n, u, o, local, postTransition, h)
    BY <1>8, <1>9, <1>13
  <2> HIDE DEF before, after
  <2> QED BY <1>5, <1>14, <2>1, <2>2
<1>17. fromLocalTime(data_, BreakTime(local), postTransition) =
           local - findLocalTimeOf(DataOf(zone), local, postTransition).utcOffset
  BY <1>1, <1>7 DEF fromLocalTime
<1> HIDE DEF before, after
<1> QED BY <1>0, <1>16, <1>17

(* A local time within the table that was shown once leads back to its     *)
(* instant; one shown twice leads to the instant postTransition asks for,  *)
(* at the first and the last transition to the later one; one skipped is   *)
(* read with the offset postTransition asks for, at the first transition   *)
(* with the one before it.  So for every zone file and fixed offset        *)
(* (TimeZone.cc, the second findLocalTime, its branches for skips and      *)
(* repeats and its returns at the ends of the table).                      *)
THEOREM LocalTimesAreResolved == Spec => []LocalTimeResolved
<1>1. LocalInv => LocalTimeResolved
  BY LeadsBack, SkippedRead DEF LocalTimeResolved
<1> QED BY <1>1, LocalAlways, PTL

================================================================================
