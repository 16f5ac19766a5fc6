----------------------------- MODULE Codec_proofs -----------------------------
(***************************************************************************)
(* Proofs about Codec for all Parts, of any number of fields and nesting,  *)
(* and all values.                                                         *)
(***************************************************************************)
EXTENDS BrowserView, SequenceTheorems, WellFoundedInduction, TLAPS

Byte == 0..255

-----------------------------------------------------------------------------
(* Induction, in terms of sets. *)

\* The least number of a set, and induction, in terms of sets.
LEMMA LeastNumber ==
  ASSUME NEW T \in SUBSET Nat, T # {}
  PROVE  \E n \in T : \A m \in T : n <= m
<1>. DEFINE R == OpToRel(<, Nat)
<1>1. IsWellFoundedOn(R, Nat)
  BY NatLessThanWellFounded DEF OpToRel
<1>2. \A p \in Nat \X Nat : p[1] < p[2] => p \in R
  BY DEF OpToRel
<1>. HIDE DEF R
<1>3. PICK n \in T : \A m \in T : ~ (<<m, n>> \in R)
  BY <1>1, WFMin
<1>4. \A m \in T : ~ (m < n)
  <2>1. \A m \in T : <<m, n>> \in Nat \X Nat
    OBVIOUS
  <2>. QED
    BY <1>2, <1>3, <2>1
<1>. QED
  BY <1>4

LEMMA Induction ==
  ASSUME NEW S, 0 \in S, \A n \in Nat : n \in S => n + 1 \in S
  PROVE  Nat \subseteq S
<1>. SUFFICES ASSUME Nat \ S # {} PROVE FALSE
  OBVIOUS
<1>1. PICK n \in Nat \ S : \A m \in Nat \ S : n <= m
  BY LeastNumber
<1>2. n # 0 /\ n - 1 \in Nat
  BY <1>1
<1>3. n - 1 \in S
  BY <1>1, <1>2
<1>. QED
  BY <1>1, <1>2, <1>3

\* A function on 1..n is a sequence of length n.
LEMMA IsSequence ==
  ASSUME NEW S, NEW n \in Nat, NEW f \in [1..n -> S]
  PROVE  f \in Seq(S) /\ Len(f) = n
<1>1. f \in UNION {[1..k -> S] : k \in Nat}
  OBVIOUS
<1>2. Seq(S) = UNION {[1..k -> S] : k \in Nat}
  BY SeqDef, Zenon
<1>3. f \in Seq(S)
  BY <1>1, <1>2, Zenon
<1>4. DOMAIN f = 1..n /\ DOMAIN f = 1..Len(f) /\ Len(f) \in Nat
  BY <1>3, LenProperties
<1>. QED
  BY <1>3, <1>4

-----------------------------------------------------------------------------
(* The bytes of a list of pieces: o[i] is where piece i ends.                *)

EndsAt(s, o, m)  == o[0] = 0 /\ \A i \in 1..m : o[i] = o[i - 1] + Len(s[i])
Ends(s)          == CHOOSE o \in [0..Len(s) -> Nat] : EndsAt(s, o, Len(s))

LEMMA EndsExist ==
  ASSUME NEW S, NEW s \in Seq(Seq(S))
  PROVE  Ends(s) \in [0..Len(s) -> Nat] /\ EndsAt(s, Ends(s), Len(s))
<1>. DEFINE T == {k \in Nat : k <= Len(s) => \E o \in [0..k -> Nat] : EndsAt(s, o, k)}
<1>1. 0 \in T
  <2>. DEFINE o == [i \in 0..0 |-> 0]
  <2>1. o \in [0..0 -> Nat] /\ o[0] = 0
    OBVIOUS
  <2>2. 1..0 = {}
    OBVIOUS
  <2>. HIDE DEF o
  <2>. QED
    BY <2>1, <2>2 DEF EndsAt
<1>2. ASSUME NEW k \in Nat, k \in T PROVE k + 1 \in T
  <2>7. k + 1 \in Nat
    OBVIOUS
  <2>. SUFFICES ASSUME k + 1 <= Len(s)
                PROVE  \E o \in [0..(k + 1) -> Nat] : EndsAt(s, o, k + 1)
    BY <2>7, Zenon
  <2>0. k <= Len(s)
    BY LenProperties
  <2>1. PICK o \in [0..k -> Nat] : EndsAt(s, o, k)
    BY <1>2, <2>0
  <2>2. Len(s[k + 1]) \in Nat
    <3>1. s[k + 1] \in Seq(S)
      OBVIOUS
    <3>. QED
      BY <3>1, LenProperties
  <2>. DEFINE d == [i \in 0..(k + 1) |-> IF i = k + 1 THEN o[k] + Len(s[k + 1]) ELSE o[i]]
  <2>3. \A i \in 0..k : o[i] \in Nat
    BY <2>1
  <2>4. d \in [0..(k + 1) -> Nat]
    BY <2>2, <2>3
  <2>5. d[0] = 0
    BY <2>1 DEF EndsAt
  <2>6. ASSUME NEW i \in 1..(k + 1) PROVE d[i] = d[i - 1] + Len(s[i])
    <3>1. CASE i = k + 1
      BY <3>1
    <3>2. CASE i \in 1..k
      BY <2>1, <3>2 DEF EndsAt
    <3>. QED
      BY <3>1, <3>2
  <2>. QED
    BY <2>4, <2>5, <2>6 DEF EndsAt
<1>3. Nat \subseteq T
  <2>. HIDE DEF T
  <2>. QED
    BY <1>1, <1>2, Induction
<1>4. Len(s) \in Nat
  OBVIOUS
<1>5. \E o \in [0..Len(s) -> Nat] : EndsAt(s, o, Len(s))
  BY <1>3, <1>4
<1>. QED
  BY <1>5 DEF Ends

\* The recursion of FlattenSeq has a value for every list of pieces.
Joins(s, f, m) == \A i \in 1..m : f[i] = IF i = 1 THEN s[i] ELSE f[i - 1] \o s[i]

LEMMA JoinsExist ==
  ASSUME NEW S, NEW s \in Seq(Seq(S))
  PROVE  \E f \in [1..Len(s) -> Seq(S)] : Joins(s, f, Len(s))
<1>. DEFINE T == {k \in Nat : k <= Len(s) => \E f \in [1..k -> Seq(S)] : Joins(s, f, k)}
<1>1. 0 \in T
  <2>. DEFINE f == [i \in 1..0 |-> <<>>]
  <2>1. f \in [1..0 -> Seq(S)] /\ Joins(s, f, 0)
    BY DEF Joins
  <2>. HIDE DEF f
  <2>. QED
    BY <2>1
<1>2. ASSUME NEW k \in Nat, k \in T PROVE k + 1 \in T
  <2>. SUFFICES ASSUME k + 1 <= Len(s)
                PROVE  \E f \in [1..(k + 1) -> Seq(S)] : Joins(s, f, k + 1)
    OBVIOUS
  <2>1. PICK f \in [1..k -> Seq(S)] : Joins(s, f, k)
    BY <1>2
  <2>. DEFINE e == IF k = 0 THEN s[1] ELSE f[k] \o s[k + 1]
              d == [i \in 1..(k + 1) |-> IF i = k + 1 THEN e ELSE f[i]]
  <2>2. e \in Seq(S)
    <3>1. s[k + 1] \in Seq(S)
      OBVIOUS
    <3>2. CASE k = 0
      BY <3>1, <3>2
    <3>3. CASE k # 0
      <4>1. f[k] \in Seq(S)
        BY <2>1, <3>3
      <4>. QED
        BY <3>1, <3>3, <4>1, ConcatProperties
    <3>. QED
      BY <3>2, <3>3
  <2>. HIDE DEF e
  <2>3. d \in [1..(k + 1) -> Seq(S)]
    BY <2>1, <2>2
  <2>4. ASSUME NEW i \in 1..(k + 1)
        PROVE  d[i] = IF i = 1 THEN s[i] ELSE d[i - 1] \o s[i]
    <3>1. CASE i = k + 1
      <4>1. d[i] = e
        BY <3>1
      <4>2. i # 1 => d[i - 1] = f[k] /\ k # 0
        BY <3>1
      <4>. QED
        BY <3>1, <4>1, <4>2 DEF e
    <3>2. CASE i \in 1..k
      <4>1. d[i] = f[i]
        BY <3>2
      <4>2. i # 1 => d[i - 1] = f[i - 1]
        BY <3>2
      <4>. QED
        BY <2>1, <3>2, <4>1, <4>2 DEF Joins
    <3>. QED
      BY <3>1, <3>2
  <2>. QED
    BY <2>3, <2>4 DEF Joins
<1>3. Nat \subseteq T
  <2>. HIDE DEF T
  <2>. QED
    BY <1>1, <1>2, Induction
<1>4. Len(s) \in T
  <2>. HIDE DEF T
  <2>. QED
    BY <1>3, LenProperties
<1>. QED
  BY <1>4

\* One more piece behind the m first ones.
Typed(s, o, m) ==
  \A i \in 1..m : o[i - 1] \in Nat /\ Len(s[i]) \in Nat /\ o[i] = o[i - 1] + Len(s[i])
Piecewise(c, s, o, m) ==
  \A i \in 1..m : o[i] <= Len(c) /\ \A k \in 1..Len(s[i]) : c[o[i - 1] + k] = s[i][k]

LEMMA OneMorePiece ==
  ASSUME NEW S, NEW s, NEW o, NEW m \in Nat, NEW a \in Seq(S), s[m + 1] \in Seq(S),
         Typed(s, o, m), Piecewise(a, s, o, m),
         o[m] = Len(a), o[m + 1] = Len(a) + Len(s[m + 1])
  PROVE  LET c == a \o s[m + 1]
         IN  c \in Seq(S) /\ Len(c) = o[m + 1] /\ Piecewise(c, s, o, m + 1)
<1>. DEFINE b == s[m + 1]
            c == a \o b
<1>. HIDE DEF b
<1>1. b \in Seq(S) /\ Len(a) \in Nat /\ Len(b) \in Nat /\ b = s[m + 1]
  BY LenProperties DEF b
<1>2. /\ c \in Seq(S) /\ Len(c) = Len(a) + Len(b)
      /\ \A j \in 1..(Len(a) + Len(b)) : c[j] = IF j <= Len(a) THEN a[j] ELSE b[j - Len(a)]
  BY <1>1, ConcatProperties
<1>. HIDE DEF c
<1>3. \A k \in 1..Len(b) : c[Len(a) + k] = b[k]
  <2>. SUFFICES ASSUME NEW k \in 1..Len(b) PROVE c[Len(a) + k] = b[k]
    OBVIOUS
  <2>1. Len(a) + k \in 1..(Len(a) + Len(b)) /\ ~(Len(a) + k <= Len(a)) /\ Len(a) + k - Len(a) = k
    BY ONLY <1>1, k \in 1..Len(b)
  <2>. QED
    BY ONLY <1>2, <2>1
<1>4. ASSUME NEW i \in 1..m
      PROVE  o[i] <= Len(c) /\ \A k \in 1..Len(s[i]) : c[o[i - 1] + k] = s[i][k]
  <2>1. /\ o[i - 1] \in Nat /\ Len(s[i]) \in Nat /\ o[i] = o[i - 1] + Len(s[i])
        /\ o[i] <= Len(a) /\ \A k \in 1..Len(s[i]) : a[o[i - 1] + k] = s[i][k]
    BY DEF Piecewise, Typed
  <2>2. ASSUME NEW k \in 1..Len(s[i]) PROVE c[o[i - 1] + k] = s[i][k]
    <3>. DEFINE x == o[i - 1]
                l == Len(s[i])
                la == Len(a)
                lb == Len(b)
    <3>0. x \in Nat /\ l \in Nat /\ x + l <= la /\ la \in Nat /\ lb \in Nat /\ k \in 1..l
      BY <1>1, <2>1
    <3>. HIDE DEF x, l, la, lb
    <3>9. x + k \in 1..(la + lb) /\ x + k <= la
      BY ONLY <3>0
    <3>1. o[i - 1] + k \in 1..(Len(a) + Len(b)) /\ o[i - 1] + k <= Len(a)
      BY <3>9 DEF x, la, lb
    <3>2. c[o[i - 1] + k] = a[o[i - 1] + k]
      BY ONLY <1>2, <3>1
    <3>. QED
      BY <2>1, <3>2
  <2>3. o[i] <= Len(c)
    BY ONLY <1>1, <1>2, <2>1
  <2>. QED
    BY <2>2, <2>3
<1>5. o[m + 1] <= Len(c) /\ \A k \in 1..Len(s[m + 1]) : c[o[m] + k] = s[m + 1][k]
  BY <1>1, <1>2, <1>3
<1>. QED
  <2>1. ASSUME NEW i \in 1..(m + 1)
        PROVE  o[i] <= Len(c) /\ \A k \in 1..Len(s[i]) : c[o[i - 1] + k] = s[i][k]
    <3>1. i = m + 1 \/ i \in 1..m
      OBVIOUS
    <3>2. CASE i = m + 1
      <4>1. i - 1 = m
        BY <3>2
      <4>. QED
        BY <1>5, <3>2, <4>1
    <3>. QED
      BY <1>4, <3>1, <3>2
  <2>. QED
    BY <1>1, <1>2, <2>1 DEF Piecewise, b, c

LEMMA Joined ==
  ASSUME NEW S, NEW s \in Seq(Seq(S)), NEW n \in Nat \ {0}, n = Len(s),
         NEW o \in [0..n -> Nat], EndsAt(s, o, n), NEW g, Joins(s, g, n)
  PROVE  g[n] \in Seq(S) /\ Len(g[n]) = o[n] /\ Piecewise(g[n], s, o, n)
<1>. DEFINE Good(m) == g[m] \in Seq(S) /\ Len(g[m]) = o[m] /\ Piecewise(g[m], s, o, m)
            T == {m \in Nat : m + 1 \in 1..n => Good(m + 1)}
<1>1. ASSUME NEW i \in 1..n
      PROVE  /\ s[i] \in Seq(S) /\ Len(s[i]) \in Nat
             /\ o[i - 1] \in Nat /\ o[i] \in Nat /\ o[i] = o[i - 1] + Len(s[i])
  <2>1. s[i] \in Seq(S)
    BY ElementOfSeq
  <2>2. Len(s[i]) \in Nat
    BY <2>1, LenProperties
  <2>3. i \in 0..n /\ i - 1 \in 0..n
    OBVIOUS
  <2>. QED
    BY <2>1, <2>2, <2>3 DEF EndsAt
<1>2. 0 \in T
  <2>1. 1 \in 1..n
    OBVIOUS
  <2>2. g[1] = s[1] /\ o[1] = o[1 - 1] + Len(s[1]) /\ o[0] = 0 /\ s[1] \in Seq(S) /\ Len(s[1]) \in Nat
    BY <1>1, <2>1 DEF Joins, EndsAt
  <2>3. \A i \in 1..1 : i = 1 /\ i - 1 = 0 /\ \A k \in 1..Len(s[1]) : 0 + k = k
    BY <2>2
  <2>4. Good(1)
    BY <2>2, <2>3 DEF Piecewise
  <2>. QED
    BY <2>4
<1>3. ASSUME NEW m \in Nat, m \in T PROVE m + 1 \in T
  <2>. SUFFICES ASSUME m + 2 \in 1..n PROVE Good(m + 2)
    OBVIOUS
  <2>1. m + 1 \in 1..n /\ m + 2 # 1 /\ (m + 2) - 1 = m + 1 /\ m + 1 \in Nat /\ (m + 1) + 1 = m + 2
    OBVIOUS
  <2>2. Good(m + 1)
    BY <1>3, <2>1
  <2>. HIDE DEF T
  <2>3. g[m + 2] = g[m + 1] \o s[m + 2]
    BY <2>1 DEF Joins
  <2>4. o[m + 2] = o[m + 1] + Len(s[m + 2]) /\ s[m + 2] \in Seq(S)
    BY <1>1, <2>1
  <2>5. Typed(s, o, m + 1)
    <3>1. \A i \in 1..(m + 1) : i \in 1..n
      BY <2>1
    <3>. QED
      BY <1>1, <3>1 DEF Typed
  <2>. DEFINE k == m + 1
  <2>6. /\ g[k] \in Seq(S) /\ Piecewise(g[k], s, o, k) /\ Len(g[k]) = o[k]
        /\ g[k + 1] = g[k] \o s[k + 1] /\ o[k + 1] = Len(g[k]) + Len(s[k + 1])
        /\ s[k + 1] \in Seq(S) /\ k \in Nat /\ k + 1 = m + 2
        /\ Typed(s, o, k)
    BY <2>1, <2>2, <2>3, <2>4, <2>5
  <2>. DEFINE a == g[k]
  <2>7. /\ a \in Seq(S) /\ s[k + 1] \in Seq(S) /\ k \in Nat
        /\ Piecewise(a, s, o, k) /\ o[k] = Len(a) /\ o[k + 1] = Len(a) + Len(s[k + 1])
        /\ Typed(s, o, k)
    BY <2>6
  <2>8. g[k + 1] = a \o s[k + 1] /\ k + 1 = m + 2
    BY <2>6
  <2>. HIDE DEF a, k, Good
  <2>9. /\ a \o s[k + 1] \in Seq(S) /\ Len(a \o s[k + 1]) = o[k + 1]
        /\ Piecewise(a \o s[k + 1], s, o, k + 1)
    BY ONLY <2>7, OneMorePiece
  <2>. QED
    BY <2>8, <2>9 DEF Good
<1>4. Nat \subseteq T
  <2>. HIDE DEF T
  <2>. QED
    BY <1>2, <1>3, Induction
<1>5. n - 1 \in Nat /\ (n - 1) + 1 = n /\ n \in 1..n
  OBVIOUS
<1>6. n - 1 \in T
  <2>. HIDE DEF T
  <2>. QED
    BY <1>4, <1>5
<1>7. Good(n)
  <2>. HIDE DEF Good
  <2>. QED
    BY <1>5, <1>6
<1>. QED
  BY <1>7

\* FlattenSeq puts the pieces one behind the other.
LEMMA Flattened ==
  ASSUME NEW S, NEW s \in Seq(Seq(S))
  PROVE  /\ FlattenSeq(s) \in Seq(S)
         /\ Len(FlattenSeq(s)) = Ends(s)[Len(s)]
         /\ Piecewise(FlattenSeq(s), s, Ends(s), Len(s))
<1>. DEFINE n == Len(s)
            o == Ends(s)
<1>1. n \in Nat /\ o \in [0..n -> Nat] /\ EndsAt(s, o, n)
  BY EndsExist, LenProperties
<1>2. CASE n = 0
  <2>1. s = <<>> /\ FlattenSeq(s) = <<>>
    BY <1>2, EmptySeq DEF FlattenSeq
  <2>. QED
    BY <1>1, <1>2, <2>1 DEF EndsAt, Piecewise
<1>3. CASE n # 0
  <2>. DEFINE g == CHOOSE g : g = [i \in 1..n |-> IF i = 1 THEN s[i] ELSE g[i - 1] \o s[i]]
  <2>1. PICK f \in [1..n -> Seq(S)] : Joins(s, f, n)
    BY JoinsExist
  <2>2. f = [i \in 1..n |-> IF i = 1 THEN s[i] ELSE f[i - 1] \o s[i]]
    BY <2>1 DEF Joins
  <2>3. g = [i \in 1..n |-> IF i = 1 THEN s[i] ELSE g[i - 1] \o s[i]]
    BY <2>2
  <2>4. FlattenSeq(s) = g[n]
    BY <1>3 DEF FlattenSeq
  <2>. HIDE DEF g, o
  <2>5. Joins(s, g, n)
    BY <2>3 DEF Joins
  <2>. HIDE DEF n
  <2>6. g[n] \in Seq(S) /\ Len(g[n]) = o[n] /\ Piecewise(g[n], s, o, n)
    BY ONLY <1>1, <1>3, <2>5, Joined, s \in Seq(Seq(S)) DEF n
  <2>. QED
    BY <2>4, <2>6 DEF n, o
<1>. QED
  BY <1>2, <1>3

-----------------------------------------------------------------------------
(* Recursion over the Parts: the fields of a record nest less deep than it.  *)

LEMMA NestedGrows ==
  ASSUME NEW d \in Nat, NEW e \in Nat, d <= e
  PROVE  Nested(d) \subseteq Nested(e)
<1>1. 1..d \subseteq 1..e
  OBVIOUS
<1>. QED
  BY <1>1 DEF Nested

\* A leaf, or a record whose fields are from D.
Shape(p, D) ==
  \/ p \in Leaf /\ p.type # "Record"
  \/ /\ p \in [type : {"Record"}, name : Text, fields : Seq(D)]
     /\ p.type = "Record" /\ IsUint32(Len(p.fields))

LEMMA LevelShape ==
  ASSUME NEW d \in 1..Len(Parts), NEW p \in Nested(d)
  PROVE  Shape(p, Nested(d - 1))
<1>1. PICK e \in 1..d : p \in Parts[e]
  BY DEF Nested
<1>2. e \in DOMAIN Parts /\ e \in Nat /\ d \in Nat /\ d - 1 \in Nat /\ e - 1 \in Nat /\ e - 1 <= d - 1
  BY PartsAssumption
<1>3. CASE p \in Leaf
  BY <1>3 DEF Leaf, Shape
<1>4. CASE /\ p \in [type : {"Record"}, name : Text, fields : Seq(Nested(e - 1))]
           /\ IsUint32(Len(p.fields))
  <2>1. Nested(e - 1) \subseteq Nested(d - 1)
    BY <1>2, NestedGrows
  <2>2. p.fields \in Seq(Nested(d - 1))
    <3>1. p.fields \in Seq(Nested(e - 1))
      BY <1>4
    <3>. QED
      BY <2>1, <3>1, SeqMonotonic
  <2>. QED
    BY <1>4, <2>2 DEF Shape
<1>. QED
  BY <1>1, <1>2, <1>3, <1>4, PartsAssumption

LEMMA PartShape ==
  ASSUME NEW p \in Part
  PROVE  Shape(p, Part)
<1>1. CASE Len(Parts) = 0
  BY <1>1 DEF Part, Nested
<1>2. CASE Len(Parts) # 0
  <2>1. Len(Parts) \in 1..Len(Parts) /\ Len(Parts) - 1 \in Nat /\ Len(Parts) \in Nat
    BY <1>2, PartsAssumption
  <2>2. Shape(p, Nested(Len(Parts) - 1))
    BY <2>1, LevelShape DEF Part
  <2>3. Nested(Len(Parts) - 1) \subseteq Part
    BY <2>1, NestedGrows DEF Part
  <2>. QED
    BY <2>2, <2>3, SeqMonotonic DEF Shape
<1>. QED
  BY <1>1, <1>2

\* One level of write_schema, with f for the fields.
PerField(f, p)  == [i \in DOMAIN p.fields |-> f[p.fields[i]]]
SchemaBytes(f, p) ==
  <<TypeCode[p.type]>> \o write_string(p.name) \o
    (IF p.type = "Record"
     THEN write_number(Len(p.fields)) \o FlattenSeq(PerField(f, p))
     ELSE <<>>)

LEMMA TypeCodes ==
  /\ "Record" \in DOMAIN TypeCode
  /\ \A t \in DOMAIN TypeCode : TypeCode[t] \in 0..12
  /\ \A t, u \in DOMAIN TypeCode : TypeCode[t] = TypeCode[u] => t = u
<1>1. DOMAIN TypeCode = {"Record", "String", "Double", "Float", "Boolean", "Uint8", "Uint16",
                         "Uint32", "Uint64", "Int8", "Int16", "Int32", "Int64"}
  BY DEF TypeCode
<1>2. \A t \in DOMAIN TypeCode : TypeCode[t] \in 0..12
  BY <1>1 DEF TypeCode
<1>3. \A t, u \in DOMAIN TypeCode : TypeCode[t] = TypeCode[u] => t = u
  BY <1>1 DEF TypeCode
<1>. QED
  BY <1>1, <1>2, <1>3

LEMMA NumberBytes ==
  ASSUME NEW n \in Nat, IsUint32(n)
  PROVE  write_number(n) \in Seq(Byte) /\ Len(write_number(n)) = 4
<1>1. /\ n % 256 \in Byte /\ (n \div 256) % 256 \in Byte /\ (n \div 65536) % 256 \in Byte
      /\ n \div 16777216 \in Byte
  BY SMT DEF Byte, IsUint32
<1>. QED
  BY <1>1, SMT DEF write_number

LEMMA StringBytes ==
  ASSUME NEW t \in Text
  PROVE  write_string(t) \in Seq(Byte) /\ Len(write_string(t)) = Len(t) + 1
<1>1. t \in Seq(Byte) /\ 0 \in Byte
  <2>1. 1..255 \subseteq Byte
    BY DEF Byte
  <2>. QED
    BY <2>1, SeqMonotonic DEF Text, Byte
<1>. QED
  BY <1>1, AppendProperties DEF write_string

Maps(f, D, V) == \A q \in D : f[q] \in V

LEMMA FieldsList ==
  ASSUME NEW D, NEW V, NEW f, Maps(f, D, V), NEW p, p.fields \in Seq(D)
  PROVE  PerField(f, p) \in Seq(V) /\ Len(PerField(f, p)) = Len(p.fields)
<1>. DEFINE n == Len(p.fields)
            s == PerField(f, p)
<1>1. n \in Nat /\ DOMAIN p.fields = 1..n
  BY LenProperties
<1>2. \A i \in 1..n : f[p.fields[i]] \in V
  BY <1>1, ElementOfSeq DEF Maps
<1>3. s \in [1..n -> V]
  BY <1>1, <1>2 DEF PerField
<1>. HIDE DEF s
<1>. QED
  BY <1>1, <1>3, IsSequence DEF s

LEMMA SchemaBytesType ==
  ASSUME NEW D, NEW f, \A q \in D : f[q] \in Seq(Byte), NEW p, Shape(p, D)
  PROVE  SchemaBytes(f, p) \in Seq(Byte)
<1>1. p.name \in Text /\ TypeCode[p.type] \in Byte
  <2>1. p.name \in Text /\ p.type \in DOMAIN TypeCode
    BY TypeCodes DEF Shape, Leaf
  <2>. QED
    BY <2>1, TypeCodes DEF Byte
<1>. DEFINE rest == IF p.type = "Record"
                    THEN write_number(Len(p.fields)) \o FlattenSeq(PerField(f, p)) ELSE <<>>
            type == <<TypeCode[p.type]>>
<1>2. rest \in Seq(Byte)
  <2>1. CASE p.type = "Record"
    <3>1. p.fields \in Seq(D) /\ Len(p.fields) \in Nat /\ IsUint32(Len(p.fields))
      BY <2>1, LenProperties DEF Shape
    <3>2. PerField(f, p) \in Seq(Seq(Byte))
      BY <3>1, FieldsList DEF Maps
    <3>3. FlattenSeq(PerField(f, p)) \in Seq(Byte)
      BY <3>2, Flattened
    <3>4. write_number(Len(p.fields)) \in Seq(Byte)
      BY <3>1, NumberBytes
    <3>. QED
      BY <2>1, <3>3, <3>4, ConcatProperties
  <2>2. CASE p.type # "Record"
    BY <2>2
  <2>. QED
    BY <2>1, <2>2
<1>3. type \in Seq(Byte)
  BY <1>1
<1>4. write_string(p.name) \in Seq(Byte)
  BY <1>1, StringBytes
<1>5. SchemaBytes(f, p) = type \o write_string(p.name) \o rest
  BY DEF SchemaBytes
<1>. HIDE DEF type, rest
<1>6. type \o write_string(p.name) \in Seq(Byte)
  BY <1>3, <1>4, ConcatProperties
<1>. QED
  BY <1>2, <1>5, <1>6, ConcatProperties

LEMMA SchemaBytesAgree ==
  ASSUME NEW D, NEW f, NEW g, \A q \in D : f[q] = g[q], NEW p, Shape(p, D)
  PROVE  SchemaBytes(f, p) = SchemaBytes(g, p)
<1>1. CASE p.type = "Record"
  <2>1. p.fields \in Seq(D)
    BY <1>1 DEF Shape
  <2>2. \A i \in DOMAIN p.fields : p.fields[i] \in D
    BY <2>1, LenProperties, ElementOfSeq
  <2>3. PerField(f, p) = PerField(g, p)
    BY <2>2 DEF PerField
  <2>. QED
    BY <2>3 DEF SchemaBytes
<1>2. CASE p.type # "Record"
  BY <1>2 DEF SchemaBytes
<1>. QED
  BY <1>1, <1>2

WritesSchemas(f, D) == f \in [D -> Seq(Byte)] /\ \A p \in D : f[p] = SchemaBytes(f, p)

LEMMA WriterExists == \E f : WritesSchemas(f, Part)
<1>. DEFINE T == {d \in Nat : d <= Len(Parts) => \E f : WritesSchemas(f, Nested(d))}
<1>1. 0 \in T
  <2>1. Nested(0) = {}
    BY DEF Nested
  <2>2. WritesSchemas([p \in {} |-> <<>>], {})
    BY DEF WritesSchemas
  <2>. QED
    BY <2>1, <2>2
<1>2. ASSUME NEW d \in Nat, d \in T PROVE d + 1 \in T
  <2>. SUFFICES ASSUME d + 1 <= Len(Parts) PROVE \E f : WritesSchemas(f, Nested(d + 1))
    OBVIOUS
  <2>1. PICK f : WritesSchemas(f, Nested(d))
    BY <1>2, PartsAssumption
  <2>. DEFINE D == Nested(d)
              E == Nested(d + 1)
              g == [p \in E |-> SchemaBytes(f, p)]
  <2>2. \A q \in D : q \in E
    BY NestedGrows
  <2>3. ASSUME NEW p \in E PROVE Shape(p, D)
    <3>1. d + 1 \in 1..Len(Parts) /\ (d + 1) - 1 = d
      BY PartsAssumption
    <3>. QED
      BY <3>1, LevelShape
  <2>4. \A q \in D : f[q] \in Seq(Byte) /\ f[q] = SchemaBytes(f, q)
    BY <2>1 DEF WritesSchemas
  <2>. HIDE DEF D, E
  <2>5. \A p \in E : SchemaBytes(f, p) \in Seq(Byte)
    BY <2>3, <2>4, SchemaBytesType
  <2>6. \A q \in D : f[q] = g[q]
    BY <2>2, <2>4
  <2>7. g \in [E -> Seq(Byte)]
    BY <2>5
  <2>8. \A p \in E : g[p] = SchemaBytes(f, p)
    OBVIOUS
  <2>. HIDE DEF g
  <2>9. \A p \in E : SchemaBytes(f, p) = SchemaBytes(g, p)
    BY <2>3, <2>6, SchemaBytesAgree
  <2>10. WritesSchemas(g, E)
    BY <2>7, <2>8, <2>9 DEF WritesSchemas
  <2>. QED
    BY <2>10 DEF E
<1>3. Nat \subseteq T
  <2>. HIDE DEF T
  <2>. QED
    BY <1>1, <1>2, Induction
<1>. QED
  BY <1>3, PartsAssumption DEF Part

LEMMA SchemaWritten ==
  ASSUME NEW p \in Part
  PROVE  write_schema[p] \in Seq(Byte) /\ write_schema[p] = SchemaBytes(write_schema, p)
<1>1. PICK f : WritesSchemas(f, Part)
  BY WriterExists
<1>2. f = [q \in Part |-> SchemaBytes(f, q)]
  BY <1>1 DEF WritesSchemas
<1>3. write_schema = [q \in Part |-> SchemaBytes(write_schema, q)]
  BY <1>2 DEF write_schema, SchemaBytes, PerField
<1>4. \A q \in Part : write_schema[q] = SchemaBytes(write_schema, q)
  BY <1>3
<1>. DEFINE T == {d \in Nat : d <= Len(Parts) => \A q \in Nested(d) : write_schema[q] \in Seq(Byte)}
<1>5. 0 \in T
  BY DEF Nested
<1>6. ASSUME NEW d \in Nat, d \in T PROVE d + 1 \in T
  <2>. SUFFICES ASSUME d + 1 <= Len(Parts), NEW q \in Nested(d + 1)
                PROVE  write_schema[q] \in Seq(Byte)
    OBVIOUS
  <2>1. \A r \in Nested(d) : write_schema[r] \in Seq(Byte)
    BY <1>6, PartsAssumption
  <2>2. d + 1 \in 1..Len(Parts) /\ (d + 1) - 1 = d /\ Len(Parts) \in Nat
    BY PartsAssumption
  <2>3. Shape(q, Nested(d))
    BY <2>2, LevelShape
  <2>4. q \in Part
    BY <2>2, NestedGrows DEF Part
  <2>. QED
    BY <1>4, <2>1, <2>3, <2>4, SchemaBytesType
<1>7. Nat \subseteq T
  <2>. HIDE DEF T
  <2>. QED
    BY <1>5, <1>6, Induction
<1>. QED
  BY <1>4, <1>7, PartsAssumption DEF Part

\* The same for Leaves.
LeafList(f, p) == IF p.type = "Record" THEN FlattenSeq(PerField(f, p)) ELSE <<p>>

LEMMA LeafListType ==
  ASSUME NEW D, NEW f, \A q \in D : f[q] \in Seq(Leaf), NEW p, Shape(p, D)
  PROVE  LeafList(f, p) \in Seq(Leaf)
<1>1. CASE p.type = "Record"
  <2>1. p.fields \in Seq(D)
    BY <1>1 DEF Shape
  <2>2. PerField(f, p) \in Seq(Seq(Leaf))
    BY <2>1, FieldsList DEF Maps
  <2>. QED
    BY <1>1, <2>2, Flattened DEF LeafList
<1>2. CASE p.type # "Record"
  <2>1. p \in Leaf
    BY <1>2 DEF Shape
  <2>. QED
    BY <1>2, <2>1 DEF LeafList
<1>. QED
  BY <1>1, <1>2

LEMMA LeafListAgree ==
  ASSUME NEW D, NEW f, NEW g, \A q \in D : f[q] = g[q], NEW p, Shape(p, D)
  PROVE  LeafList(f, p) = LeafList(g, p)
<1>1. CASE p.type = "Record"
  <2>1. p.fields \in Seq(D)
    BY <1>1 DEF Shape
  <2>2. \A i \in DOMAIN p.fields : p.fields[i] \in D
    BY <2>1, LenProperties, ElementOfSeq
  <2>3. PerField(f, p) = PerField(g, p)
    BY <2>2 DEF PerField
  <2>. QED
    BY <2>3 DEF LeafList
<1>2. CASE p.type # "Record"
  BY <1>2 DEF LeafList
<1>. QED
  BY <1>1, <1>2

ListsLeaves(f, D) == f \in [D -> Seq(Leaf)] /\ \A p \in D : f[p] = LeafList(f, p)

LEMMA ListerExists == \E f : ListsLeaves(f, Part)
<1>. DEFINE T == {d \in Nat : d <= Len(Parts) => \E f : ListsLeaves(f, Nested(d))}
<1>1. 0 \in T
  <2>1. Nested(0) = {}
    BY DEF Nested
  <2>2. ListsLeaves([p \in {} |-> <<>>], {})
    BY DEF ListsLeaves
  <2>. QED
    BY <2>1, <2>2
<1>2. ASSUME NEW d \in Nat, d \in T PROVE d + 1 \in T
  <2>. SUFFICES ASSUME d + 1 <= Len(Parts) PROVE \E f : ListsLeaves(f, Nested(d + 1))
    OBVIOUS
  <2>1. PICK f : ListsLeaves(f, Nested(d))
    BY <1>2, PartsAssumption
  <2>. DEFINE D == Nested(d)
              E == Nested(d + 1)
              g == [p \in E |-> LeafList(f, p)]
  <2>2. \A q \in D : q \in E
    BY NestedGrows
  <2>3. ASSUME NEW p \in E PROVE Shape(p, D)
    <3>1. d + 1 \in 1..Len(Parts) /\ (d + 1) - 1 = d
      BY PartsAssumption
    <3>. QED
      BY <3>1, LevelShape
  <2>4. \A q \in D : f[q] \in Seq(Leaf) /\ f[q] = LeafList(f, q)
    BY <2>1 DEF ListsLeaves
  <2>. HIDE DEF D, E
  <2>5. \A p \in E : LeafList(f, p) \in Seq(Leaf)
    BY <2>3, <2>4, LeafListType
  <2>6. \A q \in D : f[q] = g[q]
    BY <2>2, <2>4
  <2>7. g \in [E -> Seq(Leaf)]
    BY <2>5
  <2>8. \A p \in E : g[p] = LeafList(f, p)
    OBVIOUS
  <2>. HIDE DEF g
  <2>9. \A p \in E : LeafList(f, p) = LeafList(g, p)
    BY <2>3, <2>6, LeafListAgree
  <2>10. ListsLeaves(g, E)
    BY <2>7, <2>8, <2>9 DEF ListsLeaves
  <2>. QED
    BY <2>10 DEF E
<1>3. Nat \subseteq T
  <2>. HIDE DEF T
  <2>. QED
    BY <1>1, <1>2, Induction
<1>. QED
  BY <1>3, PartsAssumption DEF Part

LEMMA LeavesListed ==
  ASSUME NEW p \in Part
  PROVE  Leaves[p] \in Seq(Leaf) /\ Leaves[p] = LeafList(Leaves, p)
<1>1. PICK f : ListsLeaves(f, Part)
  BY ListerExists
<1>2. f = [q \in Part |-> LeafList(f, q)]
  BY <1>1 DEF ListsLeaves
<1>3. Leaves = [q \in Part |-> LeafList(Leaves, q)]
  BY <1>2 DEF Leaves, LeafList, PerField
<1>4. \A q \in Part : Leaves[q] = LeafList(Leaves, q)
  BY <1>3
<1>. DEFINE T == {d \in Nat : d <= Len(Parts) => \A q \in Nested(d) : Leaves[q] \in Seq(Leaf)}
<1>5. 0 \in T
  BY DEF Nested
<1>6. ASSUME NEW d \in Nat, d \in T PROVE d + 1 \in T
  <2>. SUFFICES ASSUME d + 1 <= Len(Parts), NEW q \in Nested(d + 1)
                PROVE  Leaves[q] \in Seq(Leaf)
    OBVIOUS
  <2>1. \A r \in Nested(d) : Leaves[r] \in Seq(Leaf)
    BY <1>6, PartsAssumption
  <2>2. d + 1 \in 1..Len(Parts) /\ (d + 1) - 1 = d /\ Len(Parts) \in Nat
    BY PartsAssumption
  <2>3. Shape(q, Nested(d))
    BY <2>2, LevelShape
  <2>4. q \in Part
    BY <2>2, NestedGrows DEF Part
  <2>. QED
    BY <1>4, <2>1, <2>3, <2>4, LeafListType
<1>7. Nat \subseteq T
  <2>. HIDE DEF T
  <2>. QED
    BY <1>5, <1>6, Induction
<1>. QED
  BY <1>4, <1>7, PartsAssumption DEF Part

-----------------------------------------------------------------------------
(* The readers.  At(pac, at, b): the bytes b are in the packet behind at and  *)
(* before its checksum.                                                       *)

Room(pac) == Len(pac) - 4
At(pac, at, b) == /\ at \in Nat /\ at + Len(b) <= Room(pac)
                  /\ \A k \in 1..Len(b) : pac[at + k] = b[k]

LEMMA AtConcat ==
  ASSUME NEW S, NEW pac \in Seq(S), NEW at, NEW a \in Seq(S), NEW b \in Seq(S), At(pac, at, a \o b)
  PROVE  At(pac, at, a) /\ At(pac, at + Len(a), b)
<1>1. Len(a) \in Nat /\ Len(b) \in Nat /\ Room(pac) \in Int
  BY LenProperties DEF Room
<1>2. /\ Len(a \o b) = Len(a) + Len(b)
      /\ \A i \in 1..(Len(a) + Len(b)) : (a \o b)[i] = IF i <= Len(a) THEN a[i] ELSE b[i - Len(a)]
  BY ConcatProperties
<1>. DEFINE c == a \o b
            la == Len(a)
            lb == Len(b)
            lp == Room(pac)
<1>3. /\ at \in Nat /\ at + (la + lb) <= lp /\ la \in Nat /\ lb \in Nat /\ lp \in Int
      /\ \A k \in 1..(la + lb) : pac[at + k] = c[k] /\ c[k] = IF k <= la THEN a[k] ELSE b[k - la]
  BY <1>1, <1>2 DEF At
<1>. HIDE DEF c, la, lb, lp
<1>4. at + la <= lp /\ at + la \in Nat /\ (at + la) + lb <= lp
  BY <1>3
<1>5. ASSUME NEW k \in 1..la PROVE pac[at + k] = a[k]
  <2>1. k \in 1..(la + lb) /\ k <= la
    BY <1>3
  <2>. QED
    BY <1>3, <2>1
<1>6. ASSUME NEW k \in 1..lb PROVE pac[(at + la) + k] = b[k]
  <2>. DEFINE j == la + k
  <2>1. j \in 1..(la + lb) /\ ~(j <= la) /\ j - la = k /\ at + j = (at + la) + k
    BY <1>3
  <2>. HIDE DEF j
  <2>2. pac[at + j] = c[j] /\ c[j] = b[j - la]
    BY <1>3, <2>1
  <2>. QED
    BY <2>1, <2>2
<1>. QED
  BY <1>3, <1>4, <1>5, <1>6 DEF At, la, lb, lp

LEMMA AtPiece ==
  ASSUME NEW S, NEW pac \in Seq(S), NEW at, NEW s \in Seq(Seq(S)), At(pac, at, FlattenSeq(s)),
         NEW i \in 1..Len(s)
  PROVE  /\ Ends(s)[i - 1] \in Nat /\ Ends(s)[i] = Ends(s)[i - 1] + Len(s[i])
         /\ At(pac, at + Ends(s)[i - 1], s[i])
<1>1. Len(s) \in Nat /\ i - 1 \in 0..Len(s) /\ i \in 0..Len(s) /\ Room(pac) \in Int
  BY LenProperties DEF Room
<1>2. s[i] \in Seq(S) /\ Len(s[i]) \in Nat
  BY ElementOfSeq, LenProperties
<1>3. Ends(s)[i - 1] \in Nat /\ Ends(s)[i] \in Nat /\ Ends(s)[i] = Ends(s)[i - 1] + Len(s[i])
  BY <1>1, EndsExist DEF EndsAt
<1>. DEFINE f == FlattenSeq(s)
            x == Ends(s)[i - 1]
            y == Ends(s)[i]
            l == Len(s[i])
<1>4. /\ Len(f) \in Nat /\ y <= Len(f) /\ \A k \in 1..l : f[x + k] = s[i][k]
  BY Flattened, LenProperties DEF Piecewise
<1>5. /\ at \in Nat /\ at + Len(f) <= Room(pac) /\ \A k \in 1..Len(f) : pac[at + k] = f[k]
  BY DEF At
<1>6. x \in Nat /\ y = x + l /\ l \in Nat
  BY <1>2, <1>3
<1>. HIDE DEF f, x, y, l
<1>7. at + x \in Nat /\ (at + x) + l <= Room(pac)
  <2>. DEFINE lf == Len(f)
              room == Room(pac)
  <2>1. /\ lf \in Nat /\ at \in Nat /\ x \in Nat /\ l \in Nat /\ y = x + l /\ y <= lf
        /\ room \in Int /\ at + lf <= room
    BY <1>1, <1>4, <1>5, <1>6
  <2>. HIDE DEF lf, room
  <2>2. at + x \in Nat /\ (at + x) + l <= room
    BY ONLY <2>1
  <2>. QED
    BY <2>2 DEF room
<1>8. ASSUME NEW k \in 1..l PROVE pac[(at + x) + k] = s[i][k]
  <2>1. x + k \in 1..Len(f) /\ at + (x + k) = (at + x) + k
    <3>. DEFINE lf == Len(f)
    <3>1. /\ lf \in Nat /\ at \in Nat /\ x \in Nat /\ l \in Nat /\ y = x + l /\ y <= lf
          /\ k \in 1..l
      BY <1>4, <1>5, <1>6
    <3>. HIDE DEF lf
    <3>2. x + k \in 1..lf /\ at + (x + k) = (at + x) + k
      BY ONLY <3>1
    <3>. QED
      BY <3>2 DEF lf
  <2>. QED
    BY <1>4, <1>5, <2>1
<1>. QED
  BY <1>3, <1>7, <1>8 DEF At, x, l

\* get_string finds what write_string wrote.
LEMMA StringRead ==
  ASSUME NEW S, NEW pac \in Seq(S), NEW at, NEW t \in Text, At(pac, at, write_string(t))
  PROVE  /\ HasString(pac, at) /\ StringAt(pac, at) = t
         /\ PastTerminator(pac, at) = at + Len(t) + 1
<1>. DEFINE e == at + Len(t)
            P(k) == ByteAt(pac, k) = 0 /\ \A j \in at..(k - 1) : ByteAt(pac, j) # 0
<1>1. /\ Len(t) \in Nat /\ Len(pac) \in Nat /\ at \in Nat
      /\ \A k \in 1..Len(t) : t[k] \in 1..255
  <2>1. Len(t) \in Nat /\ \A k \in 1..Len(t) : t[k] \in 1..255
    BY LenProperties, ElementOfSeq DEF Text
  <2>2. Len(pac) \in Nat /\ at \in Nat
    BY LenProperties DEF At
  <2>. QED
    BY <2>1, <2>2
<1>2. /\ at + (Len(t) + 1) <= Len(pac)
      /\ \A k \in 1..Len(t) : pac[at + k] = t[k]
      /\ pac[at + (Len(t) + 1)] = 0
  <2>. DEFINE w == write_string(t)
  <2>1. /\ Len(w) = Len(t) + 1 /\ w[Len(t) + 1] = 0 /\ \A k \in 1..Len(t) : w[k] = t[k]
    <3>1. t \in Seq(0..255)
      BY SeqMonotonic DEF Text
    <3>. QED
      BY <3>1, AppendProperties DEF write_string
  <2>. HIDE DEF w
  <2>2. \A k \in 1..Len(w) : pac[at + k] = w[k]
    BY DEF At, w
  <2>3. at + Len(w) <= Len(pac)
    BY <1>1, <2>1 DEF At, Room, w
  <2>. QED
    BY <1>1, <2>1, <2>2, <2>3
<1>3. e \in at..(Len(pac) - 1) /\ e \in Nat /\ P(e)
  <2>1. e \in at..(Len(pac) - 1) /\ e \in Nat
    BY <1>1, <1>2
  <2>2. ByteAt(pac, e) = 0
    BY <1>1, <1>2 DEF ByteAt
  <2>3. ASSUME NEW j \in at..(e - 1) PROVE ByteAt(pac, j) # 0
    <3>. DEFINE i == j + 1 - at
    <3>1. i \in 1..Len(t) /\ at + i = j + 1
      BY <1>1
    <3>. HIDE DEF i
    <3>2. pac[at + i] = t[i] /\ t[i] \in 1..255
      BY <1>1, <1>2, <3>1
    <3>3. \A x \in 1..255 : x # 0
      OBVIOUS
    <3>4. pac[j + 1] # 0
      BY <3>1, <3>2, <3>3, Zenon
    <3>. QED
      BY <3>4, Zenon DEF ByteAt
  <2>. QED
    BY <2>1, <2>2, <2>3
<1>4. \A k \in at..(Len(pac) - 1) : P(k) => k = e
  <2>. SUFFICES ASSUME NEW k \in at..(Len(pac) - 1), P(k) PROVE k = e
    OBVIOUS
  <2>1. k < e => FALSE
    BY <1>1, <1>3
  <2>2. e < k => FALSE
    BY <1>1, <1>3
  <2>3. k \in Int /\ e \in Int
    BY <1>1, <1>3
  <2>. HIDE DEF e
  <2>. QED
    BY ONLY <2>1, <2>2, <2>3
<1>. HIDE DEF e
<1>5. StringEnd(pac, at) = e
  BY <1>3, <1>4 DEF StringEnd
<1>6. HasString(pac, at)
  BY <1>3 DEF HasString
<1>7. StringAt(pac, at) = t
  <2>1. e = at + Len(t) /\ e \in Nat
    BY <1>3 DEF e
  <2>2. \A i \in (at + 1)..e : pac[i] \in 1..255
    <3>. SUFFICES ASSUME NEW i \in (at + 1)..e PROVE pac[i] \in 1..255
      OBVIOUS
    <3>1. PICK k \in 1..Len(t) : i = at + k
      <4>1. i - at \in 1..Len(t) /\ i = at + (i - at)
        BY <1>1, <2>1
      <4>. QED
        BY <4>1
    <3>2. pac[at + k] \in 1..255
      BY <1>1, <1>2
    <3>. QED
      BY <3>1, <3>2
  <2>. DEFINE u == SubSeq(pac, at + 1, e)
  <2>3. /\ u \in Text /\ Len(u) = IF at + 1 <= e THEN e - (at + 1) + 1 ELSE 0
        /\ \A i \in 1..(e - (at + 1) + 1) : u[i] = pac[at + 1 + i - 1]
    BY <1>1, <2>1, <2>2, SubSeqProperties DEF Text
  <2>. HIDE DEF u
  <2>4. Len(u) = Len(t)
    BY <1>1, <2>1, <2>3
  <2>5. ASSUME NEW i \in 1..Len(u) PROVE u[i] = t[i]
    <3>1. i \in 1..(e - (at + 1) + 1) /\ at + 1 + i - 1 = at + i /\ i \in 1..Len(t)
      BY <1>1, <2>1, <2>4
    <3>. QED
      BY <1>2, <2>3, <3>1
  <2>6. u = t
    BY <2>3, <2>4, <2>5, SeqEqual DEF Text
  <2>. QED
    BY <1>5, <2>6 DEF StringAt, u
<1>. QED
  BY <1>5, <1>6, <1>7 DEF PastTerminator, e

\* The four bytes of a number.
LEMMA NumberSplit ==
  ASSUME NEW n \in Nat
  PROVE  n = (n % 256) + 256 * ((n \div 256) % 256) + 65536 * ((n \div 65536) % 256)
               + 16777216 * (n \div 16777216)
<1>. DEFINE a == n \div 256
            b == n \div 65536
            c == n \div 16777216
<1>1. a \in Nat /\ b \in Nat /\ c \in Nat
  BY SMT
<1>2. b = a \div 256 /\ c = b \div 256
  BY SMT
<1>3. n = 256 * a + (n % 256)
  BY SMT
<1>. HIDE DEF a, b, c
<1>4. a = 256 * b + (a % 256) /\ b = 256 * c + (b % 256)
  BY <1>1, <1>2, SMT
<1>5. n % 256 \in Nat /\ a % 256 \in Nat /\ b % 256 \in Nat
  BY <1>1, SMT
<1>6. n = (n % 256) + 256 * (a % 256) + 65536 * (b % 256) + 16777216 * c
  BY <1>1, <1>3, <1>4, <1>5, SMT
<1>. QED
  BY <1>6, SMT DEF a, b, c

LEMMA CountRead ==
  ASSUME packet \in Seq(Byte), NEW head, NEW n \in Nat, IsUint32(n),
         At(packet, head, write_number(n))
  PROVE  CountAt(head) = n /\ PastCount(head) = head + 4
<1>. DEFINE w == write_number(n)
<1>1. Len(w) = 4 /\ w \in Seq(Byte)
  BY NumberBytes
<1>2. w[1] = n % 256 /\ w[2] = (n \div 256) % 256 /\ w[3] = (n \div 65536) % 256 /\ w[4] = n \div 16777216
  BY SMT DEF write_number
<1>. HIDE DEF w
<1>3. /\ head \in Nat /\ head + 4 <= Len(packet)
      /\ packet[head + 1] = w[1] /\ packet[head + 2] = w[2] /\ packet[head + 3] = w[3]
      /\ packet[head + 4] = w[4]
  BY <1>1, LenProperties DEF At, Room, w
<1>4. CountFits(head)
  BY <1>3 DEF CountFits, CountWidth, Size
<1>5. (head + 1) + 1 = head + 2 /\ (head + 2) + 1 = head + 3 /\ (head + 3) + 1 = head + 4
  BY <1>3
<1>6. CountAt(head) = w[1] + 256 * w[2] + 65536 * w[3] + 16777216 * w[4]
  BY <1>3, <1>4, <1>5, SMT DEF CountAt, ByteAt
<1>7. CountAt(head) = n
  BY <1>2, <1>6, NumberSplit, SMT
<1>. QED
  BY <1>4, <1>7 DEF PastCount, CountWidth

\* A value that its leaf can have.
Fitting(t, v) == IF t = "String" THEN v \in Text ELSE v \in Seq(Byte) /\ Len(v) = Width[t]

LEMMA Widths ==
  ASSUME NEW t \in DOMAIN TypeCode \ {"Record", "String"}
  PROVE  Width[t] \in 1..8 /\ (t = "Boolean" => Width[t] = 1)
<1>1. t \in {"Double", "Float", "Boolean", "Uint8", "Uint16", "Uint32", "Uint64",
             "Int8", "Int16", "Int32", "Int64"}
  BY DEF TypeCode
<1>. QED
  BY <1>1 DEF Width

LEMMA LeafRead ==
  ASSUME NEW S, NEW pac \in Seq(S), NEW head, NEW t \in DOMAIN TypeCode \ {"Record"}, NEW v,
         Fitting(t, v), At(pac, head, write_leaf(t, v))
  PROVE  /\ ~RunsOut(pac, head, t)
         /\ GetLeaf(pac, head, t).value = v
         /\ GetLeaf(pac, head, t).head = head + Len(write_leaf(t, v))
<1>1. CASE t = "String"
  <2>1. v \in Text /\ At(pac, head, write_string(v)) /\ write_leaf(t, v) = write_string(v)
    BY <1>1 DEF Fitting, write_leaf
  <2>2. /\ HasString(pac, head) /\ StringAt(pac, head) = v
        /\ PastTerminator(pac, head) = head + Len(v) + 1
    BY <2>1, StringRead
  <2>3. Len(write_string(v)) = Len(v) + 1 /\ Len(v) \in Nat /\ head \in Nat
    BY <2>1, StringBytes, LenProperties DEF At, Text
  <2>4. GetLeaf(pac, head, t) = [value |-> v, head |-> head + Len(v) + 1]
    BY <1>1, <2>2 DEF GetLeaf
  <2>5. ~RunsOut(pac, head, t)
    BY <1>1, <2>2 DEF RunsOut
  <2>. QED
    BY <2>1, <2>3, <2>4, <2>5
<1>2. CASE t # "String"
  <2>1. /\ v \in Seq(Byte) /\ Len(v) = Width[t] /\ write_leaf(t, v) = v
        /\ Width[t] \in 1..8 /\ (t = "Boolean" => Width[t] = 1)
    BY <1>2, Widths DEF Fitting, write_leaf
  <2>. DEFINE w == Width[t]
              u == SubSeq(pac, head + 1, head + w)
  <2>2. /\ w \in 1..8 /\ head \in Nat /\ head + w <= Len(pac) /\ Len(pac) \in Nat
        /\ \A k \in 1..w : pac[head + k] = v[k] /\ v[k] \in Byte
    BY <2>1, ElementOfSeq, LenProperties DEF At, Room
  <2>. HIDE DEF w
  <2>3. \A i \in (head + 1)..(head + w) : pac[i] \in Byte
    <3>. SUFFICES ASSUME NEW i \in (head + 1)..(head + w) PROVE pac[i] \in Byte
      OBVIOUS
    <3>1. i - head \in 1..w /\ head + (i - head) = i
      BY <2>2
    <3>. QED
      BY <2>2, <3>1
  <2>4. /\ u \in Seq(Byte) /\ Len(u) = w
        /\ \A i \in 1..w : u[i] = pac[head + i]
    <3>1. /\ u \in Seq(Byte)
          /\ Len(u) = IF head + 1 <= head + w THEN head + w - (head + 1) + 1 ELSE 0
          /\ \A i \in 1..(head + w - (head + 1) + 1) : u[i] = pac[head + 1 + i - 1]
      BY <2>2, <2>3, SubSeqProperties
    <3>. HIDE DEF u
    <3>. QED
      BY <2>2, <3>1
  <2>. HIDE DEF u
  <2>5. u = v
    BY <2>1, <2>2, <2>4, SeqEqual DEF w
  <2>6. GetLeaf(pac, head, t) = [value |-> u, head |-> head + w]
    BY <1>2, <2>2 DEF GetLeaf, w, u
  <2>7. ~RunsOut(pac, head, t)
    BY <1>2, <2>1, <2>2 DEF RunsOut, w
  <2>. QED
    BY <2>1, <2>5, <2>6, <2>7 DEF w
<1>. QED
  BY <1>1, <1>2

-----------------------------------------------------------------------------
(* The checksum is four bytes, and a packet that was not damaged is valid.    *)

Register == [1..8 -> Nibble]

LEMMA XorType ==
  ASSUME NEW a \in Nibble, NEW b \in Nibble
  PROVE  Xor[a][b] \in Nibble
<1>1. /\ BitSum(a, b, 1) \in {0, 1} /\ BitSum(a, b, 2) \in {0, 2}
      /\ BitSum(a, b, 4) \in {0, 4} /\ BitSum(a, b, 8) \in {0, 8}
  BY DEF BitSum, Nibble
<1>2. BitSum(a, b, 1) + BitSum(a, b, 2) + BitSum(a, b, 4) + BitSum(a, b, 8) \in Nibble
  BY <1>1 DEF Nibble
<1>3. Xor[a][b] = BitSum(a, b, 1) + BitSum(a, b, 2) + BitSum(a, b, 4) + BitSum(a, b, 8)
  BY DEF Xor
<1>. QED
  BY <1>2, <1>3

LEMMA TableType ==
  \A i \in 1..16 : crc32_table[i] \in Register
<1>. DEFINE R == {1, 2, 3, 4, 5, 6, 7, 8, 9, 10, 11, 12, 13, 14, 15, 16}
<1>1. \A i \in 1..16 : i \in R
  OBVIOUS
<1>2. \A i \in R : \A k \in 1..8 : crc32_table[i][k] \in 0..15
  BY SMT DEF crc32_table
<1>3. \A i \in R : crc32_table[i] = [k \in 1..8 |-> crc32_table[i][k]]
  BY SMT DEF crc32_table
<1>. HIDE DEF R
<1>. QED
  BY <1>1, <1>2, <1>3 DEF Register, Nibble

LEMMA StepType ==
  ASSUME NEW state \in Register, NEW n \in Nibble
  PROVE  TableStep(state, n) \in Register
<1>. DEFINE row == crc32_table[Xor[state[1]][n] + 1]
<1>1. \A k \in 1..8 : state[k] \in Nibble
  BY DEF Register
<1>2. Xor[state[1]][n] \in Nibble
  BY <1>1, XorType
<1>3. Xor[state[1]][n] + 1 \in 1..16
  BY <1>2 DEF Nibble
<1>4. row \in Register
  BY <1>3, TableType
<1>. HIDE DEF row
<1>5. \A k \in 1..8 : row[k] \in Nibble
  BY <1>4 DEF Register
<1>6. \A k \in 1..8 : (IF k = 8 THEN row[8] ELSE Xor[row[k]][state[k + 1]]) \in Nibble
  BY <1>1, <1>5, XorType
<1>. QED
  BY <1>6 DEF TableStep, Register, row

LEMMA UpdateType ==
  ASSUME NEW state \in Register, NEW byte \in Byte
  PROVE  update(state, byte) \in Register
<1>1. Nibbles(byte)[1] = byte % 16 /\ Nibbles(byte)[2] = byte \div 16
  BY DEF Nibbles
<1>2. byte % 16 \in Nibble /\ byte \div 16 \in Nibble
  BY DEF Byte, Nibble
<1>. QED
  BY <1>1, <1>2, StepType DEF update

Updates(data, f, m) ==
  \A i \in 0..m : f[i] = IF i = 0 THEN Reset ELSE update(f[i - 1], data[i])

LEMMA UpdatesExist ==
  ASSUME NEW data \in Seq(Byte)
  PROVE  \E f \in [0..Len(data) -> Register] : Updates(data, f, Len(data))
<1>. DEFINE T == {k \in Nat : k <= Len(data) => \E f \in [0..k -> Register] : Updates(data, f, k)}
<1>1. 0 \in T
  <2>. DEFINE f == [i \in 0..0 |-> Reset]
  <2>1. Reset \in Register
    BY DEF Reset, Register, Nibble
  <2>2. f \in [0..0 -> Register] /\ Updates(data, f, 0)
    BY <2>1 DEF Updates
  <2>. HIDE DEF f
  <2>. QED
    BY <2>2
<1>2. ASSUME NEW k \in Nat, k \in T PROVE k + 1 \in T
  <2>. SUFFICES ASSUME k + 1 <= Len(data)
                PROVE  \E f \in [0..(k + 1) -> Register] : Updates(data, f, k + 1)
    OBVIOUS
  <2>1. PICK f \in [0..k -> Register] : Updates(data, f, k)
    BY <1>2
  <2>. DEFINE e == update(f[k], data[k + 1])
              d == [i \in 0..(k + 1) |-> IF i = k + 1 THEN e ELSE f[i]]
  <2>2. e \in Register
    <3>1. data[k + 1] \in Byte /\ f[k] \in Register
      BY <2>1
    <3>. QED
      BY <3>1, UpdateType
  <2>. HIDE DEF e
  <2>3. d \in [0..(k + 1) -> Register]
    BY <2>1, <2>2
  <2>4. ASSUME NEW i \in 0..(k + 1)
        PROVE  d[i] = IF i = 0 THEN Reset ELSE update(d[i - 1], data[i])
    <3>1. CASE i = k + 1
      <4>1. d[i] = e /\ d[i - 1] = f[k] /\ i # 0
        BY <3>1
      <4>. QED
        BY <3>1, <4>1 DEF e
    <3>2. CASE i \in 0..k
      <4>1. d[i] = f[i] /\ (i # 0 => d[i - 1] = f[i - 1])
        BY <3>2
      <4>. QED
        BY <2>1, <3>2, <4>1 DEF Updates
    <3>. QED
      BY <3>1, <3>2
  <2>. QED
    BY <2>3, <2>4 DEF Updates
<1>3. Nat \subseteq T
  <2>. HIDE DEF T
  <2>. QED
    BY <1>1, <1>2, Induction
<1>4. Len(data) \in Nat
  OBVIOUS
<1>. QED
  BY <1>3, <1>4

\* calculate goes through the registers of some function.
Runs(data, f, n) == /\ f \in [0..n -> Register] /\ Updates(data, f, n)
                    /\ calculate(data) = [k \in 1..8 |-> Inverted(f[n][k])]

LEMMA CalculateRuns ==
  ASSUME NEW data \in Seq(Byte)
  PROVE  \E f : Runs(data, f, Len(data))
<1>. DEFINE n == Len(data)
            g == CHOOSE g : g = [i \in 0..n |-> IF i = 0 THEN Reset ELSE update(g[i - 1], data[i])]
<1>1. n \in Nat /\ \A i \in 1..n : data[i] \in Byte
  BY ElementOfSeq, LenProperties
<1>2. PICK f \in [0..n -> Register] : Updates(data, f, n)
  BY UpdatesExist
<1>3. g = [i \in 0..n |-> IF i = 0 THEN Reset ELSE update(g[i - 1], data[i])]
  <2>1. f = [i \in 0..n |-> IF i = 0 THEN Reset ELSE update(f[i - 1], data[i])]
    BY <1>2 DEF Updates
  <2>. QED
    BY <2>1
<1>4. calculate(data) = [k \in 1..8 |-> Inverted(g[n][k])]
  BY DEF calculate
<1>. HIDE DEF g, n
<1>. DEFINE T == {m \in Nat : m <= n => g[m] = f[m]}
<1>5. 0 \in T
  BY <1>1, <1>2, <1>3 DEF Updates
<1>6. ASSUME NEW m \in Nat, m \in T PROVE m + 1 \in T
  BY <1>1, <1>2, <1>3, <1>6 DEF Updates
<1>7. Nat \subseteq T
  <2>. HIDE DEF T
  <2>. QED
    BY <1>5, <1>6, Induction
<1>8. g[n] = f[n]
  BY <1>1, <1>7
<1>. QED
  BY <1>2, <1>4, <1>8 DEF n, Runs

LEMMA CalculateType ==
  ASSUME NEW data \in Seq(Byte)
  PROVE  calculate(data) \in Register
<1>. DEFINE n == Len(data)
<1>1. PICK f : Runs(data, f, n)
  BY CalculateRuns
<1>2. calculate(data) = [k \in 1..8 |-> Inverted(f[n][k])] /\ f[n] \in Register
  <2>1. n \in 0..n
    BY LenProperties
  <2>. QED
    BY <1>1, <2>1 DEF Runs
<1>3. \A x \in Nibble : Inverted(x) \in Nibble
  BY DEF Nibble, Inverted
<1>4. \A k \in 1..8 : f[n][k] \in Nibble
  BY <1>2 DEF Register
<1>. QED
  BY <1>2, <1>3, <1>4 DEF Register

LEMMA ChecksumType ==
  ASSUME NEW data \in Seq(Byte)
  PROVE  ChecksumBytes(data) \in Seq(Byte) /\ Len(ChecksumBytes(data)) = 4
<1>. DEFINE crc == calculate(data)
            b == ChecksumBytes(data)
<1>1. \A k \in 1..8 : crc[k] \in Nibble
  BY CalculateType DEF Register
<1>2. b = [k \in 1..4 |-> crc[2 * k - 1] + 16 * crc[2 * k]]
  BY DEF ChecksumBytes
<1>. HIDE DEF crc, b
<1>3. \A k \in 1..4 : crc[2 * k - 1] + 16 * crc[2 * k] \in Byte
  <2>. SUFFICES ASSUME NEW k \in 1..4 PROVE crc[2 * k - 1] + 16 * crc[2 * k] \in Byte
    OBVIOUS
  <2>1. 2 * k - 1 \in 1..8 /\ 2 * k \in 1..8
    OBVIOUS
  <2>2. crc[2 * k - 1] \in Nibble /\ crc[2 * k] \in Nibble
    BY <1>1, <2>1
  <2>3. \A x, y \in Nibble : x + 16 * y \in Byte
    BY DEF Nibble, Byte
  <2>. QED
    BY ONLY <2>2, <2>3
<1>4. b \in [1..4 -> Byte]
  <2>. DEFINE B == Byte
  <2>1. \A k \in 1..4 : crc[2 * k - 1] + 16 * crc[2 * k] \in B
    BY <1>3
  <2>. HIDE DEF B
  <2>2. b \in [1..4 -> B]
    BY <1>2, <2>1, Zenon
  <2>. QED
    BY <2>2 DEF B
<1>. QED
  BY <1>4, IsSequence DEF b

\* What is written is read as it was: the checksum fits, and the data lie before it.
LEMMA Undamaged ==
  ASSUME NEW data \in Seq(Byte), data # <<>>
  PROVE  LET pac == WithChecksum(data)
         IN  /\ pac \in Seq(Byte) /\ Len(pac) = Len(data) + 4
             /\ validate_packet(pac) = "Ok" /\ At(pac, 0, data) /\ pac[1] = data[1]
<1>. DEFINE c == ChecksumBytes(data)
            p == data \o c
            n == Len(data)
<1>1. c \in Seq(Byte) /\ Len(c) = 4 /\ n \in Nat /\ n # 0
  BY ChecksumType, EmptySeq, LenProperties
<1>. HIDE DEF c
<1>2. /\ p \in Seq(Byte) /\ Len(p) = n + 4
      /\ \A i \in 1..(n + 4) : p[i] = IF i <= n THEN data[i] ELSE c[i - n]
  <2>1. /\ p \in Seq(Byte) /\ Len(p) = n + Len(c)
        /\ \A i \in 1..(n + Len(c)) : p[i] = IF i <= n THEN data[i] ELSE c[i - n]
    BY <1>1, ConcatProperties
  <2>. HIDE DEF p, n
  <2>. QED
    BY ONLY <1>1, <2>1
<1>3. WithChecksum(data) = p
  BY DEF WithChecksum, c
<1>. HIDE DEF p, n
<1>4. SubSeq(p, 1, Len(p) - 4) = data
  <2>. DEFINE u == SubSeq(p, 1, n)
  <2>1. \A i \in 1..n : p[i] \in Byte
    BY <1>1, <1>2, ElementOfSeq
  <2>2. /\ u \in Seq(Byte) /\ Len(u) = IF 1 <= n THEN n - 1 + 1 ELSE 0
        /\ \A i \in 1..(n - 1 + 1) : u[i] = p[1 + i - 1]
    BY <1>1, <2>1, SubSeqProperties
  <2>. HIDE DEF u
  <2>3. n \in Nat /\ 1 <= n /\ n - 1 + 1 = n /\ \A i \in 1..n : 1 + i - 1 = i /\ i \in 1..(n + 4) /\ i <= n
    BY <1>1
  <2>6. Len(u) = n /\ \A i \in 1..n : u[i] = data[i]
    BY <1>2, <2>2, <2>3
  <2>4. u = data
    BY <2>2, <2>6, SeqEqual DEF n
  <2>5. Len(p) - 4 = n
    BY <1>1, <1>2
  <2>. QED
    BY <2>4, <2>5 DEF u
<1>5. SubSeq(p, Len(p) - 3, Len(p)) = c
  <2>. DEFINE u == SubSeq(p, n + 1, n + 4)
  <2>1. \A i \in (n + 1)..(n + 4) : p[i] \in Byte
    BY <1>1, <1>2, ElementOfSeq
  <2>2. /\ u \in Seq(Byte) /\ Len(u) = IF n + 1 <= n + 4 THEN n + 4 - (n + 1) + 1 ELSE 0
        /\ \A i \in 1..(n + 4 - (n + 1) + 1) : u[i] = p[n + 1 + i - 1]
    BY <1>1, <2>1, SubSeqProperties
  <2>. HIDE DEF u
  <2>3. /\ n + 1 <= n + 4 /\ n + 4 - (n + 1) + 1 = 4
        /\ \A i \in 1..4 : n + 1 + i - 1 = n + i /\ n + i \in 1..(n + 4) /\ ~(n + i <= n) /\ n + i - n = i
    BY <1>1
  <2>5. Len(u) = 4
    BY <2>2, <2>3
  <2>6. \A i \in 1..4 : u[i] = c[i]
    <3>. SUFFICES ASSUME NEW i \in 1..4 PROVE u[i] = c[i]
      OBVIOUS
    <3>. DEFINE j == n + i
              h == n + 1 + i - 1
    <3>1. j \in 1..(n + 4) /\ ~(j <= n) /\ j - n = i /\ h = j
      BY <1>1
    <3>2. i \in 1..(n + 4 - (n + 1) + 1)
      BY <1>1
    <3>3. u[i] = p[h]
      BY ONLY <2>2, <3>2
    <3>. HIDE DEF j, h
    <3>4. p[j] = c[j - n]
      BY <1>2, <3>1
    <3>. QED
      BY <3>1, <3>3, <3>4
  <2>4. u = c
    BY <1>1, <2>2, <2>5, <2>6, SeqEqual
  <2>7. Len(p) - 3 = n + 1 /\ Len(p) = n + 4
    BY <1>1, <1>2
  <2>. QED
    BY <2>4, <2>7 DEF u
<1>6. validate_packet(p) = "Ok"
  <2>1. ~(Len(p) < 5)
    BY <1>1, <1>2
  <2>. QED
    BY <1>4, <1>5, <2>1 DEF validate_packet, c
<1>7. At(p, 0, data) /\ p[1] = data[1]
  <2>1. n = Len(data)
    BY DEF n
  <2>2. \A k \in 1..n : k \in 1..(n + 4) /\ k <= n /\ 0 + k = k
    BY <1>1
  <2>3. \A k \in 1..Len(data) : p[0 + k] = data[k]
    BY <1>2, <2>1, <2>2
  <2>4. 0 + Len(data) <= Len(p) - 4 /\ 0 \in Nat
    BY <1>1, <1>2, <2>1
  <2>5. p[1] = data[1]
    <3>1. 1 \in 1..n
      BY <1>1
    <3>. QED
      BY <1>2, <2>2, <3>1
  <2>. QED
    BY <2>3, <2>4, <2>5 DEF At, Room
<1>. QED
  BY <1>1, <1>2, <1>3, <1>6, <1>7 DEF n

-----------------------------------------------------------------------------
(* The table is CRC-32.  What four bits of the division feed back into place p of the *)
(* register depends on x, the half byte that is looked up, and is row x of the table.  *)

Register32 == [1..32 -> 0..1]
BitAt(r, p)    == IF p \in 1..32 THEN r[p] ELSE 0
Poly(p)        == BitAt(Polynomial, p)
Feedback(x, p) == (Bit(x, 0) * Poly(p + 3) + Bit(x, 1) * Poly(p + 2)
                     + Bit(x, 2) * Poly(p + 1) + Bit(x, 3) * Poly(p)) % 2
RowIs(x) == \A k \in 1..8, i \in 0..3 : Bit(crc32_table[x + 1][k], i) = Feedback(x, 4 * k + i - 3)
HalfByte(r, n) ==
  DivideBit(DivideBit(DivideBit(DivideBit(r, Bit(n, 0)), Bit(n, 1)), Bit(n, 2)), Bit(n, 3))

LEMMA BitsOf ==
  ASSUME NEW n
  PROVE  /\ Bit(n, 0) = (n \div 1) % 2 /\ Bit(n, 1) = (n \div 2) % 2
         /\ Bit(n, 2) = (n \div 4) % 2 /\ Bit(n, 3) = (n \div 8) % 2
BY DEF Bit, TwoTo

LEMMA NibbleBits ==
  ASSUME NEW n \in Nibble, NEW i \in 0..3
  PROVE  Bit(n, i) \in 0..1
BY BitsOf DEF Nibble

LEMMA SumModTwo == \A m, n \in Nat : (m + n) % 2 = ((m % 2) + (n % 2)) % 2
OBVIOUS

LEMMA XorBits ==
  ASSUME NEW a \in Nibble, NEW b \in Nibble
  PROVE  /\ Xor[a][b] \in Nibble
         /\ \A i \in 0..3 : Bit(Xor[a][b], i) = (Bit(a, i) + Bit(b, i)) % 2
<1>. DEFINE c1 == (a \div 1 + b \div 1) % 2
            c2 == (a \div 2 + b \div 2) % 2
            c4 == (a \div 4 + b \div 4) % 2
            c8 == (a \div 8 + b \div 8) % 2
            x  == Xor[a][b]
<1>1. x = c1 + 2 * c2 + 4 * c4 + 8 * c8
  BY DEF Xor, BitSum, Nibble
<1>2. c1 \in 0..1 /\ c2 \in 0..1 /\ c4 \in 0..1 /\ c8 \in 0..1
  BY DEF Nibble
<1>3. /\ c1 = (Bit(a, 0) + Bit(b, 0)) % 2 /\ c2 = (Bit(a, 1) + Bit(b, 1)) % 2
      /\ c4 = (Bit(a, 2) + Bit(b, 2)) % 2 /\ c8 = (Bit(a, 3) + Bit(b, 3)) % 2
  <2>1. \A k \in {1, 2, 4, 8} : a \div k \in Nat /\ b \div k \in Nat
    BY DEF Nibble
  <2>2. \A k \in {1, 2, 4, 8} :
          (a \div k + b \div k) % 2 = (((a \div k) % 2) + ((b \div k) % 2)) % 2
    BY <2>1, SumModTwo
  <2>. QED
    BY <2>2, BitsOf
<1>. HIDE DEF c1, c2, c4, c8, x
<1>4. x \in Nibble
  BY <1>1, <1>2 DEF Nibble
<1>5. Bit(x, 0) = c1 /\ Bit(x, 1) = c2 /\ Bit(x, 2) = c4 /\ Bit(x, 3) = c8
  BY <1>1, <1>2, BitsOf
<1>. QED
  BY <1>3, <1>4, <1>5 DEF x

LEMMA PolyIs ==
  /\ Poly(1) = 0 /\ Poly(2) = 0 /\ Poly(3) = 0 /\ Poly(4) = 0
  /\ Poly(5) = 0 /\ Poly(6) = 1 /\ Poly(7) = 0 /\ Poly(8) = 0
  /\ Poly(9) = 1 /\ Poly(10) = 1 /\ Poly(11) = 0 /\ Poly(12) = 0
  /\ Poly(13) = 0 /\ Poly(14) = 0 /\ Poly(15) = 0 /\ Poly(16) = 1
  /\ Poly(17) = 0 /\ Poly(18) = 0 /\ Poly(19) = 0 /\ Poly(20) = 1
  /\ Poly(21) = 1 /\ Poly(22) = 1 /\ Poly(23) = 0 /\ Poly(24) = 1
  /\ Poly(25) = 1 /\ Poly(26) = 0 /\ Poly(27) = 1 /\ Poly(28) = 1
  /\ Poly(29) = 0 /\ Poly(30) = 1 /\ Poly(31) = 1 /\ Poly(32) = 1
  /\ Poly(33) = 0 /\ Poly(34) = 0 /\ Poly(35) = 0
<1>. DEFINE s == <<0, 2, 3, 8, 8, 11, 13, 14>>
<1>1. Polynomial = [i \in 1..32 |-> Bit(s[(i - 1) \div 4 + 1], (i - 1) % 4)]
  BY DEF Polynomial, Bits
<1>. QED
  BY <1>1, BitsOf DEF Poly, BitAt

LEMMA PolyBit == \A p \in Nat : Poly(p) \in 0..1
<1>1. \A p \in 1..35 : Poly(p) \in 0..1
  BY PolyIs
<1>. QED
  BY <1>1 DEF Poly, BitAt

LEMMA Rows == \A x \in Nibble : RowIs(x)
<1>0. RowIs(0)
  BY BitsOf, PolyIs DEF RowIs, Feedback, crc32_table
<1>1. RowIs(1)
  BY BitsOf, PolyIs DEF RowIs, Feedback, crc32_table
<1>2. RowIs(2)
  BY BitsOf, PolyIs DEF RowIs, Feedback, crc32_table
<1>3. RowIs(3)
  BY BitsOf, PolyIs DEF RowIs, Feedback, crc32_table
<1>4. RowIs(4)
  BY BitsOf, PolyIs DEF RowIs, Feedback, crc32_table
<1>5. RowIs(5)
  BY BitsOf, PolyIs DEF RowIs, Feedback, crc32_table
<1>6. RowIs(6)
  BY BitsOf, PolyIs DEF RowIs, Feedback, crc32_table
<1>7. RowIs(7)
  BY BitsOf, PolyIs DEF RowIs, Feedback, crc32_table
<1>8. RowIs(8)
  BY BitsOf, PolyIs DEF RowIs, Feedback, crc32_table
<1>9. RowIs(9)
  BY BitsOf, PolyIs DEF RowIs, Feedback, crc32_table
<1>10. RowIs(10)
  BY BitsOf, PolyIs DEF RowIs, Feedback, crc32_table
<1>11. RowIs(11)
  BY BitsOf, PolyIs DEF RowIs, Feedback, crc32_table
<1>12. RowIs(12)
  BY BitsOf, PolyIs DEF RowIs, Feedback, crc32_table
<1>13. RowIs(13)
  BY BitsOf, PolyIs DEF RowIs, Feedback, crc32_table
<1>14. RowIs(14)
  BY BitsOf, PolyIs DEF RowIs, Feedback, crc32_table
<1>15. RowIs(15)
  BY BitsOf, PolyIs DEF RowIs, Feedback, crc32_table
<1>. QED
  BY <1>0, <1>1, <1>2, <1>3, <1>4, <1>5, <1>6, <1>7, <1>8, <1>9, <1>10, <1>11, <1>12, <1>13, <1>14, <1>15 DEF Nibble

\* One bit of the division, for a register that is taken to go on with zeros.
LEMMA Divided ==
  ASSUME NEW r \in Register32, NEW b \in 0..1
  PROVE  /\ DivideBit(r, b) \in Register32
         /\ \A k \in Nat \ {0} :
              BitAt(DivideBit(r, b), k) = (BitAt(r, k + 1) + ((BitAt(r, 1) + b) % 2) * Poly(k)) % 2
<1>. DEFINE d == DivideBit(r, b)
            f == (r[1] + b) % 2
            v(k) == ((IF k = 32 THEN 0 ELSE r[k + 1]) + f * Poly(k)) % 2
<1>1. d = [k \in 1..32 |-> v(k)]
  <2>1. d = [k \in 1..32 |-> ((IF k = 32 THEN 0 ELSE r[k + 1]) + f * Polynomial[k]) % 2]
    BY DEF DivideBit
  <2>2. \A k \in 1..32 : Polynomial[k] = Poly(k)
    BY DEF Poly, BitAt
  <2>. QED
    BY <2>1, <2>2
<1>2. f \in 0..1 /\ f = (BitAt(r, 1) + b) % 2
  BY DEF BitAt, Register32
<1>. HIDE DEF f
<1>3. ASSUME NEW k \in 1..32
      PROVE  v(k) \in 0..1 /\ v(k) = (BitAt(r, k + 1) + f * Poly(k)) % 2
  <2>1. BitAt(r, k + 1) \in 0..1 /\ BitAt(r, k + 1) = IF k = 32 THEN 0 ELSE r[k + 1]
    BY DEF BitAt, Register32
  <2>2. f * Poly(k) \in 0..1
    BY <1>2, PolyBit
  <2>. QED
    BY <2>1, <2>2
<1>4. d \in Register32
  BY <1>1, <1>3 DEF Register32
<1>5. ASSUME NEW k \in Nat \ {0}
      PROVE  BitAt(d, k) = (BitAt(r, k + 1) + f * Poly(k)) % 2
  <2>1. CASE k \in 1..32
    BY <1>1, <1>3, <2>1 DEF BitAt
  <2>2. CASE k > 32
    BY <1>2, <2>2 DEF BitAt, Poly
  <2>. QED
    BY <2>1, <2>2
<1>. QED
  BY <1>2, <1>4, <1>5

\* Four bits in one: what the first four bits of the register and the half byte feed
\* back at each step does not depend on the steps before, for the polynomial starts with four zeros.
LEMMA FourDivided ==
  ASSUME NEW r \in Register32, NEW n \in Nibble, NEW x \in Nibble,
         \A i \in 0..3 : Bit(x, i) = (r[i + 1] + Bit(n, i)) % 2
  PROVE  /\ HalfByte(r, n) \in Register32
         /\ \A k \in 1..32 : HalfByte(r, n)[k] = (BitAt(r, k + 4) + Feedback(x, k)) % 2
<1>. DEFINE b(i) == Bit(n, i)
            r1 == DivideBit(r, b(0))
            r2 == DivideBit(r1, b(1))
            r3 == DivideBit(r2, b(2))
            r4 == DivideBit(r3, b(3))
            f(i) == Bit(x, i)
<1>1. b(0) \in 0..1 /\ b(1) \in 0..1 /\ b(2) \in 0..1 /\ b(3) \in 0..1
  BY NibbleBits
<1>2. f(0) \in 0..1 /\ f(1) \in 0..1 /\ f(2) \in 0..1 /\ f(3) \in 0..1
  BY NibbleBits
<1>3. /\ f(0) = (BitAt(r, 1) + b(0)) % 2 /\ f(1) = (BitAt(r, 2) + b(1)) % 2
      /\ f(2) = (BitAt(r, 3) + b(2)) % 2 /\ f(3) = (BitAt(r, 4) + b(3)) % 2
  BY DEF BitAt
<1>4. r1 \in Register32 /\ r2 \in Register32 /\ r3 \in Register32 /\ r4 \in Register32
  BY <1>1, Divided
<1>. HIDE DEF b, r1, r2, r3, r4, f
<1>5. \A k \in Nat \ {0} : BitAt(r1, k) = (BitAt(r, k + 1) + f(0) * Poly(k)) % 2
  BY <1>1, <1>3, Divided DEF r1
<1>6. \A k \in Nat : BitAt(r, k) \in 0..1
  BY DEF BitAt, Register32
<1>7. Poly(1) = 0 /\ Poly(2) = 0 /\ Poly(3) = 0
  BY PolyIs
<1>8. BitAt(r1, 1) = BitAt(r, 2) /\ BitAt(r1, 2) = BitAt(r, 3) /\ BitAt(r1, 3) = BitAt(r, 4)
  BY <1>2, <1>5, <1>6, <1>7
<1>9. \A k \in Nat \ {0} : BitAt(r2, k) = (BitAt(r1, k + 1) + f(1) * Poly(k)) % 2
  BY <1>1, <1>3, <1>4, <1>8, Divided DEF r2
<1>10. BitAt(r2, 1) = BitAt(r, 3) /\ BitAt(r2, 2) = BitAt(r, 4)
  BY <1>2, <1>6, <1>7, <1>8, <1>9
<1>11. \A k \in Nat \ {0} : BitAt(r3, k) = (BitAt(r2, k + 1) + f(2) * Poly(k)) % 2
  BY <1>1, <1>3, <1>4, <1>10, Divided DEF r3
<1>12. BitAt(r3, 1) = BitAt(r, 4)
  BY <1>2, <1>6, <1>7, <1>10, <1>11
<1>13. \A k \in Nat \ {0} : BitAt(r4, k) = (BitAt(r3, k + 1) + f(3) * Poly(k)) % 2
  BY <1>1, <1>3, <1>4, <1>12, Divided DEF r4
<1>14. ASSUME NEW k \in 1..32
       PROVE  r4[k] = (BitAt(r, k + 4) + Feedback(x, k)) % 2
  <2>. DEFINE q0 == f(0) * Poly(k + 3)
              q1 == f(1) * Poly(k + 2)
              q2 == f(2) * Poly(k + 1)
              q3 == f(3) * Poly(k)
              a  == BitAt(r, k + 4)
  <2>1. q0 \in 0..1 /\ q1 \in 0..1 /\ q2 \in 0..1 /\ q3 \in 0..1 /\ a \in 0..1
    BY <1>2, <1>6, PolyBit
  <2>2. BitAt(r1, k + 3) = (a + q0) % 2
    BY <1>5
  <2>3. BitAt(r2, k + 2) = (BitAt(r1, k + 3) + q1) % 2
    BY <1>9
  <2>4. BitAt(r3, k + 1) = (BitAt(r2, k + 2) + q2) % 2
    BY <1>11
  <2>5. r4[k] = (BitAt(r3, k + 1) + q3) % 2
    <3>1. r4[k] = BitAt(r4, k)
      BY DEF BitAt
    <3>. QED
      BY <1>13, <3>1
  <2>6. Feedback(x, k) = (q0 + q1 + q2 + q3) % 2
    BY DEF Feedback, f
  <2>. HIDE DEF q0, q1, q2, q3, a
  <2>7. r4[k] = (a + Feedback(x, k)) % 2
    BY <2>1, <2>2, <2>3, <2>4, <2>5, <2>6
  <2>. QED
    BY <2>7 DEF a
<1>15. HalfByte(r, n) = r4
  BY DEF HalfByte, r1, r2, r3, r4, b
<1>. QED
  BY <1>4, <1>14, <1>15

LEMMA BitsType ==
  ASSUME NEW s \in Register
  PROVE  /\ Bits(s) \in Register32
         /\ \A k \in 1..8, i \in 0..3 : Bits(s)[4 * k + i - 3] = Bit(s[k], i)
<1>. DEFINE c(j) == Bit(s[(j - 1) \div 4 + 1], (j - 1) % 4)
<1>1. Len(s) = 8
  BY DEF Register
<1>2. Bits(s) = [j \in 1..32 |-> c(j)]
  BY <1>1 DEF Bits
<1>3. ASSUME NEW j \in 1..32 PROVE c(j) \in 0..1
  <2>1. (j - 1) \div 4 + 1 \in 1..8 /\ (j - 1) % 4 \in 0..3
    OBVIOUS
  <2>. QED
    BY <2>1, NibbleBits DEF Register
<1>4. ASSUME NEW k \in 1..8, NEW i \in 0..3
      PROVE  Bits(s)[4 * k + i - 3] = Bit(s[k], i)
  <2>1. 4 * k + i - 3 \in 1..32
    OBVIOUS
  <2>2. (4 * k + i - 3 - 1) \div 4 + 1 = k /\ (4 * k + i - 3 - 1) % 4 = i
    OBVIOUS
  <2>. QED
    BY <1>2, <2>1, <2>2
<1>. QED
  BY <1>2, <1>3, <1>4 DEF Register32

LEMMA EveryPlace == \A p \in 1..32 : \E k \in 1..8, i \in 0..3 : p = 4 * k + i - 3
<1>. SUFFICES ASSUME NEW p \in 1..32 PROVE \E k \in 1..8, i \in 0..3 : p = 4 * k + i - 3
  OBVIOUS
<1>1. (p - 1) \div 4 + 1 \in 1..8 /\ (p - 1) % 4 \in 0..3
  OBVIOUS
<1>2. p = 4 * ((p - 1) \div 4 + 1) + ((p - 1) % 4) - 3
  OBVIOUS
<1>. QED
  BY <1>1, <1>2

\* One look-up in the table is four bits of the division.
LEMMA StepIsHalfByte ==
  ASSUME NEW s \in Register, NEW n \in Nibble
  PROVE  Bits(TableStep(s, n)) = HalfByte(Bits(s), n)
<1>. DEFINE x   == Xor[s[1]][n]
            row == crc32_table[x + 1]
            t   == TableStep(s, n)
            r   == Bits(s)
<1>1. r \in Register32 /\ \A k \in 1..8, i \in 0..3 : r[4 * k + i - 3] = Bit(s[k], i)
  BY BitsType
<1>2. \A k \in 1..8 : s[k] \in Nibble
  BY DEF Register
<1>3. x \in Nibble /\ \A i \in 0..3 : Bit(x, i) = (r[i + 1] + Bit(n, i)) % 2
  <2>1. \A i \in 0..3 : r[4 * 1 + i - 3] = Bit(s[1], i) /\ 4 * 1 + i - 3 = i + 1
    BY <1>1
  <2>. QED
    BY <1>2, <2>1, XorBits
<1>4. t \in Register /\ row \in Register
  BY <1>3, StepType, TableType DEF Nibble
<1>5. \A k \in 1..8 : t[k] = IF k = 8 THEN row[8] ELSE Xor[row[k]][s[k + 1]]
  BY DEF TableStep
<1>6. RowIs(x)
  BY <1>3, Rows
<1>. HIDE DEF x, row, t, r
<1>7. \A k \in 1..8, i \in 0..3 : Bit(row[k], i) = Feedback(x, 4 * k + i - 3)
  BY <1>6 DEF RowIs, row
<1>8. HalfByte(r, n) \in Register32
  BY <1>1, <1>3, FourDivided
<1>9. \A p \in 1..32 : HalfByte(r, n)[p] = (BitAt(r, p + 4) + Feedback(x, p)) % 2
  BY <1>1, <1>3, FourDivided
<1>10. ASSUME NEW k \in 1..8, NEW i \in 0..3
       PROVE  Bits(t)[4 * k + i - 3] = HalfByte(r, n)[4 * k + i - 3]
  <2>. DEFINE p == 4 * k + i - 3
  <2>1. p \in 1..32 /\ Bits(t)[p] = Bit(t[k], i)
    BY <1>4, BitsType
  <2>2. Bit(row[k], i) = Feedback(x, p) /\ Bit(row[k], i) \in 0..1 /\ row[k] \in Nibble
    <3>1. row[k] \in Nibble
      BY <1>4 DEF Register
    <3>. QED
      BY <1>7, <3>1, NibbleBits
  <2>3. CASE k = 8
    <3>1. BitAt(r, p + 4) = 0
      BY <2>3 DEF BitAt
    <3>2. HalfByte(r, n)[p] = (0 + Feedback(x, p)) % 2
      BY <1>9, <2>1, <3>1
    <3>3. t[k] = row[k]
      BY <1>5, <2>3
    <3>. QED
      BY <2>1, <2>2, <3>2, <3>3
  <2>4. CASE k \in 1..7
    <3>1. k + 1 \in 1..8 /\ p + 4 = 4 * (k + 1) + i - 3 /\ p + 4 \in 1..32
      BY <2>4
    <3>2. BitAt(r, p + 4) = Bit(s[k + 1], i)
      <4>1. r[4 * (k + 1) + i - 3] = Bit(s[k + 1], i)
        BY <1>1, <3>1
      <4>. QED
        BY <3>1, <4>1 DEF BitAt
    <3>3. s[k + 1] \in Nibble /\ Bit(s[k + 1], i) \in 0..1
      BY <1>2, <3>1, NibbleBits
    <3>4. t[k] = Xor[row[k]][s[k + 1]]
      BY <1>5, <2>4
    <3>5. Bit(t[k], i) = (Bit(row[k], i) + Bit(s[k + 1], i)) % 2
      BY <2>2, <3>3, <3>4, XorBits
    <3>6. HalfByte(r, n)[p] = (BitAt(r, p + 4) + Feedback(x, p)) % 2
      BY <1>9, <2>1
    <3>7. Bits(t)[p] = HalfByte(r, n)[p]
      <4>. HIDE DEF p
      <4>. QED
        BY <2>1, <2>2, <3>2, <3>3, <3>5, <3>6
    <3>. QED
      BY <3>7
  <2>. QED
    BY <2>3, <2>4
<1>11. \A p \in 1..32 : Bits(t)[p] = HalfByte(r, n)[p]
  BY <1>10, EveryPlace
<1>12. Bits(t) \in Register32
  BY <1>4, BitsType
<1>. QED
  BY <1>8, <1>11, <1>12 DEF Register32, r, t

LEMMA HalvesOfByte ==
  ASSUME NEW b \in Byte
  PROVE  /\ b % 16 \in Nibble /\ b \div 16 \in Nibble
         /\ \A i \in 0..3 : Bit(b, i) = Bit(b % 16, i) /\ Bit(b, i + 4) = Bit(b \div 16, i)
<1>1. b % 16 \in Nibble /\ b \div 16 \in Nibble
  BY DEF Byte, Nibble
<1>2. /\ Bit(b, 4) = (b \div 16) % 2 /\ Bit(b, 5) = (b \div 32) % 2
      /\ Bit(b, 6) = (b \div 64) % 2 /\ Bit(b, 7) = (b \div 128) % 2
  BY DEF Bit, TwoTo
<1>. DEFINE q == b \div 16
            m == b % 16
<1>3. b = 16 * q + m /\ m \in 0..15 /\ q \in 0..15
  BY DEF Byte
<1>. HIDE DEF q, m
<1>4. /\ b % 2 = m % 2 /\ (b \div 2) % 2 = (m \div 2) % 2
      /\ (b \div 4) % 2 = (m \div 4) % 2 /\ (b \div 8) % 2 = (m \div 8) % 2
  BY <1>3
<1>5. /\ b \div 16 = q /\ b \div 32 = q \div 2 /\ b \div 64 = q \div 4 /\ b \div 128 = q \div 8
  BY <1>3
<1>6. b \div 1 = b /\ m \div 1 = m /\ q \div 1 = q
  BY <1>3
<1>. QED
  BY <1>1, <1>2, <1>4, <1>5, <1>6, BitsOf DEF q, m

\* update is eight bits of the division.
LEMMA UpdateIsDivideByte ==
  ASSUME NEW s \in Register, NEW b \in Byte
  PROVE  Bits(update(s, b)) = DivideByte(Bits(s), b)
<1>. DEFINE r  == Bits(s)
            r1 == DivideBit(r, Bit(b, 0))
            r2 == DivideBit(r1, Bit(b, 1))
            r3 == DivideBit(r2, Bit(b, 2))
            r4 == DivideBit(r3, Bit(b, 3))
            r5 == DivideBit(r4, Bit(b, 4))
            r6 == DivideBit(r5, Bit(b, 5))
            r7 == DivideBit(r6, Bit(b, 6))
            r8 == DivideBit(r7, Bit(b, 7))
            h  == <<r1, r2, r3, r4, r5, r6, r7, r8>>
            a  == [k \in 0..8 |-> IF k = 0 THEN r ELSE h[k]]
            g  == CHOOSE g : g = [k \in 0..8 |-> IF k = 0 THEN r ELSE DivideBit(g[k - 1], Bit(b, k - 1))]
<1>1. DivideByte(r, b) = g[8]
  BY DEF DivideByte
<1>2. r4 = HalfByte(r, b % 16) /\ r8 = HalfByte(r4, b \div 16)
  <2>. HIDE DEF r
  <2>1. /\ Bit(b, 0) = Bit(b % 16, 0) /\ Bit(b, 1) = Bit(b % 16, 1)
        /\ Bit(b, 2) = Bit(b % 16, 2) /\ Bit(b, 3) = Bit(b % 16, 3)
    BY HalvesOfByte
  <2>2. /\ Bit(b, 4) = Bit(b \div 16, 0) /\ Bit(b, 5) = Bit(b \div 16, 1)
        /\ Bit(b, 6) = Bit(b \div 16, 2) /\ Bit(b, 7) = Bit(b \div 16, 3)
    <3>1. \A i \in 0..3 : Bit(b, i + 4) = Bit(b \div 16, i)
      BY HalvesOfByte
    <3>. QED
      BY <3>1
  <2>3. r4 = HalfByte(r, b % 16)
    BY <2>1 DEF HalfByte
  <2>. HIDE DEF r4
  <2>4. r8 = HalfByte(r4, b \div 16)
    BY <2>2 DEF HalfByte
  <2>. QED
    BY <2>3, <2>4
<1>3. Bits(update(s, b)) = r8
  <2>1. Nibbles(b)[1] = b % 16 /\ Nibbles(b)[2] = b \div 16
    BY DEF Nibbles
  <2>2. Bits(TableStep(s, b % 16)) = r4 /\ TableStep(s, b % 16) \in Register
    BY <1>2, HalvesOfByte, StepIsHalfByte, StepType
  <2>. HIDE DEF r4, r8
  <2>3. Bits(TableStep(TableStep(s, b % 16), b \div 16)) = HalfByte(r4, b \div 16)
    BY <2>2, HalvesOfByte, StepIsHalfByte
  <2>. QED
    BY <1>2, <2>1, <2>3 DEF update
<1>4. \A k \in 1..8 : h[k] = DivideBit(a[k - 1], Bit(b, k - 1))
  <2>1. /\ h[1] = r1 /\ h[2] = r2 /\ h[3] = r3 /\ h[4] = r4
        /\ h[5] = r5 /\ h[6] = r6 /\ h[7] = r7 /\ h[8] = r8
    OBVIOUS
  <2>2. /\ r1 = DivideBit(r, Bit(b, 0)) /\ r2 = DivideBit(r1, Bit(b, 1))
        /\ r3 = DivideBit(r2, Bit(b, 2)) /\ r4 = DivideBit(r3, Bit(b, 3))
        /\ r5 = DivideBit(r4, Bit(b, 4)) /\ r6 = DivideBit(r5, Bit(b, 5))
        /\ r7 = DivideBit(r6, Bit(b, 6)) /\ r8 = DivideBit(r7, Bit(b, 7))
    OBVIOUS
  <2>. HIDE DEF r, r1, r2, r3, r4, r5, r6, r7, r8, h
  <2>3. a[0] = r /\ \A k \in 1..7 : a[k] = h[k]
    OBVIOUS
  <2>. HIDE DEF a
  <2>4. \A k \in 1..8 : k \in {1, 2, 3, 4, 5, 6, 7, 8}
    OBVIOUS
  <2>. QED
    BY <2>1, <2>2, <2>3, <2>4
<1>5. h[8] = r8
  OBVIOUS
<1>. HIDE DEF r, r1, r2, r3, r4, r5, r6, r7, r8, h
<1>6. a = [k \in 0..8 |-> IF k = 0 THEN r ELSE DivideBit(a[k - 1], Bit(b, k - 1))]
  BY <1>4
<1>. HIDE DEF a
<1>7. g = [k \in 0..8 |-> IF k = 0 THEN r ELSE DivideBit(g[k - 1], Bit(b, k - 1))]
  BY <1>6
<1>. HIDE DEF g
<1>8. g[8] = a[8]
  <2>1. a[0] = g[0]
    BY <1>6, <1>7
  <2>2. \A k \in 1..8 : a[k - 1] = g[k - 1] => a[k] = g[k]
    BY <1>6, <1>7
  <2>3. a[1] = g[1] /\ a[2] = g[2] /\ a[3] = g[3] /\ a[4] = g[4]
    BY <2>1, <2>2
  <2>. QED
    BY <2>2, <2>3
<1>9. a[8] = r8
  BY <1>5 DEF a
<1>. QED
  BY <1>1, <1>3, <1>8, <1>9 DEF r

LEMMA InvertedBits ==
  ASSUME NEW n \in Nibble, NEW i \in 0..3
  PROVE  Bit(Inverted(n), i) = 1 - Bit(n, i)
<1>1. \A k \in {1, 2, 4, 8} : ((15 - n) \div k) % 2 = 1 - ((n \div k) % 2)
  BY DEF Nibble
<1>2. /\ Bit(n, 0) = (n \div 1) % 2 /\ Bit(n, 1) = (n \div 2) % 2
      /\ Bit(n, 2) = (n \div 4) % 2 /\ Bit(n, 3) = (n \div 8) % 2
  BY BitsOf
<1>3. /\ Bit(15 - n, 0) = ((15 - n) \div 1) % 2 /\ Bit(15 - n, 1) = ((15 - n) \div 2) % 2
      /\ Bit(15 - n, 2) = ((15 - n) \div 4) % 2 /\ Bit(15 - n, 3) = ((15 - n) \div 8) % 2
  BY BitsOf
<1>4. i \in {0, 1, 2, 3}
  OBVIOUS
<1>. QED
  BY <1>1, <1>2, <1>3, <1>4 DEF Inverted

\* The checksum of any bytes is their CRC-32.
LEMMA CalculateIsCrc32 ==
  ASSUME NEW data \in Seq(Byte)
  PROVE  Bits(calculate(data)) = DefinedCrc(data)
<1>. DEFINE n == Len(data)
            ones == [k \in 1..32 |-> 1]
            g == CHOOSE g : g = [i \in 0..n |-> IF i = 0 THEN Reset ELSE update(g[i - 1], data[i])]
            d == CHOOSE d : d = [i \in 0..n |-> IF i = 0 THEN ones ELSE DivideByte(d[i - 1], data[i])]
<1>1. n \in Nat /\ \A i \in 1..n : data[i] \in Byte
  BY ElementOfSeq, LenProperties
<1>2. PICK f \in [0..n -> Register] : Updates(data, f, n)
  BY UpdatesExist
<1>3. g = [i \in 0..n |-> IF i = 0 THEN Reset ELSE update(g[i - 1], data[i])]
  <2>1. f = [i \in 0..n |-> IF i = 0 THEN Reset ELSE update(f[i - 1], data[i])]
    BY <1>2 DEF Updates
  <2>. QED
    BY <2>1
<1>4. calculate(data) = [k \in 1..8 |-> Inverted(g[n][k])]
  BY DEF calculate
<1>5. DefinedCrc(data) = [k \in 1..32 |-> 1 - d[n][k]]
  BY DEF DefinedCrc
<1>6. Reset \in Register /\ Bits(Reset) = ones
  <2>1. Reset \in Register
    BY DEF Reset, Register, Nibble
  <2>2. \A k \in 1..8, i \in 0..3 : Bits(Reset)[4 * k + i - 3] = 1
    <3>1. \A i \in 0..3 : Bit(15, i) = 1
      BY BitsOf
    <3>2. \A k \in 1..8 : Reset[k] = 15
      BY DEF Reset
    <3>. SUFFICES ASSUME NEW k \in 1..8, NEW i \in 0..3
                  PROVE  Bits(Reset)[4 * k + i - 3] = 1
      OBVIOUS
    <3>3. Bits(Reset)[4 * k + i - 3] = Bit(Reset[k], i)
      BY <2>1, BitsType
    <3>. QED
      BY <3>1, <3>2, <3>3
  <2>3. \A p \in 1..32 : Bits(Reset)[p] = 1
    <3>1. ASSUME NEW p \in 1..32 PROVE Bits(Reset)[p] = 1
      <4>1. PICK k \in 1..8, i \in 0..3 : p = 4 * k + i - 3
        BY EveryPlace
      <4>. QED
        BY <2>2, <4>1
    <3>. QED
      BY <3>1
  <2>4. Bits(Reset) \in Register32
    BY <2>1, BitsType
  <2>. QED
    BY <2>1, <2>3, <2>4 DEF Register32
<1>. HIDE DEF g, n, ones
<1>7. d = [i \in 0..n |-> IF i = 0 THEN ones ELSE DivideByte(d[i - 1], data[i])]
  <2>. DEFINE h == [i \in 0..n |-> Bits(f[i])]
  <2>1. ASSUME NEW i \in 0..n
        PROVE  h[i] = IF i = 0 THEN ones ELSE DivideByte(h[i - 1], data[i])
    <3>1. CASE i = 0
      BY <1>2, <1>6, <3>1 DEF Updates
    <3>2. CASE i # 0
      <4>1. i - 1 \in 0..n /\ data[i] \in Byte /\ f[i - 1] \in Register
        BY <1>1, <1>2, <3>2
      <4>2. f[i] = update(f[i - 1], data[i])
        BY <1>2, <3>2 DEF Updates
      <4>3. Bits(f[i]) = DivideByte(Bits(f[i - 1]), data[i])
        BY <4>1, <4>2, UpdateIsDivideByte
      <4>. QED
        BY <3>2, <4>1, <4>3
    <3>. QED
      BY <3>1, <3>2
  <2>2. h = [i \in 0..n |-> h[i]]
    OBVIOUS
  <2>. HIDE DEF h
  <2>3. h = [i \in 0..n |-> IF i = 0 THEN ones ELSE DivideByte(h[i - 1], data[i])]
    BY <2>1, <2>2
  <2>. QED
    BY <2>3
<1>. HIDE DEF d
<1>. DEFINE T == {m \in Nat : m <= n => g[m] \in Register /\ d[m] = Bits(g[m])}
<1>8. 0 \in T
  BY <1>1, <1>3, <1>6, <1>7
<1>9. ASSUME NEW m \in Nat, m \in T PROVE m + 1 \in T
  <2>. SUFFICES ASSUME m + 1 <= n PROVE g[m + 1] \in Register /\ d[m + 1] = Bits(g[m + 1])
    OBVIOUS
  <2>1. g[m] \in Register /\ d[m] = Bits(g[m]) /\ data[m + 1] \in Byte
    BY <1>1, <1>9
  <2>2. g[m + 1] = update(g[m], data[m + 1]) /\ d[m + 1] = DivideByte(d[m], data[m + 1])
    BY <1>1, <1>3, <1>7
  <2>. QED
    BY <2>1, <2>2, UpdateType, UpdateIsDivideByte
<1>10. g[n] \in Register /\ d[n] = Bits(g[n])
  <2>1. Nat \subseteq T
    <3>. HIDE DEF T
    <3>. QED
      BY <1>8, <1>9, Induction
  <2>. QED
    BY <1>1, <2>1
<1>. DEFINE c == calculate(data)
<1>11. c \in Register /\ \A k \in 1..8 : c[k] = Inverted(g[n][k]) /\ g[n][k] \in Nibble
  BY <1>4, <1>10, CalculateType DEF Register
<1>. HIDE DEF c
<1>12. ASSUME NEW k \in 1..8, NEW i \in 0..3
       PROVE  Bits(c)[4 * k + i - 3] = 1 - d[n][4 * k + i - 3]
  <2>1. Bits(c)[4 * k + i - 3] = Bit(c[k], i) /\ c[k] = Inverted(g[n][k])
    BY <1>11, BitsType
  <2>2. d[n][4 * k + i - 3] = Bit(g[n][k], i)
    BY <1>10, BitsType
  <2>. QED
    BY <1>11, <2>1, <2>2, InvertedBits
<1>13. \A p \in 1..32 : Bits(c)[p] = 1 - d[n][p]
  <2>. SUFFICES ASSUME NEW p \in 1..32 PROVE Bits(c)[p] = 1 - d[n][p]
    OBVIOUS
  <2>1. PICK k \in 1..8, i \in 0..3 : p = 4 * k + i - 3
    BY EveryPlace
  <2>. QED
    BY <1>12, <2>1
<1>14. Bits(c) \in Register32
  BY <1>11, BitsType
<1>. QED
  BY <1>5, <1>13, <1>14 DEF Register32, c

-----------------------------------------------------------------------------
(* A burst of wrong bits.  An exclusive or can be undone, and the last half bytes of  *)
(* the table's rows are all different, so a register tells the one before it.          *)

LEMMA BitsTell ==
  ASSUME NEW a \in Nibble, NEW b \in Nibble, \A i \in 0..3 : Bit(a, i) = Bit(b, i)
  PROVE  a = b
<1>1. /\ (a \div 1) % 2 = (b \div 1) % 2 /\ (a \div 2) % 2 = (b \div 2) % 2
      /\ (a \div 4) % 2 = (b \div 4) % 2 /\ (a \div 8) % 2 = (b \div 8) % 2
  BY BitsOf
<1>2. \A n \in 0..15 : n = ((n \div 1) % 2) + 2 * ((n \div 2) % 2) + 4 * ((n \div 4) % 2)
                             + 8 * ((n \div 8) % 2)
  OBVIOUS
<1>. QED
  BY <1>1, <1>2 DEF Nibble

LEMMA XorCancels ==
  ASSUME NEW a \in Nibble, NEW b \in Nibble, NEW c \in Nibble
  PROVE  /\ Xor[a][b] = Xor[a][c] => b = c
         /\ Xor[b][a] = Xor[c][a] => b = c
         /\ Xor[b][a] = b => a = 0
<1>1. \A x, y, z \in 0..1 : (x + y) % 2 = (x + z) % 2 => y = z
  OBVIOUS
<1>2. \A x, y, z \in 0..1 : (y + x) % 2 = (z + x) % 2 => y = z
  OBVIOUS
<1>3. \A i \in 0..3 : Bit(a, i) \in 0..1 /\ Bit(b, i) \in 0..1 /\ Bit(c, i) \in 0..1
  BY NibbleBits
<1>4. ASSUME Xor[a][b] = Xor[a][c] PROVE b = c
  <2>1. \A i \in 0..3 : (Bit(a, i) + Bit(b, i)) % 2 = (Bit(a, i) + Bit(c, i)) % 2
    BY <1>4, XorBits
  <2>2. \A i \in 0..3 : Bit(b, i) = Bit(c, i)
    BY <1>1, <1>3, <2>1
  <2>. QED
    BY <2>2, BitsTell
<1>5. ASSUME Xor[b][a] = Xor[c][a] PROVE b = c
  <2>1. \A i \in 0..3 : (Bit(b, i) + Bit(a, i)) % 2 = (Bit(c, i) + Bit(a, i)) % 2
    BY <1>5, XorBits
  <2>2. \A i \in 0..3 : Bit(b, i) = Bit(c, i)
    BY <1>2, <1>3, <2>1
  <2>. QED
    BY <2>2, BitsTell
<1>6. ASSUME Xor[b][a] = b PROVE a = 0
  <2>1. \A i \in 0..3 : (Bit(b, i) + Bit(a, i)) % 2 = Bit(b, i)
    BY <1>6, XorBits
  <2>2. \A x, y \in 0..1 : (x + y) % 2 = x => y = 0
    OBVIOUS
  <2>3. \A i \in 0..3 : Bit(a, i) = 0
    BY <1>3, <2>1, <2>2
  <2>4. 0 \in Nibble /\ \A i \in 0..3 : Bit(0, i) = 0
    BY BitsOf DEF Nibble
  <2>. QED
    BY <2>3, <2>4, BitsTell
<1>. QED
  BY <1>4, <1>5, <1>6

LEMMA LastColumn ==
  \A x, y \in Nibble : crc32_table[x + 1][8] = crc32_table[y + 1][8] => x = y
<1>. DEFINE last == <<0, 1, 3, 2, 7, 6, 4, 5, 14, 15, 13, 12, 9, 8, 10, 11>>
            place == <<0, 1, 3, 2, 6, 7, 5, 4, 13, 12, 14, 15, 11, 10, 8, 9>>
<1>1. \A x \in {0, 1, 2, 3, 4, 5, 6, 7} : crc32_table[x + 1][8] = last[x + 1]
  BY SMT DEF crc32_table
<1>2. \A x \in {8, 9, 10, 11, 12, 13, 14, 15} : crc32_table[x + 1][8] = last[x + 1]
  BY SMT DEF crc32_table
<1>3. \A x \in 0..15 : place[last[x + 1] + 1] = x
  OBVIOUS
<1>. HIDE DEF last, place
<1>4. \A x \in Nibble : crc32_table[x + 1][8] = last[x + 1]
  BY <1>1, <1>2 DEF Nibble
<1>. QED
  BY <1>3, <1>4 DEF Nibble

\* What the register after a half byte tells of the one before.
LEMMA StepTells ==
  ASSUME NEW s \in Register, NEW t \in Register, NEW x \in Nibble, NEW y \in Nibble,
         TableStep(s, x)[8] = TableStep(t, y)[8]
  PROVE  /\ Xor[s[1]][x] = Xor[t[1]][y]
         /\ \A k \in 1..7 : TableStep(s, x)[k] = TableStep(t, y)[k] => s[k + 1] = t[k + 1]
<1>. DEFINE i == Xor[s[1]][x]
            j == Xor[t[1]][y]
<1>1. \A k \in 1..8 : s[k] \in Nibble /\ t[k] \in Nibble
  BY DEF Register
<1>2. i \in Nibble /\ j \in Nibble
  BY <1>1, XorType
<1>3. \A k \in 1..8 :
        /\ TableStep(s, x)[k] = IF k = 8 THEN crc32_table[i + 1][8]
                                ELSE Xor[crc32_table[i + 1][k]][s[k + 1]]
        /\ TableStep(t, y)[k] = IF k = 8 THEN crc32_table[j + 1][8]
                                ELSE Xor[crc32_table[j + 1][k]][t[k + 1]]
  BY DEF TableStep
<1>. HIDE DEF i, j
<1>4. i = j
  BY <1>2, <1>3, LastColumn
<1>5. ASSUME NEW k \in 1..7, TableStep(s, x)[k] = TableStep(t, y)[k] PROVE s[k + 1] = t[k + 1]
  <2>. DEFINE row == crc32_table[i + 1]
  <2>1. row[k] \in Nibble
    <3>1. i + 1 \in 1..16 /\ k \in 1..8
      BY <1>2 DEF Nibble
    <3>. QED
      BY <3>1, TableType DEF Register
  <2>2. Xor[row[k]][s[k + 1]] = Xor[row[k]][t[k + 1]]
    BY <1>3, <1>4, <1>5
  <2>3. s[k + 1] \in Nibble /\ t[k + 1] \in Nibble
    BY <1>1
  <2>. HIDE DEF row
  <2>. QED
    BY <2>1, <2>2, <2>3, XorCancels
<1>. QED
  BY <1>4, <1>5 DEF i, j

LEMMA RegistersEqual ==
  ASSUME NEW s \in Register, NEW t \in Register, \A k \in 1..8 : s[k] = t[k]
  PROVE  s = t
BY DEF Register

\* A half byte is the only one that leads from one register to another, and the register
\* the only one from which it does.
LEMMA StepInjective ==
  ASSUME NEW s \in Register, NEW t \in Register, NEW x \in Nibble,
         TableStep(s, x) = TableStep(t, x)
  PROVE  s = t
<1>1. /\ Xor[s[1]][x] = Xor[t[1]][x]
      /\ \A k \in 1..7 : TableStep(s, x)[k] = TableStep(t, x)[k] => s[k + 1] = t[k + 1]
  BY StepTells
<1>2. s[1] \in Nibble /\ t[1] \in Nibble
  BY DEF Register
<1>3. s[1] = t[1]
  BY <1>1, <1>2, XorCancels
<1>4. \A k \in 1..8 : s[k] = t[k]
  <2>1. \A k \in 1..7 : s[k + 1] = t[k + 1]
    BY <1>1
  <2>. SUFFICES ASSUME NEW k \in 1..8 PROVE s[k] = t[k]
    OBVIOUS
  <2>2. CASE k = 1
    BY <1>3, <2>2
  <2>3. CASE k # 1
    <3>1. k - 1 \in 1..7 /\ (k - 1) + 1 = k
      BY <2>3
    <3>. QED
      BY <2>1, <3>1
  <2>. QED
    BY <2>2, <2>3
<1>. QED
  BY <1>4, RegistersEqual

LEMMA TwoSteps ==
  ASSUME NEW s \in Register, NEW b \in Byte
  PROVE  /\ b % 16 \in Nibble /\ b \div 16 \in Nibble
         /\ TableStep(s, b % 16) \in Register
         /\ update(s, b) = TableStep(TableStep(s, b % 16), b \div 16)
<1>1. b % 16 \in Nibble /\ b \div 16 \in Nibble
  BY HalvesOfByte
<1>2. Nibbles(b)[1] = b % 16 /\ Nibbles(b)[2] = b \div 16
  BY DEF Nibbles
<1>. QED
  BY <1>1, <1>2, StepType DEF update

LEMMA UpdateInjective ==
  ASSUME NEW s \in Register, NEW t \in Register, NEW b \in Byte, update(s, b) = update(t, b)
  PROVE  s = t
BY TwoSteps, StepInjective

\* Another byte shows in the last two half bytes of the register ...
Tops(s, t) == s[7] # t[7] \/ s[8] # t[8]

LEMMA OtherByteShows ==
  ASSUME NEW s \in Register, NEW b \in Byte, NEW c \in Byte, b # c
  PROVE  Tops(update(s, b), update(s, c))
<1>. SUFFICES ASSUME ~Tops(update(s, b), update(s, c)) PROVE FALSE
  OBVIOUS
<1>. DEFINE x == b % 16
            y == c % 16
            v == b \div 16
            w == c \div 16
            p == TableStep(s, x)
            q == TableStep(s, y)
<1>1. /\ x \in Nibble /\ v \in Nibble /\ p \in Register /\ update(s, b) = TableStep(p, v)
      /\ y \in Nibble /\ w \in Nibble /\ q \in Register /\ update(s, c) = TableStep(q, w)
  BY TwoSteps
<1>2. b = 16 * v + x /\ c = 16 * w + y
  BY DEF Byte
<1>3. p[8] = TableStep(s, x)[8] /\ q[8] = TableStep(s, y)[8]
  OBVIOUS
<1>4. s[1] \in Nibble
  BY DEF Register
<1>5. x = y => p = q
  OBVIOUS
<1>. HIDE DEF x, y, v, w, p, q
<1>6. TableStep(p, v)[7] = TableStep(q, w)[7] /\ TableStep(p, v)[8] = TableStep(q, w)[8]
  BY <1>1 DEF Tops
<1>7. Xor[p[1]][v] = Xor[q[1]][w] /\ p[8] = q[8]
  <2>1. 7 \in 1..7 /\ 7 + 1 = 8
    OBVIOUS
  <2>. QED
    BY ONLY <1>1, <1>6, <2>1, StepTells
<1>8. Xor[s[1]][x] = Xor[s[1]][y]
  <2>1. TableStep(s, x)[8] = TableStep(s, y)[8] /\ x \in Nibble /\ y \in Nibble
    BY <1>1, <1>3, <1>7
  <2>. QED
    BY ONLY <2>1, s \in Register, StepTells
<1>9. x = y
  BY <1>1, <1>4, <1>8, XorCancels
<1>10. v = w
  <2>1. p[1] \in Nibble
    BY <1>1 DEF Register
  <2>. QED
    BY <1>1, <1>5, <1>7, <1>9, <2>1, XorCancels
<1>. QED
  BY <1>2, <1>9, <1>10

\* ... and no byte that follows hides it.
LEMMA NextByteShows ==
  ASSUME NEW s \in Register, NEW t \in Register, Tops(s, t), NEW b \in Byte, NEW c \in Byte
  PROVE  update(s, b) # update(t, c)
<1>. SUFFICES ASSUME update(s, b) = update(t, c) PROVE FALSE
  OBVIOUS
<1>. DEFINE x == b % 16
            y == c % 16
            v == b \div 16
            w == c \div 16
            p == TableStep(s, x)
            q == TableStep(t, y)
<1>1. /\ x \in Nibble /\ v \in Nibble /\ p \in Register /\ update(s, b) = TableStep(p, v)
      /\ y \in Nibble /\ w \in Nibble /\ q \in Register /\ update(t, c) = TableStep(q, w)
  BY TwoSteps
<1>2. p = TableStep(s, x) /\ q = TableStep(t, y)
  OBVIOUS
<1>. HIDE DEF x, y, v, w, p, q
<1>3. \A k \in 1..7 : p[k + 1] = q[k + 1]
  <2>1. TableStep(p, v) = TableStep(q, w)
    BY <1>1
  <2>2. TableStep(p, v)[8] = TableStep(q, w)[8] /\ \A k \in 1..7 : TableStep(p, v)[k] = TableStep(q, w)[k]
    BY <2>1
  <2>. QED
    BY <1>1, <2>2, StepTells
<1>4. p[6] = q[6] /\ p[7] = q[7] /\ p[8] = q[8]
  <2>1. 5 \in 1..7 /\ 6 \in 1..7 /\ 7 \in 1..7 /\ 5 + 1 = 6 /\ 6 + 1 = 7 /\ 7 + 1 = 8
    OBVIOUS
  <2>. QED
    BY <1>3, <2>1
<1>5. \A k \in 1..7 : p[k] = q[k] => s[k + 1] = t[k + 1]
  BY <1>1, <1>2, <1>4, StepTells
<1>6. s[7] = t[7] /\ s[8] = t[8]
  <2>1. 6 \in 1..7 /\ 7 \in 1..7 /\ 6 + 1 = 7 /\ 7 + 1 = 8
    OBVIOUS
  <2>. QED
    BY <1>4, <1>5, <2>1
<1>. QED
  BY <1>6 DEF Tops

\* Two runs agree until the data differ, and stay apart while they agree again.
LEMMA RunsAgree ==
  ASSUME NEW data, NEW other, NEW n \in Nat, NEW m \in 0..n, NEW f, NEW g,
         Updates(data, f, n), Updates(other, g, n), \A i \in 1..m : data[i] = other[i]
  PROVE  f[m] = g[m]
<1>. DEFINE T == {k \in Nat : k <= m => f[k] = g[k]}
<1>1. 0 \in T
  BY DEF Updates
<1>2. ASSUME NEW k \in Nat, k \in T PROVE k + 1 \in T
  <2>. SUFFICES ASSUME k + 1 <= m PROVE f[k + 1] = g[k + 1]
    OBVIOUS
  <2>1. k + 1 \in 0..n /\ k + 1 \in 1..m /\ k + 1 # 0 /\ (k + 1) - 1 = k
    OBVIOUS
  <2>2. f[k] = g[k]
    BY <1>2, <2>1
  <2>. QED
    BY <2>1, <2>2 DEF Updates
<1>3. Nat \subseteq T
  <2>. HIDE DEF T
  <2>. QED
    BY <1>1, <1>2, Induction
<1>. QED
  BY <1>3

LEMMA RunsStayApart ==
  ASSUME NEW n \in Nat, NEW m \in 0..n, NEW data, NEW other,
         \A i \in 1..n : data[i] \in Byte,
         NEW f \in [0..n -> Register], NEW g \in [0..n -> Register],
         Updates(data, f, n), Updates(other, g, n),
         \A i \in (m + 1)..n : data[i] = other[i], f[m] # g[m]
  PROVE  f[n] # g[n]
<1>. DEFINE T == {k \in Nat : m + k <= n => f[m + k] # g[m + k]}
<1>1. 0 \in T
  OBVIOUS
<1>2. ASSUME NEW k \in Nat, k \in T PROVE k + 1 \in T
  <2>. SUFFICES ASSUME m + (k + 1) <= n PROVE f[m + (k + 1)] # g[m + (k + 1)]
    OBVIOUS
  <2>. DEFINE a == m + k
              b == m + (k + 1)
  <2>1. /\ a \in 0..n /\ b \in 0..n /\ b \in 1..n /\ b \in (m + 1)..n /\ b # 0 /\ b - 1 = a
        /\ f[a] # g[a]
    BY <1>2
  <2>. HIDE DEF a, b
  <2>2. /\ f[b] = update(f[a], data[b]) /\ g[b] = update(g[a], data[b]) /\ data[b] \in Byte
        /\ f[a] \in Register /\ g[a] \in Register
    BY <2>1 DEF Updates
  <2>3. f[b] # g[b]
    BY <2>1, <2>2, UpdateInjective
  <2>. QED
    BY <2>3 DEF b
<1>3. Nat \subseteq T
  <2>. HIDE DEF T
  <2>. QED
    BY <1>1, <1>2, Induction
<1>4. n - m \in Nat /\ m + (n - m) = n
  OBVIOUS
<1>. QED
  BY <1>3, <1>4

\* The last two half bytes of the register are the last byte of the checksum; all four
\* bytes tell the whole register.
LEMMA ChecksumTells ==
  ASSUME NEW r \in Register, NEW s \in Register, NEW a \in Seq(Byte), NEW b \in Seq(Byte),
         calculate(a) = [k \in 1..8 |-> Inverted(r[k])],
         calculate(b) = [k \in 1..8 |-> Inverted(s[k])]
  PROVE  /\ ChecksumBytes(a)[4] = ChecksumBytes(b)[4] => ~Tops(r, s)
         /\ (\A k \in 1..4 : ChecksumBytes(a)[k] = ChecksumBytes(b)[k]) => r = s
<1>1. \A k \in 1..8 : r[k] \in 0..15 /\ s[k] \in 0..15
  BY DEF Register, Nibble
<1>2. \A k \in 1..4 :
        /\ ChecksumBytes(a)[k] = Inverted(r[2 * k - 1]) + 16 * Inverted(r[2 * k])
        /\ ChecksumBytes(b)[k] = Inverted(s[2 * k - 1]) + 16 * Inverted(s[2 * k])
  <2>1. \A k \in 1..4 : 2 * k - 1 \in 1..8 /\ 2 * k \in 1..8
    OBVIOUS
  <2>. QED
    BY <2>1 DEF ChecksumBytes
<1>3. ASSUME NEW k \in 1..4, ChecksumBytes(a)[k] = ChecksumBytes(b)[k]
      PROVE  r[2 * k - 1] = s[2 * k - 1] /\ r[2 * k] = s[2 * k]
  <2>1. 2 * k - 1 \in 1..8 /\ 2 * k \in 1..8
    OBVIOUS
  <2>2. /\ r[2 * k - 1] \in 0..15 /\ r[2 * k] \in 0..15 /\ s[2 * k - 1] \in 0..15 /\ s[2 * k] \in 0..15
    BY <1>1, <2>1
  <2>. DEFINE u == r[2 * k - 1]
              v == r[2 * k]
              x == s[2 * k - 1]
              y == s[2 * k]
  <2>3. Inverted(u) + 16 * Inverted(v) = Inverted(x) + 16 * Inverted(y)
    BY <1>2, <1>3
  <2>. HIDE DEF u, v, x, y
  <2>4. u \in 0..15 /\ v \in 0..15 /\ x \in 0..15 /\ y \in 0..15
    BY <2>2 DEF u, v, x, y
  <2>5. u = x /\ v = y
    BY ONLY <2>3, <2>4 DEF Inverted
  <2>. QED
    BY <2>5 DEF u, v, x, y
<1>4. ChecksumBytes(a)[4] = ChecksumBytes(b)[4] => ~Tops(r, s)
  <2>1. PICK k \in 1..4 : k = 4
    OBVIOUS
  <2>2. 2 * k - 1 = 7 /\ 2 * k = 8
    BY <2>1
  <2>3. ASSUME ChecksumBytes(a)[4] = ChecksumBytes(b)[4] PROVE r[7] = s[7] /\ r[8] = s[8]
    <3>1. ChecksumBytes(a)[k] = ChecksumBytes(b)[k]
      BY <2>1, <2>3
    <3>2. r[2 * k - 1] = s[2 * k - 1] /\ r[2 * k] = s[2 * k]
      BY <1>3, <3>1, Zenon
    <3>. QED
      BY <2>2, <3>2
  <2>. QED
    BY <2>3 DEF Tops
<1>5. ASSUME \A k \in 1..4 : ChecksumBytes(a)[k] = ChecksumBytes(b)[k] PROVE r = s
  <2>. SUFFICES ASSUME NEW j \in 1..8 PROVE r[j] = s[j]
    BY RegistersEqual
  <2>1. PICK k \in 1..4 : j = 2 * k - 1 \/ j = 2 * k
    <3>1. \E k \in {1, 2, 3, 4} : j = 2 * k - 1 \/ j = 2 * k
      OBVIOUS
    <3>. QED
      BY <3>1
  <2>. QED
    BY <1>3, <1>5, <2>1
<1>. QED
  BY <1>4, <1>5

\* Bytes a and b that differ in byte at, and perhaps in the next: the registers are
\* different at the end, and if it is the last byte then in the last two half bytes.
Differ(a, b, n, at) ==
  /\ a \in Seq(Byte) /\ b \in Seq(Byte) /\ Len(a) = n /\ Len(b) = n
  /\ at \in 1..n /\ a[at] # b[at] /\ \A i \in (1..n) \ {at, at + 1} : a[i] = b[i]

LEMMA BurstShows ==
  ASSUME NEW n \in Nat, NEW a, NEW b, NEW at, Differ(a, b, n, at)
  PROVE  \E k \in 1..4 : ChecksumBytes(a)[k] # ChecksumBytes(b)[k] /\ (at = n => k = 4)
<1>. USE DEF Differ
<1>0. PICK f, g : Runs(a, f, n) /\ Runs(b, g, n)
  BY CalculateRuns
<1>1. /\ f \in [0..n -> Register] /\ Updates(a, f, n)
      /\ calculate(a) = [k \in 1..8 |-> Inverted(f[n][k])]
  BY <1>0 DEF Runs
<1>2. /\ g \in [0..n -> Register] /\ Updates(b, g, n)
      /\ calculate(b) = [k \in 1..8 |-> Inverted(g[n][k])]
  BY <1>0 DEF Runs
<1>3. \A i \in 1..n : a[i] \in Byte /\ b[i] \in Byte
  BY ElementOfSeq
<1>4. f[at - 1] = g[at - 1]
  <2>1. PICK m \in 0..n : m = at - 1
    OBVIOUS
  <2>2. \A i \in 1..m : a[i] = b[i]
    BY <2>1
  <2>3. Updates(a, f, n) /\ Updates(b, g, n) /\ n \in Nat
    BY <1>1, <1>2
  <2>4. f[m] = g[m]
    BY ONLY <2>2, <2>3, m \in 0..n, RunsAgree
  <2>. QED
    BY <2>1, <2>4
<1>5. Tops(f[at], g[at])
  <2>1. at - 1 \in 0..n /\ at \in 0..n /\ at # 0
    OBVIOUS
  <2>2. f[at] = update(f[at - 1], a[at]) /\ g[at] = update(f[at - 1], b[at])
    BY <1>1, <1>2, <1>4, <2>1 DEF Updates
  <2>3. f[at - 1] \in Register /\ a[at] \in Byte /\ b[at] \in Byte
    BY <1>1, <1>3, <2>1
  <2>. QED
    BY <2>2, <2>3, OtherByteShows
<1>6. f[n] \in Register /\ g[n] \in Register
  BY <1>1, <1>2
<1>7. CASE at = n
  <2>1. ChecksumBytes(a)[4] # ChecksumBytes(b)[4]
    BY <1>1, <1>2, <1>5, <1>6, <1>7, ChecksumTells
  <2>. QED
    BY <2>1
<1>8. CASE at < n
  <2>. DEFINE m == at + 1
  <2>1. m \in 0..n /\ at \in 0..n /\ m # 0 /\ m - 1 = at /\ m \in 1..n
    BY <1>8
  <2>2. /\ f[m] = update(f[at], a[m]) /\ g[m] = update(g[at], b[m])
        /\ f[at] \in Register /\ g[at] \in Register /\ a[m] \in Byte /\ b[m] \in Byte
    <3>. HIDE DEF m
    <3>. QED
      BY ONLY <1>1, <1>2, <1>3, <2>1 DEF Updates
  <2>3. f[m] # g[m]
    BY <1>5, <2>2, NextByteShows
  <2>4. \A i \in (m + 1)..n : a[i] = b[i]
    OBVIOUS
  <2>. HIDE DEF m
  <2>5. f[n] # g[n]
    BY ONLY n \in Nat, <1>1, <1>2, <1>3, <2>1, <2>3, <2>4, RunsStayApart
  <2>. QED
    BY <1>1, <1>2, <1>6, <1>8, <2>5, ChecksumTells
<1>. QED
  BY <1>7, <1>8

LEMMA PacketBytes ==
  ASSUME NEW data \in Seq(Byte), NEW n \in Nat, n = Len(data)
  PROVE  LET pac == WithChecksum(data)
         IN  /\ pac \in Seq(Byte) /\ Len(pac) = n + 4
             /\ \A i \in 1..n : pac[i] = data[i]
             /\ \A k \in 1..4 : pac[n + k] = ChecksumBytes(data)[k]
<1>. DEFINE c == ChecksumBytes(data)
            p == data \o c
<1>1. c \in Seq(Byte) /\ Len(c) = 4
  BY ChecksumType
<1>2. /\ p \in Seq(Byte) /\ Len(p) = n + Len(c)
      /\ \A i \in 1..(n + Len(c)) : p[i] = IF i <= n THEN data[i] ELSE c[i - n]
  <2>. HIDE DEF c
  <2>. QED
    BY <1>1, ConcatProperties
<1>3. WithChecksum(data) = p
  BY DEF WithChecksum
<1>. HIDE DEF c, p
<1>4. \A i \in 1..n : p[i] = data[i]
  BY <1>1, <1>2
<1>5. ASSUME NEW k \in 1..4 PROVE p[n + k] = c[k]
  <2>. DEFINE i == n + k
  <2>1. i \in 1..(n + 4) /\ ~(i <= n) /\ i - n = k
    OBVIOUS
  <2>. HIDE DEF i
  <2>2. p[i] = c[k]
    BY <1>1, <1>2, <2>1
  <2>. QED
    BY <2>2 DEF i
<1>. QED
  BY <1>1, <1>2, <1>3, <1>4, <1>5 DEF c

\* A packet that differs from one with its checksum in one byte and perhaps the next is
\* not valid: whatever the bytes are, and how many.
LEMMA BurstRefused ==
  ASSUME NEW data \in Seq(Byte), NEW n \in Nat, n = Len(data),
         NEW pac, pac = WithChecksum(data), NEW hit, NEW at, Differ(hit, pac, n + 4, at)
  PROVE  validate_packet(hit) # "Ok"
<1>. SUFFICES ASSUME validate_packet(hit) = "Ok" PROVE FALSE
  OBVIOUS
<1>. USE DEF Differ
<1>. DEFINE got == SubSeq(hit, 1, n)
            tail == SubSeq(hit, n + 1, n + 4)
<1>1. /\ Len(pac) = n + 4 /\ \A i \in 1..n : pac[i] = data[i]
      /\ \A k \in 1..4 : pac[n + k] = ChecksumBytes(data)[k]
  BY PacketBytes
<1>2. tail = ChecksumBytes(got)
  <2>1. Len(hit) - 3 = n + 1 /\ Len(hit) = n + 4 /\ Len(hit) - 4 = n
    OBVIOUS
  <2>2. SubSeq(hit, Len(hit) - 3, Len(hit)) = ChecksumBytes(SubSeq(hit, 1, Len(hit) - 4))
    BY DEF validate_packet
  <2>. QED
    BY <2>1, <2>2
<1>3. \A i \in 1..(n + 4) : hit[i] \in Byte
  BY ElementOfSeq
<1>4. got \in Seq(Byte) /\ Len(got) = n /\ \A i \in 1..n : got[i] = hit[i]
  <2>1. \A i \in 1..n : hit[i] \in Byte
    BY <1>3
  <2>2. /\ got \in Seq(Byte) /\ Len(got) = IF 1 <= n THEN n - 1 + 1 ELSE 0
        /\ \A i \in 1..(n - 1 + 1) : got[i] = hit[1 + i - 1]
    BY <2>1, SubSeqProperties
  <2>. HIDE DEF got
  <2>3. \A i \in 1..n : i \in 1..(n - 1 + 1) /\ 1 + i - 1 = i
    OBVIOUS
  <2>. QED
    BY <2>2, <2>3
<1>5. \A k \in 1..4 : hit[n + k] = ChecksumBytes(got)[k]
  <2>1. \A i \in (n + 1)..(n + 4) : hit[i] \in Byte
    BY <1>3
  <2>2. \A i \in 1..(n + 4 - (n + 1) + 1) : tail[i] = hit[n + 1 + i - 1]
    BY <2>1, SubSeqProperties
  <2>3. \A k \in 1..4 : k \in 1..(n + 4 - (n + 1) + 1) /\ n + 1 + k - 1 = n + k
    OBVIOUS
  <2>. HIDE DEF tail, got
  <2>. QED
    BY <1>2, <2>2, <2>3
<1>. HIDE DEF got, tail
<1>6. hit[at] # pac[at] /\ \A i \in (1..(n + 4)) \ {at, at + 1} : hit[i] = pac[i]
  OBVIOUS
<1>7. CASE at > n
  <2>1. \A i \in 1..n : got[i] = data[i]
    BY <1>1, <1>4, <1>6, <1>7
  <2>2. got = data
    BY <1>4, <2>1, SeqEqual
  <2>3. PICK k \in 1..4 : at = n + k
    <3>1. at - n \in 1..4 /\ at = n + (at - n)
      BY <1>7
    <3>. QED
      BY <3>1
  <2>. QED
    BY <1>1, <1>5, <1>6, <2>2, <2>3
<1>8. CASE at \in 1..n
  <2>1. got[at] # data[at]
    BY <1>1, <1>4, <1>6, <1>8
  <2>2. \A i \in (1..n) \ {at, at + 1} : got[i] = data[i]
    BY <1>1, <1>4, <1>6
  <2>3. Differ(got, data, n, at)
    BY <1>4, <1>8, <2>1, <2>2
  <2>4. \E k \in 1..4 : ChecksumBytes(got)[k] # ChecksumBytes(data)[k] /\ (at = n => k = 4)
    <3>. HIDE DEF Differ
    <3>. QED
      BY <2>3, BurstShows
  <2>5. PICK k \in 1..4 : ChecksumBytes(got)[k] # ChecksumBytes(data)[k] /\ (at = n => k = 4)
    BY <2>4
  <2>6. n + k \in (1..(n + 4)) \ {at, at + 1}
    BY <1>8, <2>5
  <2>7. hit[n + k] = pac[n + k]
    BY ONLY <1>6, <2>6
  <2>. QED
    BY <1>1, <1>5, <2>5, <2>7
<1>. QED
  BY <1>7, <1>8

LEMMA FlipChanges ==
  ASSUME NEW b \in Byte, NEW mask \in {1, 16, 128, 255}
  PROVE  Flip(b, mask) # b
<1>. DEFINE l == b % 16
            h == b \div 16
            m == mask % 16
            o == mask \div 16
            x == Xor[l][m]
            y == Xor[h][o]
<1>1. l \in Nibble /\ h \in Nibble /\ m \in Nibble /\ o \in Nibble /\ b = 16 * h + l
  <2>1. mask \in Byte
    BY DEF Byte
  <2>2. b = 16 * h + l
    BY DEF Byte
  <2>. QED
    BY <2>1, <2>2, HalvesOfByte
<1>2. m # 0 \/ o # 0
  OBVIOUS
<1>3. Flip(b, mask) = x + 16 * y
  BY DEF Flip
<1>. HIDE DEF l, h, m, o
<1>4. x \in Nibble /\ y \in Nibble
  BY <1>1, XorType
<1>5. x # l \/ y # h
  BY <1>1, <1>2, XorCancels
<1>. HIDE DEF x, y
<1>. QED
  BY <1>1, <1>3, <1>4, <1>5 DEF Nibble

-----------------------------------------------------------------------------
(* Where the parts of a written schema lie. *)

IsRecord(p) == p.type = "Record"

LEMMA FieldsWritten ==
  ASSUME NEW p, p.fields \in Seq(Part)
  PROVE  /\ PerField(write_schema, p) \in Seq(Seq(Byte))
         /\ Len(PerField(write_schema, p)) = Len(p.fields)
<1>1. Maps(write_schema, Part, Seq(Byte))
  BY SchemaWritten DEF Maps
<1>. QED
  BY <1>1, FieldsList

LEMMA HeaderLayout ==
  ASSUME NEW p \in Part, NEW pac \in Seq(Byte), NEW at, At(pac, at, write_schema[p])
  PROVE  /\ p.type \in DOMAIN TypeCode /\ p.name \in Text
         /\ at \in Nat /\ at < Len(pac) /\ pac[at + 1] = TypeCode[p.type]
         /\ HasString(pac, at + 1) /\ StringAt(pac, at + 1) = p.name
         /\ PastTerminator(pac, at + 1) = at + Len(p.name) + 2
         /\ ~IsRecord(p) => Len(write_schema[p]) = Len(p.name) + 2
<1>. DEFINE w == write_schema[p]
            head == <<TypeCode[p.type]>>
            name == write_string(p.name)
            rest == IF IsRecord(p)
                    THEN write_number(Len(p.fields)) \o FlattenSeq(PerField(write_schema, p))
                    ELSE <<>>
<1>1. /\ p.type \in DOMAIN TypeCode /\ p.name \in Text /\ Len(p.name) \in Nat
      /\ TypeCode[p.type] \in Byte
  <2>1. p.type \in DOMAIN TypeCode /\ p.name \in Text
    BY PartShape, TypeCodes DEF Shape, Leaf
  <2>2. TypeCode[p.type] \in 0..12
    BY <2>1, TypeCodes
  <2>. QED
    BY <2>1, <2>2, LenProperties DEF Text, Byte
<1>2. w = head \o name \o rest
  BY SchemaWritten DEF SchemaBytes, IsRecord
<1>3. head \in Seq(Byte) /\ Len(head) = 1 /\ head[1] = TypeCode[p.type]
  BY <1>1
<1>4. name \in Seq(Byte) /\ Len(name) = Len(p.name) + 1
  BY <1>1, StringBytes
<1>5. rest \in Seq(Byte)
  <2>1. CASE IsRecord(p)
    <3>1. p.fields \in Seq(Part) /\ Len(p.fields) \in Nat /\ IsUint32(Len(p.fields))
      BY <2>1, PartShape, LenProperties DEF Shape, IsRecord
    <3>2. PerField(write_schema, p) \in Seq(Seq(Byte))
      BY <3>1, FieldsWritten
    <3>3. FlattenSeq(PerField(write_schema, p)) \in Seq(Byte)
      BY <3>2, Flattened
    <3>4. write_number(Len(p.fields)) \in Seq(Byte)
      BY <3>1, NumberBytes
    <3>. QED
      BY <2>1, <3>3, <3>4, ConcatProperties
  <2>2. CASE ~IsRecord(p)
    BY <2>2
  <2>. QED
    BY <2>1, <2>2
<1>6. ~IsRecord(p) => Len(w) = Len(p.name) + 2
  <2>. SUFFICES ASSUME ~IsRecord(p) PROVE Len(w) = Len(p.name) + 2
    OBVIOUS
  <2>1. Len(rest) = 0
    BY EmptySeq
  <2>. HIDE DEF w, head, name, rest
  <2>2. head \o name \in Seq(Byte) /\ Len(head \o name) = Len(head) + Len(name)
    BY <1>3, <1>4, ConcatProperties
  <2>3. Len(w) = Len(head \o name) + Len(rest)
    BY <1>2, <1>5, <2>2, ConcatProperties
  <2>. QED
    BY ONLY <1>1, <1>3, <1>4, <2>1, <2>2, <2>3
<1>. HIDE DEF head, name, rest, w
<1>7. At(pac, at, w)
  BY DEF w
<1>8. head \o name \in Seq(Byte)
  BY <1>3, <1>4, ConcatProperties
<1>9. At(pac, at, head \o name)
  BY <1>2, <1>5, <1>7, <1>8, AtConcat
<1>10. At(pac, at, head) /\ At(pac, at + 1, name)
  BY <1>3, <1>4, <1>9, AtConcat
<1>11. at \in Nat /\ at < Len(pac) /\ pac[at + 1] = TypeCode[p.type]
  BY <1>3, <1>10, LenProperties DEF At, Room
<1>12. /\ HasString(pac, at + 1) /\ StringAt(pac, at + 1) = p.name
       /\ PastTerminator(pac, at + 1) = (at + 1) + Len(p.name) + 1
  BY <1>1, <1>10, StringRead DEF name
<1>13. (at + 1) + Len(p.name) + 1 = at + Len(p.name) + 2
  <2>1. \A x, y \in Nat : (x + 1) + y + 1 = x + y + 2
    OBVIOUS
  <2>. QED
    BY <1>1, <1>11, <2>1
<1>. QED
  BY <1>1, <1>6, <1>11, <1>12, <1>13 DEF w

\* Where field i of a record written at at ends, and the next one starts.
FieldEnd(p, at, i) == at + Len(p.name) + 6 + Ends(PerField(write_schema, p))[i]

LEMMA RecordLayout ==
  ASSUME NEW p \in Part, IsRecord(p), NEW pac \in Seq(Byte), NEW at,
         At(pac, at, write_schema[p])
  PROVE  /\ p.fields \in Seq(Part) /\ Len(p.fields) \in Nat /\ IsUint32(Len(p.fields))
         /\ At(pac, at + Len(p.name) + 2, write_number(Len(p.fields)))
         /\ FieldEnd(p, at, 0) = at + Len(p.name) + 6
         /\ FieldEnd(p, at, Len(p.fields)) = at + Len(write_schema[p])
         /\ PerField(write_schema, p) \in Seq(Seq(Byte))
         /\ At(pac, at + Len(p.name) + 6, FlattenSeq(PerField(write_schema, p)))
<1>. DEFINE w == write_schema[p]
            head == <<TypeCode[p.type]>>
            name == write_string(p.name)
            number == write_number(Len(p.fields))
            s == PerField(write_schema, p)
            f == FlattenSeq(s)
<1>1. /\ p.name \in Text /\ Len(p.name) \in Nat /\ at \in Nat
      /\ TypeCode[p.type] \in Byte
  <2>1. p.type \in DOMAIN TypeCode /\ p.name \in Text
    BY PartShape, TypeCodes DEF Shape, Leaf
  <2>2. TypeCode[p.type] \in 0..12
    BY <2>1, TypeCodes
  <2>. QED
    BY <2>1, <2>2, LenProperties DEF Text, Byte, At
<1>2. w = head \o name \o (number \o f)
  BY SchemaWritten DEF SchemaBytes, IsRecord
<1>3. head \in Seq(Byte) /\ Len(head) = 1
  BY <1>1
<1>4. name \in Seq(Byte) /\ Len(name) = Len(p.name) + 1
  BY <1>1, StringBytes
<1>5. p.fields \in Seq(Part) /\ Len(p.fields) \in Nat /\ IsUint32(Len(p.fields))
  BY PartShape, LenProperties DEF Shape, IsRecord
<1>6. s \in Seq(Seq(Byte)) /\ Len(s) = Len(p.fields)
  BY <1>5, FieldsWritten
<1>7. f \in Seq(Byte) /\ Len(f) = Ends(s)[Len(s)] /\ Len(f) \in Nat
  BY <1>6, Flattened, LenProperties
<1>8. Ends(s)[0] = 0
  BY <1>6, EndsExist DEF EndsAt
<1>9. number \in Seq(Byte) /\ Len(number) = 4
  BY <1>5, NumberBytes
<1>. HIDE DEF head, name, number, s, f, w
<1>10. At(pac, at, w)
  BY DEF w
<1>11. head \o name \in Seq(Byte) /\ Len(head \o name) = Len(head) + Len(name)
  BY <1>3, <1>4, ConcatProperties
<1>12. number \o f \in Seq(Byte) /\ Len(number \o f) = Len(number) + Len(f)
  BY <1>7, <1>9, ConcatProperties
<1>. DEFINE here == at + Len(head \o name)
<1>13. At(pac, here, number \o f)
  BY <1>2, <1>10, <1>11, <1>12, AtConcat
<1>14. here = at + Len(p.name) + 2 /\ here + Len(number) = at + Len(p.name) + 6
  BY ONLY <1>1, <1>3, <1>4, <1>9, <1>11
<1>. HIDE DEF here
<1>15. At(pac, here, number) /\ At(pac, here + Len(number), f)
  BY <1>7, <1>9, <1>13, AtConcat
<1>17. Len(w) = Len(head \o name) + Len(number \o f)
  BY <1>2, <1>11, <1>12, ConcatProperties
<1>18. FieldEnd(p, at, 0) = at + Len(p.name) + 6
  BY <1>1, <1>8 DEF FieldEnd, s
<1>19. FieldEnd(p, at, Len(p.fields)) = at + Len(w)
  <2>1. FieldEnd(p, at, Len(p.fields)) = at + Len(p.name) + 6 + Len(f)
    BY <1>6, <1>7 DEF FieldEnd, s
  <2>2. at + Len(p.name) + 6 + Len(f) = at + Len(w)
    <3>. DEFINE x == Len(p.name)
                y == Len(f)
                z == Len(w)
    <3>1. z = (1 + (x + 1)) + (4 + y) /\ at \in Nat /\ x \in Nat /\ y \in Nat
      BY <1>1, <1>3, <1>4, <1>7, <1>9, <1>11, <1>12, <1>17
    <3>. HIDE DEF x, y, z
    <3>2. at + x + 6 + y = at + z
      BY ONLY <3>1
    <3>. QED
      BY <3>2 DEF x, y, z
  <2>. QED
    BY <2>1, <2>2
<1>. QED
  BY <1>5, <1>6, <1>14, <1>15, <1>18, <1>19 DEF number, s, f, w

LEMMA FieldLayout ==
  ASSUME NEW p \in Part, IsRecord(p), NEW pac \in Seq(Byte), NEW at,
         At(pac, at, write_schema[p]), NEW m \in Nat, m < Len(p.fields)
  PROVE  /\ p.fields[m + 1] \in Part
         /\ FieldEnd(p, at, m) \in Nat
         /\ At(pac, FieldEnd(p, at, m), write_schema[p.fields[m + 1]])
         /\ FieldEnd(p, at, m + 1) = FieldEnd(p, at, m) + Len(write_schema[p.fields[m + 1]])
<1>. DEFINE s == PerField(write_schema, p)
            base == at + Len(p.name) + 6
            i == m + 1
<1>1. /\ p.fields \in Seq(Part) /\ Len(p.fields) \in Nat /\ s \in Seq(Seq(Byte))
      /\ At(pac, base, FlattenSeq(s))
  BY RecordLayout
<1>2. Len(s) = Len(p.fields)
  BY <1>1, FieldsWritten
<1>3. i \in 1..Len(p.fields) /\ i - 1 = m
  BY <1>1
<1>4. s[i] = write_schema[p.fields[i]] /\ p.fields[i] \in Part
  <2>1. i \in DOMAIN p.fields
    BY <1>1, <1>3, LenProperties
  <2>. QED
    BY <1>1, <1>3, <2>1, ElementOfSeq DEF PerField
<1>5. Len(s[i]) \in Nat
  BY <1>4, SchemaWritten, LenProperties
<1>. HIDE DEF s, base, i
<1>6. /\ Ends(s)[i - 1] \in Nat /\ Ends(s)[i] = Ends(s)[i - 1] + Len(s[i])
      /\ At(pac, base + Ends(s)[i - 1], s[i])
  BY <1>1, <1>2, <1>3, AtPiece
<1>7. base \in Nat
  BY <1>1 DEF At
<1>8. FieldEnd(p, at, m) = base + Ends(s)[m] /\ FieldEnd(p, at, i) = base + Ends(s)[i]
  BY DEF FieldEnd, base, s
<1>9. FieldEnd(p, at, i) = FieldEnd(p, at, m) + Len(s[i]) /\ FieldEnd(p, at, m) \in Nat
  BY <1>3, <1>5, <1>6, <1>7, <1>8
<1>. QED
  BY <1>3, <1>4, <1>6, <1>8, <1>9 DEF i

-----------------------------------------------------------------------------
(* What is sent, and the bytes of a data message. *)

LEMMA Headers ==
  /\ make_header_byte("Broadcast", "Send") = 0 /\ make_header_byte("Data", "Send") = 128
  /\ make_header_byte("Broadcast", "Request") = 96
  /\ Branch(0) = "schema" /\ Branch(128) = "message" /\ Branch(96) = "request"
<1>1. /\ PacketFunction["Send"] = 0 /\ PacketFunction["Request"] = 96
      /\ PacketType["Broadcast"] = 0 /\ PacketType["Data"] = 128
  BY DEF PacketFunction, PacketType
<1>2. /\ HeaderFunc(0) = 0 /\ HeaderFunc(128) = 0 /\ HeaderFunc(96) = 96
      /\ HeaderType(0) = 0 /\ HeaderType(128) = 128
  BY SMT DEF HeaderFunc, HeaderType
<1>3. /\ make_header_byte("Broadcast", "Send") = 0 /\ make_header_byte("Data", "Send") = 128
      /\ make_header_byte("Broadcast", "Request") = 96
  BY <1>1, SMT DEF make_header_byte
<1>4. Branch(0) = "schema" /\ Branch(128) = "message"
  BY <1>1, <1>2, SMT DEF Branch
<1>5. Branch(96) = "request"
  BY <1>1, <1>2, SMT DEF Branch
<1>. QED
  BY <1>3, <1>4, <1>5

LEMMA Sent ==
  ASSUME NEW h \in Byte, NEW body \in Seq(Byte), NEW pac,
         pac = WithChecksum(<<h, ChannelId>> \o body)
  PROVE  /\ pac \in Seq(Byte) /\ validate_packet(pac) = "Ok" /\ pac[1] = h
         /\ At(pac, 2, body) /\ 2 + Len(body) = Room(pac)
<1>. DEFINE a == <<h, ChannelId>>
            d == a \o body
<1>1. a \in Seq(Byte) /\ Len(a) = 2 /\ a[1] = h
  BY ValuesAssumption DEF Byte
<1>. HIDE DEF a
<1>2. Len(body) \in Nat
  BY LenProperties
<1>3. /\ d \in Seq(Byte) /\ Len(d) = Len(a) + Len(body)
      /\ \A i \in 1..(Len(a) + Len(body)) : d[i] = IF i <= Len(a) THEN a[i] ELSE body[i - Len(a)]
  BY <1>1, ConcatProperties
<1>4. d # <<>> /\ d[1] = h
  <2>1. 1 \in 1..(Len(a) + Len(body)) /\ 1 <= Len(a) /\ Len(d) # 0
    BY <1>1, <1>2, <1>3
  <2>. QED
    BY <1>1, <1>3, <2>1, EmptySeq
<1>. HIDE DEF d
<1>5. pac = WithChecksum(d)
  BY DEF d, a
<1>6. /\ pac \in Seq(Byte) /\ Len(pac) = Len(d) + 4
      /\ validate_packet(pac) = "Ok" /\ At(pac, 0, d) /\ pac[1] = d[1]
  BY <1>3, <1>4, <1>5, Undamaged
<1>7. At(pac, 0 + Len(a), body)
  BY <1>1, <1>3, <1>6, AtConcat DEF d
<1>8. 0 + Len(a) = 2 /\ Room(pac) = 2 + Len(body)
  BY <1>1, <1>2, <1>3, <1>6 DEF Room
<1>. QED
  BY <1>4, <1>6, <1>7, <1>8

LEMMA ValuesFit ==
  ASSUME NEW leaf \in Leaf, NEW v \in ValuesOf(leaf)
  PROVE  Fitting(leaf.type, v)
<1>1. leaf.type \in DOMAIN TypeCode \ {"Record"}
  BY DEF Leaf
<1>2. CASE leaf.type = "String"
  <2>1. v \in Strings
    BY <1>2 DEF ValuesOf
  <2>. QED
    BY <1>2, <2>1, ValuesAssumption DEF Fitting
<1>3. CASE leaf.type = "Boolean"
  <2>1. v \in {<<0>>, <<1>>}
    BY <1>3 DEF ValuesOf
  <2>2. v \in Seq(Byte) /\ Len(v) = 1
    <3>1. 0 \in Byte /\ 1 \in Byte
      BY DEF Byte
    <3>2. CASE v = <<0>>
      BY <3>1, <3>2
    <3>3. CASE v = <<1>>
      BY <3>1, <3>3
    <3>. QED
      BY <2>1, <3>2, <3>3
  <2>3. Width["Boolean"] = 1 /\ "Boolean" # "String"
    BY DEF Width
  <2>. QED
    BY <1>3, <2>2, <2>3 DEF Fitting
<1>4. CASE leaf.type \notin {"String", "Boolean"}
  <2>. DEFINE w == Width[leaf.type]
  <2>1. v \in [1..w -> ByteValues]
    BY <1>4 DEF ValuesOf
  <2>2. w \in Nat /\ \A x \in ByteValues : x \in Byte
    <3>1. w \in 1..8
      BY <1>1, <1>4, Widths
    <3>. QED
      BY <3>1, ValuesAssumption DEF Byte
  <2>. HIDE DEF w
  <2>3. v \in [1..w -> Byte]
    BY <2>1, <2>2
  <2>4. v \in Seq(Byte) /\ Len(v) = w
    BY <2>2, <2>3, IsSequence
  <2>. QED
    BY <1>4, <2>4 DEF Fitting, w
<1>. QED
  BY <1>2, <1>3, <1>4

LEMMA LeafBytes ==
  ASSUME NEW t, NEW v, Fitting(t, v)
  PROVE  write_leaf(t, v) \in Seq(Byte)
BY StringBytes DEF Fitting, write_leaf

\* The values of p's leaves, and the pieces of its data message.
FitsPart(p, v) ==
  /\ v = [i \in DOMAIN Leaves[p] |-> v[i]]
  /\ \A i \in DOMAIN Leaves[p] : Fitting(Leaves[p][i].type, v[i])
Pieces(p, v) == [i \in DOMAIN Leaves[p] |-> write_leaf(Leaves[p][i].type, v[i])]

LEMMA MessageWritten ==
  ASSUME NEW p \in Part, NEW v, FitsPart(p, v)
  PROVE  /\ Pieces(p, v) \in Seq(Seq(Byte)) /\ Len(Pieces(p, v)) = Len(Leaves[p])
         /\ Len(Leaves[p]) \in Nat /\ DOMAIN Leaves[p] = 1..Len(Leaves[p])
         /\ write_message(p, v) \in Seq(Byte) /\ write_message(p, v) = FlattenSeq(Pieces(p, v))
         /\ Ends(Pieces(p, v))[0] = 0
         /\ Ends(Pieces(p, v))[Len(Leaves[p])] = Len(write_message(p, v))
<1>. DEFINE ls == Leaves[p]
            s == Pieces(p, v)
            n == Len(ls)
            B == Seq(Byte)
<1>1. n \in Nat /\ DOMAIN ls = 1..n
  BY LeavesListed, LenProperties
<1>2. \A i \in 1..n : write_leaf(ls[i].type, v[i]) \in B
  BY <1>1, LeafBytes DEF FitsPart
<1>3. s \in [1..n -> B]
  BY <1>1, <1>2 DEF Pieces
<1>4. write_message(p, v) = FlattenSeq(s)
  BY DEF write_message, Pieces
<1>. HIDE DEF s, n, ls, B
<1>5. s \in Seq(B)
  BY <1>1, <1>3, IsSequence
<1>6. Len(s) = n
  BY <1>1, <1>3, IsSequence
<1>7. s \in Seq(Seq(Byte))
  BY <1>5 DEF B
<1>8. FlattenSeq(s) \in Seq(Byte) /\ Len(FlattenSeq(s)) = Ends(s)[Len(s)] /\ Ends(s)[0] = 0
  BY <1>7, Flattened, EndsExist DEF EndsAt
<1>. QED
  BY <1>1, <1>4, <1>6, <1>7, <1>8 DEF s, n, ls

LEMMA LeafLayout ==
  ASSUME NEW p \in Part, NEW v, FitsPart(p, v), NEW pac \in Seq(Byte), NEW at,
         At(pac, at, write_message(p, v)), NEW m \in Nat, m < Len(Leaves[p])
  PROVE  LET t == Leaves[p][m + 1].type
             w == write_leaf(t, v[m + 1])
             o == Ends(Pieces(p, v))
         IN  /\ t \in DOMAIN TypeCode \ {"Record"} /\ Fitting(t, v[m + 1])
             /\ At(pac, at + o[m], w) /\ at + o[m + 1] = (at + o[m]) + Len(w)
             /\ at + o[m] \in Nat /\ Len(w) \in Nat
<1>. DEFINE i == m + 1
            t == Leaves[p][i].type
            w == write_leaf(t, v[i])
            s == Pieces(p, v)
<1>1. /\ s \in Seq(Seq(Byte)) /\ Len(s) = Len(Leaves[p]) /\ Len(s) \in Nat
      /\ write_message(p, v) = FlattenSeq(s) /\ DOMAIN Leaves[p] = 1..Len(s)
  BY MessageWritten
<1>2. i \in 1..Len(s) /\ i - 1 = m
  BY <1>1
<1>3. t \in DOMAIN TypeCode \ {"Record"} /\ Fitting(t, v[i])
  <2>1. Leaves[p][i] \in Leaf
    BY <1>1, <1>2, LeavesListed, ElementOfSeq
  <2>. QED
    BY <1>1, <1>2, <2>1 DEF FitsPart, Leaf
<1>4. s[i] = w
  BY <1>1, <1>2 DEF Pieces
<1>5. Len(w) \in Nat
  BY <1>3, LeafBytes, LenProperties
<1>. HIDE DEF i, s, t, w
<1>6. /\ Ends(s)[i - 1] \in Nat /\ Ends(s)[i] = Ends(s)[i - 1] + Len(s[i])
      /\ At(pac, at + Ends(s)[i - 1], s[i])
  BY <1>1, <1>2, AtPiece
<1>7. at \in Nat
  BY DEF At
<1>8. at + Ends(s)[i] = (at + Ends(s)[m]) + Len(w) /\ at + Ends(s)[m] \in Nat
  BY <1>2, <1>4, <1>5, <1>6, <1>7
<1>. QED
  BY <1>2, <1>3, <1>4, <1>5, <1>6, <1>8 DEF i, s, t, w

-----------------------------------------------------------------------------
(* Decoding.  The records rs under construction are those of nodes, which were *)
(* written at ats; root is what the broadcast in pac describes.                *)

Nodes == [Nat -> Part]
Places == [Nat -> Nat]
OpenRecord == [name : Text, left : Nat, fields : Seq(Part)]

Frame(pac, r, node, at) ==
  /\ node \in Part /\ IsRecord(node) /\ At(pac, at, write_schema[node])
  /\ r.name = node.name /\ Len(r.fields) + r.left = Len(node.fields)
  /\ \A i \in 1..Len(r.fields) : r.fields[i] = node.fields[i]

\* The Part q, written at at, is the next field that r is given.
Within(r, node, base, q, at) ==
  /\ r.left # 0 /\ q = node.fields[Len(r.fields) + 1]
  /\ at = FieldEnd(node, base, Len(r.fields))

Frames(pac, root, rs, nodes, ats) ==
  /\ rs \in Seq(OpenRecord)
  /\ \A d \in 1..Len(rs) : Frame(pac, rs[d], nodes[d], ats[d])
  /\ Len(rs) # 0 => nodes[1] = root /\ ats[1] = 2
  /\ \A d \in 1..(Len(rs) - 1) : Within(rs[d], nodes[d], ats[d], nodes[d + 1], ats[d + 1])

\* The Part that is to be placed next, and where the reader is.
Due(root, rs, nodes, ats, q, at) ==
  IF Len(rs) = 0 THEN q = root /\ at = 2
  ELSE Within(rs[Len(rs)], nodes[Len(rs)], ats[Len(rs)], q, at)
ReadTo(rs, nodes, ats) ==
  IF Len(rs) = 0 THEN 2
  ELSE FieldEnd(nodes[Len(rs)], ats[Len(rs)], Len(rs[Len(rs)].fields))

LEMMA NextDue ==
  ASSUME NEW pac \in Seq(Byte), NEW root \in Part, At(pac, 2, write_schema[root]),
         NEW rs, NEW nodes, NEW ats, Frames(pac, root, rs, nodes, ats),
         Len(rs) # 0 => rs[Len(rs)].left # 0
  PROVE  \E q \in Part : /\ Due(root, rs, nodes, ats, q, ReadTo(rs, nodes, ats))
                         /\ At(pac, ReadTo(rs, nodes, ats), write_schema[q])
<1>1. CASE Len(rs) = 0
  BY <1>1 DEF Due, ReadTo
<1>2. CASE Len(rs) # 0
  <2>. DEFINE r == rs[Len(rs)]
              node == nodes[Len(rs)]
              base == ats[Len(rs)]
              m == Len(r.fields)
  <2>1. Len(rs) \in 1..Len(rs) /\ rs \in Seq(OpenRecord)
    BY <1>2, LenProperties DEF Frames
  <2>2. r \in OpenRecord /\ Frame(pac, r, node, base)
    BY <2>1, ElementOfSeq DEF Frames
  <2>3. r.left \in Nat /\ r.left # 0 /\ m \in Nat /\ m + r.left = Len(node.fields)
    BY <1>2, <2>2, LenProperties DEF OpenRecord, Frame
  <2>4. Due(root, rs, nodes, ats, node.fields[m + 1], FieldEnd(node, base, m))
    BY <1>2, <2>3 DEF Due, Within
  <2>5. ReadTo(rs, nodes, ats) = FieldEnd(node, base, m)
    BY <1>2 DEF ReadTo
  <2>. HIDE DEF r, node, base, m
  <2>6. m < Len(node.fields)
    BY <2>3
  <2>7. /\ node.fields[m + 1] \in Part
        /\ At(pac, FieldEnd(node, base, m), write_schema[node.fields[m + 1]])
    BY <2>2, <2>3, <2>6, FieldLayout DEF Frame
  <2>. QED
    BY <2>4, <2>5, <2>7
<1>. QED
  BY <1>1, <1>2

\* The innermost record gets its next field.
Placed(rs, q) == [rs EXCEPT ![Len(rs)].fields = Append(@, q), ![Len(rs)].left = @ - 1]

LEMMA FieldPlaced ==
  ASSUME NEW pac \in Seq(Byte), NEW root \in Part,
         NEW rs, NEW nodes, NEW ats, Frames(pac, root, rs, nodes, ats), Len(rs) # 0,
         NEW q \in Part, NEW at, Due(root, rs, nodes, ats, q, at)
  PROVE  /\ Frames(pac, root, Placed(rs, q), nodes, ats) /\ Len(Placed(rs, q)) # 0
         /\ ReadTo(Placed(rs, q), nodes, ats) = at + Len(write_schema[q])
<1>. DEFINE n == Len(rs)
            r == rs[n]
            node == nodes[n]
            base == ats[n]
            m == Len(r.fields)
            e == [r EXCEPT !.fields = Append(r.fields, q), !.left = r.left - 1]
            new == Placed(rs, q)
<1>1. n \in 1..n /\ n \in Nat /\ rs \in Seq(OpenRecord)
  BY LenProperties DEF Frames
<1>2. r \in OpenRecord /\ Frame(pac, r, node, base)
  BY <1>1, ElementOfSeq DEF Frames
<1>3. /\ Within(r, node, base, q, at) /\ r.left \in Nat /\ r.left - 1 \in Nat /\ m \in Nat
      /\ m + r.left = Len(node.fields) /\ r.fields \in Seq(Part)
  <2>1. Within(r, node, base, q, at)
    BY DEF Due
  <2>2. r.left \in Nat /\ r.fields \in Seq(Part) /\ r.left # 0
    BY <1>2, <2>1 DEF OpenRecord, Within
  <2>. QED
    BY <1>2, <2>1, <2>2, LenProperties DEF Frame
<1>4. /\ Append(r.fields, q) \in Seq(Part) /\ Len(Append(r.fields, q)) = m + 1
      /\ \A i \in 1..m : Append(r.fields, q)[i] = r.fields[i]
      /\ Append(r.fields, q)[m + 1] = q
  BY <1>3, AppendProperties
<1>5. /\ e \in OpenRecord /\ e.fields = Append(r.fields, q) /\ e.left = r.left - 1
      /\ e.name = r.name
  BY <1>2, <1>3, <1>4 DEF OpenRecord
<1>6. new = [rs EXCEPT ![n] = e]
  BY DEF Placed
<1>7. /\ new \in Seq(OpenRecord) /\ Len(new) = n
      /\ \A d \in 1..n : new[d] = IF d = n THEN e ELSE rs[d]
  BY <1>1, <1>5, <1>6, ExceptSeq
<1>0. m = Len(r.fields)
  OBVIOUS
<1>. HIDE DEF e, r, node, base, m
<1>8. Frame(pac, e, node, base)
  <2>1. Len(e.fields) + e.left = Len(node.fields)
    <3>. DEFINE l == r.left
                k == Len(node.fields)
                a == Len(e.fields)
                b == e.left
    <3>1. m \in Nat /\ l \in Nat /\ m + l = k /\ a = m + 1 /\ b = l - 1
      BY <1>3, <1>4, <1>5
    <3>. HIDE DEF l, k, a, b
    <3>2. a + b = k
      BY ONLY <3>1
    <3>. QED
      BY <3>2 DEF a, b, k
  <2>2. ASSUME NEW i \in 1..(m + 1) PROVE Append(r.fields, q)[i] = node.fields[i]
    <3>1. i = m + 1 \/ i \in 1..m
      BY <1>3
    <3>2. CASE i = m + 1
      BY <1>0, <1>3, <1>4, <3>2 DEF Within
    <3>3. CASE i \in 1..m
      BY <1>0, <1>2, <1>4, <3>3 DEF Frame
    <3>. QED
      BY <3>1, <3>2, <3>3
  <2>. QED
    BY <1>2, <1>4, <1>5, <2>1, <2>2 DEF Frame
<1>9. FieldEnd(node, base, m + 1) = at + Len(write_schema[q])
  <2>1. m < Len(node.fields) /\ IsRecord(node) /\ At(pac, base, write_schema[node]) /\ node \in Part
    BY <1>2, <1>3 DEF Frame
  <2>2. /\ node.fields[m + 1] \in Part
        /\ FieldEnd(node, base, m) \in Nat
        /\ At(pac, FieldEnd(node, base, m), write_schema[node.fields[m + 1]])
        /\ FieldEnd(node, base, m + 1) = FieldEnd(node, base, m) + Len(write_schema[node.fields[m + 1]])
    BY ONLY <1>3, <2>1, FieldLayout, pac \in Seq(Byte)
  <2>. QED
    BY <1>0, <1>3, <2>2 DEF Within
<1>10. \A d \in 1..n : Frame(pac, new[d], nodes[d], ats[d])
  BY <1>7, <1>8 DEF Frames, node, base
<1>11. ASSUME NEW d \in 1..(n - 1)
       PROVE  Within(new[d], nodes[d], ats[d], nodes[d + 1], ats[d + 1])
  <2>1. d \in 1..n /\ d # n
    BY <1>1
  <2>2. new[d] = rs[d]
    BY <1>7, <2>1
  <2>. QED
    BY <2>2 DEF Frames
<1>12. ReadTo(new, nodes, ats) = at + Len(write_schema[q])
  <2>1. new[n] = e
    BY <1>1, <1>7
  <2>. QED
    BY <1>4, <1>5, <1>7, <1>9, <2>1 DEF ReadTo, node, base
<1>. HIDE DEF new
<1>13. Frames(pac, root, new, nodes, ats)
  BY <1>7, <1>10, <1>11 DEF Frames
<1>. QED
  BY <1>7, <1>12, <1>13 DEF new

\* A record is begun inside the innermost one.
Begun(q) == [name |-> q.name, left |-> Len(q.fields), fields |-> <<>>]

LEMMA RecordBegun ==
  ASSUME NEW pac \in Seq(Byte), NEW root \in Part, NEW rs,
         NEW nodes \in Nodes, NEW ats \in Places,
         Frames(pac, root, rs, nodes, ats),
         NEW q \in Part, NEW at, Due(root, rs, nodes, ats, q, at),
         IsRecord(q), At(pac, at, write_schema[q])
  PROVE  \E ns \in Nodes, bs \in Places :
           /\ Frames(pac, root, Append(rs, Begun(q)), ns, bs)
           /\ ReadTo(Append(rs, Begun(q)), ns, bs) = FieldEnd(q, at, 0)
<1>. DEFINE n == Len(rs)
            r == Begun(q)
            new == Append(rs, r)
            ns == [d \in Nat |-> IF d = n + 1 THEN q ELSE nodes[d]]
            bs == [d \in Nat |-> IF d = n + 1 THEN at ELSE ats[d]]
<1>1. n \in Nat /\ rs \in Seq(OpenRecord)
  BY LenProperties DEF Frames
<1>2. /\ q.fields \in Seq(Part) /\ Len(q.fields) \in Nat /\ q.name \in Text
  BY RecordLayout, HeaderLayout
<1>3. /\ r \in OpenRecord /\ r.name = q.name /\ r.left = Len(q.fields) /\ r.fields = <<>>
      /\ Len(r.fields) = 0
  <2>1. <<>> \in Seq(Part) /\ Len(<<>>) = 0
    BY EmptySeq
  <2>. QED
    BY <1>2, <2>1 DEF Begun, OpenRecord
<1>. HIDE DEF r
<1>4. /\ new \in Seq(OpenRecord) /\ Len(new) = n + 1 /\ new[n + 1] = r
      /\ \A d \in 1..n : new[d] = rs[d]
  BY <1>1, <1>3, AppendProperties
<1>5. ns \in Nodes /\ bs \in Places /\ n = Len(rs)
  <2>1. at \in Nat
    BY DEF At
  <2>. QED
    BY <2>1 DEF Nodes, Places
<1>. HIDE DEF n, new
<1>6. /\ ns[n + 1] = q /\ bs[n + 1] = at /\ n + 1 # 0 /\ n + 1 \in Nat
      /\ \A d \in 1..n : ns[d] = nodes[d] /\ bs[d] = ats[d]
  <2>1. n + 1 # 0 /\ n + 1 \in Nat /\ \A d \in 1..n : d \in Nat /\ d # n + 1
    BY ONLY <1>1
  <2>. QED
    BY <2>1
<1>. HIDE DEF ns, bs
<1>7. Frame(pac, r, q, at)
  <2>1. Len(r.fields) + r.left = Len(q.fields)
    BY <1>2, <1>3
  <2>2. \A i \in 1..Len(r.fields) : r.fields[i] = q.fields[i]
    BY <1>3
  <2>. QED
    BY <1>3, <2>1, <2>2 DEF Frame
<1>8. ASSUME NEW d \in 1..(n + 1) PROVE Frame(pac, new[d], ns[d], bs[d])
  <2>1. d = n + 1 \/ d \in 1..n
    BY ONLY <1>1, d \in 1..(n + 1)
  <2>2. CASE d = n + 1
    BY <1>4, <1>6, <1>7, <2>2
  <2>3. CASE d \in 1..n
    BY <1>4, <1>5, <1>6, <2>3 DEF Frames
  <2>. QED
    BY <2>1, <2>2, <2>3
<1>9. ns[1] = root /\ bs[1] = 2
  <2>1. CASE n = 0
    BY <1>5, <1>6, <2>1 DEF Due
  <2>2. CASE n # 0
    <3>1. 1 \in 1..n
      BY <1>1, <2>2
    <3>. QED
      BY <1>5, <1>6, <2>2, <3>1 DEF Frames
  <2>. QED
    BY <2>1, <2>2
<1>10. ASSUME NEW d \in 1..n PROVE Within(new[d], ns[d], bs[d], ns[d + 1], bs[d + 1])
  <2>1. d = n \/ (d \in 1..(n - 1) /\ d + 1 \in 1..n)
    BY <1>1
  <2>2. CASE d = n
    <3>1. Within(rs[n], nodes[n], ats[n], q, at)
      BY <1>1, <1>5, <2>2 DEF Due
    <3>2. new[d] = rs[n] /\ ns[d] = nodes[n] /\ bs[d] = ats[n] /\ ns[d + 1] = q /\ bs[d + 1] = at
      BY <1>4, <1>6, <2>2
    <3>. QED
      BY <3>1, <3>2
  <2>3. CASE d \in 1..(n - 1) /\ d + 1 \in 1..n
    <3>1. Within(rs[d], nodes[d], ats[d], nodes[d + 1], ats[d + 1])
      BY <1>5, <2>3 DEF Frames
    <3>2. /\ new[d] = rs[d] /\ ns[d] = nodes[d] /\ bs[d] = ats[d]
          /\ ns[d + 1] = nodes[d + 1] /\ bs[d + 1] = ats[d + 1]
      BY <1>4, <1>6, <2>3
    <3>. QED
      BY <3>1, <3>2
  <2>. QED
    BY <2>1, <2>2, <2>3
<1>11. Frames(pac, root, new, ns, bs)
  <2>1. (n + 1) - 1 = n
    BY <1>1
  <2>. QED
    BY <1>4, <1>8, <1>9, <1>10, <2>1 DEF Frames
<1>12. ReadTo(new, ns, bs) = FieldEnd(q, at, 0)
  BY <1>2, <1>3, <1>4, <1>6 DEF ReadTo
<1>. QED
  BY <1>5, <1>11, <1>12 DEF new, r

\* The innermost record is complete: it is the Part that was due around it.
Closed(rs) == [type |-> "Record", name |-> Last(rs).name, fields |-> Last(rs).fields]
Complete(rs) == Len(rs) # 0 /\ rs[Len(rs)].left = 0

LEMMA RecordClosed ==
  ASSUME NEW pac \in Seq(Byte), NEW root \in Part, NEW rs, NEW nodes, NEW ats,
         Frames(pac, root, rs, nodes, ats), Complete(rs)
  PROVE  /\ Closed(rs) \in Part
         /\ Frames(pac, root, Front(rs), nodes, ats)
         /\ Due(root, Front(rs), nodes, ats, Closed(rs), ats[Len(rs)])
         /\ At(pac, ats[Len(rs)], write_schema[Closed(rs)])
         /\ ReadTo(rs, nodes, ats) = ats[Len(rs)] + Len(write_schema[Closed(rs)])
<1>. DEFINE n == Len(rs)
            r == rs[n]
            node == nodes[n]
            base == ats[n]
            new == Front(rs)
<1>0. n # 0 /\ r.left = 0
  BY DEF Complete
<1>1. n \in 1..n /\ n \in Nat /\ rs \in Seq(OpenRecord) /\ n - 1 \in Nat
  BY <1>0, LenProperties DEF Frames
<1>2. r \in OpenRecord /\ Frame(pac, r, node, base)
  BY <1>1, ElementOfSeq DEF Frames
<1>3. /\ new \in Seq(OpenRecord) /\ Len(new) = n - 1
      /\ \A d \in 1..(n - 1) : new[d] = rs[d]
  <2>1. \A d \in 1..(n - 1) : rs[d] \in OpenRecord
    BY <1>1, ElementOfSeq
  <2>2. /\ new \in Seq(OpenRecord) /\ Len(new) = IF 1 <= n - 1 THEN n - 1 - 1 + 1 ELSE 0
        /\ \A d \in 1..(n - 1 - 1 + 1) : new[d] = rs[1 + d - 1]
    BY <1>1, <2>1, SubSeqProperties DEF Front
  <2>3. n - 1 - 1 + 1 = n - 1 /\ \A d \in 1..(n - 1) : 1 + d - 1 = d
    BY <1>1
  <2>. HIDE DEF new, n
  <2>4. Len(new) = n - 1
    BY ONLY <1>1, <2>2
  <2>. QED
    BY <2>2, <2>3, <2>4
<1>4. Closed(rs) = node
  <2>1. Closed(rs) = [type |-> "Record", name |-> r.name, fields |-> r.fields]
    BY DEF Closed, Last
  <2>. HIDE DEF r, node, base
  <2>2. /\ node \in [type : {"Record"}, name : Text, fields : Seq(Part)]
        /\ r.name = node.name
    BY <1>2, PartShape DEF Frame, Shape, IsRecord
  <2>3. r.fields \in Seq(Part) /\ Len(r.fields) \in Nat /\ r.left = 0
    BY <1>0, <1>2, LenProperties DEF OpenRecord, r
  <2>4. Len(r.fields) + 0 = Len(node.fields) /\ \A i \in 1..Len(r.fields) : r.fields[i] = node.fields[i]
    BY <1>2, <2>3 DEF Frame
  <2>5. r.fields = node.fields
    <3>1. Len(r.fields) = Len(node.fields) /\ node.fields \in Seq(Part)
      BY <2>2, <2>3, <2>4
    <3>. QED
      BY <2>3, <2>4, <3>1, SeqEqual
  <2>6. node = [type |-> "Record", name |-> node.name, fields |-> node.fields]
    BY <2>2
  <2>. QED
    BY <2>1, <2>2, <2>5, <2>6
<1>5. Frames(pac, root, new, nodes, ats)
  <2>1. \A d \in 1..(n - 1) : Frame(pac, new[d], nodes[d], ats[d])
    <3>1. \A d \in 1..(n - 1) : d \in 1..n
      BY <1>1
    <3>. QED
      BY <1>3, <3>1 DEF Frames
  <2>2. \A d \in 1..((n - 1) - 1) : Within(new[d], nodes[d], ats[d], nodes[d + 1], ats[d + 1])
    <3>1. \A d \in 1..((n - 1) - 1) : d \in 1..(n - 1)
      BY <1>1
    <3>. QED
      BY <1>3, <3>1 DEF Frames
  <2>3. nodes[1] = root /\ ats[1] = 2
    BY <1>0 DEF Frames
  <2>. HIDE DEF new
  <2>. QED
    BY <1>3, <2>1, <2>2, <2>3 DEF Frames
<1>6. Due(root, new, nodes, ats, node, base)
  <2>1. CASE n - 1 = 0
    <3>1. n = 1
      BY <1>1, <2>1
    <3>2. nodes[1] = root /\ ats[1] = 2
      BY <1>0 DEF Frames
    <3>. HIDE DEF new
    <3>. QED
      BY <1>3, <2>1, <3>1, <3>2 DEF Due
  <2>2. CASE n - 1 # 0
    <3>1. n - 1 \in 1..(n - 1) /\ (n - 1) + 1 = n
      <4>. HIDE DEF n
      <4>. QED
        BY ONLY <1>1, <2>2
    <3>2. Within(rs[n - 1], nodes[n - 1], ats[n - 1], nodes[(n - 1) + 1], ats[(n - 1) + 1])
      BY <3>1 DEF Frames
    <3>3. new[n - 1] = rs[n - 1]
      BY <1>3, <3>1
    <3>. HIDE DEF new
    <3>. QED
      BY <1>3, <2>2, <3>1, <3>2, <3>3 DEF Due
  <2>. QED
    BY <2>1, <2>2
<1>7. ReadTo(rs, nodes, ats) = base + Len(write_schema[node])
  <2>1. ReadTo(rs, nodes, ats) = FieldEnd(node, base, Len(r.fields))
    BY <1>0 DEF ReadTo
  <2>2. Len(r.fields) = Len(node.fields)
    <3>1. Len(r.fields) \in Nat /\ r.left = 0
      BY <1>0, <1>2, LenProperties DEF OpenRecord
    <3>. QED
      BY <1>2, <3>1 DEF Frame
  <2>. HIDE DEF node, base, r
  <2>3. FieldEnd(node, base, Len(node.fields)) = base + Len(write_schema[node])
    BY <1>2, RecordLayout DEF Frame
  <2>. QED
    BY <2>1, <2>2, <2>3
<1>8. node \in Part /\ At(pac, base, write_schema[node])
  BY <1>2 DEF Frame
<1>. QED
  BY <1>4, <1>5, <1>6, <1>7, <1>8

-----------------------------------------------------------------------------
(* Numbers: the bytes that Cast cuts one into make it up again.               *)

PowersTo(f, k) == \A i \in 0..k : f[i] = IF i = 0 THEN 1 ELSE 256 * f[i - 1]

LEMMA PowersExist == \E f \in [0..8 -> Nat] : PowersTo(f, 8)
<1>. DEFINE T == {k \in Nat : \E f \in [0..k -> Nat] : PowersTo(f, k)}
<1>1. 0 \in T
  <2>. DEFINE f == [i \in 0..0 |-> 1]
  <2>1. f \in [0..0 -> Nat] /\ PowersTo(f, 0)
    BY DEF PowersTo
  <2>. HIDE DEF f
  <2>. QED
    BY <2>1
<1>2. ASSUME NEW k \in Nat, k \in T PROVE k + 1 \in T
  <2>1. PICK f \in [0..k -> Nat] : PowersTo(f, k)
    BY <1>2
  <2>. DEFINE d == [i \in 0..(k + 1) |-> IF i = k + 1 THEN 256 * f[k] ELSE f[i]]
  <2>2. d \in [0..(k + 1) -> Nat]
    BY <2>1
  <2>3. ASSUME NEW i \in 0..(k + 1) PROVE d[i] = IF i = 0 THEN 1 ELSE 256 * d[i - 1]
    <3>1. CASE i = k + 1
      <4>1. d[i] = 256 * f[k] /\ d[i - 1] = f[k] /\ i # 0
        BY <3>1
      <4>. QED
        BY <4>1
    <3>2. CASE i \in 0..k
      <4>1. d[i] = f[i] /\ (i # 0 => d[i - 1] = f[i - 1])
        BY <3>2
      <4>. QED
        BY <2>1, <3>2, <4>1 DEF PowersTo
    <3>. QED
      BY <3>1, <3>2
  <2>. HIDE DEF d
  <2>4. PowersTo(d, k + 1)
    BY <2>3 DEF PowersTo
  <2>5. k + 1 \in Nat
    OBVIOUS
  <2>. QED
    BY <2>2, <2>4, <2>5
<1>3. Nat \subseteq T
  <2>. HIDE DEF T
  <2>. QED
    BY <1>1, <1>2, Induction
<1>. QED
  BY <1>3

LEMMA Powers ==
  /\ Power[0] = 1 /\ \A n \in 1..8 : Power[n] = 256 * Power[n - 1]
  /\ \A n \in 0..8 : Power[n] \in Nat \ {0}
<1>1. PICK f \in [0..8 -> Nat] : PowersTo(f, 8)
  BY PowersExist
<1>2. f = [n \in 0..8 |-> IF n = 0 THEN 1 ELSE 256 * f[n - 1]]
  BY <1>1 DEF PowersTo
<1>3. Power = [n \in 0..8 |-> IF n = 0 THEN 1 ELSE 256 * Power[n - 1]]
  BY <1>2 DEF Power
<1>4. Power[0] = 1 /\ \A n \in 1..8 : Power[n] = 256 * Power[n - 1]
  BY <1>3
<1>. DEFINE T == {n \in Nat : n <= 8 => Power[n] \in Nat \ {0}}
<1>5. 0 \in T
  BY <1>4
<1>6. ASSUME NEW n \in Nat, n \in T PROVE n + 1 \in T
  <2>. SUFFICES ASSUME n + 1 <= 8 PROVE Power[n + 1] \in Nat \ {0}
    OBVIOUS
  <2>1. Power[n] \in Nat \ {0} /\ n + 1 \in 1..8 /\ (n + 1) - 1 = n
    BY <1>6
  <2>2. Power[n + 1] = 256 * Power[n]
    BY <1>4, <2>1
  <2>. QED
    BY <2>1, <2>2
<1>7. Nat \subseteq T
  <2>. HIDE DEF T
  <2>. QED
    BY <1>5, <1>6, Induction
<1>. QED
  BY <1>4, <1>7

LEMMA Divides ==
  ASSUME NEW a \in Nat \ {0}, NEW q \in Int, NEW y \in 0..(a - 1)
  PROVE  (a * q + y) \div a = q /\ (a * q + y) % a = y
<1>. DEFINE m == a * q + y
            d == m \div a
            r == m % a
<1>1. m \in Int /\ d \in Int /\ r \in 0..(a - 1) /\ m = a * d + r
  OBVIOUS
<1>2. a * q + y = a * d + r
  BY <1>1
<1>. HIDE DEF m, d, r
<1>3. \A e \in Nat : e > 0 => a * e >= a
  OBVIOUS
<1>4. ~ (d > q)
  <2>. SUFFICES ASSUME d > q PROVE FALSE
    OBVIOUS
  <2>1. d - q \in Nat /\ d - q > 0
    BY <1>1
  <2>2. a * (d - q) >= a
    BY <1>3, <2>1
  <2>3. a * (d - q) = y - r
    BY <1>1, <1>2
  <2>. QED
    BY <1>1, <2>2, <2>3
<1>5. ~ (q > d)
  <2>. SUFFICES ASSUME q > d PROVE FALSE
    OBVIOUS
  <2>1. q - d \in Nat /\ q - d > 0
    BY <1>1
  <2>2. a * (q - d) >= a
    BY <1>3, <2>1
  <2>3. a * (q - d) = r - y
    BY <1>1, <1>2
  <2>. QED
    BY <1>1, <2>2, <2>3
<1>6. d = q
  BY <1>1, <1>4, <1>5
<1>7. r = y
  BY <1>1, <1>2, <1>6
<1>. QED
  BY <1>6, <1>7 DEF d, r, m

DigitAdded(m, p) == m % (256 * p) = (m % p) + p * ((m \div p) % 256)

LEMMA NextByte ==
  ASSUME NEW p \in Nat \ {0}, NEW m \in Nat
  PROVE  DigitAdded(m, p)
<1>. DEFINE q == m \div p
            r == m % p
            s == q \div 256
            t == q % 256
<1>1. q \in Int /\ r \in 0..(p - 1) /\ m = p * q + r
  OBVIOUS
<1>. HIDE DEF q, r
<1>2. s \in Int /\ t \in 0..255 /\ q = 256 * s + t
  BY <1>1
<1>. HIDE DEF s, t
<1>3. m = (256 * p) * s + (p * t + r)
  <2>1. p * (256 * s + t) = (256 * p) * s + p * t
    BY <1>2
  <2>. QED
    BY <1>1, <1>2, <2>1
<1>4. p * t \in Nat /\ p * t <= p * 255
  <2>1. p * 255 = p * t + p * (255 - t) /\ p * t >= 0 /\ p * (255 - t) >= 0
    BY <1>2
  <2>. QED
    BY <1>2, <2>1
<1>5. p * t + r \in 0..((256 * p) - 1) /\ 256 * p \in Nat \ {0}
  BY <1>1, <1>4
<1>. DEFINE a == 256 * p
            y == p * t + r
<1>6. m = a * s + y /\ a \in Nat \ {0} /\ y \in 0..(a - 1)
  BY <1>3, <1>5
<1>. HIDE DEF a, y
<1>7. m % a = y
  BY <1>2, <1>6, Divides
<1>. QED
  BY <1>1, <1>7 DEF a, y, q, r, t, DigitAdded

\* The sum of the first bytes of b.
Sums(b, f) == f = [k \in 0..Len(b) |-> IF k = 0 THEN 0 ELSE f[k - 1] + Power[k - 1] * b[k]]

LEMMA SumTaken ==
  ASSUME NEW b, NEW f, Sums(b, f)
  PROVE  \E g : Sums(b, g) /\ Unsigned(b) = g[Len(b)]
<1>. DEFINE g == CHOOSE h : Sums(b, h)
<1>1. Sums(b, g)
  OBVIOUS
<1>2. Unsigned(b) = g[Len(b)]
  BY DEF Unsigned, Sums
<1>. QED
  BY <1>1, <1>2

CastByte(m, k) == (m \div Power[k - 1]) % 256

\* Casting to w bytes and reading them back is the remainder by 256 to the w.
LEMMA CastKept ==
  ASSUME NEW w \in 1..8, NEW n \in Int
  PROVE  /\ Cast(n, w) \in Seq(Byte) /\ Len(Cast(n, w)) = w
         /\ n % Power[w] \in 0..(Power[w] - 1)
         /\ \A k \in 1..w : Cast(n, w)[k] = CastByte(n % Power[w], k)
         /\ Unsigned(Cast(n, w)) = n % Power[w]
<1>. DEFINE m == n % Power[w]
            b == Cast(n, w)
<1>1. m \in 0..(Power[w] - 1) /\ m \in Nat
  BY Powers
<1>2. b = [k \in 1..w |-> CastByte(m, k)]
  BY DEF Cast, CastByte
<1>. HIDE DEF m, b
<1>3. \A k \in 1..w : CastByte(m, k) \in Byte
  <2>. SUFFICES ASSUME NEW k \in 1..w PROVE CastByte(m, k) \in Byte
    OBVIOUS
  <2>1. k - 1 \in 0..8
    OBVIOUS
  <2>2. Power[k - 1] \in Nat \ {0}
    BY <2>1, Powers
  <2>3. m \div Power[k - 1] \in Int
    BY <1>1, <2>2
  <2>. QED
    BY <2>3 DEF CastByte, Byte
<1>4. b \in [1..w -> Byte]
  BY <1>2, <1>3
<1>5. b \in Seq(Byte) /\ Len(b) = w
  BY <1>4, IsSequence
<1>. DEFINE f == [k \in 0..w |-> m % Power[k]]
<1>6. m % Power[0] = 0
  BY <1>1, Powers
<1>7. \A k \in 1..w : m % Power[k] = (m % Power[k - 1]) + Power[k - 1] * b[k]
  <2>. SUFFICES ASSUME NEW k \in 1..w
                PROVE  m % Power[k] = (m % Power[k - 1]) + Power[k - 1] * b[k]
    OBVIOUS
  <2>1. k - 1 \in 0..8 /\ k \in 1..8
    OBVIOUS
  <2>2. Power[k - 1] \in Nat \ {0} /\ Power[k] = 256 * Power[k - 1]
    BY <2>1, Powers
  <2>3. b[k] = (m \div Power[k - 1]) % 256
    BY <1>2 DEF CastByte
  <2>. DEFINE p == Power[k - 1]
  <2>4. p \in Nat \ {0}
    BY <2>2
  <2>. HIDE DEF p, m
  <2>5. DigitAdded(m, p)
    BY ONLY <1>1, <2>4, NextByte
  <2>6. Power[k] = 256 * p /\ b[k] = (m \div p) % 256
    BY <2>2, <2>3 DEF p
  <2>7. m % Power[k] = (m % p) + p * b[k]
    BY ONLY <2>5, <2>6, SMT DEF DigitAdded
  <2>. QED
    BY ONLY <2>7 DEF p
<1>8. Sums(b, f)
  <2>1. \A k \in 0..w : f[k] = IF k = 0 THEN 0 ELSE f[k - 1] + Power[k - 1] * b[k]
    <3>. SUFFICES ASSUME NEW k \in 0..w
                  PROVE  f[k] = IF k = 0 THEN 0 ELSE f[k - 1] + Power[k - 1] * b[k]
      OBVIOUS
    <3>1. CASE k = 0
      BY <1>6, <3>1
    <3>2. CASE k # 0
      <4>1. k \in 1..w /\ k - 1 \in 0..w
        BY <3>2
      <4>2. f[k] = m % Power[k] /\ f[k - 1] = m % Power[k - 1]
        BY <4>1
      <4>. HIDE DEF f
      <4>. QED
        BY <1>7, <3>2, <4>1, <4>2
    <3>. QED
      BY <3>1, <3>2
  <2>2. f = [k \in 0..w |-> f[k]]
    OBVIOUS
  <2>. HIDE DEF f
  <2>3. f = [k \in 0..w |-> IF k = 0 THEN 0 ELSE f[k - 1] + Power[k - 1] * b[k]]
    BY <2>1, <2>2, Zenon
  <2>. QED
    BY <1>5, <2>3, Zenon DEF Sums
<1>. HIDE DEF f
<1>9. PICK g : Sums(b, g) /\ Unsigned(b) = g[Len(b)]
  BY <1>8, SumTaken
<1>10. g = [k \in 0..w |-> IF k = 0 THEN 0 ELSE g[k - 1] + Power[k - 1] * b[k]]
  BY <1>5, <1>9 DEF Sums
<1>. DEFINE T == {k \in Nat : k <= w => g[k] = m % Power[k]}
<1>11. 0 \in T
  BY <1>6, <1>10
<1>12. ASSUME NEW k \in Nat, k \in T PROVE k + 1 \in T
  <2>. SUFFICES ASSUME k + 1 <= w PROVE g[k + 1] = m % Power[k + 1]
    OBVIOUS
  <2>1. k + 1 \in 1..w /\ k + 1 # 0 /\ k + 1 \in 0..w /\ (k + 1) - 1 = k /\ k <= w
    OBVIOUS
  <2>2. g[k] = m % Power[k]
    BY <1>12, <2>1
  <2>3. g[k + 1] = g[k] + Power[k] * b[k + 1]
    BY <1>10, <2>1
  <2>4. m % Power[k + 1] = (m % Power[k]) + Power[k] * b[k + 1]
    BY <1>7, <2>1
  <2>. QED
    BY <2>2, <2>3, <2>4
<1>13. g[w] = m % Power[w]
  <2>1. Nat \subseteq T
    <3>. HIDE DEF T
    <3>. QED
      BY <1>11, <1>12, Induction
  <2>. QED
    BY <2>1
<1>14. m % Power[w] = m
  <2>1. Power[w] \in Nat \ {0}
    BY Powers
  <2>. QED
    BY <1>1, <2>1
<1>. QED
  BY <1>1, <1>2, <1>5, <1>9, <1>13, <1>14 DEF m, b

LEMMA TopByte ==
  ASSUME NEW p \in Nat \ {0}, NEW m \in 0..(256 * p - 1)
  PROVE  (m \div p) % 256 >= 128 <=> m >= 128 * p
<1>. DEFINE q == m \div p
            r == m % p
<1>1. q \in Int /\ r \in 0..(p - 1) /\ m = p * q + r
  OBVIOUS
<1>. HIDE DEF q, r
<1>2. \A e \in Nat : p * e >= 0
  OBVIOUS
<1>3. q <= 255
  <2>. SUFFICES ASSUME q > 255 PROVE FALSE
    BY <1>1
  <2>1. q - 256 \in Nat /\ p * (q - 256) = p * q - 256 * p
    BY <1>1
  <2>2. p * (q - 256) >= 0
    BY <1>2, <2>1
  <2>. QED
    BY <1>1, <2>1, <2>2
<1>4. q >= 0
  <2>. SUFFICES ASSUME q < 0 PROVE FALSE
    BY <1>1
  <2>1. -1 - q \in Nat /\ p * (-1 - q) = -p - p * q
    BY <1>1
  <2>2. p * (-1 - q) >= 0
    BY <1>2, <2>1
  <2>. QED
    BY <1>1, <2>1, <2>2
<1>5. q % 256 = q
  BY <1>1, <1>3, <1>4
<1>6. CASE q >= 128
  <2>1. q - 128 \in Nat /\ p * (q - 128) = p * q - 128 * p
    BY <1>1, <1>6
  <2>2. p * (q - 128) >= 0
    BY <1>2, <2>1
  <2>3. m >= 128 * p
    BY <1>1, <2>1, <2>2
  <2>. QED
    BY <1>5, <1>6, <2>3 DEF q
<1>7. CASE q < 128
  <2>1. 127 - q \in Nat /\ p * (127 - q) = 127 * p - p * q
    BY <1>1, <1>7
  <2>2. p * (127 - q) >= 0
    BY <1>2, <2>1
  <2>3. ~ (m >= 128 * p)
    BY <1>1, <2>1, <2>2
  <2>4. ~ (q % 256 >= 128)
    BY <1>1, <1>5, <1>7
  <2>. QED
    BY <2>3, <2>4 DEF q
<1>. QED
  BY <1>1, <1>6, <1>7

\* A number that fits the type of a leaf is read back from the bytes it is cast to.
LEMMA NumberKept ==
  ASSUME NEW t \in UnsignedTypes \cup SignedTypes, NEW n \in Int, Fits(n, t)
  PROVE  NumberOf(t, Cast(n, Width[t])) = n
<1>. DEFINE w == Width[t]
            p == Power[w - 1]
            m == n % Power[w]
            b == Cast(n, w)
<1>1. w \in 1..8
  <2>1. t \in DOMAIN TypeCode \ {"Record", "String"}
    BY DEF UnsignedTypes, SignedTypes, TypeCode
  <2>. QED
    BY <2>1, Widths
<1>2. p \in Nat \ {0} /\ Power[w] = 256 * p
  <2>1. w - 1 \in 0..8
    BY <1>1
  <2>. QED
    BY <1>1, <2>1, Powers
<1>3. /\ b \in Seq(Byte) /\ Len(b) = w /\ b[w] = CastByte(m, w)
      /\ m \in 0..(Power[w] - 1) /\ Unsigned(b) = m
  <2>1. w \in 1..w
    BY <1>1
  <2>2. /\ b \in Seq(Byte) /\ Len(b) = w /\ m \in 0..(Power[w] - 1) /\ Unsigned(b) = m
        /\ \A k \in 1..w : b[k] = CastByte(m, k)
    <3>. HIDE DEF w
    <3>. QED
      BY <1>1, CastKept
  <2>. HIDE DEF w, b, m
  <2>. QED
    BY <2>1, <2>2
<1>4. Fits(n, t) <=> n \in (IF t \in SignedTypes THEN (-(128 * p))..(128 * p - 1)
                            ELSE 0..(2 * (128 * p) - 1))
  BY DEF Fits
<1>5. CastByte(m, w) = (m \div p) % 256
  BY DEF CastByte
<1>6. m = n % (256 * p)
  BY <1>2
<1>. HIDE DEF w, p, m, b
<1>7. \A q \in Int, y \in 0..(256 * p - 1) : n = (256 * p) * q + y => m = y
  <2>. SUFFICES ASSUME NEW q \in Int, NEW y \in 0..(256 * p - 1), n = (256 * p) * q + y
                PROVE  m = y
    OBVIOUS
  <2>. DEFINE a == 256 * p
  <2>1. a \in Nat \ {0} /\ y \in 0..(a - 1) /\ n = a * q + y /\ m = n % a
    BY <1>2, <1>6
  <2>. HIDE DEF a
  <2>2. (a * q + y) % a = y
    BY <2>1, Divides
  <2>. QED
    BY <2>1, <2>2
<1>8. n >= 0 /\ n <= 256 * p - 1 => m = n
  <2>. SUFFICES ASSUME n >= 0, n <= 256 * p - 1 PROVE m = n
    OBVIOUS
  <2>1. n \in 0..(256 * p - 1) /\ n = (256 * p) * 0 + n /\ 0 \in Int
    BY <1>2
  <2>. QED
    BY <1>7, <2>1
<1>9. CASE t \notin SignedTypes
  <2>1. n >= 0 /\ n <= 256 * p - 1
    BY <1>2, <1>4, <1>9
  <2>2. NumberOf(t, b) = Unsigned(b)
    BY <1>9 DEF NumberOf
  <2>. QED
    BY <1>3, <1>8, <2>1, <2>2 DEF b, w
<1>10. CASE t \in SignedTypes
  <2>1. n >= -(128 * p) /\ n <= 128 * p - 1
    BY <1>2, <1>4, <1>10
  <2>2. m \in 0..(256 * p - 1)
    BY <1>2, <1>3
  <2>3. b[w] >= 128 <=> m >= 128 * p
    BY <1>2, <1>3, <1>5, <2>2, TopByte
  <2>4. NumberOf(t, b) = IF b[w] >= 128 THEN m - 256 * p ELSE m
    BY <1>2, <1>3, <1>10 DEF NumberOf, Signed, Last
  <2>5. CASE n >= 0
    <3>1. m = n
      BY <1>2, <1>8, <2>1, <2>5
    <3>2. ~ (b[w] >= 128)
      BY <1>2, <2>1, <2>3, <3>1
    <3>. QED
      BY <2>4, <3>1, <3>2 DEF b, w
  <2>6. CASE n < 0
    <3>1. n + 256 * p \in 0..(256 * p - 1) /\ n = (256 * p) * (-1) + (n + 256 * p) /\ -1 \in Int
      BY <1>2, <2>1, <2>6
    <3>2. m = n + 256 * p
      BY <1>7, <3>1
    <3>3. b[w] >= 128
      BY <1>2, <2>1, <2>3, <3>2
    <3>4. m - 256 * p = n
      BY <1>2, <3>2
    <3>. QED
      BY <2>4, <3>3, <3>4 DEF b, w
  <2>. QED
    BY <2>5, <2>6
<1>. QED
  BY <1>9, <1>10

\* What a browser sets a leaf to is a value of the leaf.
LEMMA NoValueFits ==
  ASSUME NEW t \in DOMAIN TypeCode \ {"Record"}
  PROVE  Fitting(t, NoValue(t))
<1>0. t \in {"String", "Boolean", "Float", "Double"} \cup UnsignedTypes \cup SignedTypes
  BY DEF TypeCode, UnsignedTypes, SignedTypes
<1>1. CASE t = "String"
  <2>1. NoValue(t) = <<78, 47, 65>>
    BY <1>1 DEF NoValue, NA, SignedTypes, UnsignedTypes
  <2>2. <<78, 47, 65>> \in Seq(1..255)
    OBVIOUS
  <2>. QED
    BY <1>1, <2>1, <2>2 DEF Fitting, Text
<1>2. CASE t = "Boolean"
  <2>1. NoValue(t) = <<1>> /\ Width[t] = 1
    BY <1>2 DEF NoValue, SignedTypes, UnsignedTypes, Width
  <2>2. <<1>> \in Seq(0..255) /\ Len(<<1>>) = 1
    OBVIOUS
  <2>. QED
    BY <1>2, <2>1, <2>2 DEF Fitting, Byte
<1>3. CASE t = "Float"
  <2>1. NoValue(t) = <<0, 0, 128, 0>> /\ Width[t] = 4
    BY <1>3 DEF NoValue, SignedTypes, UnsignedTypes, Width
  <2>2. <<0, 0, 128, 0>> \in Seq(0..255) /\ Len(<<0, 0, 128, 0>>) = 4
    OBVIOUS
  <2>. QED
    BY <1>3, <2>1, <2>2 DEF Fitting, Byte
<1>4. CASE t = "Double"
  <2>1. NoValue(t) = <<0, 0, 0, 0, 0, 0, 16, 56>> /\ Width[t] = 8
    BY <1>4 DEF NoValue, SignedTypes, UnsignedTypes, Width
  <2>2. <<0, 0, 0, 0, 0, 0, 16, 56>> \in Seq(0..255) /\ Len(<<0, 0, 0, 0, 0, 0, 16, 56>>) = 8
    OBVIOUS
  <2>. QED
    BY <1>4, <2>1, <2>2 DEF Fitting, Byte
<1>5. CASE t \in UnsignedTypes \cup SignedTypes
  <2>. DEFINE w == Width[t]
              v == NoValue(t)
  <2>1. w \in Nat /\ t # "String"
    <3>1. t \notin {"Record", "String"} /\ t \in DOMAIN TypeCode
      BY <1>5 DEF UnsignedTypes, SignedTypes
    <3>2. w \in 1..8
      BY <3>1, Widths
    <3>. QED
      BY <3>1, <3>2
  <2>2. v \in [1..w -> Byte]
    <3>1. 0 \in Byte /\ 128 \in Byte
      BY DEF Byte
    <3>2. CASE t \in SignedTypes
      <4>1. v = [k \in 1..w |-> IF k = w THEN 128 ELSE 0]
        BY <3>2 DEF NoValue, SignedTypes, UnsignedTypes
      <4>. HIDE DEF v, w
      <4>. QED
        BY <3>1, <4>1
    <3>3. CASE t \in UnsignedTypes
      <4>1. v = [k \in 1..w |-> 0]
        BY <3>3 DEF NoValue, SignedTypes, UnsignedTypes
      <4>. HIDE DEF v, w
      <4>. QED
        BY <3>1, <4>1
    <3>. QED
      BY <1>5, <3>2, <3>3
  <2>. HIDE DEF v, w
  <2>3. v \in Seq(Byte) /\ Len(v) = w
    BY <2>1, <2>2, IsSequence
  <2>. QED
    BY <2>1, <2>3 DEF Fitting, v, w
<1>. QED
  BY <1>0, <1>1, <1>2, <1>3, <1>4, <1>5

LEMMA SetFits ==
  ASSUME NEW leaf \in Leaf, NEW item \in ItemsFor(leaf)
  PROVE  Fitting(leaf.type, SetFrom(leaf.type, item))
<1>. DEFINE t == leaf.type
<1>1. t \in DOMAIN TypeCode \ {"Record"}
  BY DEF Leaf
<1>2. CASE item = NA
  BY <1>1, <1>2, NoValueFits DEF SetFrom
<1>3. CASE item # NA /\ t = "String"
  <2>1. item \in [type : {"String"}, text : Strings]
    BY <1>3 DEF ItemsFor, Integral, SignedTypes, UnsignedTypes
  <2>2. SetFrom(t, item) \in Strings
    BY <1>3, <2>1 DEF SetFrom
  <2>. QED
    BY <1>3, <2>2, ValuesAssumption DEF Fitting
<1>4. CASE item # NA /\ t = "Boolean"
  <2>1. SetFrom(t, item) = <<0>> /\ Width[t] = 1
    BY <1>4 DEF SetFrom, Width
  <2>2. <<0>> \in Seq(0..255) /\ Len(<<0>>) = 1
    OBVIOUS
  <2>. QED
    BY <1>4, <2>1, <2>2 DEF Fitting, Byte
<1>5. CASE item # NA /\ t \notin {"String", "Boolean"}
  <2>1. item \in [type : {"Number"}, number : Entered]
    <3>1. CASE Integral(leaf)
      BY <1>5, <3>1 DEF ItemsFor
    <3>2. CASE ~Integral(leaf)
      <4>1. ItemsFor(leaf) = {NA} \cup {}
        BY <1>5, <3>2 DEF ItemsFor
      <4>. QED
        BY <1>5, <4>1
    <3>. QED
      BY <3>1, <3>2
  <2>2. SetFrom(t, item) = Cast(valueint(item.number), Width[t])
    BY <1>5 DEF SetFrom
  <2>5. valueint(item.number) \in Int
    <3>0. item.number \in Entered
      BY <2>1
    <3>2. Entered \subseteq Int /\ JsonIntMax \in Nat
      BY ValuesAssumption
    <3>. DEFINE n == item.number
    <3>1. n \in Int
      BY <3>0, <3>2, Zenon
    <3>. HIDE DEF n
    <3>3. valueint(n) \in Int
      BY <3>1, <3>2 DEF valueint
    <3>. QED
      BY <3>3 DEF n
  <2>3. valueint(item.number) \in Int /\ Width[t] \in 1..8
    BY <1>1, <1>5, <2>5, Widths
  <2>4. SetFrom(t, item) \in Seq(Byte) /\ Len(SetFrom(t, item)) = Width[t]
    BY <2>2, <2>3, CastKept
  <2>. QED
    BY <1>5, <2>4 DEF Fitting
<1>. QED
  BY <1>2, <1>3, <1>4, <1>5

-----------------------------------------------------------------------------
(* What the board sends. *)

LEMMA LeafBack ==
  ASSUME NEW p \in Part, NEW v, FitsPart(p, v), NEW pac \in Seq(Byte), NEW at,
         At(pac, at, write_message(p, v)), NEW i \in 1..Len(Leaves[p])
  PROVE  LET o   == Ends(Pieces(p, v))
             got == GetLeaf(pac, at + o[i - 1], Leaves[p][i].type)
         IN  got.value = v[i] /\ got.head = at + o[i]
<1>. DEFINE m == i - 1
<1>1. Len(Leaves[p]) \in Nat
  BY MessageWritten
<1>2. m \in Nat /\ m < Len(Leaves[p]) /\ m + 1 = i
  BY <1>1
<1>. HIDE DEF m
<1>. DEFINE o == Ends(Pieces(p, v))
            t == Leaves[p][m + 1].type
            w == write_leaf(t, v[m + 1])
<1>3. /\ t \in DOMAIN TypeCode \ {"Record"} /\ Fitting(t, v[m + 1])
      /\ At(pac, at + o[m], w) /\ at + o[m + 1] = (at + o[m]) + Len(w)
  BY <1>2, LeafLayout
<1>. HIDE DEF o, t
<1>4. GetLeaf(pac, at + o[m], t).value = v[m + 1] /\ GetLeaf(pac, at + o[m], t).head = (at + o[m]) + Len(w)
  BY <1>3, LeafRead
<1>5. GetLeaf(pac, at + o[m], t).head = at + o[m + 1]
  BY <1>3, <1>4
<1>. QED
  BY <1>2, <1>4, <1>5 DEF m, o, t

\* The leaves ls read one after the other.
ReadsAll(pac, ls, f) ==
  f = [i \in 0..Len(ls) |-> IF i = 0 THEN [value |-> <<>>, head |-> 3]
                            ELSE GetLeaf(pac, f[i - 1].head, ls[i].type)]

LEMMA ReadTaken ==
  ASSUME NEW pac, NEW f, ReadsAll(pac, Leaves[schema], f)
  PROVE  \E g : /\ ReadsAll(pac, Leaves[schema], g)
                /\ ValuesIn(pac) = [i \in DOMAIN Leaves[schema] |-> g[i].value]
<1>. DEFINE g == CHOOSE h : ReadsAll(pac, Leaves[schema], h)
<1>1. ReadsAll(pac, Leaves[schema], g)
  OBVIOUS
<1>2. ValuesIn(pac) = [i \in DOMAIN Leaves[schema] |-> g[i].value]
  BY DEF ValuesIn, ReadsAll
<1>. QED
  BY <1>1, <1>2

LEMMA ValuesBack ==
  ASSUME schema \in Part, NEW v, FitsPart(schema, v), NEW pac \in Seq(Byte),
         At(pac, 3, write_message(schema, v))
  PROVE  \A i \in DOMAIN Leaves[schema] : ValuesIn(pac)[i] = v[i]
<1>. DEFINE ls == Leaves[schema]
            n == Len(ls)
            o == Ends(Pieces(schema, v))
            start == [value |-> <<>>, head |-> 3]
            Leaf1(i) == GetLeaf(pac, 3 + o[i - 1], ls[i].type)
            f == [i \in 0..n |-> IF i = 0 THEN start ELSE Leaf1(i)]
<1>1. n \in Nat /\ DOMAIN ls = 1..n /\ o[0] = 0
  BY MessageWritten
<1>2. \A i \in 1..n : Leaf1(i).value = v[i] /\ Leaf1(i).head = 3 + o[i]
  BY LeafBack
<1>3. start.head = 3 + o[0]
  BY <1>1
<1>. HIDE DEF ls, n, o
<1>4. ReadsAll(pac, ls, f)
  <2>1. \A i \in 0..n : f[i] = IF i = 0 THEN start ELSE GetLeaf(pac, f[i - 1].head, ls[i].type)
    <3>. SUFFICES ASSUME NEW i \in 0..n, i # 0
                  PROVE  f[i] = GetLeaf(pac, f[i - 1].head, ls[i].type)
      OBVIOUS
    <3>1. f[i] = Leaf1(i)
      OBVIOUS
    <3>2. f[i - 1].head = 3 + o[i - 1]
      <4>1. CASE i - 1 = 0
        <5>1. f[i - 1] = start
          BY <1>1, <4>1
        <5>. QED
          BY <1>3, <4>1, <5>1
      <4>2. CASE i - 1 # 0
        <5>1. i - 1 \in 1..n
          BY <1>1, <4>2
        <5>2. f[i - 1] = Leaf1(i - 1)
          BY <4>2, <5>1
        <5>. HIDE DEF f, Leaf1
        <5>. QED
          BY <1>2, <5>1, <5>2
      <4>. QED
        BY <4>1, <4>2
    <3>. HIDE DEF f
    <3>. QED
      BY <3>1, <3>2
  <2>2. f = [i \in 0..n |-> f[i]]
    OBVIOUS
  <2>. HIDE DEF f
  <2>3. f = [i \in 0..n |-> IF i = 0 THEN start ELSE GetLeaf(pac, f[i - 1].head, ls[i].type)]
    BY <2>1, <2>2, Zenon
  <2>. QED
    BY <2>3 DEF ReadsAll, n
<1>. HIDE DEF f
<1>5. PICK g : ReadsAll(pac, ls, g) /\ ValuesIn(pac) = [i \in DOMAIN ls |-> g[i].value]
  BY <1>4, ReadTaken DEF ls
<1>6. g = [i \in 0..n |-> IF i = 0 THEN start ELSE GetLeaf(pac, g[i - 1].head, ls[i].type)]
  BY <1>5 DEF ReadsAll, n
<1>. DEFINE T == {i \in Nat : i <= n => g[i].head = 3 + o[i]}
<1>7. 0 \in T
  BY <1>1, <1>3, <1>6
<1>8. \A i \in 1..n : g[i] = GetLeaf(pac, g[i - 1].head, ls[i].type)
  BY <1>1, <1>6
<1>9. ASSUME NEW i \in Nat, i \in T PROVE i + 1 \in T
  <2>. SUFFICES ASSUME i + 1 <= n PROVE g[i + 1].head = 3 + o[i + 1]
    OBVIOUS
  <2>1. i + 1 \in 1..n /\ (i + 1) - 1 = i /\ i <= n
    BY <1>1
  <2>2. g[i].head = 3 + o[i]
    BY <1>9, <2>1
  <2>3. g[i + 1] = Leaf1(i + 1)
    BY <1>8, <2>1, <2>2
  <2>. HIDE DEF Leaf1
  <2>. QED
    BY <1>2, <2>1, <2>3
<1>10. \A i \in 0..n : g[i].head = 3 + o[i]
  <2>1. Nat \subseteq T
    <3>. HIDE DEF T
    <3>. QED
      BY <1>7, <1>9, Induction
  <2>. QED
    BY <1>1, <2>1
<1>11. ASSUME NEW i \in 1..n PROVE g[i].value = v[i]
  <2>1. i - 1 \in 0..n
    BY <1>1
  <2>2. g[i] = Leaf1(i)
    BY <1>8, <1>10, <2>1
  <2>. HIDE DEF Leaf1
  <2>. QED
    BY <1>2, <2>2
<1>. QED
  BY <1>1, <1>5, <1>11 DEF ls

LEMMA AnswerHeaders ==
  /\ make_header_byte("Broadcast", "Acknowledge") = 32 /\ make_header_byte("Data", "Response") = 192
  /\ HeaderFunc(32) = PacketFunction["Acknowledge"] /\ HeaderFunc(192) = PacketFunction["Response"]
<1>1. /\ PacketFunction["Acknowledge"] = 32 /\ PacketFunction["Response"] = 64
      /\ PacketType["Broadcast"] = 0 /\ PacketType["Data"] = 128
  BY DEF PacketFunction, PacketType
<1>2. HeaderFunc(32) = 32 /\ HeaderFunc(192) = 64
  BY SMT DEF HeaderFunc
<1>. QED
  BY <1>1, <1>2, SMT DEF make_header_byte

LEMMA AcknowledgeLies ==
  LET pac == write_channel_acknowledge
  IN  pac \in Seq(Byte) /\ validate_packet(pac) = "Ok" /\ pac[1] = 32 /\ pac[2] = ChannelId
<1>. DEFINE data == <<32, ChannelId>>
            pac == write_channel_acknowledge
<1>1. data \in Seq(Byte) /\ data # <<>> /\ data[1] = 32 /\ data[2] = ChannelId /\ Len(data) = 2
  BY ValuesAssumption DEF Byte
<1>2. pac = WithChecksum(data)
  BY AnswerHeaders DEF write_channel_acknowledge
<1>. HIDE DEF data, pac
<1>3. pac \in Seq(Byte) /\ validate_packet(pac) = "Ok" /\ At(pac, 0, data) /\ pac[1] = data[1]
  BY <1>1, <1>2, Undamaged
<1>4. pac[0 + 2] = data[2]
  BY <1>1, <1>3 DEF At
<1>. QED
  BY <1>1, <1>3, <1>4 DEF pac

LEMMA ResponseLies ==
  ASSUME NEW p \in Part, NEW v, FitsPart(p, v), NEW queued \in Nat
  PROVE  LET pac == write_response(p, v, queued)
         IN  /\ pac \in Seq(Byte) /\ validate_packet(pac) = "Ok" /\ pac[1] = 192
             /\ pac[3] = ChannelId /\ At(pac, 3, write_message(p, v))
<1>. DEFINE head == <<192, queued % 256, ChannelId>>
            msg == write_message(p, v)
            c == [k \in 1..Copies(p) |-> msg]
            body == FlattenSeq(c)
            data == head \o body
            pac == write_response(p, v, queued)
<1>1. head \in Seq(Byte) /\ Len(head) = 3 /\ head[1] = 192 /\ head[3] = ChannelId
  <2>1. 192 \in Byte /\ queued % 256 \in Byte /\ ChannelId \in Byte
    BY ValuesAssumption DEF Byte
  <2>. QED
    BY <2>1
<1>2. pac = WithChecksum(data)
  BY AnswerHeaders DEF write_response, ResponseHead
<1>3. msg \in Seq(Byte)
  BY MessageWritten
<1>4. Copies(p) \in Nat /\ 1 \in 1..Copies(p)
  BY DEF Copies
<1>. HIDE DEF head, msg, pac
<1>5. c \in [1..Copies(p) -> Seq(Byte)] /\ c[1] = msg
  BY <1>3, <1>4
<1>. HIDE DEF c
<1>6. c \in Seq(Seq(Byte)) /\ Len(c) = Copies(p)
  <2>. DEFINE B == Seq(Byte)
  <2>1. c \in [1..Copies(p) -> B]
    BY <1>5
  <2>. HIDE DEF B
  <2>2. c \in Seq(B) /\ Len(c) = Copies(p)
    BY <1>4, <2>1, IsSequence
  <2>. QED
    BY <2>2 DEF B
<1>7. body \in Seq(Byte) /\ Ends(c)[0] = 0
  BY <1>6, Flattened, EndsExist DEF EndsAt
<1>. HIDE DEF body
<1>8. Len(body) \in Nat
  BY <1>7, LenProperties
<1>9. /\ data \in Seq(Byte) /\ Len(data) = Len(head) + Len(body)
      /\ \A i \in 1..(Len(head) + Len(body)) :
           data[i] = IF i <= Len(head) THEN head[i] ELSE body[i - Len(head)]
  <2>1. head \in Seq(Byte) /\ body \in Seq(Byte)
    BY <1>1, <1>7
  <2>2. /\ head \o body \in Seq(Byte) /\ Len(head \o body) = Len(head) + Len(body)
        /\ \A i \in 1..(Len(head) + Len(body)) :
             (head \o body)[i] = IF i <= Len(head) THEN head[i] ELSE body[i - Len(head)]
    BY <2>1, ConcatProperties
  <2>. QED
    BY <2>2, Zenon
<1>10. data # <<>> /\ data[1] = 192 /\ data[3] = ChannelId /\ Len(data) >= 3
  <2>1. 1 \in 1..(Len(head) + Len(body)) /\ 3 \in 1..(Len(head) + Len(body))
    BY <1>1, <1>8
  <2>2. data[1] = head[1] /\ data[3] = head[3]
    BY <1>1, <1>9, <2>1
  <2>3. Len(data) >= 3 /\ Len(data) # 0
    BY <1>1, <1>8, <1>9
  <2>. HIDE DEF data
  <2>. QED
    BY <1>1, <1>9, <2>2, <2>3, EmptySeq
<1>. HIDE DEF data
<1>11. pac \in Seq(Byte) /\ validate_packet(pac) = "Ok" /\ At(pac, 0, data) /\ pac[1] = data[1]
  BY <1>2, <1>9, <1>10, Undamaged
<1>12. pac[0 + 3] = data[3]
  <2>1. Len(data) \in Nat
    BY <1>9, LenProperties
  <2>2. 3 \in 1..Len(data)
    BY <1>10, <2>1
  <2>. QED
    BY <1>11, <2>2 DEF At
<1>13. At(pac, 0 + Len(head), body)
  <2>1. At(pac, 0, head \o body)
    BY <1>11 DEF data
  <2>2. head \in Seq(Byte) /\ body \in Seq(Byte) /\ pac \in Seq(Byte)
    BY <1>1, <1>7, <1>11
  <2>. QED
    BY <2>1, <2>2, AtConcat
<1>14. At(pac, 3, body)
  BY <1>1, <1>13
<1>15. At(pac, 3 + Ends(c)[1 - 1], c[1])
  BY <1>4, <1>6, <1>11, <1>14, AtPiece DEF body
<1>16. At(pac, 3, msg)
  BY <1>5, <1>7, <1>15
<1>. QED
  BY <1>10, <1>11, <1>12, <1>16 DEF pac, msg

\* The channel's Part holds what the browser submitted.
WasSubmitted ==
  LET ls == Leaves[schema] IN
    /\ DOMAIN submitted = DOMAIN ls
    /\ \A i \in DOMAIN ls : submitted[i] \in ItemsFor(ls[i])
    /\ held = [i \in DOMAIN ls |-> SetFrom(ls[i].type, submitted[i])]

LEMMA SubmittedFits ==
  ASSUME schema \in Part, WasSubmitted
  PROVE  FitsPart(schema, held)
<1>. DEFINE ls == Leaves[schema]
<1>1. \A i \in DOMAIN ls : ls[i] \in Leaf
  BY LeavesListed, LenProperties, ElementOfSeq
<1>2. /\ \A i \in DOMAIN ls : submitted[i] \in ItemsFor(ls[i])
      /\ held = [i \in DOMAIN ls |-> SetFrom(ls[i].type, submitted[i])]
  BY DEF WasSubmitted
<1>. HIDE DEF ls
<1>3. \A i \in DOMAIN ls : held[i] = SetFrom(ls[i].type, submitted[i])
  BY <1>2
<1>4. \A i \in DOMAIN ls : Fitting(ls[i].type, held[i])
  BY <1>1, <1>2, <1>3, SetFits
<1>5. held = [i \in DOMAIN ls |-> held[i]]
  BY <1>2
<1>. QED
  BY <1>4, <1>5 DEF FitsPart, ls

\* A leaf that was set to a text or to an integer in range holds it.
LEMMA LeafSet ==
  ASSUME NEW leaf \in Leaf, NEW item \in ItemsFor(leaf)
  PROVE  LET v == SetFrom(leaf.type, item) IN
           /\ leaf.type = "String" => v = item.text
           /\ item.type = "Number" /\ valueint(item.number) = item.number
                /\ Fits(item.number, leaf.type) => NumberOf(leaf.type, v) = item.number
<1>. DEFINE t == leaf.type
<1>1. CASE t = "String"
  <2>1. ItemsFor(leaf) = {NA} \cup [type : {"String"}, text : Strings]
    BY <1>1 DEF ItemsFor, Integral, UnsignedTypes, SignedTypes
  <2>2. item.type = "String"
    BY <2>1 DEF NA
  <2>3. SetFrom(t, item) = item.text
    <3>1. CASE item = NA
      <4>1. SetFrom(t, item) = NoValue(t) /\ NoValue(t) = NA.text
        BY <1>1, <3>1 DEF SetFrom, NoValue, UnsignedTypes, SignedTypes
      <4>. QED
        BY <3>1, <4>1
    <3>2. CASE item # NA
      BY <1>1, <3>2 DEF SetFrom
    <3>. QED
      BY <3>1, <3>2
  <2>. QED
    BY <2>2, <2>3
<1>2. CASE t # "String" /\ ~(item.type = "Number")
  BY <1>2
<1>3. CASE t # "String" /\ item.type = "Number"
  <2>. SUFFICES ASSUME valueint(item.number) = item.number, Fits(item.number, t)
                PROVE  NumberOf(t, SetFrom(t, item)) = item.number
    BY <1>3
  <2>1. item # NA
    BY <1>3 DEF NA
  <2>2. Integral(leaf)
    <3>1. CASE t = "Boolean"
      <4>1. ~Integral(leaf)
        BY <3>1 DEF Integral, UnsignedTypes, SignedTypes
      <4>2. ItemsFor(leaf) = {NA} \cup [type : {"True", "False"}]
        BY <3>1, <4>1 DEF ItemsFor
      <4>3. item \in [type : {"True", "False"}]
        BY <2>1, <4>2
      <4>4. item.type # "Number"
        BY <4>3
      <4>. QED
        BY <1>3, <4>4
    <3>2. CASE t # "Boolean" /\ ~Integral(leaf)
      <4>1. ItemsFor(leaf) = {NA} \cup {}
        BY <1>3, <3>2 DEF ItemsFor
      <4>. QED
        BY <2>1, <4>1
    <3>. QED
      BY <3>1, <3>2
  <2>3. t \in UnsignedTypes \cup SignedTypes /\ t # "Boolean"
    BY <2>2 DEF Integral, UnsignedTypes, SignedTypes
  <2>4. item \in [type : {"Number"}, number : Entered]
    BY <2>1, <2>2, <2>3 DEF ItemsFor, UnsignedTypes, SignedTypes
  <2>5. item.number \in Entered
    BY <2>4
  <2>6. Entered \subseteq Int
    BY ValuesAssumption
  <2>7. item.number \in Int
    BY <2>5, <2>6, Zenon
  <2>8. SetFrom(t, item) = Cast(item.number, Width[t])
    BY <1>3, <2>1, <2>3 DEF SetFrom
  <2>. QED
    BY <2>3, <2>7, <2>8, NumberKept
<1>. QED
  BY <1>1, <1>2, <1>3

-----------------------------------------------------------------------------
(* While the line has changed nothing, the board follows the brain.            *)

Idle == pc = "idle" /\ part = NoPart /\ held = <<>> /\ stack = <<>>

BroadcastSent == packet = write_channel_broadcast(schema) /\ part = NoPart /\ held = <<>>
Announced == pc = "arrives" /\ BroadcastSent /\ stack = <<>>
Decodes ==
  /\ pc = "schema" /\ BroadcastSent
  /\ \E nodes \in Nodes, ats \in Places :
       /\ Frames(packet, schema, stack, nodes, ats)
       /\ read_head = ReadTo(stack, nodes, ats)
IsStored == /\ pc = "stored" /\ part = schema /\ held = <<>>
            /\ read_head \in Nat /\ read_head = Size - 4
Acknowledged == pc = "acknowledged" /\ part = schema /\ held = <<>>

DataSent == /\ packet = write_data_message(schema, values) /\ FitsPart(schema, values)
            /\ part = schema
DataArrives == pc = "arrives" /\ DataSent /\ held = <<>>
Reads ==
  /\ pc = "message" /\ DataSent
  /\ held \in Seq(Seq(Byte)) /\ Len(held) <= Len(Leaves[schema])
  /\ \A i \in 1..Len(held) : held[i] = values[i]
  /\ read_head = 2 + Ends(Pieces(schema, values))[Len(held)]
IsShown == pc = "shown" /\ part = schema /\ held = values /\ read_head = Size - 4

Responded == \E queued \in QueueSizes : sent = write_response(schema, held, queued)
Answers == /\ pc \in {"submitted", "request", "responded"} /\ part = schema /\ WasSubmitted
           /\ pc = "responded" => Responded
Requested == pc = "arrives" /\ packet = write_request /\ part = schema /\ WasSubmitted

Follows ==
  /\ schema \in Part
  /\ \/ Idle \/ Announced \/ Decodes \/ IsStored \/ Acknowledged
     \/ DataArrives \/ Reads \/ IsShown \/ Answers \/ Requested

LEMMA BroadcastLies ==
  ASSUME schema \in Part, packet = write_channel_broadcast(schema)
  PROVE  /\ packet \in Seq(Byte) /\ validate_packet(packet) = "Ok" /\ Branch(packet[1]) = "schema"
         /\ At(packet, 2, write_schema[schema])
         /\ 2 + Len(write_schema[schema]) = Size - 4
<1>1. write_schema[schema] \in Seq(Byte)
  BY SchemaWritten
<1>2. packet = WithChecksum(<<0, ChannelId>> \o write_schema[schema])
  BY Headers DEF write_channel_broadcast
<1>3. 0 \in Byte
  BY DEF Byte
<1>. DEFINE body == write_schema[schema]
<1>. HIDE DEF body
<1>4. /\ packet \in Seq(Byte) /\ validate_packet(packet) = "Ok" /\ packet[1] = 0
      /\ At(packet, 2, body) /\ 2 + Len(body) = Room(packet)
  BY <1>1, <1>2, <1>3, Sent DEF body
<1>. QED
  BY <1>4, Headers DEF body, Room, Size

LEMMA DataLies ==
  ASSUME schema \in Part, packet = write_data_message(schema, values), FitsPart(schema, values)
  PROVE  /\ packet \in Seq(Byte) /\ validate_packet(packet) = "Ok" /\ Branch(packet[1]) = "message"
         /\ At(packet, 2, write_message(schema, values))
         /\ 2 + Len(write_message(schema, values)) = Size - 4
<1>. DEFINE body == write_message(schema, values)
<1>1. body \in Seq(Byte)
  BY MessageWritten
<1>2. packet = WithChecksum(<<128, ChannelId>> \o body)
  BY Headers DEF write_data_message
<1>3. 128 \in Byte
  BY DEF Byte
<1>. HIDE DEF body
<1>4. /\ packet \in Seq(Byte) /\ validate_packet(packet) = "Ok" /\ packet[1] = 128
      /\ At(packet, 2, body) /\ 2 + Len(body) = Room(packet)
  BY <1>1, <1>2, <1>3, Sent
<1>. QED
  BY <1>4, Headers DEF body, Room, Size

LEMMA RequestLies ==
  ASSUME packet = write_request
  PROVE  packet \in Seq(Byte) /\ validate_packet(packet) = "Ok" /\ Branch(packet[1]) = "request"
<1>. DEFINE data == <<96>>
<1>1. data \in Seq(Byte) /\ data # <<>> /\ data[1] = 96
  BY DEF Byte
<1>2. packet = WithChecksum(data)
  BY Headers DEF write_request
<1>. HIDE DEF data
<1>3. packet \in Seq(Byte) /\ validate_packet(packet) = "Ok" /\ packet[1] = data[1]
  BY <1>1, <1>2, Undamaged
<1>. QED
  BY <1>1, <1>3, Headers

LEMMA InitFollows == Init => Follows
BY DEF Init, Follows, Idle

LEMMA WriteBroadcastFollows == Follows /\ WriteBroadcast => Follows'
<1>. SUFFICES ASSUME Follows, WriteBroadcast PROVE Follows'
  OBVIOUS
<1>1. Idle /\ schema \in Part
  BY DEF Follows, WriteBroadcast, Idle, Announced, Decodes, IsStored, Acknowledged,
         DataArrives, Reads, IsShown, Answers, Requested
<1>2. Announced'
  BY <1>1 DEF WriteBroadcast, Announced, BroadcastSent, Idle
<1>. QED
  BY <1>1, <1>2 DEF WriteBroadcast, Follows

LEMMA TakePacketFollows == Follows /\ TakePacket => Follows'
<1>. SUFFICES ASSUME Follows, TakePacket PROVE Follows'
  OBVIOUS
<1>1. schema \in Part /\ (Announced \/ DataArrives \/ Requested)
  BY DEF Follows, TakePacket, Idle, Decodes, IsStored, Acknowledged, Reads, IsShown, Answers
<1>2. /\ schema' = schema /\ values' = values /\ packet' = packet /\ stack' = stack /\ part' = part
      /\ held' = held
  BY DEF TakePacket
<1>3. CASE Announced
  <2>1. validate_packet(packet) = "Ok" /\ Branch(packet[1]) = "schema"
    BY <1>1, <1>3, BroadcastLies DEF Announced, BroadcastSent
  <2>2. pc' = "schema" /\ read_head' = 2
    BY <2>1 DEF TakePacket, SchemaStart
  <2>3. BroadcastSent' /\ stack = <<>>
    BY <1>2, <1>3 DEF Announced, BroadcastSent
  <2>4. Decodes'
    <3>. DEFINE nodes == [d \in Nat |-> schema]
                ats == [d \in Nat |-> 2]
    <3>1. nodes \in Nodes /\ ats \in Places
      BY <1>1 DEF Nodes, Places
    <3>. HIDE DEF nodes, ats
    <3>2. stack \in Seq(OpenRecord) /\ Len(stack) = 0
      BY <2>3, EmptySeq
    <3>3. Frames(packet, schema, stack, nodes, ats) /\ read_head' = ReadTo(stack, nodes, ats)
      <4>1. 1..Len(stack) = {} /\ 1..(Len(stack) - 1) = {}
        BY <3>2
      <4>. QED
        BY <2>2, <3>2, <4>1 DEF Frames, ReadTo
    <3>. QED
      BY <1>2, <2>2, <2>3, <3>1, <3>3 DEF Decodes
  <2>. QED
    BY <1>1, <1>2, <2>4 DEF Follows
<1>4. CASE DataArrives
  <2>1. validate_packet(packet) = "Ok" /\ Branch(packet[1]) = "message"
    BY <1>1, <1>4, DataLies DEF DataArrives, DataSent
  <2>2. pc' = "message" /\ read_head' = 2
    BY <2>1 DEF TakePacket, DataStart
  <2>3. DataSent' /\ held = <<>>
    BY <1>2, <1>4 DEF DataArrives, DataSent
  <2>4. held \in Seq(Seq(Byte)) /\ Len(held) = 0
    BY <2>3, EmptySeq
  <2>5. Len(Leaves[schema]) \in Nat /\ Ends(Pieces(schema, values))[0] = 0
    BY <1>1, <1>4, MessageWritten DEF DataArrives, DataSent
  <2>6. Reads'
    <3>1. 2 + Ends(Pieces(schema, values))[Len(held)] = 2 /\ Len(held) <= Len(Leaves[schema])
          /\ 1..Len(held) = {}
      BY <2>4, <2>5
    <3>. QED
      BY <1>2, <2>2, <2>3, <2>4, <3>1 DEF Reads
  <2>. QED
    BY <1>1, <1>2, <2>6 DEF Follows
<1>5. CASE Requested
  <2>1. validate_packet(packet) = "Ok" /\ Branch(packet[1]) = "request"
    BY <1>5, RequestLies DEF Requested
  <2>2. pc' = "request"
    BY <2>1 DEF TakePacket
  <2>3. WasSubmitted'
    BY <1>5 DEF TakePacket, Requested, WasSubmitted
  <2>. QED
    BY <1>1, <1>2, <1>5, <2>2, <2>3 DEF Follows, Answers, Requested
<1>. QED
  BY <1>1, <1>3, <1>4, <1>5

\* Place, of the Part that is due.
LEMMA PlaceFollows ==
  ASSUME schema \in Part, pc = "schema", BroadcastSent,
         NEW rs, NEW nodes \in Nodes, NEW ats \in Places,
         Frames(packet, schema, rs, nodes, ats),
         NEW q \in Part, NEW at, Due(schema, rs, nodes, ats, q, at),
         Place(q, rs), read_head' = at + Len(write_schema[q]),
         schema' = schema, packet' = packet, held' = held
  PROVE  Follows'
<1>1. /\ packet \in Seq(Byte) /\ 2 + Len(write_schema[schema]) = Size - 4
  BY BroadcastLies DEF BroadcastSent
<1>2. rs \in Seq(OpenRecord) /\ (rs = <<>> <=> Len(rs) = 0)
  BY EmptySeq DEF Frames
<1>3. CASE Len(rs) = 0
  <2>1. part' = q /\ pc' = "stored"
    BY <1>2, <1>3 DEF Place
  <2>2. q = schema /\ at = 2
    BY <1>3 DEF Due
  <2>3. read_head' \in Nat /\ read_head' = Size - 4
    <3>1. Len(write_schema[q]) \in Nat
      BY SchemaWritten, LenProperties
    <3>. QED
      BY <1>1, <2>2, <3>1
  <2>4. IsStored'
    BY <2>1, <2>2, <2>3 DEF IsStored, BroadcastSent, Size
  <2>. QED
    BY <2>4 DEF Follows
<1>4. CASE Len(rs) # 0
  <2>1. stack' = Placed(rs, q) /\ part' = part /\ pc' = pc
    BY <1>2, <1>4 DEF Place, Placed
  <2>2. /\ Frames(packet, schema, Placed(rs, q), nodes, ats)
        /\ ReadTo(Placed(rs, q), nodes, ats) = at + Len(write_schema[q])
    BY <1>1, <1>4, FieldPlaced
  <2>3. Decodes'
    BY <2>1, <2>2 DEF Decodes, BroadcastSent
  <2>. QED
    BY <2>3 DEF Follows
<1>. QED
  BY <1>3, <1>4

LEMMA DecodePartFollows == Follows /\ DecodePart => Follows'
<1>. SUFFICES ASSUME Follows, DecodePart PROVE Follows'
  OBVIOUS
<1>1. schema \in Part /\ Decodes
  BY DEF Follows, DecodePart, Idle, Announced, IsStored, Acknowledged, DataArrives, Reads, IsShown,
         Answers, Requested
<1>2. /\ schema' = schema /\ values' = values /\ packet' = packet /\ held' = held /\ pc = "schema"
  BY DEF DecodePart
<1>3. /\ packet \in Seq(Byte) /\ At(packet, 2, write_schema[schema])
  BY <1>1, BroadcastLies DEF Decodes, BroadcastSent
<1>4. PICK nodes \in Nodes, ats \in Places :
        Frames(packet, schema, stack, nodes, ats) /\ read_head = ReadTo(stack, nodes, ats)
  BY <1>1 DEF Decodes
<1>5. stack \in Seq(OpenRecord) /\ (stack = <<>> <=> Len(stack) = 0)
  BY <1>4, EmptySeq DEF Frames
<1>6. Len(stack) # 0 => stack[Len(stack)].left # 0
  BY <1>5 DEF DecodePart, RecordComplete, Last
<1>7. PICK q \in Part : /\ Due(schema, stack, nodes, ats, q, read_head)
                        /\ At(packet, read_head, write_schema[q])
  BY <1>1, <1>3, <1>4, <1>6, NextDue
<1>. DEFINE at == read_head
            rest == at + Len(q.name) + 2
<1>8. /\ q.type \in DOMAIN TypeCode /\ q.name \in Text
      /\ at \in Nat /\ at < Len(packet) /\ packet[at + 1] = TypeCode[q.type]
      /\ HasString(packet, at + 1) /\ StringAt(packet, at + 1) = q.name
      /\ PastTerminator(packet, at + 1) = rest
      /\ ~IsRecord(q) => Len(write_schema[q]) = Len(q.name) + 2
  BY <1>3, <1>7, HeaderLayout
<1>. DEFINE types == {t \in DOMAIN TypeCode : TypeCode[t] = ByteAt(packet, at)}
<1>9. types = {q.type}
  <2>1. ByteAt(packet, at) = TypeCode[q.type]
    BY <1>8 DEF ByteAt
  <2>. QED
    BY <1>8, <2>1, TypeCodes
<1>10. types # {} /\ (CHOOSE t \in types : TRUE) = q.type
  BY <1>9
<1>11. IF q.type = "Record"
       THEN /\ stack' = Append(stack, [name |-> q.name, left |-> CountAt(rest), fields |-> <<>>])
            /\ read_head' = PastCount(rest)
            /\ UNCHANGED <<part, pc>>
       ELSE read_head' = rest /\ Place([type |-> q.type, name |-> q.name], stack)
  <2>1. read_head < Size /\ HasString(packet, read_head + 1)
    BY <1>8 DEF Size
  <2>. HIDE DEF Place
  <2>2. LET name == StringAt(packet, read_head + 1)
            past == PastTerminator(packet, read_head + 1)
        IN IF types = {}
           THEN read_head' = past /\ Place(NoPart, stack)
           ELSE LET t == CHOOSE t \in types : TRUE IN
                IF t = "Record"
                THEN /\ stack' = Append(stack, [name |-> name, left |-> CountAt(past), fields |-> <<>>])
                     /\ read_head' = PastCount(past)
                     /\ UNCHANGED <<part, pc>>
                ELSE read_head' = past /\ Place([type |-> t, name |-> name], stack)
    BY <2>1, Zenon DEF DecodePart
  <2>. HIDE DEF types, rest
  <2>. QED
    BY <1>8, <1>10, <2>2
<1>. HIDE DEF types
<1>12. CASE IsRecord(q)
  <2>1. /\ Len(q.fields) \in Nat /\ IsUint32(Len(q.fields))
        /\ FieldEnd(q, at, 0) = at + Len(q.name) + 6
        /\ At(packet, rest, write_number(Len(q.fields)))
    BY <1>3, <1>7, <1>12, RecordLayout
  <2>. HIDE DEF rest
  <2>2. CountAt(rest) = Len(q.fields) /\ PastCount(rest) = rest + 4
    BY <1>3, <2>1, CountRead
  <2>3. stack' = Append(stack, Begun(q)) /\ read_head' = rest + 4 /\ part' = part /\ pc' = pc
    BY <1>11, <1>12, <2>2 DEF Begun, IsRecord
  <2>4. PICK ns \in Nodes, bs \in Places :
          /\ Frames(packet, schema, Append(stack, Begun(q)), ns, bs)
          /\ ReadTo(Append(stack, Begun(q)), ns, bs) = FieldEnd(q, at, 0)
    <3>1. at \in Nat /\ Frames(packet, schema, stack, nodes, ats) /\ schema \in Part
      BY <1>1, <1>4, <1>8
    <3>2. Due(schema, stack, nodes, ats, q, at) /\ At(packet, at, write_schema[q])
      BY <1>7
    <3>. HIDE DEF at
    <3>. QED
      BY ONLY <1>3, <1>12, <3>1, <3>2, RecordBegun, nodes \in Nodes, ats \in Places,
              q \in Part
  <2>5. rest + 4 = at + Len(q.name) + 6
    <3>1. \A x, y \in Nat : x + y + 2 + 4 = x + y + 6
      OBVIOUS
    <3>2. Len(q.name) \in Nat
      BY <1>8, LenProperties DEF Text
    <3>. QED
      BY <1>8, <3>1, <3>2 DEF rest
  <2>6. Decodes'
    BY <1>1, <1>2, <2>1, <2>3, <2>4, <2>5 DEF Decodes, BroadcastSent
  <2>. QED
    BY <1>1, <1>2, <2>6 DEF Follows
<1>13. CASE ~IsRecord(q)
  <2>1. q = [type |-> q.type, name |-> q.name]
    <3>1. q \in Leaf
      BY <1>13, PartShape DEF Shape, IsRecord
    <3>. QED
      BY <3>1 DEF Leaf
  <2>2. Place(q, stack) /\ read_head' = rest
    BY <1>11, <1>13, <2>1 DEF IsRecord
  <2>3. rest = at + Len(write_schema[q])
    <3>1. Len(write_schema[q]) = Len(q.name) + 2 /\ Len(q.name) \in Nat
      BY <1>8, <1>13, LenProperties DEF Text
    <3>2. \A x, y \in Nat : \A z : z = y + 2 => x + y + 2 = x + z
      OBVIOUS
    <3>. QED
      BY <1>8, <3>1, <3>2
  <2>. HIDE DEF rest
  <2>. QED
    BY <1>1, <1>2, <1>4, <1>7, <2>2, <2>3, PlaceFollows DEF Decodes
<1>. QED
  BY <1>12, <1>13

LEMMA CloseRecordFollows == Follows /\ CloseRecord => Follows'
<1>. SUFFICES ASSUME Follows, CloseRecord PROVE Follows'
  OBVIOUS
<1>1. schema \in Part /\ Decodes
  BY DEF Follows, CloseRecord, Idle, Announced, IsStored, Acknowledged, DataArrives, Reads, IsShown,
         Answers, Requested
<1>2. /\ schema' = schema /\ packet' = packet /\ held' = held /\ pc = "schema"
      /\ read_head' = read_head
  BY DEF CloseRecord
<1>3. /\ packet \in Seq(Byte)
  BY <1>1, BroadcastLies DEF Decodes, BroadcastSent
<1>4. PICK nodes \in Nodes, ats \in Places :
        Frames(packet, schema, stack, nodes, ats) /\ read_head = ReadTo(stack, nodes, ats)
  BY <1>1 DEF Decodes
<1>5. stack \in Seq(OpenRecord) /\ (stack = <<>> <=> Len(stack) = 0)
  BY <1>4, EmptySeq DEF Frames
<1>6. Complete(stack)
  BY <1>5 DEF CloseRecord, RecordComplete, Last, Complete
<1>7. Place(Closed(stack), Front(stack))
  BY DEF CloseRecord, Closed
<1>8. /\ Closed(stack) \in Part
      /\ Frames(packet, schema, Front(stack), nodes, ats)
      /\ Due(schema, Front(stack), nodes, ats, Closed(stack), ats[Len(stack)])
      /\ ReadTo(stack, nodes, ats) = ats[Len(stack)] + Len(write_schema[Closed(stack)])
  <2>1. schema \in Part /\ Frames(packet, schema, stack, nodes, ats)
    BY <1>1, <1>4
  <2>. QED
    BY ONLY <1>3, <1>6, <2>1, RecordClosed
<1>. QED
  BY <1>1, <1>2, <1>4, <1>7, <1>8, PlaceFollows DEF Decodes

LEMMA AcknowledgeFollows == Follows /\ Acknowledge => Follows'
<1>. SUFFICES ASSUME Follows, Acknowledge PROVE Follows'
  OBVIOUS
<1>1. schema \in Part /\ IsStored
  BY DEF Follows, Acknowledge, Idle, Announced, Decodes, Acknowledged, DataArrives, Reads, IsShown,
         Answers, Requested
<1>2. Acknowledged' /\ schema' = schema
  BY <1>1 DEF IsStored, Acknowledge, Acknowledged
<1>. QED
  BY <1>1, <1>2 DEF Follows

LEMMA WriteDataFollows == Follows /\ WriteData => Follows' /\ DataArrives'
<1>. SUFFICES ASSUME Follows, WriteData PROVE Follows' /\ DataArrives'
  OBVIOUS
<1>1. schema \in Part /\ Acknowledged
  BY DEF Follows, WriteData, Idle, Announced, Decodes, IsStored, DataArrives, Reads, IsShown,
         Answers, Requested
<1>. DEFINE ls == Leaves[schema]
<1>2. PICK v \in [DOMAIN ls -> UNION {ValuesOf(ls[i]) : i \in DOMAIN ls}] :
        /\ \A i \in DOMAIN ls : v[i] \in ValuesOf(ls[i])
        /\ values' = v
        /\ packet' = write_data_message(schema, v)
  BY DEF WriteData
<1>3. FitsPart(schema, v)
  <2>1. v = [i \in DOMAIN ls |-> v[i]]
    BY <1>2
  <2>2. \A i \in DOMAIN ls : ls[i] \in Leaf
    BY <1>1, LeavesListed, LenProperties, ElementOfSeq
  <2>3. \A i \in DOMAIN ls : Fitting(ls[i].type, v[i])
    BY <1>2, <2>2, ValuesFit
  <2>. QED
    BY <2>1, <2>3 DEF FitsPart
<1>4. schema' = schema /\ part' = part /\ held' = held /\ pc' = "arrives"
  BY DEF WriteData
<1>5. DataArrives'
  BY <1>1, <1>2, <1>3, <1>4 DEF DataArrives, DataSent, Acknowledged
<1>. QED
  BY <1>1, <1>4, <1>5 DEF Follows

LEMMA ReadLeafFollows == Follows /\ ReadLeaf => Follows'
<1>. SUFFICES ASSUME Follows, ReadLeaf PROVE Follows'
  OBVIOUS
<1>1. schema \in Part /\ Reads
  BY DEF Follows, ReadLeaf, Idle, Announced, Decodes, IsStored, Acknowledged, DataArrives, IsShown,
         Answers, Requested
<1>2. /\ schema' = schema /\ values' = values /\ packet' = packet /\ part' = part /\ part = schema
  BY <1>1 DEF ReadLeaf, Reads, DataSent
<1>. DEFINE m == Len(held)
            n == Len(Leaves[schema])
            t == Leaves[schema][m + 1].type
            v == values[m + 1]
            o == Ends(Pieces(schema, values))
<1>3. /\ packet \in Seq(Byte) /\ At(packet, 2, write_message(schema, values))
      /\ FitsPart(schema, values) /\ n \in Nat /\ m \in Nat /\ m < n
  <2>1. FitsPart(schema, values) /\ packet = write_data_message(schema, values)
    BY <1>1 DEF Reads, DataSent
  <2>2. n \in Nat
    BY <1>1, <2>1, MessageWritten
  <2>3. m \in Nat /\ m < n
    BY <1>1, <1>2, LenProperties DEF Reads, ReadLeaf
  <2>. QED
    BY <1>1, <2>1, <2>2, <2>3, DataLies
<1>4. /\ t \in DOMAIN TypeCode \ {"Record"} /\ Fitting(t, v)
      /\ At(packet, 2 + o[m], write_leaf(t, v)) /\ 2 + o[m + 1] = (2 + o[m]) + Len(write_leaf(t, v))
  BY <1>1, <1>3, LeafLayout
<1>5. read_head = 2 + o[m]
  BY <1>1 DEF Reads
<1>. HIDE DEF t, v, o
<1>6. /\ ~RunsOut(packet, read_head, t)
      /\ GetLeaf(packet, read_head, t).value = v
      /\ GetLeaf(packet, read_head, t).head = 2 + o[m + 1]
  BY <1>3, <1>4, <1>5, LeafRead
<1>7. held' = Append(held, v) /\ read_head' = 2 + o[m + 1] /\ pc' = pc
  <2>1. t = Leaves[part][Len(held) + 1].type
    BY <1>2 DEF t
  <2>2. held' = Append(held, GetLeaf(packet, read_head, t).value)
        /\ read_head' = GetLeaf(packet, read_head, t).head /\ pc' = pc
    BY <1>6, <2>1 DEF ReadLeaf
  <2>. QED
    BY <1>6, <2>2
<1>8. v \in Seq(Byte)
  <2>1. Text \subseteq Seq(Byte)
    <3>1. 1..255 \subseteq Byte
      BY DEF Byte
    <3>. QED
      BY <3>1, SeqMonotonic DEF Text
  <2>. QED
    BY <1>4, <2>1 DEF Fitting
<1>9. /\ held' \in Seq(Seq(Byte)) /\ Len(held') = m + 1
      /\ \A i \in 1..m : held'[i] = held[i]
      /\ held'[m + 1] = v
  BY <1>1, <1>7, <1>8, AppendProperties DEF Reads
<1>10. \A i \in 1..(m + 1) : held'[i] = values[i]
  <2>. SUFFICES ASSUME NEW i \in 1..(m + 1) PROVE held'[i] = values[i]
    OBVIOUS
  <2>1. CASE i = m + 1
    BY <1>9, <2>1 DEF v
  <2>2. CASE i # m + 1
    <3>1. i \in 1..m
      BY <1>3, <2>2
    <3>. QED
      BY <1>1, <1>9, <3>1 DEF Reads
  <2>. QED
    BY <2>1, <2>2
<1>11. m + 1 <= n
  BY <1>3
<1>12. Reads'
  <2>1. DataSent'
    BY <1>1, <1>2 DEF Reads, DataSent
  <2>. QED
    BY <1>1, <1>2, <1>7, <1>9, <1>10, <1>11, <2>1 DEF Reads, o
<1>. QED
  BY <1>1, <1>2, <1>12 DEF Follows

LEMMA ShowFollows == Follows /\ Show => Follows'
<1>. SUFFICES ASSUME Follows, Show PROVE Follows'
  OBVIOUS
<1>1. schema \in Part /\ Reads
  BY DEF Follows, Show, Idle, Announced, Decodes, IsStored, Acknowledged, DataArrives, IsShown,
         Answers, Requested
<1>2. /\ schema' = schema /\ values' = values /\ packet' = packet /\ part' = part /\ part = schema
      /\ held' = held /\ read_head' = read_head /\ pc' = "shown"
  BY <1>1 DEF Show, Reads, DataSent
<1>. DEFINE n == Len(Leaves[schema])
<1>3. /\ FitsPart(schema, values) /\ DOMAIN Leaves[schema] = 1..n
      /\ Ends(Pieces(schema, values))[n] = Len(write_message(schema, values))
      /\ 2 + Len(write_message(schema, values)) = Size - 4
  <2>1. FitsPart(schema, values) /\ packet = write_data_message(schema, values)
    BY <1>1 DEF Reads, DataSent
  <2>. QED
    BY <1>1, <2>1, MessageWritten, DataLies
<1>4. Len(held) = n
  BY <1>2 DEF Show
<1>5. held = values
  <2>1. held = [i \in 1..n |-> held[i]]
    BY <1>1, <1>4, LenProperties DEF Reads
  <2>2. values = [i \in 1..n |-> values[i]]
    BY <1>3 DEF FitsPart
  <2>3. \A i \in 1..n : held[i] = values[i]
    BY <1>1, <1>4 DEF Reads
  <2>. QED
    BY <2>1, <2>2, <2>3
<1>6. read_head = Size - 4
  BY <1>1, <1>3, <1>4 DEF Reads
<1>7. IsShown'
  BY <1>2, <1>5, <1>6 DEF IsShown, Size
<1>. QED
  BY <1>1, <1>2, <1>7 DEF Follows

LEMMA AnswersFollow == Follows /\ (SetData \/ WriteRequest \/ Respond) => Follows'
<1>. SUFFICES ASSUME Follows, SetData \/ WriteRequest \/ Respond PROVE Follows'
  OBVIOUS
<1>1. CASE SetData
  <2>1. schema \in Part /\ IsShown
    BY <1>1 DEF Follows, SetData, Idle, Announced, Decodes, IsStored, Acknowledged, DataArrives,
                Reads, Answers, Requested
  <2>2. schema' = schema /\ part' = schema /\ pc' = "submitted"
    BY <1>1, <2>1 DEF SetData, IsShown
  <2>3. WasSubmitted'
    <3>1. PICK items \in [DOMAIN Leaves[part] -> UNION {ItemsFor(Leaves[part][i]) : i \in DOMAIN Leaves[part]}] :
            /\ \A i \in DOMAIN Leaves[part] : items[i] \in ItemsFor(Leaves[part][i])
            /\ submitted' = items
            /\ held' = [i \in DOMAIN Leaves[part] |-> SetFrom(Leaves[part][i].type, items[i])]
      BY <1>1 DEF SetData
    <3>2. part = schema
      BY <2>1 DEF IsShown
    <3>. QED
      BY <2>2, <3>1, <3>2 DEF WasSubmitted
  <2>4. Answers'
    BY <2>2, <2>3 DEF Answers
  <2>. QED
    BY <2>1, <2>2, <2>4 DEF Follows
<1>2. CASE WriteRequest
  <2>1. schema \in Part /\ Answers
    BY <1>2 DEF Follows, WriteRequest, Idle, Announced, Decodes, IsStored, Acknowledged,
                DataArrives, Reads, IsShown, Requested
  <2>2. schema' = schema /\ Requested'
    BY <1>2, <2>1 DEF WriteRequest, Answers, Requested, WasSubmitted
  <2>. QED
    BY <2>1, <2>2 DEF Follows
<1>3. CASE Respond
  <2>1. schema \in Part /\ Answers
    BY <1>3 DEF Follows, Respond, Idle, Announced, Decodes, IsStored, Acknowledged,
                DataArrives, Reads, IsShown, Requested
  <2>2. /\ schema' = schema /\ held' = held /\ part' = part /\ part = schema
        /\ submitted' = submitted /\ pc' = "responded"
    BY <1>3, <2>1 DEF Respond, Answers
  <2>3. Responded'
    BY <1>3, <2>2 DEF Respond, Responded
  <2>4. WasSubmitted'
    BY <2>1, <2>2 DEF Answers, WasSubmitted
  <2>5. Answers'
    BY <2>2, <2>3, <2>4 DEF Answers
  <2>. QED
    BY <2>1, <2>2, <2>5 DEF Follows
<1>. QED
  BY <1>1, <1>2, <1>3

LEMMA StutterFollows == Follows /\ UNCHANGED vars => Follows'
BY DEF vars, Follows, Idle, BroadcastSent, Announced, Decodes, IsStored, Acknowledged, DataSent,
       DataArrives, Reads, IsShown, Answers, Requested, WasSubmitted, Responded, Size

LEMMA StepFollows == Follows /\ [Next]_vars /\ ~damaged' => Follows'
<1>. SUFFICES ASSUME Follows, [Next]_vars, ~damaged' PROVE Follows'
  OBVIOUS
<1>1. CASE Damage
  BY <1>1 DEF Damage
<1>2. CASE Done
  BY <1>2, StutterFollows DEF Done
<1>3. CASE UNCHANGED vars
  BY <1>3, StutterFollows
<1>. QED
  BY <1>1, <1>2, <1>3, WriteBroadcastFollows, WriteDataFollows, TakePacketFollows, DecodePartFollows,
     CloseRecordFollows, AcknowledgeFollows, ReadLeafFollows, ShowFollows, AnswersFollow DEF Next

-----------------------------------------------------------------------------
(* What follows from it. *)

\* Wherever it is in a broadcast, the reader has not reached the checksum.
LEMMA ReadInside ==
  ASSUME NEW pac \in Seq(Byte), NEW root \in Part, At(pac, 2, write_schema[root]),
         NEW rs, NEW nodes, NEW ats, Frames(pac, root, rs, nodes, ats)
  PROVE  ReadTo(rs, nodes, ats) \in Nat /\ ReadTo(rs, nodes, ats) <= Len(pac) - 4
<1>1. CASE Len(rs) = 0
  <2>1. Len(write_schema[root]) \in Nat /\ Len(pac) \in Nat
    BY SchemaWritten, LenProperties
  <2>. QED
    BY <1>1, <2>1 DEF ReadTo, At, Room
<1>2. CASE Len(rs) # 0
  <2>. DEFINE r == rs[Len(rs)]
              node == nodes[Len(rs)]
              base == ats[Len(rs)]
              m == Len(r.fields)
              n == Len(node.fields)
  <2>1. r \in OpenRecord /\ Frame(pac, r, node, base)
    <3>1. Len(rs) \in 1..Len(rs) /\ rs \in Seq(OpenRecord)
      BY <1>2, LenProperties DEF Frames
    <3>. QED
      BY <3>1, ElementOfSeq DEF Frames
  <2>2. m \in Nat /\ r.left \in Nat /\ m + r.left = n
    BY <2>1, LenProperties DEF OpenRecord, Frame
  <2>3. ReadTo(rs, nodes, ats) = FieldEnd(node, base, m)
    BY <1>2 DEF ReadTo
  <2>4. Len(pac) \in Nat
    BY LenProperties
  <2>. HIDE DEF r, node, base, m
  <2>5. node \in Part /\ IsRecord(node) /\ At(pac, base, write_schema[node])
    BY <2>1 DEF Frame
  <2>6. CASE m = n
    <3>1. FieldEnd(node, base, n) = base + Len(write_schema[node])
      BY <2>5, RecordLayout
    <3>. QED
      BY <2>3, <2>5, <2>6, <3>1 DEF At, Room
  <2>7. CASE m # n
    <3>1. m < Len(node.fields)
      <4>. DEFINE l == r.left
      <4>1. m \in Nat /\ l \in Nat /\ m + l = n
        BY <2>2
      <4>. HIDE DEF l, n
      <4>2. m < n
        BY ONLY <2>7, <4>1
      <4>. QED
        BY <4>2 DEF n
    <3>. DEFINE f == node.fields[m + 1]
                e == FieldEnd(node, base, m)
    <3>2. f \in Part /\ e \in Nat /\ At(pac, e, write_schema[f])
      BY ONLY <2>2, <2>5, <3>1, FieldLayout, pac \in Seq(Byte)
    <3>3. Len(write_schema[f]) \in Nat
      BY <3>2, SchemaWritten, LenProperties
    <3>. HIDE DEF e, f
    <3>4. e <= Len(pac) - 4
      BY <2>4, <3>2, <3>3 DEF At, Room
    <3>. QED
      BY <2>3, <3>2, <3>4 DEF e
  <2>. QED
    BY <2>6, <2>7
<1>. QED
  BY <1>1, <1>2

LEMMA FollowsInside == Follows => ReaderInsidePacket
<1>. SUFFICES ASSUME Follows PROVE ReaderInsidePacket
  OBVIOUS
<1>1. pc # "outside" /\ schema \in Part
  BY DEF Follows, Idle, Announced, Decodes, IsStored, Acknowledged, DataArrives, Reads, IsShown,
         Answers, Requested
<1>2. pc = "schema" => read_head <= Size - 4
  <2>. SUFFICES ASSUME pc = "schema" PROVE read_head <= Size - 4
    OBVIOUS
  <2>1. Decodes
    BY DEF Follows, Idle, Announced, IsStored, Acknowledged, DataArrives, Reads, IsShown,
           Answers, Requested
  <2>2. PICK nodes \in Nodes, ats \in Places :
          Frames(packet, schema, stack, nodes, ats) /\ read_head = ReadTo(stack, nodes, ats)
    BY <2>1 DEF Decodes
  <2>3. packet \in Seq(Byte) /\ At(packet, 2, write_schema[schema])
    BY <1>1, <2>1, BroadcastLies DEF Decodes, BroadcastSent
  <2>4. ReadTo(stack, nodes, ats) <= Len(packet) - 4
    BY <1>1, <2>2, <2>3, ReadInside
  <2>. QED
    BY <2>2, <2>4 DEF Size
<1>3. pc = "message" => read_head <= Size - 4
  <2>. SUFFICES ASSUME pc = "message" PROVE read_head <= Size - 4
    OBVIOUS
  <2>1. Reads
    BY DEF Follows, Idle, Announced, Decodes, IsStored, Acknowledged, DataArrives, IsShown,
           Answers, Requested
  <2>. DEFINE m == Len(held)
              n == Len(Leaves[schema])
              o == Ends(Pieces(schema, values))
  <2>2. /\ packet \in Seq(Byte) /\ At(packet, 2, write_message(schema, values))
        /\ FitsPart(schema, values) /\ n \in Nat /\ m \in Nat /\ m <= n
        /\ o[n] = Len(write_message(schema, values))
        /\ 2 + Len(write_message(schema, values)) = Size - 4
        /\ read_head = 2 + o[m]
    <3>1. FitsPart(schema, values) /\ packet = write_data_message(schema, values)
      BY <2>1 DEF Reads, DataSent
    <3>2. n \in Nat /\ o[n] = Len(write_message(schema, values))
      BY <1>1, <3>1, MessageWritten
    <3>3. m \in Nat /\ m <= n /\ read_head = 2 + o[m]
      BY <2>1, LenProperties DEF Reads
    <3>. QED
      BY <1>1, <3>1, <3>2, <3>3, DataLies
  <2>3. Len(packet) \in Nat
    BY <2>2, LenProperties
  <2>4. CASE m = n
    <3>1. read_head = Size - 4
      BY <2>2, <2>4
    <3>. QED
      BY <2>3, <3>1 DEF Size
  <2>5. CASE m # n
    <3>1. m < n
      BY <2>2, <2>5
    <3>. DEFINE w == write_leaf(Leaves[schema][m + 1].type, values[m + 1])
                e == 2 + o[m]
    <3>2. At(packet, e, w) /\ e \in Nat /\ Len(w) \in Nat
      BY <1>1, <2>2, <3>1, LeafLayout
    <3>. HIDE DEF w, e
    <3>3. e <= Len(packet) - 4
      BY <2>3, <3>2 DEF At, Room
    <3>. QED
      BY <2>2, <3>3 DEF e, Size
  <2>. QED
    BY <2>4, <2>5
<1>4. pc \in {"stored", "shown"} => read_head = Size - 4
  BY DEF Follows, Idle, Announced, Decodes, IsStored, Acknowledged, DataArrives, Reads, IsShown,
         Answers, Requested
<1>. QED
  BY <1>1, <1>2, <1>3, <1>4 DEF ReaderInsidePacket

LEMMA FollowsSchema == Follows => part \in {NoPart, schema}
BY DEF Follows, Idle, BroadcastSent, Announced, Decodes, IsStored, Acknowledged, DataSent,
       DataArrives, Reads, IsShown, Answers, Requested

LEMMA FollowsData == Follows => DataRoundTrip
BY DEF Follows, DataRoundTrip, Idle, Announced, Decodes, IsStored, Acknowledged,
       DataArrives, Reads, IsShown, Answers, Requested

Faithful == ~damaged => Follows

\* As long as the line has changed nothing, the board is in step with the brain: the
\* constructors under way and the reader are where one traversal of the registered
\* Part puts them (make_decoder, read_data_from_message against write_schema,
\* write_message).
THEOREM LineFollowed == Spec => []Faithful
<1>1. Init => Faithful
  BY InitFollows DEF Faithful
<1>2. Faithful /\ [Next]_vars => Faithful'
  <2>. SUFFICES ASSUME Faithful, [Next]_vars, ~damaged' PROVE Follows'
    BY DEF Faithful
  <2>1. ~damaged
    BY DEF Next, vars, WriteBroadcast, WriteData, WriteRequest, Damage, TakePacket, DecodePart,
           CloseRecord, Acknowledge, ReadLeaf, Show, SetData, Respond, Done
  <2>. QED
    BY <2>1, StepFollows DEF Faithful
<1>. QED
  BY <1>1, <1>2, PTL DEF Spec

UndamagedRoundTrip == ~damaged => ReaderInsidePacket /\ SchemaRoundTrip /\ DataRoundTrip

\* A broadcast that the line did not change decodes to the Part that was registered,
\* whatever its nesting, a data message to the values that were written, and
\* PacketReader ends exactly at the checksum.
THEOREM UndamagedArrives == Spec => []UndamagedRoundTrip
<1>1. Faithful => UndamagedRoundTrip
  BY FollowsInside, FollowsSchema, FollowsData DEF Faithful, UndamagedRoundTrip, SchemaRoundTrip
<1>. QED
  BY <1>1, LineFollowed, PTL

\* With the checksum finding the damage, a damaged packet leaves the Part as it was.
PartKept == part \in {NoPart, schema}

LEMMA AlwaysKept == Spec /\ []DamageIsFound => [](Faithful /\ PartKept)
<1>1. Init => PartKept
  BY DEF Init, PartKept
<1>2. Faithful /\ PartKept /\ DamageIsFound /\ Faithful' /\ [Next]_vars => PartKept'
  <2>. SUFFICES ASSUME Faithful, PartKept, DamageIsFound, Faithful', [Next]_vars PROVE PartKept'
    OBVIOUS
  <2>1. CASE ~damaged'
    <3>1. Follows'
      BY <2>1 DEF Faithful
    <3>. QED
      BY <3>1, FollowsSchema DEF Follows, PartKept, Idle, BroadcastSent, Announced, Decodes, IsStored,
         Acknowledged, DataSent, DataArrives, Reads, IsShown, Answers, Requested
  <2>2. CASE damaged'
    <3>1. CASE Damage
      BY <3>1 DEF Damage, PartKept
    <3>2. CASE ~Damage
      <4>1. damaged
        BY <2>2, <3>2 DEF Next, vars, WriteBroadcast, WriteData, WriteRequest, TakePacket, DecodePart,
           CloseRecord, Acknowledge, ReadLeaf, Show, SetData, Respond, Done
      <4>2. pc \in {"arrives", "refused"}
        BY <4>1 DEF DamageIsFound
      <4>3. part' = part /\ schema' = schema
        BY <3>2, <4>2 DEF Next, vars, WriteBroadcast, WriteData, WriteRequest, TakePacket, DecodePart,
           CloseRecord, Acknowledge, ReadLeaf, Show, SetData, Respond, Done
      <4>. QED
        BY <4>3 DEF PartKept
    <3>. QED
      BY <3>1, <3>2
  <2>. QED
    BY <2>1, <2>2
<1>. QED
  BY <1>1, <1>2, LineFollowed, PTL DEF Spec

\* make_decoder builds the Part that write_schema was given, for every Part: any
\* nesting, any number of fields that a uint32_t can count, any names without a zero.
THEOREM SchemaRoundTripHolds == Spec /\ []DamageIsFound => []SchemaRoundTrip
<1>1. PartKept => SchemaRoundTrip
  BY DEF PartKept, SchemaRoundTrip
<1>. QED
  BY <1>1, AlwaysKept, PTL

\* PacketReader reads neither the checksum nor what lies behind the packet, and it
\* reads all that lies before the checksum.
THEOREM ReaderStaysInside == Spec /\ []DamageIsFound => []ReaderInsidePacket
<1>1. Faithful /\ DamageIsFound => ReaderInsidePacket
  BY FollowsInside DEF Faithful, DamageIsFound, ReaderInsidePacket
<1>. QED
  BY <1>1, LineFollowed, PTL

\* read_data_from_message gives every leaf the value that its namesake had when
\* write_data_message wrote it.
THEOREM DataRoundTripHolds == Spec /\ []DamageIsFound => []DataRoundTrip
<1>1. Faithful /\ DamageIsFound => DataRoundTrip
  BY FollowsData DEF Faithful, DamageIsFound, DataRoundTrip
<1>. QED
  BY <1>1, LineFollowed, PTL

\* What the provers need to know of the types while the line has changed nothing.
ReadsTyped ==
  /\ pc \in {"schema", "stored", "message"} => read_head \in Nat
  /\ pc = "schema" => \A i \in DOMAIN stack : stack[i].left \in Nat
  /\ pc = "message" => \A i \in DOMAIN held : held[i] \in Seq(Byte)

LEMMA FollowsTyped == Follows => ReadsTyped
<1>. SUFFICES ASSUME Follows PROVE ReadsTyped
  OBVIOUS
<1>1. schema \in Part
  BY DEF Follows
<1>2. CASE pc = "schema"
  <2>1. Decodes
    BY <1>2 DEF Follows, Idle, Announced, IsStored, Acknowledged, DataArrives, Reads, IsShown,
                Answers, Requested
  <2>2. PICK nodes \in Nodes, ats \in Places :
          Frames(packet, schema, stack, nodes, ats) /\ read_head = ReadTo(stack, nodes, ats)
    BY <2>1 DEF Decodes
  <2>3. packet \in Seq(Byte) /\ At(packet, 2, write_schema[schema])
    BY <1>1, <2>1, BroadcastLies DEF Decodes, BroadcastSent
  <2>4. read_head \in Nat
    BY <1>1, <2>2, <2>3, ReadInside
  <2>5. \A i \in DOMAIN stack : stack[i].left \in Nat
    <3>1. stack \in Seq(OpenRecord)
      BY <2>2 DEF Frames
    <3>2. \A i \in DOMAIN stack : stack[i] \in OpenRecord
      BY <3>1, ElementOfSeq, LenProperties
    <3>. QED
      BY <3>2 DEF OpenRecord
  <2>. QED
    BY <1>2, <2>4, <2>5 DEF ReadsTyped
<1>3. CASE pc = "message"
  <2>1. Reads
    BY <1>3 DEF Follows, Idle, Announced, Decodes, IsStored, Acknowledged, DataArrives, IsShown,
                Answers, Requested
  <2>. DEFINE p == Pieces(schema, values)
              m == Len(held)
  <2>2. p \in Seq(Seq(Byte)) /\ Len(p) = Len(Leaves[schema])
    BY <1>1, <2>1, MessageWritten DEF Reads, DataSent
  <2>3. m \in 0..Len(p) /\ held \in Seq(Seq(Byte)) /\ read_head = 2 + Ends(p)[m]
    BY <2>1, <2>2, LenProperties DEF Reads
  <2>. HIDE DEF p, m
  <2>4. Ends(p)[m] \in Nat
    BY <2>2, <2>3, EndsExist
  <2>5. \A i \in DOMAIN held : held[i] \in Seq(Byte)
    BY <2>3, ElementOfSeq, LenProperties
  <2>. QED
    BY <1>3, <2>3, <2>4, <2>5 DEF ReadsTyped
<1>4. CASE pc = "stored"
  <2>1. IsStored
    BY <1>4 DEF Follows, Idle, Announced, Decodes, Acknowledged, DataArrives, Reads, IsShown,
                Answers, Requested
  <2>. QED
    BY <1>4, <2>1 DEF IsStored, ReadsTyped
<1>. QED
  BY <1>2, <1>3, <1>4 DEF ReadsTyped

\* The two look-ups that update makes for a byte (crc32.cpp) compute CRC-32: of every
\* packet the brain sends, whatever its Part and values, calculate returns the
\* remainder of the division by the polynomial.
THEOREM ChecksumIsStandard == Spec => []ChecksumIsCrc32
<1>1. Faithful => ChecksumIsCrc32
  <2>. SUFFICES ASSUME Follows, pc = "arrives"
                PROVE  LET data == SubSeq(packet, 1, Size - 4)
                       IN Bits(calculate(data)) = DefinedCrc(data)
    BY DEF Faithful, ChecksumIsCrc32
  <2>. DEFINE data == SubSeq(packet, 1, Size - 4)
  <2>1. Announced \/ DataArrives \/ Requested
    BY DEF Follows, Idle, Decodes, IsStored, Acknowledged, Reads, IsShown, Answers
  <2>2. packet \in Seq(Byte)
    BY <2>1, BroadcastLies, DataLies, RequestLies
       DEF Announced, BroadcastSent, DataArrives, DataSent, Requested, Follows
  <2>3. data \in Seq(Byte)
    <3>1. Size \in Nat
      BY <2>2, LenProperties DEF Size
    <3>2. \A i \in 1..(Size - 4) : packet[i] \in Byte
      BY <2>2, <3>1, ElementOfSeq DEF Size
    <3>. QED
      BY <3>1, <3>2, SubSeqProperties
  <2>. QED
    BY <2>3, CalculateIsCrc32
<1>. QED
  BY <1>1, LineFollowed, PTL

\* Until it responds the board has sent nothing but the acknowledgement.
OnlyAcknowledged ==
  /\ pc # "responded" => sent \in {<<>>, write_channel_acknowledge}
  /\ pc = "acknowledged" => sent = write_channel_acknowledge

LEMMA AlwaysAcknowledged == Spec => []OnlyAcknowledged
<1>1. Init => OnlyAcknowledged
  BY DEF Init, OnlyAcknowledged
<1>2. OnlyAcknowledged /\ [Next]_vars => OnlyAcknowledged'
  <2>. SUFFICES ASSUME OnlyAcknowledged, [Next]_vars PROVE OnlyAcknowledged'
    OBVIOUS
  <2>1. CASE TakePacket
    <3>1. pc' # "acknowledged" /\ pc # "responded" /\ sent' = sent
      BY <2>1 DEF TakePacket, Branch
    <3>. QED
      BY <3>1 DEF OnlyAcknowledged
  <2>2. CASE DecodePart
    <3>1. pc' # "acknowledged" /\ pc # "responded" /\ sent' = sent
      BY <2>2 DEF DecodePart, Place
    <3>. QED
      BY <3>1 DEF OnlyAcknowledged
  <2>3. CASE CloseRecord
    <3>1. pc' # "acknowledged" /\ pc # "responded" /\ sent' = sent
      BY <2>3 DEF CloseRecord, Place
    <3>. QED
      BY <3>1 DEF OnlyAcknowledged
  <2>4. CASE Acknowledge
    BY <2>4 DEF Acknowledge, OnlyAcknowledged
  <2>5. CASE Respond
    BY <2>5 DEF Respond, OnlyAcknowledged
  <2>6. CASE WriteBroadcast \/ WriteData \/ WriteRequest \/ Damage
    BY <2>6 DEF WriteBroadcast, WriteData, WriteRequest, Damage, OnlyAcknowledged
  <2>7. CASE ReadLeaf \/ Show \/ SetData
    BY <2>7 DEF ReadLeaf, Show, SetData, OnlyAcknowledged
  <2>8. CASE Done \/ UNCHANGED vars
    BY <2>8 DEF Done, vars, OnlyAcknowledged
  <2>. QED
    BY <2>1, <2>2, <2>3, <2>4, <2>5, <2>6, <2>7, <2>8 DEF Next
<1>. QED
  BY <1>1, <1>2, PTL DEF Spec

LEMMA AcknowledgeArrives ==
  ASSUME OnlyAcknowledged
  PROVE  /\ sent # <<>> /\ pc # "responded" => validate_packet(sent) = "Ok"
         /\ pc = "acknowledged" => /\ HeaderFunc(sent[1]) = PacketFunction["Acknowledge"]
                                   /\ sent[2] = ChannelId
BY AcknowledgeLies, AnswerHeaders DEF OnlyAcknowledged

LEMMA ResponseArrives ==
  ASSUME Follows, pc = "responded"
  PROVE  /\ validate_packet(sent) = "Ok"
         /\ HeaderFunc(sent[1]) = PacketFunction["Response"] /\ sent[3] = ChannelId
         /\ \A i \in DOMAIN submitted :
              LET item == submitted[i]
                  t    == Leaves[schema][i].type
                  v    == ValuesIn(sent)[i]
              IN /\ t = "String" => v = item.text
                 /\ item.type = "Number" /\ valueint(item.number) = item.number
                      /\ Fits(item.number, t) => NumberOf(t, v) = item.number
<1>1. schema \in Part /\ WasSubmitted /\ Responded
  BY DEF Follows, Idle, Announced, Decodes, IsStored, Acknowledged, DataArrives, Reads, IsShown,
         Answers, Requested
<1>2. PICK queued \in QueueSizes : sent = write_response(schema, held, queued)
  BY <1>1 DEF Responded
<1>3. queued \in Nat /\ FitsPart(schema, held)
  BY <1>1, SubmittedFits, ValuesAssumption
<1>4. /\ sent \in Seq(Byte) /\ validate_packet(sent) = "Ok" /\ sent[1] = 192
      /\ sent[3] = ChannelId /\ At(sent, 3, write_message(schema, held))
  BY <1>1, <1>2, <1>3, ResponseLies
<1>. DEFINE ls == Leaves[schema]
<1>5. \A i \in DOMAIN ls : ValuesIn(sent)[i] = held[i]
  BY <1>1, <1>3, <1>4, ValuesBack
<1>6. \A i \in DOMAIN ls : ls[i] \in Leaf
  BY <1>1, LeavesListed, LenProperties, ElementOfSeq
<1>7. /\ DOMAIN submitted = DOMAIN ls
      /\ \A i \in DOMAIN ls : /\ submitted[i] \in ItemsFor(ls[i])
                              /\ held[i] = SetFrom(ls[i].type, submitted[i])
  BY <1>1 DEF WasSubmitted
<1>. HIDE DEF ls
<1>8. ASSUME NEW i \in DOMAIN ls
      PROVE  LET item == submitted[i]
                 t    == ls[i].type
                 v    == ValuesIn(sent)[i]
             IN /\ t = "String" => v = item.text
                /\ item.type = "Number" /\ valueint(item.number) = item.number
                     /\ Fits(item.number, t) => NumberOf(t, v) = item.number
  <2>. DEFINE leaf == ls[i]
              item == submitted[i]
  <2>1. leaf \in Leaf /\ item \in ItemsFor(leaf) /\ ValuesIn(sent)[i] = SetFrom(leaf.type, item)
    BY <1>5, <1>6, <1>7
  <2>. HIDE DEF leaf, item
  <2>2. /\ leaf.type = "String" => SetFrom(leaf.type, item) = item.text
        /\ item.type = "Number" /\ valueint(item.number) = item.number
             /\ Fits(item.number, leaf.type) => NumberOf(leaf.type, SetFrom(leaf.type, item)) = item.number
    BY <2>1, LeafSet
  <2>. QED
    BY <2>1, <2>2 DEF leaf, item
<1>. QED
  BY <1>4, <1>7, <1>8, AnswerHeaders DEF ls

\* The brain can read what the board sends back (write_channel_acknowledge, set_data,
\* write_response): the acknowledgement names the channel, and a response leads to
\* every text and every integer in range that the browser submitted, for every Part
\* and however many responses are queued.
THEOREM SubmittedArrives == Spec /\ []DamageIsFound => []SubmittedReachesBrain
<1>1. Faithful /\ DamageIsFound /\ OnlyAcknowledged => SubmittedReachesBrain
  <2>. SUFFICES ASSUME Faithful, DamageIsFound, OnlyAcknowledged PROVE SubmittedReachesBrain
    OBVIOUS
  <2>1. pc = "responded" => Follows
    BY DEF Faithful, DamageIsFound
  <2>. QED
    BY <2>1, AcknowledgeArrives, ResponseArrives DEF SubmittedReachesBrain
<1>. QED
  BY <1>1, LineFollowed, AlwaysAcknowledged, PTL

LEMMA FittingBytes ==
  ASSUME NEW t, NEW v, Fitting(t, v)
  PROVE  v \in Seq(Byte)
<1>1. 1..255 \subseteq Byte
  BY DEF Byte
<1>2. Text \subseteq Seq(Byte)
  BY <1>1, SeqMonotonic DEF Text
<1>. QED
  BY <1>2 DEF Fitting

LEMMA DamageTyped ==
  ASSUME packet \in Seq(Byte), Damage
  PROVE  packet' \in Seq(Byte)
<1>. DEFINE n == Len(packet)
<1>1. n \in Nat /\ DOMAIN packet = 1..n /\ \A i \in 1..n : packet[i] \in Byte
  BY ElementOfSeq, LenProperties
<1>2. PICK k \in DOMAIN packet :
        \/ \E mask \in {1, 16, 128, 255} : packet' = Burst(k, mask)
        \/ packet' = SubSeq(packet, 1, k - 1)
  BY DEF Damage
<1>3. ASSUME NEW mask \in {1, 16, 128, 255}, packet' = Burst(k, mask)
      PROVE  packet' \in Seq(Byte)
  <2>. DEFINE e(i) == IF i = k \/ (i = k + 1 /\ mask > 127) THEN Flip(packet[i], mask) ELSE packet[i]
  <2>1. \A b \in Byte : Flip(b, mask) \in Byte
    <3>. SUFFICES ASSUME NEW b \in Byte PROVE Flip(b, mask) \in Byte
      OBVIOUS
    <3>1. mask \in Byte
      BY DEF Byte
    <3>2. /\ b % 16 \in Nibble /\ b \div 16 \in Nibble
          /\ mask % 16 \in Nibble /\ mask \div 16 \in Nibble
      BY <3>1, HalvesOfByte
    <3>. DEFINE x == Xor[b % 16][mask % 16]
                y == Xor[b \div 16][mask \div 16]
    <3>3. x \in Nibble /\ y \in Nibble
      BY ONLY <3>2, XorType
    <3>4. Flip(b, mask) = x + 16 * y
      BY DEF Flip
    <3>. HIDE DEF x, y
    <3>. QED
      BY <3>3, <3>4 DEF Nibble, Byte
  <2>2. \A i \in 1..n : e(i) \in Byte
    BY <1>1, <2>1
  <2>3. packet' = [i \in 1..n |-> e(i)]
    BY <1>1, <1>3 DEF Burst
  <2>. HIDE DEF e, n
  <2>4. [i \in 1..n |-> e(i)] \in [1..n -> Byte]
    BY <2>2
  <2>. QED
    BY <1>1, <2>3, <2>4, IsSequence
<1>4. ASSUME packet' = SubSeq(packet, 1, k - 1)
      PROVE  packet' \in Seq(Byte)
  <2>1. \A i \in 1..(k - 1) : packet[i] \in Byte
    BY <1>1
  <2>2. k \in 1..n
    BY <1>1
  <2>. QED
    BY <1>1, <1>4, <2>1, <2>2, SubSeqProperties
<1>. QED
  BY <1>2, <1>3, <1>4

\* A step of the side that sends, then one of the side that reads.
LEMMA WritesTyped ==
  ASSUME TypeOK, Follows, Follows', WriteBroadcast \/ WriteData \/ WriteRequest \/ Acknowledge \/ Respond
  PROVE  TypeOK'
<1>1. schema \in Part
  BY DEF Follows
<1>2. CASE WriteBroadcast
  <2>1. packet' \in Seq(Byte)
    <3>1. write_schema[schema] \in Seq(Byte) /\ 0 \in Byte
      BY <1>1, SchemaWritten DEF Byte
    <3>2. packet' = WithChecksum(<<0, ChannelId>> \o write_schema[schema])
      BY <1>2, Headers DEF WriteBroadcast, write_channel_broadcast
    <3>. QED
      BY <3>1, <3>2, Sent
  <2>. QED
    BY <1>2, <2>1 DEF WriteBroadcast, TypeOK, Byte
<1>3. CASE WriteData
  <2>1. DataArrives' /\ schema' = schema
    BY <1>3, WriteDataFollows DEF WriteData
  <2>2. packet' \in Seq(Byte)
    <3>1. packet' = write_data_message(schema, values') /\ FitsPart(schema, values')
      BY <2>1 DEF DataArrives, DataSent
    <3>2. write_message(schema, values') \in Seq(Byte) /\ 128 \in Byte
      BY <1>1, <3>1, MessageWritten DEF Byte
    <3>3. packet' = WithChecksum(<<128, ChannelId>> \o write_message(schema, values'))
      BY <3>1, Headers DEF write_data_message
    <3>. QED
      BY <3>2, <3>3, Sent
  <2>. QED
    BY <1>3, <2>2 DEF WriteData, TypeOK, Byte
<1>4. CASE WriteRequest
  <2>1. packet' \in Seq(Byte)
    <3>. DEFINE data == <<96>>
    <3>1. data \in Seq(Byte) /\ data # <<>>
      BY DEF Byte
    <3>2. packet' = WithChecksum(data)
      BY <1>4, Headers DEF WriteRequest, write_request
    <3>. HIDE DEF data
    <3>. QED
      BY <3>1, <3>2, Undamaged
  <2>. QED
    BY <1>4, <2>1 DEF WriteRequest, TypeOK, Byte
<1>5. CASE Acknowledge
  BY <1>5, AcknowledgeLies DEF Acknowledge, TypeOK, Byte
<1>6. CASE Respond
  <2>1. Answers
    BY <1>6 DEF Respond, Follows, Idle, Announced, Decodes, IsStored, Acknowledged, DataArrives,
                Requested, Reads, IsShown
  <2>2. sent' \in Seq(Byte)
    <3>1. FitsPart(schema, held) /\ part = schema
      BY <1>1, <2>1, SubmittedFits DEF Answers
    <3>2. PICK queued \in QueueSizes : sent' = write_response(schema, held, queued)
      BY <1>6, <3>1 DEF Respond
    <3>3. queued \in Nat
      BY ValuesAssumption
    <3>. QED
      BY <1>1, <3>1, <3>2, <3>3, ResponseLies
  <2>. QED
    BY <1>6, <2>2 DEF Respond, TypeOK, Byte
<1>. QED
  BY <1>2, <1>3, <1>4, <1>5, <1>6

LEMMA ReadsKeepTypes ==
  ASSUME TypeOK, Follows, Follows', ReadsTyped',
         TakePacket \/ DecodePart \/ CloseRecord \/ ReadLeaf \/ Show \/ SetData
  PROVE  TypeOK'
<1>1. CASE TakePacket
  <2>1. pc' \in {"request", "ignored", "message", "schema", "refused"}
    BY <1>1 DEF TakePacket, Branch
  <2>2. read_head' \in Nat
    BY <1>1 DEF TakePacket, TypeOK, DataStart, SchemaStart
  <2>. QED
    BY <1>1, <2>1, <2>2 DEF TakePacket, TypeOK
<1>2. CASE DecodePart \/ CloseRecord
  <2>1. pc' \in {"schema", "stored"}
    <3>1. pc' \in {"schema", "stored", "outside"}
      BY <1>2 DEF DecodePart, CloseRecord, Place
    <3>2. pc' # "outside"
      BY DEF Follows, Idle, Announced, Decodes, IsStored, Acknowledged, DataArrives, Reads, IsShown,
             Answers, Requested
    <3>. QED
      BY <3>1, <3>2
  <2>2. read_head' \in Nat
    BY <2>1 DEF ReadsTyped
  <2>3. \A i \in DOMAIN stack' : stack'[i].left \in Nat
    <3>1. CASE pc' = "schema"
      BY <3>1 DEF ReadsTyped
    <3>2. CASE pc' = "stored"
      <4>1. stack' = <<>>
        BY <1>2, <3>2 DEF DecodePart, CloseRecord, Place
      <4>. QED
        BY <4>1
    <3>. QED
      BY <2>1, <3>1, <3>2
  <2>. QED
    BY <1>2, <2>1, <2>2, <2>3 DEF DecodePart, CloseRecord, TypeOK
<1>3. CASE ReadLeaf
  <2>1. pc' = "message"
    <3>1. pc' \in {"message", "outside"}
      BY <1>3 DEF ReadLeaf
    <3>2. pc' # "outside"
      BY DEF Follows, Idle, Announced, Decodes, IsStored, Acknowledged, DataArrives, Reads, IsShown,
             Answers, Requested
    <3>. QED
      BY <3>1, <3>2
  <2>. QED
    BY <1>3, <2>1 DEF ReadLeaf, TypeOK, ReadsTyped, Byte
<1>4. CASE Show
  <2>1. DOMAIN shown' \subseteq {"schema", "data"}
    BY <1>4 DEF Show
  <2>. QED
    BY <1>4, <2>1 DEF Show, TypeOK
<1>5. CASE SetData
  <2>1. schema' \in Part /\ WasSubmitted'
    BY <1>5 DEF SetData, Follows, Idle, Announced, Decodes, IsStored, Acknowledged, DataArrives,
                Requested, Reads, IsShown, Answers
  <2>. DEFINE ls == Leaves[schema']
  <2>2. /\ \A i \in DOMAIN ls : submitted'[i] \in ItemsFor(ls[i])
        /\ held' = [i \in DOMAIN ls |-> SetFrom(ls[i].type, submitted'[i])]
    BY <2>1 DEF WasSubmitted
  <2>3. \A i \in DOMAIN ls : ls[i] \in Leaf
    BY <2>1, LeavesListed, LenProperties, ElementOfSeq
  <2>. HIDE DEF ls
  <2>4. \A i \in DOMAIN held' : held'[i] \in Seq(Byte)
    BY <2>2, <2>3, SetFits, FittingBytes
  <2>. QED
    BY <1>5, <2>4 DEF SetData, TypeOK, Byte
<1>. QED
  BY <1>1, <1>2, <1>3, <1>4, <1>5

\* The packets and the values are bytes and the reader's place is a number, also with
\* damage on the line as long as the checksum finds it.
THEOREM TypeCorrect == Spec /\ []DamageIsFound => []TypeOK
<1>1. Init => TypeOK
  <2>. SUFFICES ASSUME Init PROVE TypeOK
    OBVIOUS
  <2>1. /\ pc = "idle" /\ packet = <<>> /\ damaged = FALSE /\ read_head = 0 /\ stack = <<>>
        /\ held = <<>> /\ shown = <<>> /\ sent = <<>>
    BY DEF Init
  <2>2. <<>> \in Seq(0..255) /\ DOMAIN <<>> = {}
    OBVIOUS
  <2>. QED
    BY <2>1, <2>2 DEF TypeOK
<1>2. Faithful => (~damaged => ReadsTyped)
  BY FollowsTyped DEF Faithful
<1>3. /\ TypeOK /\ Faithful /\ Faithful' /\ (~damaged => ReadsTyped)' /\ DamageIsFound
      /\ [Next]_vars
      => TypeOK'
  <2>. SUFFICES ASSUME TypeOK, Faithful, Faithful', (~damaged => ReadsTyped)', DamageIsFound,
                       [Next]_vars
                PROVE  TypeOK'
    OBVIOUS
  <2>1. CASE Damage
    <3>1. packet' \in Seq(Byte)
      BY <2>1, DamageTyped DEF TypeOK, Byte
    <3>. QED
      BY <2>1, <3>1 DEF Damage, TypeOK, Byte
  <2>2. CASE TakePacket /\ damaged
    <3>1. pc' \in {"request", "ignored", "message", "schema", "refused"}
      BY <2>2 DEF TakePacket, Branch
    <3>2. read_head' \in Nat
      BY <2>2 DEF TakePacket, TypeOK, DataStart, SchemaStart
    <3>. QED
      BY <2>2, <3>1, <3>2 DEF TakePacket, TypeOK
  <2>3. CASE UNCHANGED vars
    BY <2>3 DEF vars, TypeOK
  <2>4. CASE ~damaged /\ ~Damage /\ Next /\ ~UNCHANGED vars
    <3>1. ~damaged'
      BY <2>4 DEF Next, vars, WriteBroadcast, WriteData, WriteRequest, TakePacket, DecodePart,
                  CloseRecord, Acknowledge, ReadLeaf, Show, SetData, Respond, Done
    <3>2. Follows /\ Follows' /\ ReadsTyped'
      BY <2>4, <3>1 DEF Faithful
    <3>. QED
      BY <2>4, <3>2, WritesTyped, ReadsKeepTypes DEF Next, Done
  <2>5. CASE damaged /\ ~TakePacket /\ Next
    <3>1. pc \in {"arrives", "refused"}
      BY <2>5 DEF DamageIsFound
    <3>2. UNCHANGED vars
      BY <2>5, <3>1 DEF Next, WriteBroadcast, WriteData, WriteRequest, Damage, DecodePart,
                  CloseRecord, Acknowledge, ReadLeaf, Show, SetData, Respond, Done
    <3>. QED
      BY <3>2 DEF vars, TypeOK
  <2>. QED
    BY <2>1, <2>2, <2>3, <2>4, <2>5
<1>. QED
  BY <1>1, <1>2, <1>3, LineFollowed, PTL DEF Spec

\* What arrives ends with its checksum while the line has not changed it.
LEMMA ArrivesChecked ==
  ASSUME Follows, pc = "arrives"
  PROVE  \E data \in Seq(Byte) : packet = WithChecksum(data)
<1>1. schema \in Part /\ (Announced \/ DataArrives \/ Requested)
  BY DEF Follows, Idle, Decodes, IsStored, Acknowledged, Reads, IsShown, Answers
<1>2. \A h \in Byte, body \in Seq(Byte) : <<h, ChannelId>> \o body \in Seq(Byte)
  <2>. SUFFICES ASSUME NEW h \in Byte, NEW body \in Seq(Byte)
                PROVE  <<h, ChannelId>> \o body \in Seq(Byte)
    OBVIOUS
  <2>1. <<h, ChannelId>> \in Seq(Byte)
    BY ValuesAssumption DEF Byte
  <2>. QED
    BY <2>1, ConcatProperties
<1>3. 0 \in Byte /\ 128 \in Byte /\ 96 \in Byte
  BY DEF Byte
<1>4. CASE Announced
  <2>1. packet = WithChecksum(<<0, ChannelId>> \o write_schema[schema])
    BY <1>4, Headers DEF Announced, BroadcastSent, write_channel_broadcast
  <2>2. write_schema[schema] \in Seq(Byte)
    BY <1>1, SchemaWritten
  <2>. QED
    BY <1>2, <1>3, <2>1, <2>2
<1>5. CASE DataArrives
  <2>1. packet = WithChecksum(<<128, ChannelId>> \o write_message(schema, values))
    BY <1>5, Headers DEF DataArrives, DataSent, write_data_message
  <2>2. write_message(schema, values) \in Seq(Byte)
    BY <1>1, <1>5, MessageWritten DEF DataArrives, DataSent
  <2>. QED
    BY <1>2, <1>3, <2>1, <2>2
<1>6. CASE Requested
  <2>1. packet = WithChecksum(<<96>>)
    BY <1>6, Headers DEF Requested, write_request
  <2>2. <<96>> \in Seq(Byte)
    BY <1>3
  <2>. QED
    BY <2>1, <2>2
<1>. QED
  BY <1>1, <1>4, <1>5, <1>6

\* No packet that is sent begins with a shorter valid one.
TailsTell ==
  pc = "arrives" /\ ~damaged =>
    \A k \in DOMAIN packet : validate_packet(SubSeq(packet, 1, k - 1)) # "Ok"

DamageRefused ==
  damaged => pc = "refused" \/ (pc = "arrives" /\ validate_packet(packet) # "Ok")

LEMMA DamageShows ==
  ASSUME Follows, TailsTell, Damage
  PROVE  DamageRefused'
<1>. USE DEF DamageRefused
<1>1. pc = "arrives" /\ ~damaged /\ pc' = "arrives"
  BY DEF Damage
<1>2. PICK data \in Seq(Byte) : packet = WithChecksum(data)
  BY <1>1, ArrivesChecked
<1>3. PICK n \in Nat : n = Len(data)
  BY LenProperties
<1>4. packet \in Seq(Byte) /\ Len(packet) = n + 4
  BY <1>2, <1>3, PacketBytes
<1>5. DOMAIN packet = 1..(n + 4) /\ \A i \in 1..(n + 4) : packet[i] \in Byte
  BY <1>4, ElementOfSeq, LenProperties
<1>6. PICK k \in DOMAIN packet :
        \/ \E mask \in {1, 16, 128, 255} : packet' = Burst(k, mask)
        \/ packet' = SubSeq(packet, 1, k - 1)
  BY DEF Damage
<1>7. CASE packet' = SubSeq(packet, 1, k - 1)
  <2>1. validate_packet(SubSeq(packet, 1, k - 1)) # "Ok"
    BY <1>1 DEF TailsTell
  <2>2. validate_packet(packet') # "Ok"
    BY <1>7, <2>1
  <2>. QED
    BY <1>1, <2>2
<1>8. ASSUME NEW mask \in {1, 16, 128, 255}, NEW hit, hit = Burst(k, mask), hit = packet'
      PROVE  validate_packet(hit) # "Ok"
  <2>1. /\ DOMAIN hit = 1..(n + 4) /\ hit[k] = Flip(packet[k], mask)
        /\ \A i \in (1..(n + 4)) \ {k, k + 1} : hit[i] = packet[i]
    BY <1>5, <1>8 DEF Burst
  <2>2. hit \in Seq(Byte)
    BY <1>4, <1>8, DamageTyped
  <2>3. Len(hit) = n + 4
    BY <2>1, <2>2, LenProperties
  <2>4. hit[k] # packet[k] /\ k \in 1..(n + 4)
    BY <1>5, <2>1, FlipChanges
  <2>5. Differ(hit, packet, n + 4, k)
    BY <1>4, <2>1, <2>2, <2>3, <2>4 DEF Differ
  <2>. QED
    BY <1>2, <1>3, <2>5, BurstRefused
<1>. QED
  BY <1>1, <1>6, <1>7, <1>8

\* A packet that the line changed by a burst of wrong bits within two bytes is refused,
\* whatever its bytes and its length; one that lost its tail is, as long as no packet
\* sent begins with a shorter one that ends with its own checksum (validate_packet).
THEOREM DamageAlwaysFound == Spec /\ []TailsTell => []DamageIsFound
<1>1. Init => DamageRefused
  BY DEF Init, DamageRefused
<1>2. Faithful /\ TailsTell /\ DamageRefused /\ [Next]_vars => DamageRefused'
  <2>. SUFFICES ASSUME Faithful, TailsTell, DamageRefused, [Next]_vars PROVE DamageRefused'
    OBVIOUS
  <2>1. CASE Damage
    BY <2>1, DamageShows DEF Damage, Faithful
  <2>2. CASE damaged /\ TakePacket
    BY <2>2 DEF TakePacket, DamageRefused
  <2>3. CASE damaged /\ ~TakePacket
    <3>1. pc \in {"arrives", "refused"}
      BY <2>3 DEF DamageRefused
    <3>2. UNCHANGED <<pc, packet, damaged>>
      BY <2>3, <3>1 DEF Next, vars, WriteBroadcast, WriteData, WriteRequest, Damage, DecodePart,
           CloseRecord, Acknowledge, ReadLeaf, Show, SetData, Respond, Done
    <3>. QED
      BY <2>3, <3>2 DEF DamageRefused
  <2>4. CASE ~damaged /\ ~Damage
    <3>1. ~damaged'
      BY <2>4 DEF Next, vars, WriteBroadcast, WriteData, WriteRequest, TakePacket, DecodePart,
           CloseRecord, Acknowledge, ReadLeaf, Show, SetData, Respond, Done
    <3>. QED
      BY <3>1 DEF DamageRefused
  <2>. QED
    BY <2>1, <2>2, <2>3, <2>4
<1>3. DamageRefused => DamageIsFound
  BY DEF DamageRefused, DamageIsFound
<1>. QED
  BY <1>1, <1>2, <1>3, LineFollowed, PTL DEF Spec

-----------------------------------------------------------------------------
(* What the browser is shown.  One level of each recursive function at a time. *)

LEMMA PerFieldAgree ==
  ASSUME NEW D, NEW f, NEW g, \A q \in D : f[q] = g[q], NEW p, p.fields \in Seq(D)
  PROVE  PerField(f, p) = PerField(g, p)
<1>1. \A i \in DOMAIN p.fields : p.fields[i] \in D
  BY LenProperties, ElementOfSeq
<1>. QED
  BY <1>1 DEF PerField

\* The same for Describe.
DescriptionOf(f, p) ==
  [name |-> p.name, type |-> Kind(p.type),
   fields |-> IF p.type = "Record" THEN PerField(f, p) ELSE <<>>]

LEMMA DescriptionAgree ==
  ASSUME NEW D, NEW f, NEW g, \A q \in D : f[q] = g[q], NEW p, Shape(p, D)
  PROVE  DescriptionOf(f, p) = DescriptionOf(g, p)
<1>1. CASE p.type = "Record"
  <2>1. p.fields \in Seq(D)
    BY <1>1 DEF Shape
  <2>2. PerField(f, p) = PerField(g, p)
    BY <2>1, PerFieldAgree
  <2>. QED
    BY <2>2 DEF DescriptionOf
<1>2. CASE p.type # "Record"
  BY <1>2 DEF DescriptionOf
<1>. QED
  BY <1>1, <1>2

Describing(f, D) == f = [p \in D |-> DescriptionOf(f, p)]

LEMMA DescriberExists == \E f : Describing(f, Part)
<1>. DEFINE T == {d \in Nat : d <= Len(Parts) => \E f : Describing(f, Nested(d))}
<1>1. 0 \in T
  <2>1. Nested(0) = {}
    BY DEF Nested
  <2>2. Describing([p \in {} |-> <<>>], {})
    BY DEF Describing
  <2>. QED
    BY <2>1, <2>2
<1>2. ASSUME NEW d \in Nat, d \in T PROVE d + 1 \in T
  <2>. SUFFICES ASSUME d + 1 <= Len(Parts) PROVE \E f : Describing(f, Nested(d + 1))
    OBVIOUS
  <2>1. PICK f : Describing(f, Nested(d))
    BY <1>2, PartsAssumption
  <2>. DEFINE D == Nested(d)
              E == Nested(d + 1)
              g == [p \in E |-> DescriptionOf(f, p)]
  <2>2. \A q \in D : q \in E
    BY NestedGrows
  <2>3. ASSUME NEW p \in E PROVE Shape(p, D)
    <3>1. d + 1 \in 1..Len(Parts) /\ (d + 1) - 1 = d
      BY PartsAssumption
    <3>. QED
      BY <3>1, LevelShape
  <2>4. \A q \in D : f[q] = DescriptionOf(f, q)
    BY <2>1 DEF Describing
  <2>. HIDE DEF D, E
  <2>5. \A q \in D : f[q] = g[q]
    BY <2>2, <2>4
  <2>. HIDE DEF g
  <2>6. \A p \in E : DescriptionOf(f, p) = DescriptionOf(g, p)
    BY <2>3, <2>5, DescriptionAgree
  <2>7. g = [p \in E |-> DescriptionOf(g, p)]
    BY <2>6 DEF g
  <2>. QED
    BY <2>7 DEF Describing, E
<1>3. Nat \subseteq T
  <2>. HIDE DEF T
  <2>. QED
    BY <1>1, <1>2, Induction
<1>. QED
  BY <1>3, PartsAssumption DEF Part

LEMMA PartDescribed ==
  ASSUME NEW p \in Part
  PROVE  Describe[p] = DescriptionOf(Describe, p)
<1>1. PICK f : Describing(f, Part)
  BY DescriberExists
<1>2. f = [q \in Part |-> DescriptionOf(f, q)]
  BY <1>1 DEF Describing
<1>3. Describe = [q \in Part |-> DescriptionOf(Describe, q)]
  BY <1>2 DEF Describe, DescriptionOf, PerField
<1>. QED
  BY <1>3

\* The same for Members.
MembersOf(f, p) == [v \in Seq(Seq(0..255)) |->
  IF p.type = "Record"
  THEN AddRecord(p.name, FlattenSeq([i \in DOMAIN p.fields |-> f[p.fields[i]][FieldValues(p, v, i)]]))
  ELSE <<[key |-> p.name,
          item |-> IF Integral(p) THEN VisitAnyUint(p.type, v[1]) ELSE v[1]]>>]

LEMMA MembersAgree ==
  ASSUME NEW D, NEW f, NEW g, \A q \in D : f[q] = g[q], NEW p, Shape(p, D)
  PROVE  MembersOf(f, p) = MembersOf(g, p)
<1>1. CASE p.type = "Record"
  <2>1. p.fields \in Seq(D)
    BY <1>1 DEF Shape
  <2>2. \A i \in DOMAIN p.fields : f[p.fields[i]] = g[p.fields[i]]
    BY <2>1, LenProperties, ElementOfSeq
  <2>3. \A v \in Seq(Seq(0..255)) :
          [i \in DOMAIN p.fields |-> f[p.fields[i]][FieldValues(p, v, i)]]
            = [i \in DOMAIN p.fields |-> g[p.fields[i]][FieldValues(p, v, i)]]
    BY <2>2
  <2>. QED
    BY <1>1, <2>3 DEF MembersOf
<1>2. CASE p.type # "Record"
  BY <1>2 DEF MembersOf
<1>. QED
  BY <1>1, <1>2

Showing(f, D) == f = [p \in D |-> MembersOf(f, p)]

LEMMA ShowerExists == \E f : Showing(f, Part)
<1>. DEFINE T == {d \in Nat : d <= Len(Parts) => \E f : Showing(f, Nested(d))}
<1>1. 0 \in T
  <2>1. Nested(0) = {}
    BY DEF Nested
  <2>2. Showing([p \in {} |-> <<>>], {})
    BY DEF Showing
  <2>. QED
    BY <2>1, <2>2
<1>2. ASSUME NEW d \in Nat, d \in T PROVE d + 1 \in T
  <2>. SUFFICES ASSUME d + 1 <= Len(Parts) PROVE \E f : Showing(f, Nested(d + 1))
    OBVIOUS
  <2>1. PICK f : Showing(f, Nested(d))
    BY <1>2, PartsAssumption
  <2>. DEFINE D == Nested(d)
              E == Nested(d + 1)
              g == [p \in E |-> MembersOf(f, p)]
  <2>2. \A q \in D : q \in E
    BY NestedGrows
  <2>3. ASSUME NEW p \in E PROVE Shape(p, D)
    <3>1. d + 1 \in 1..Len(Parts) /\ (d + 1) - 1 = d
      BY PartsAssumption
    <3>. QED
      BY <3>1, LevelShape
  <2>4. \A q \in D : f[q] = MembersOf(f, q)
    BY <2>1 DEF Showing
  <2>. HIDE DEF D, E
  <2>5. \A q \in D : f[q] = g[q]
    BY <2>2, <2>4
  <2>. HIDE DEF g
  <2>6. \A p \in E : MembersOf(f, p) = MembersOf(g, p)
    BY <2>3, <2>5, MembersAgree
  <2>7. g = [p \in E |-> MembersOf(g, p)]
    BY <2>6 DEF g
  <2>. QED
    BY <2>7 DEF Showing, E
<1>3. Nat \subseteq T
  <2>. HIDE DEF T
  <2>. QED
    BY <1>1, <1>2, Induction
<1>. QED
  BY <1>3, PartsAssumption DEF Part

LEMMA PartShown ==
  ASSUME NEW p \in Part
  PROVE  Members[p] = MembersOf(Members, p)
<1>. DEFINE E(h) == h = [q \in Part |-> [v \in Seq(Seq(0..255)) |->
              IF q.type = "Record"
              THEN AddRecord(q.name, FlattenSeq([i \in DOMAIN q.fields |->
                                                   h[q.fields[i]][FieldValues(q, v, i)]]))
              ELSE <<[key |-> q.name,
                      item |-> IF Integral(q) THEN VisitAnyUint(q.type, v[1]) ELSE v[1]]>>]]
<1>1. PICK f : Showing(f, Part)
  BY ShowerExists
<1>2. E(f)
  BY <1>1 DEF Showing, MembersOf
<1>3. Members = CHOOSE h : E(h)
  BY DEF Members
<1>4. E(Members)
  <2>. HIDE DEF E
  <2>. QED
    BY <1>2, <1>3
<1>5. Members = [q \in Part |-> MembersOf(Members, q)]
  BY <1>4 DEF MembersOf
<1>. HIDE DEF E
<1>. QED
  BY <1>5

\* The same for DistinctNames.
NamesDiffer(f, p) ==
  p.type = "Record" =>
    /\ \A i, j \in DOMAIN p.fields : p.fields[i].name = p.fields[j].name => i = j
    /\ \A i \in DOMAIN p.fields : f[p.fields[i]]

LEMMA NamesAgree ==
  ASSUME NEW D, NEW f, NEW g, \A q \in D : f[q] = g[q], NEW p, Shape(p, D)
  PROVE  NamesDiffer(f, p) = NamesDiffer(g, p)
<1>1. CASE p.type = "Record"
  <2>1. p.fields \in Seq(D)
    BY <1>1 DEF Shape
  <2>2. \A i \in DOMAIN p.fields : f[p.fields[i]] = g[p.fields[i]]
    BY <2>1, LenProperties, ElementOfSeq
  <2>. QED
    BY <1>1, <2>2 DEF NamesDiffer
<1>2. CASE p.type # "Record"
  BY <1>2 DEF NamesDiffer
<1>. QED
  BY <1>1, <1>2

Comparing(f, D) == f = [p \in D |-> NamesDiffer(f, p)]

LEMMA ComparerExists == \E f : Comparing(f, Part)
<1>. DEFINE T == {d \in Nat : d <= Len(Parts) => \E f : Comparing(f, Nested(d))}
<1>1. 0 \in T
  <2>1. Nested(0) = {}
    BY DEF Nested
  <2>2. Comparing([p \in {} |-> <<>>], {})
    BY DEF Comparing
  <2>. QED
    BY <2>1, <2>2
<1>2. ASSUME NEW d \in Nat, d \in T PROVE d + 1 \in T
  <2>. SUFFICES ASSUME d + 1 <= Len(Parts) PROVE \E f : Comparing(f, Nested(d + 1))
    OBVIOUS
  <2>1. PICK f : Comparing(f, Nested(d))
    BY <1>2, PartsAssumption
  <2>. DEFINE D == Nested(d)
              E == Nested(d + 1)
              g == [p \in E |-> NamesDiffer(f, p)]
  <2>2. \A q \in D : q \in E
    BY NestedGrows
  <2>3. ASSUME NEW p \in E PROVE Shape(p, D)
    <3>1. d + 1 \in 1..Len(Parts) /\ (d + 1) - 1 = d
      BY PartsAssumption
    <3>. QED
      BY <3>1, LevelShape
  <2>4. \A q \in D : f[q] = NamesDiffer(f, q)
    BY <2>1 DEF Comparing
  <2>. HIDE DEF D, E
  <2>5. \A q \in D : f[q] = g[q]
    BY <2>2, <2>4
  <2>. HIDE DEF g
  <2>6. \A p \in E : NamesDiffer(f, p) = NamesDiffer(g, p)
    BY <2>3, <2>5, NamesAgree
  <2>7. g = [p \in E |-> NamesDiffer(g, p)]
    BY <2>6 DEF g
  <2>. QED
    BY <2>7 DEF Comparing, E
<1>3. Nat \subseteq T
  <2>. HIDE DEF T
  <2>. QED
    BY <1>1, <1>2, Induction
<1>. QED
  BY <1>3, PartsAssumption DEF Part

LEMMA NamesDistinct ==
  ASSUME NEW p \in Part
  PROVE  DistinctNames[p] = NamesDiffer(DistinctNames, p)
<1>1. PICK f : Comparing(f, Part)
  BY ComparerExists
<1>2. f = [q \in Part |-> NamesDiffer(f, q)]
  BY <1>1 DEF Comparing
<1>3. DistinctNames = [q \in Part |-> NamesDiffer(DistinctNames, q)]
  BY <1>2 DEF DistinctNames, NamesDiffer
<1>. QED
  BY <1>3

-----------------------------------------------------------------------------
(* The names that lead to the leaves of a description. *)

LEMMA KindIsRecord ==
  ASSUME NEW p \in Part
  PROVE  (Kind(p.type) = "record") = (p.type = "Record")
<1>1. p.type \in DOMAIN TypeCode
  BY PartShape, TypeCodes DEF Shape, Leaf
<1>. QED
  BY SMT DEF Kind

Descriptions(d) == {Describe[p] : p \in Nested(d)}

LEMMA DescriptionShape ==
  ASSUME NEW d \in 1..Len(Parts), NEW p \in Nested(d)
  PROVE  /\ p \in Part /\ Describe[p].name = p.name /\ p.name \in Text
         /\ (Describe[p].type = "record") = (p.type = "Record")
         /\ p.type = "Record" =>
              /\ p.fields \in Seq(Nested(d - 1))
              /\ Describe[p].fields = PerField(Describe, p)
              /\ PerField(Describe, p) \in Seq(Descriptions(d - 1))
              /\ Len(PerField(Describe, p)) = Len(p.fields)
<1>1. p \in Part
  <2>1. d \in Nat /\ Len(Parts) \in Nat /\ d <= Len(Parts)
    BY PartsAssumption
  <2>. QED
    BY <2>1, NestedGrows DEF Part
<1>2. Shape(p, Nested(d - 1))
  BY LevelShape
<1>3. Describe[p] = DescriptionOf(Describe, p)
  BY <1>1, PartDescribed
<1>4. p.name \in Text
  BY <1>2 DEF Shape, Leaf
<1>5. (Describe[p].type = "record") = (p.type = "Record")
  BY <1>1, <1>3, KindIsRecord DEF DescriptionOf
<1>6. ASSUME p.type = "Record"
      PROVE  /\ p.fields \in Seq(Nested(d - 1))
             /\ PerField(Describe, p) \in Seq(Descriptions(d - 1))
             /\ Len(PerField(Describe, p)) = Len(p.fields)
  <2>1. p.fields \in Seq(Nested(d - 1))
    BY <1>2, <1>6 DEF Shape
  <2>2. Maps(Describe, Nested(d - 1), Descriptions(d - 1))
    BY DEF Maps, Descriptions
  <2>. QED
    BY <2>1, <2>2, FieldsList
<1>. QED
  BY <1>1, <1>3, <1>4, <1>5, <1>6 DEF DescriptionOf

\* One level of Paths.
Longer(name, paths) == [k \in DOMAIN paths |-> <<name>> \o paths[k]]
PerDescription(f, d) == [i \in DOMAIN d.fields |-> Longer(d.name, f[d.fields[i]])]
PathsOf(f, d) == IF d.type = "record" THEN FlattenSeq(PerDescription(f, d)) ELSE << <<d.name>> >>
Walks(f, D) == f = [d \in D |-> PathsOf(f, d)]

Above(d, D) == d.type = "record" => d.fields \in Seq(D)

LEMMA PathsAgree ==
  ASSUME NEW D, NEW f, NEW g, \A q \in D : f[q] = g[q], NEW d, Above(d, D)
  PROVE  PathsOf(f, d) = PathsOf(g, d)
<1>1. CASE d.type = "record"
  <2>1. \A i \in DOMAIN d.fields : d.fields[i] \in D
    BY <1>1, LenProperties, ElementOfSeq DEF Above
  <2>2. PerDescription(f, d) = PerDescription(g, d)
    BY <2>1 DEF PerDescription
  <2>. QED
    BY <2>2 DEF PathsOf
<1>2. CASE d.type # "record"
  BY <1>2 DEF PathsOf
<1>. QED
  BY <1>1, <1>2

LEMMA WalkerExists == \E f : Walks(f, Description)
<1>. DEFINE T == {d \in Nat : d <= Len(Parts) => \E f : Walks(f, Descriptions(d))}
<1>1. 0 \in T
  <2>1. Descriptions(0) = {}
    BY DEF Nested, Descriptions
  <2>2. Walks([p \in {} |-> <<>>], {})
    BY DEF Walks
  <2>. QED
    BY <2>1, <2>2
<1>2. ASSUME NEW d \in Nat, d \in T PROVE d + 1 \in T
  <2>. SUFFICES ASSUME d + 1 <= Len(Parts) PROVE \E f : Walks(f, Descriptions(d + 1))
    OBVIOUS
  <2>1. PICK f : Walks(f, Descriptions(d))
    BY <1>2, PartsAssumption
  <2>. DEFINE D == Descriptions(d)
              E == Descriptions(d + 1)
              g == [q \in E |-> PathsOf(f, q)]
  <2>2. \A q \in D : q \in E
    BY NestedGrows DEF Descriptions
  <2>3. ASSUME NEW q \in E PROVE Above(q, D)
    <3>1. d + 1 \in 1..Len(Parts) /\ (d + 1) - 1 = d
      BY PartsAssumption
    <3>2. PICK p \in Nested(d + 1) : q = Describe[p]
      BY DEF Descriptions
    <3>. QED
      BY <3>1, <3>2, DescriptionShape DEF Above
  <2>4. \A q \in D : f[q] = PathsOf(f, q)
    BY <2>1 DEF Walks
  <2>. HIDE DEF D, E
  <2>5. \A q \in D : f[q] = g[q]
    BY <2>2, <2>4
  <2>. HIDE DEF g
  <2>6. \A q \in E : PathsOf(f, q) = PathsOf(g, q)
    BY <2>3, <2>5, PathsAgree
  <2>7. g = [q \in E |-> PathsOf(g, q)]
    BY <2>6 DEF g
  <2>8. Walks(g, E)
    BY <2>7 DEF Walks
  <2>. QED
    BY <2>8 DEF E
<1>3. Nat \subseteq T
  <2>. HIDE DEF T
  <2>. QED
    BY <1>1, <1>2, Induction
<1>4. Description = Descriptions(Len(Parts)) /\ Len(Parts) \in Nat
  BY PartsAssumption DEF Part, Description, Descriptions
<1>. QED
  BY <1>3, <1>4

LEMMA PathsWalked ==
  ASSUME NEW d \in Description
  PROVE  Paths[d] = PathsOf(Paths, d)
<1>. DEFINE E(h) == h = [q \in Description |->
              IF q.type = "record"
              THEN FlattenSeq([i \in DOMAIN q.fields |->
                                 [k \in DOMAIN h[q.fields[i]] |-> <<q.name>> \o h[q.fields[i]][k]]])
              ELSE << <<q.name>> >>]
<1>1. PICK f : Walks(f, Description)
  BY WalkerExists
<1>2. E(f)
  BY <1>1 DEF Walks, PathsOf, PerDescription, Longer
<1>3. Paths = CHOOSE h : E(h)
  BY DEF Paths
<1>4. E(Paths)
  <2>. HIDE DEF E
  <2>. QED
    BY <1>2, <1>3
<1>. QED
  BY <1>4 DEF PathsOf, PerDescription, Longer

-----------------------------------------------------------------------------
(* Pieces of the same lengths end at the same places, and every place is in one. *)

LEMMA EndsAgree ==
  ASSUME NEW S, NEW s \in Seq(Seq(S)), NEW U, NEW t \in Seq(Seq(U)), NEW m \in Nat,
         m <= Len(s), m <= Len(t), \A i \in 1..m : Len(s[i]) = Len(t[i])
  PROVE  \A k \in 0..m : Ends(s)[k] = Ends(t)[k]
<1>. DEFINE o == Ends(s)
            q == Ends(t)
            T == {k \in Nat : k <= m => o[k] = q[k]}
<1>1. EndsAt(s, o, Len(s)) /\ EndsAt(t, q, Len(t)) /\ Len(s) \in Nat /\ Len(t) \in Nat
  BY EndsExist, LenProperties
<1>. HIDE DEF o, q
<1>2. 0 \in T
  BY <1>1 DEF EndsAt
<1>3. ASSUME NEW k \in Nat, k \in T PROVE k + 1 \in T
  <2>. SUFFICES ASSUME k + 1 <= m PROVE o[k + 1] = q[k + 1]
    OBVIOUS
  <2>1. k + 1 \in 1..m /\ k + 1 \in 1..Len(s) /\ k + 1 \in 1..Len(t) /\ (k + 1) - 1 = k /\ o[k] = q[k]
    BY <1>1, <1>3
  <2>2. o[k + 1] = o[k] + Len(s[k + 1]) /\ q[k + 1] = q[k] + Len(t[k + 1])
    BY <1>1, <2>1 DEF EndsAt
  <2>. QED
    BY <2>1, <2>2
<1>4. Nat \subseteq T
  <2>. HIDE DEF T
  <2>. QED
    BY <1>2, <1>3, Induction
<1>. QED
  BY <1>4 DEF o, q

LEMMA PieceOf ==
  ASSUME NEW S, NEW s \in Seq(Seq(S)), NEW n \in Nat, n = Len(s), NEW i \in 1..Ends(s)[n]
  PROVE  \E f \in 1..n : \E j \in 1..Len(s[f]) : i = Ends(s)[f - 1] + j
<1>. DEFINE o == Ends(s)
            In(m) == \E f \in 1..m : \E j \in 1..Len(s[f]) : i = o[f - 1] + j
            T == {m \in Nat : m <= n /\ i <= o[m] => In(m)}
<1>1. o \in [0..n -> Nat] /\ EndsAt(s, o, n)
  BY EndsExist
<1>2. \A f \in 1..n : Len(s[f]) \in Nat
  <2>1. \A f \in 1..n : s[f] \in Seq(S)
    BY ElementOfSeq
  <2>. QED
    BY <2>1, LenProperties
<1>3. i \in Nat \ {0} /\ i <= o[n]
  BY <1>1
<1>. HIDE DEF o
<1>4. 0 \in T
  BY <1>1, <1>3 DEF EndsAt
<1>5. ASSUME NEW m \in Nat, m \in T PROVE m + 1 \in T
  <2>. SUFFICES ASSUME m + 1 <= n, i <= o[m + 1] PROVE In(m + 1)
    OBVIOUS
  <2>1. m + 1 \in 1..n /\ m \in 0..n /\ (m + 1) - 1 = m
    OBVIOUS
  <2>2. o[m + 1] = o[m] + Len(s[m + 1]) /\ o[m] \in Nat /\ Len(s[m + 1]) \in Nat
    BY <1>1, <1>2, <2>1 DEF EndsAt
  <2>3. CASE i <= o[m]
    <3>1. PICK f \in 1..m : \E j \in 1..Len(s[f]) : i = o[f - 1] + j
      BY <1>5, <2>1, <2>3
    <3>2. f \in 1..(m + 1)
      OBVIOUS
    <3>. QED
      BY <3>1, <3>2
  <2>4. CASE i > o[m]
    <3>1. i - o[m] \in 1..Len(s[m + 1]) /\ i = o[m] + (i - o[m])
      BY <1>3, <2>2, <2>4
    <3>2. PICK f \in 1..(m + 1) : f = m + 1 /\ f - 1 = m
      BY <2>1
    <3>3. \E j \in 1..Len(s[f]) : i = o[f - 1] + j
      BY <3>1, <3>2
    <3>. QED
      BY <3>3
  <2>. QED
    BY <1>3, <2>2, <2>3, <2>4
<1>6. Nat \subseteq T
  <2>. HIDE DEF T
  <2>. QED
    BY <1>4, <1>5, Induction
<1>7. In(n)
  BY <1>3, <1>6
<1>. QED
  BY <1>7 DEF o

\* FlattenSeq of one-element pieces.
LEMMA SinglesFlattened ==
  ASSUME NEW n \in Nat, NEW e
  PROVE  FlattenSeq([i \in 1..n |-> <<e[i]>>]) = [i \in 1..n |-> e[i]]
<1>. DEFINE S == {e[i] : i \in 1..n}
            s == [i \in 1..n |-> <<e[i]>>]
            c == FlattenSeq(s)
            o == Ends(s)
<1>1. s \in [1..n -> Seq(S)]
  <2>1. \A i \in 1..n : e[i] \in S
    OBVIOUS
  <2>. HIDE DEF S
  <2>2. \A i \in 1..n : <<e[i]>> \in Seq(S)
    BY <2>1
  <2>. QED
    BY <2>2
<1>2. \A i \in 1..n : s[i] = <<e[i]>> /\ Len(s[i]) = 1 /\ s[i][1] = e[i]
  OBVIOUS
<1>. HIDE DEF S, s
<1>3. s \in Seq(Seq(S)) /\ Len(s) = n
  BY <1>1, IsSequence
<1>4. c \in Seq(S) /\ Len(c) = o[n] /\ Piecewise(c, s, o, n)
  BY <1>3, Flattened
<1>5. EndsAt(s, o, n)
  BY <1>3, EndsExist
<1>. HIDE DEF c, o
<1>. DEFINE T == {k \in Nat : k <= n => o[k] = k}
<1>6. 0 \in T
  BY <1>5 DEF EndsAt
<1>7. ASSUME NEW k \in Nat, k \in T PROVE k + 1 \in T
  <2>. SUFFICES ASSUME k + 1 <= n PROVE o[k + 1] = k + 1
    OBVIOUS
  <2>1. k + 1 \in 1..n /\ (k + 1) - 1 = k /\ o[k] = k
    BY <1>7
  <2>2. o[k + 1] = o[k] + Len(s[k + 1])
    BY <1>5, <2>1 DEF EndsAt
  <2>. QED
    BY <1>2, <2>1, <2>2
<1>8. Nat \subseteq T
  <2>. HIDE DEF T
  <2>. QED
    BY <1>6, <1>7, Induction
<1>9. \A k \in 0..n : o[k] = k
  BY <1>8
<1>10. ASSUME NEW i \in 1..n PROVE c[i] = e[i]
  <2>1. i - 1 \in 0..n /\ (i - 1) + 1 = i /\ 1 \in 1..Len(s[i])
    BY <1>2
  <2>2. c[o[i - 1] + 1] = s[i][1]
    BY <1>4, <2>1 DEF Piecewise
  <2>. QED
    BY <1>2, <1>9, <2>1, <2>2
<1>11. Len(c) = n
  BY <1>4, <1>9
<1>12. c = [i \in 1..n |-> c[i]]
  BY <1>4, <1>11, LenProperties
<1>. QED
  BY <1>10, <1>12 DEF c, s

-----------------------------------------------------------------------------
(* Leaf, value and path of one field lie at the same place of the record's. *)

FieldLeaves(p) == PerField(Leaves, p)

LEMMA RecordLeaves ==
  ASSUME NEW p \in Part, p.type = "Record", NEW n, n = Len(p.fields)
  PROVE  /\ n \in Nat /\ p.fields \in Seq(Part) /\ \A f \in 1..n : p.fields[f] \in Part
         /\ FieldLeaves(p) \in Seq(Seq(Leaf)) /\ Len(FieldLeaves(p)) = n
         /\ \A f \in 1..n : FieldLeaves(p)[f] = Leaves[p.fields[f]] /\ Len(FieldLeaves(p)[f]) \in Nat
         /\ Len(Leaves[p]) = Ends(FieldLeaves(p))[n]
         /\ Piecewise(Leaves[p], FieldLeaves(p), Ends(FieldLeaves(p)), n)
         /\ Ends(FieldLeaves(p)) \in [0..n -> Nat]
         /\ EndsAt(FieldLeaves(p), Ends(FieldLeaves(p)), n)
<1>1. p.fields \in Seq(Part)
  BY PartShape DEF Shape
<1>2. n \in Nat /\ DOMAIN p.fields = 1..n /\ \A f \in 1..n : p.fields[f] \in Part
  BY <1>1, LenProperties, ElementOfSeq
<1>3. Maps(Leaves, Part, Seq(Leaf))
  BY LeavesListed DEF Maps
<1>4. FieldLeaves(p) \in Seq(Seq(Leaf)) /\ Len(FieldLeaves(p)) = n
  BY <1>1, <1>3, FieldsList DEF FieldLeaves
<1>5. \A f \in 1..n : FieldLeaves(p)[f] = Leaves[p.fields[f]]
  BY <1>2 DEF FieldLeaves, PerField
<1>6. \A f \in 1..n : Len(FieldLeaves(p)[f]) \in Nat
  BY <1>4, ElementOfSeq, LenProperties
<1>7. Leaves[p] = FlattenSeq(FieldLeaves(p))
  BY LeavesListed DEF LeafList, FieldLeaves
<1>8. /\ Len(Leaves[p]) = Ends(FieldLeaves(p))[n]
      /\ Piecewise(Leaves[p], FieldLeaves(p), Ends(FieldLeaves(p)), n)
  BY <1>4, <1>7, Flattened
<1>9. Ends(FieldLeaves(p)) \in [0..n -> Nat] /\ EndsAt(FieldLeaves(p), Ends(FieldLeaves(p)), n)
  BY <1>4, EndsExist
<1>. QED
  BY <1>1, <1>2, <1>4, <1>5, <1>6, <1>8, <1>9

\* Where the leaves of field f start.
Start(p, f) == Ends(FieldLeaves(p))[f - 1]

LEMMA LeafOfField ==
  ASSUME NEW p \in Part, p.type = "Record"
  PROVE  /\ \A f \in 1..Len(p.fields) :
              /\ p.fields[f] \in Part /\ Start(p, f) \in Nat /\ Len(Leaves[p.fields[f]]) \in Nat
              /\ Start(p, f) + Len(Leaves[p.fields[f]]) <= Len(Leaves[p])
              /\ \A j \in 1..Len(Leaves[p.fields[f]]) :
                   Leaves[p][Start(p, f) + j] = Leaves[p.fields[f]][j]
         /\ \A i \in 1..Len(Leaves[p]) :
              \E f \in 1..Len(p.fields) : \E j \in 1..Len(Leaves[p.fields[f]]) : i = Start(p, f) + j
<1>. DEFINE n == Len(p.fields)
            s == FieldLeaves(p)
            o == Ends(s)
<1>1. /\ n \in Nat /\ \A f \in 1..n : p.fields[f] \in Part
      /\ s \in Seq(Seq(Leaf)) /\ Len(s) = n
      /\ \A f \in 1..n : s[f] = Leaves[p.fields[f]] /\ Len(s[f]) \in Nat
      /\ Len(Leaves[p]) = o[n] /\ Piecewise(Leaves[p], s, o, n)
      /\ o \in [0..n -> Nat] /\ EndsAt(s, o, n)
  BY RecordLeaves
<1>2. \A f \in 1..n : Start(p, f) = o[f - 1]
  BY DEF Start
<1>. HIDE DEF n, s, o
<1>3. ASSUME NEW f \in 1..n
      PROVE  /\ Start(p, f) \in Nat /\ Start(p, f) + Len(Leaves[p.fields[f]]) <= Len(Leaves[p])
             /\ \A j \in 1..Len(Leaves[p.fields[f]]) :
                  Leaves[p][Start(p, f) + j] = Leaves[p.fields[f]][j]
  <2>1. f - 1 \in 0..n
    BY <1>1
  <2>2. o[f - 1] \in Nat /\ o[f] = o[f - 1] + Len(s[f]) /\ o[f] <= Len(Leaves[p])
    BY <1>1, <2>1 DEF EndsAt, Piecewise
  <2>3. \A j \in 1..Len(s[f]) : Leaves[p][o[f - 1] + j] = s[f][j]
    BY <1>1 DEF Piecewise
  <2>4. s[f] = Leaves[p.fields[f]] /\ Start(p, f) = o[f - 1]
    BY <1>1, <1>2
  <2>. QED
    BY <2>2, <2>3, <2>4
<1>4. ASSUME NEW i \in 1..Len(Leaves[p])
      PROVE  \E f \in 1..n : \E j \in 1..Len(Leaves[p.fields[f]]) : i = Start(p, f) + j
  <2>1. i \in 1..Ends(s)[n]
    BY <1>1 DEF o
  <2>2. PICK f \in 1..n : \E j \in 1..Len(s[f]) : i = Ends(s)[f - 1] + j
    BY <1>1, <2>1, PieceOf
  <2>. QED
    BY <1>1, <1>2, <2>2 DEF o
<1>5. \A f \in 1..n : p.fields[f] \in Part /\ Len(Leaves[p.fields[f]]) \in Nat
  BY <1>1
<1>. QED
  BY <1>3, <1>4, <1>5 DEF n

LEMMA ValuesOfField ==
  ASSUME NEW p \in Part, p.type = "Record", NEW v \in Seq(Seq(Byte)), Len(v) = Len(Leaves[p]),
         NEW f \in 1..Len(p.fields)
  PROVE  /\ FieldValues(p, v, f) \in Seq(Seq(Byte))
         /\ Len(FieldValues(p, v, f)) = Len(Leaves[p.fields[f]])
         /\ \A j \in 1..Len(Leaves[p.fields[f]]) : FieldValues(p, v, f)[j] = v[Start(p, f) + j]
<1>. DEFINE n == Len(p.fields)
            s == FieldLeaves(p)
            t == [j \in 1..(f - 1) |-> Leaves[p.fields[j]]]
            m == f - 1
            a == Start(p, f)
            l == Len(Leaves[p.fields[f]])
<1>1. /\ n \in Nat /\ s \in Seq(Seq(Leaf)) /\ Len(s) = n
      /\ \A g \in 1..n : s[g] = Leaves[p.fields[g]] /\ p.fields[g] \in Part
  BY RecordLeaves
<1>2. m \in Nat /\ m <= n /\ f - 1 = m
  BY <1>1
<1>3. t \in [1..m -> Seq(Leaf)]
  BY <1>1, <1>2, LeavesListed
<1>4. t \in Seq(Seq(Leaf)) /\ Len(t) = m
  <2>. HIDE DEF t, m
  <2>. QED
    BY <1>2, <1>3, IsSequence
<1>5. \A i \in 1..m : Len(s[i]) = Len(t[i])
  <2>1. \A i \in 1..m : i \in 1..n
    BY <1>2
  <2>2. \A i \in 1..m : t[i] = Leaves[p.fields[i]]
    OBVIOUS
  <2>. HIDE DEF s, t, m, n
  <2>. QED
    BY <1>1, <2>1, <2>2
<1>6. Len(FlattenSeq(t)) = a
  <2>1. Len(FlattenSeq(t)) = Ends(t)[m]
    BY <1>4, Flattened
  <2>. HIDE DEF s, t, m, n
  <2>2. \A k \in 0..m : Ends(s)[k] = Ends(t)[k]
    <3>1. s \in Seq(Seq(Leaf)) /\ m \in Nat /\ m <= Len(s)
      BY <1>1, <1>2
    <3>2. t \in Seq(Seq(Leaf)) /\ m <= Len(t)
      BY <1>2, <1>4
    <3>. QED
      BY ONLY <3>1, <3>2, <1>5, EndsAgree
  <2>3. Ends(s)[m] = Ends(t)[m]
    BY <1>2, <2>2
  <2>. QED
    BY <1>2, <2>1, <2>3 DEF Start, s
<1>7. FieldValues(p, v, f) = SubSeq(v, a + 1, a + l)
  BY <1>6 DEF FieldValues
<1>8. a \in Nat /\ l \in Nat /\ a + l <= Len(v)
  BY LeafOfField
<1>9. Len(v) \in Nat /\ \A i \in 1..Len(v) : v[i] \in Seq(Byte)
  BY ElementOfSeq, LenProperties
<1>. HIDE DEF a, l
<1>. DEFINE w == SubSeq(v, a + 1, a + l)
<1>10. \A i \in (a + 1)..(a + l) : v[i] \in Seq(Byte)
  BY <1>8, <1>9
<1>11. /\ w \in Seq(Seq(Byte)) /\ Len(w) = IF a + 1 <= a + l THEN a + l - (a + 1) + 1 ELSE 0
       /\ \A i \in 1..(a + l - (a + 1) + 1) : w[i] = v[a + 1 + i - 1]
  BY <1>8, <1>10, SubSeqProperties
<1>. HIDE DEF w
<1>12. Len(w) = l /\ \A j \in 1..l : j \in 1..(a + l - (a + 1) + 1) /\ a + 1 + j - 1 = a + j
  BY <1>8, <1>11
<1>13. w \in Seq(Seq(Byte)) /\ Len(w) = l /\ \A j \in 1..l : w[j] = v[a + j]
  BY <1>11, <1>12
<1>. QED
  BY <1>7, <1>13 DEF a, l, w

LEMMA LongerPaths ==
  ASSUME NEW S, NEW name \in S, NEW paths \in Seq(Seq(S))
  PROVE  Longer(name, paths) \in Seq(Seq(S)) /\ Len(Longer(name, paths)) = Len(paths)
<1>1. Len(paths) \in Nat /\ DOMAIN paths = 1..Len(paths) /\ \A k \in DOMAIN paths : paths[k] \in Seq(S)
  BY LenProperties, ElementOfSeq
<1>2. \A k \in DOMAIN paths : <<name>> \o paths[k] \in Seq(S)
  <2>1. <<name>> \in Seq(S)
    OBVIOUS
  <2>. QED
    BY <1>1, <2>1, ConcatProperties
<1>. DEFINE f == Longer(name, paths)
            m == Len(paths)
<1>4. f \in [1..m -> Seq(S)]
  BY <1>1, <1>2 DEF Longer
<1>. HIDE DEF f, m
<1>5. m \in Nat
  BY <1>1 DEF m
<1>6. f \in Seq(Seq(S)) /\ Len(f) = m
  BY <1>4, <1>5, IsSequence
<1>. QED
  BY <1>6 DEF f, m

\* What is said of the paths of a part.
PathsFit(p) == Paths[Describe[p]] \in Seq(Seq(Text)) /\ Len(Paths[Describe[p]]) = Len(Leaves[p])

\* The paths of the fields of a record, each one name longer.
Deeper(p) == [f \in DOMAIN p.fields |-> Longer(p.name, Paths[Describe[p.fields[f]]])]

PathOfField(p, f, j) ==
  Paths[Describe[p]][Start(p, f) + j] = <<p.name>> \o Paths[Describe[p.fields[f]]][j]

LEMMA PathsOfLeaf ==
  ASSUME NEW p \in Part, p.type # "Record"
  PROVE  Paths[Describe[p]] = << <<p.name>> >> /\ PathsFit(p)
<1>1. Describe[p] \in Description
  BY DEF Description
<1>2. PICK d \in 1..Len(Parts) : p \in Nested(d)
  BY PartsAssumption DEF Part, Nested
<1>3. Describe[p].name = p.name /\ Describe[p].type # "record" /\ p.name \in Text
  BY <1>2, DescriptionShape
<1>4. Paths[Describe[p]] = << <<p.name>> >>
  BY <1>1, <1>3, PathsWalked DEF PathsOf
<1>5. Leaves[p] = <<p>>
  BY LeavesListed DEF LeafList
<1>. QED
  BY <1>3, <1>4, <1>5 DEF PathsFit

LEMMA PathsOfRecord ==
  ASSUME NEW p \in Part, p.type = "Record", \A f \in 1..Len(p.fields) : PathsFit(p.fields[f])
  PROVE  /\ PathsFit(p)
         /\ \A f \in 1..Len(p.fields) : \A j \in 1..Len(Leaves[p.fields[f]]) : PathOfField(p, f, j)
<1>. DEFINE n == Len(p.fields)
            s == FieldLeaves(p)
            t == Deeper(p)
            c == Paths[Describe[p]]
<1>1. /\ n \in Nat /\ DOMAIN p.fields = 1..n /\ \A f \in 1..n : p.fields[f] \in Part
      /\ s \in Seq(Seq(Leaf)) /\ Len(s) = n
      /\ \A f \in 1..n : s[f] = Leaves[p.fields[f]] /\ Len(s[f]) \in Nat
      /\ Len(Leaves[p]) = Ends(s)[n]
  BY RecordLeaves, LenProperties
<1>2. PICK d \in 1..Len(Parts) : p \in Nested(d)
  BY PartsAssumption DEF Part, Nested
<1>3. /\ Describe[p].name = p.name /\ Describe[p].type = "record" /\ p.name \in Text
      /\ Describe[p].fields = PerField(Describe, p)
  BY <1>2, DescriptionShape
<1>4. c = FlattenSeq(t)
  <2>1. Describe[p] \in Description
    BY DEF Description
  <2>2. c = FlattenSeq(PerDescription(Paths, Describe[p]))
    BY <1>3, <2>1, PathsWalked DEF PathsOf
  <2>3. PerDescription(Paths, Describe[p]) = t
    BY <1>3 DEF PerDescription, PerField, Deeper
  <2>. QED
    BY <2>2, <2>3
<1>5. \A f \in 1..n : /\ t[f] = Longer(p.name, Paths[Describe[p.fields[f]]])
                      /\ t[f] \in Seq(Seq(Text)) /\ Len(t[f]) = Len(s[f])
  <2>. TAKE f \in 1..n
  <2>1. t[f] = Longer(p.name, Paths[Describe[p.fields[f]]])
    BY <1>1 DEF Deeper
  <2>2. Paths[Describe[p.fields[f]]] \in Seq(Seq(Text)) /\ Len(Paths[Describe[p.fields[f]]]) = Len(s[f])
    BY <1>1 DEF PathsFit
  <2>. HIDE DEF s, t, n
  <2>. QED
    BY <1>3, <2>1, <2>2, LongerPaths
<1>6. t = [f \in 1..n |-> t[f]]
  BY <1>1 DEF Deeper
<1>. HIDE DEF n, s, t, c
<1>7. t \in [1..n -> Seq(Seq(Text))]
  BY <1>5, <1>6
<1>8. t \in Seq(Seq(Seq(Text))) /\ Len(t) = n
  BY <1>1, <1>7, IsSequence
<1>9. c \in Seq(Seq(Text)) /\ Len(c) = Ends(t)[n] /\ Piecewise(c, t, Ends(t), n)
  BY <1>4, <1>8, Flattened
<1>10. \A k \in 0..n : Ends(s)[k] = Ends(t)[k]
  <2>1. s \in Seq(Seq(Leaf)) /\ n <= Len(s) /\ n \in Nat
    BY <1>1
  <2>2. t \in Seq(Seq(Seq(Text))) /\ n <= Len(t)
    BY <1>1, <1>8
  <2>3. \A i \in 1..n : Len(s[i]) = Len(t[i])
    BY <1>5
  <2>. QED
    BY ONLY <2>1, <2>2, <2>3, EndsAgree
<1>11. PathsFit(p)
  <2>1. Ends(s)[n] = Ends(t)[n]
    BY <1>1, <1>10
  <2>. QED
    BY <1>1, <1>9, <2>1 DEF PathsFit, c
<1>12. ASSUME NEW f \in 1..n, NEW j \in 1..Len(Leaves[p.fields[f]]) PROVE PathOfField(p, f, j)
  <2>1. f - 1 \in 0..n
    BY <1>1
  <2>2. Start(p, f) = Ends(t)[f - 1]
    BY <1>10, <2>1 DEF Start, s
  <2>3. j \in 1..Len(t[f])
    BY <1>1, <1>5
  <2>4. c[Ends(t)[f - 1] + j] = t[f][j]
    BY <1>9, <2>3 DEF Piecewise
  <2>5. j \in DOMAIN Paths[Describe[p.fields[f]]]
    BY <1>12, LenProperties DEF PathsFit, n
  <2>6. t[f][j] = <<p.name>> \o Paths[Describe[p.fields[f]]][j]
    BY <1>5, <2>5 DEF Longer
  <2>. QED
    BY <2>2, <2>4, <2>6 DEF PathOfField, c
<1>. QED
  BY <1>11, <1>12 DEF n

LEMMA PathsListed == \A p \in Part : PathsFit(p)
<1>. DEFINE T == {d \in Nat : d <= Len(Parts) => \A p \in Nested(d) : PathsFit(p)}
<1>1. 0 \in T
  BY DEF Nested
<1>2. ASSUME NEW d \in Nat, d \in T PROVE d + 1 \in T
  <2>. SUFFICES ASSUME d + 1 <= Len(Parts), NEW p \in Nested(d + 1) PROVE PathsFit(p)
    OBVIOUS
  <2>1. d + 1 \in 1..Len(Parts) /\ (d + 1) - 1 = d
    BY PartsAssumption
  <2>2. /\ p \in Part
        /\ p.type = "Record" => p.fields \in Seq(Nested(d))
    BY <2>1, DescriptionShape
  <2>3. CASE p.type = "Record"
    <3>1. \A f \in 1..Len(p.fields) : p.fields[f] \in Nested(d)
      BY <2>2, <2>3, ElementOfSeq
    <3>2. \A f \in 1..Len(p.fields) : PathsFit(p.fields[f])
      BY <1>2, <2>1, <3>1, PartsAssumption
    <3>. QED
      BY <2>2, <2>3, <3>2, PathsOfRecord
  <2>. QED
    BY <2>2, <2>3, PathsOfLeaf
<1>3. Nat \subseteq T
  <2>. HIDE DEF T
  <2>. QED
    BY <1>1, <1>2, Induction
<1>. QED
  BY <1>3, PartsAssumption DEF Part

-----------------------------------------------------------------------------
(* Found goes one name at a time. *)

Steps(objects, path, f, m) ==
  f = [k \in 0..m |-> IF k = 0 THEN objects ELSE Under(f[k - 1], path[k])]

LEMMA StepsExist ==
  ASSUME NEW objects, NEW path, NEW n \in Nat
  PROVE  \E f : Steps(objects, path, f, n)
<1>. DEFINE T == {m \in Nat : \E f : Steps(objects, path, f, m)}
<1>1. 0 \in T
  <2>. DEFINE f == [k \in 0..0 |-> objects]
  <2>1. Steps(objects, path, f, 0)
    BY DEF Steps
  <2>. QED
    BY <2>1
<1>2. ASSUME NEW m \in Nat, m \in T PROVE m + 1 \in T
  <2>1. PICK f : Steps(objects, path, f, m)
    BY <1>2
  <2>2. \A k \in 0..m : f[k] = IF k = 0 THEN objects ELSE Under(f[k - 1], path[k])
    <3>. DEFINE r(k) == IF k = 0 THEN objects ELSE Under(f[k - 1], path[k])
    <3>1. f = [k \in 0..m |-> r(k)]
      BY <2>1 DEF Steps
    <3>. HIDE DEF r
    <3>2. \A k \in 0..m : f[k] = r(k)
      BY <3>1
    <3>. QED
      BY <3>2 DEF r
  <2>. DEFINE g == [k \in 0..(m + 1) |-> IF k = m + 1 THEN Under(f[m], path[m + 1]) ELSE f[k]]
  <2>3. ASSUME NEW k \in 0..(m + 1)
        PROVE  g[k] = IF k = 0 THEN objects ELSE Under(g[k - 1], path[k])
    <3>1. CASE k = m + 1
      <4>1. g[k] = Under(f[m], path[m + 1]) /\ g[k - 1] = f[m] /\ k # 0
        BY <3>1
      <4>. QED
        BY <3>1, <4>1
    <3>2. CASE k \in 0..m
      <4>1. g[k] = f[k] /\ (k # 0 => g[k - 1] = f[k - 1])
        BY <3>2
      <4>. QED
        BY <2>2, <3>2, <4>1
    <3>. QED
      BY <3>1, <3>2
  <2>4. g = [k \in 0..(m + 1) |-> g[k]]
    OBVIOUS
  <2>. HIDE DEF g
  <2>5. g = [k \in 0..(m + 1) |-> IF k = 0 THEN objects ELSE Under(g[k - 1], path[k])]
    BY <2>3, <2>4
  <2>. QED
    BY <2>5 DEF Steps
<1>3. Nat \subseteq T
  <2>. HIDE DEF T
  <2>. QED
    BY <1>1, <1>2, Induction
<1>. QED
  BY <1>3

LEMMA FoundTaken ==
  ASSUME NEW objects, NEW path, Len(path) \in Nat
  PROVE  \E f : /\ Found(objects, path) = f[Len(path)] /\ f[0] = objects
                /\ \A k \in 1..Len(path) : f[k] = Under(f[k - 1], path[k])
<1>. DEFINE n == Len(path)
            f == CHOOSE h : Steps(objects, path, h, n)
<1>1. Steps(objects, path, f, n)
  BY StepsExist
<1>2. Found(objects, path) = f[n]
  BY DEF Found, Steps
<1>. HIDE DEF f
<1>. DEFINE r(k) == IF k = 0 THEN objects ELSE Under(f[k - 1], path[k])
<1>3. f = [k \in 0..n |-> r(k)]
  BY <1>1 DEF Steps
<1>4. \A k \in 0..n : f[k] = r(k)
  <2>. HIDE DEF r
  <2>. QED
    BY <1>3
<1>5. f[0] = objects /\ \A k \in 1..n : f[k] = Under(f[k - 1], path[k])
  BY <1>4
<1>. QED
  BY <1>2, <1>5

LEMMA FoundOne ==
  ASSUME NEW objects, NEW name
  PROVE  Found(objects, <<name>>) = Under(objects, name)
<1>1. Len(<<name>>) = 1 /\ <<name>>[1] = name
  OBVIOUS
<1>2. PICK f : /\ Found(objects, <<name>>) = f[1] /\ f[0] = objects
               /\ \A k \in 1..1 : f[k] = Under(f[k - 1], <<name>>[k])
  BY <1>1, FoundTaken
<1>. QED
  BY <1>1, <1>2

LEMMA FoundNext ==
  ASSUME NEW S, NEW objects, NEW name \in S, NEW rest \in Seq(S)
  PROVE  Found(objects, <<name>> \o rest) = Found(Under(objects, name), rest)
<1>. DEFINE path == <<name>> \o rest
            n == Len(rest)
<1>1. /\ n \in Nat /\ Len(path) = n + 1 /\ path[1] = name
      /\ \A k \in 1..n : path[k + 1] = rest[k]
  <2>. DEFINE one == <<name>>
  <2>1. one \in Seq(S) /\ Len(one) = 1 /\ one[1] = name /\ n \in Nat
    BY LenProperties
  <2>. HIDE DEF one
  <2>2. /\ Len(one \o rest) = Len(one) + Len(rest)
        /\ \A i \in 1..(Len(one) + Len(rest)) :
             (one \o rest)[i] = IF i <= Len(one) THEN one[i] ELSE rest[i - Len(one)]
    BY <2>1, ConcatProperties
  <2>3. \A k \in 1..n : k + 1 \in 1..(1 + n) /\ ~(k + 1 <= 1) /\ (k + 1) - 1 = k
    BY <2>1
  <2>. HIDE DEF n
  <2>4. Len(one \o rest) = n + 1
    BY <2>1, <2>2 DEF n
  <2>5. 1 \in 1..(1 + n) /\ (one \o rest)[1] = name
    BY <2>1, <2>2 DEF n
  <2>6. ASSUME NEW k \in 1..n PROVE (one \o rest)[k + 1] = rest[k]
    BY <2>1, <2>2, <2>3 DEF n
  <2>. QED
    BY <2>1, <2>4, <2>5, <2>6 DEF one
<1>. HIDE DEF path, n
<1>2. PICK f : /\ Found(objects, path) = f[n + 1] /\ f[0] = objects
               /\ \A k \in 1..(n + 1) : f[k] = Under(f[k - 1], path[k])
  <2>1. Len(path) \in Nat
    BY <1>1
  <2>2. \E f : /\ Found(objects, path) = f[Len(path)] /\ f[0] = objects
               /\ \A k \in 1..Len(path) : f[k] = Under(f[k - 1], path[k])
    BY <2>1, FoundTaken
  <2>. QED
    BY <1>1, <2>2
<1>3. PICK g : /\ Found(Under(objects, name), rest) = g[n] /\ g[0] = Under(objects, name)
               /\ \A k \in 1..n : g[k] = Under(g[k - 1], rest[k])
  <2>. DEFINE o == Under(objects, name)
  <2>1. Len(rest) \in Nat
    BY LenProperties
  <2>. HIDE DEF o
  <2>2. \E g : /\ Found(o, rest) = g[Len(rest)] /\ g[0] = o
               /\ \A k \in 1..Len(rest) : g[k] = Under(g[k - 1], rest[k])
    BY <2>1, FoundTaken
  <2>. QED
    BY <2>2 DEF n, o
<1>. DEFINE T == {k \in Nat : k <= n => g[k] = f[k + 1]}
<1>4. 0 \in T
  <2>1. 1 \in 1..(n + 1) /\ 1 - 1 = 0 /\ 0 + 1 = 1
    BY <1>1
  <2>2. f[1] = Under(f[0], path[1])
    BY <1>2, <2>1
  <2>. QED
    BY <1>1, <1>2, <1>3, <2>1, <2>2
<1>5. ASSUME NEW k \in Nat, k \in T PROVE k + 1 \in T
  <2>. SUFFICES ASSUME k + 1 <= n PROVE g[k + 1] = f[(k + 1) + 1]
    OBVIOUS
  <2>1. PICK m \in 1..n : m = k + 1 /\ m - 1 = k /\ m + 1 \in 1..(n + 1) /\ (m + 1) - 1 = m
    BY <1>1
  <2>2. g[m] = Under(g[k], rest[m]) /\ f[m + 1] = Under(f[m], path[m + 1])
    BY <1>2, <1>3, <2>1
  <2>3. g[k] = f[m] /\ path[m + 1] = rest[m]
    BY <1>1, <1>5, <2>1
  <2>. QED
    BY <2>1, <2>2, <2>3
<1>6. Nat \subseteq T
  <2>. HIDE DEF T
  <2>. QED
    BY <1>4, <1>5, Induction
<1>7. g[n] = f[n + 1]
  BY <1>1, <1>6
<1>. QED
  BY <1>2, <1>3, <1>7 DEF path

-----------------------------------------------------------------------------
(* A part is one member with the part's name, a record's item the members of *)
(* its fields.                                                               *)

ItemOf(p, v) == Members[p][v][1].item
Member(p, v) == [key |-> p.name, item |-> ItemOf(p, v)]

LEMMA OneMember ==
  ASSUME NEW p \in Part, NEW v \in Seq(Seq(Byte))
  PROVE  /\ Members[p][v] = <<Member(p, v)>>
         /\ ItemOf(p, v) = IF p.type = "Record"
                           THEN FlattenSeq([i \in DOMAIN p.fields |->
                                              Members[p.fields[i]][FieldValues(p, v, i)]])
                           ELSE IF Integral(p) THEN VisitAnyUint(p.type, v[1]) ELSE v[1]
<1>. DEFINE x == IF p.type = "Record"
                 THEN FlattenSeq([i \in DOMAIN p.fields |->
                                    Members[p.fields[i]][FieldValues(p, v, i)]])
                 ELSE IF Integral(p) THEN VisitAnyUint(p.type, v[1]) ELSE v[1]
<1>1. Members[p][v] = MembersOf(Members, p)[v]
  BY PartShown
<1>2. MembersOf(Members, p)[v] = <<[key |-> p.name, item |-> x]>>
  BY DEF MembersOf, AddRecord, Byte
<1>3. Members[p][v] = <<[key |-> p.name, item |-> x]>>
  BY <1>1, <1>2
<1>. HIDE DEF x
<1>4. ItemOf(p, v) = x
  BY <1>3 DEF ItemOf
<1>. QED
  BY <1>3, <1>4 DEF Member, x

LEMMA RecordItem ==
  ASSUME NEW p \in Part, p.type = "Record", NEW v \in Seq(Seq(Byte)), Len(v) = Len(Leaves[p])
  PROVE  ItemOf(p, v) = [i \in 1..Len(p.fields) |-> Member(p.fields[i], FieldValues(p, v, i))]
<1>. DEFINE n == Len(p.fields)
            e == [i \in 1..n |-> Member(p.fields[i], FieldValues(p, v, i))]
            s == [i \in DOMAIN p.fields |-> Members[p.fields[i]][FieldValues(p, v, i)]]
<1>1. n \in Nat /\ DOMAIN p.fields = 1..n /\ \A f \in 1..n : p.fields[f] \in Part
  BY RecordLeaves, LenProperties
<1>2. \A i \in 1..n : s[i] = <<e[i]>>
  <2>. TAKE i \in 1..n
  <2>1. FieldValues(p, v, i) \in Seq(Seq(Byte))
    BY ValuesOfField
  <2>2. Members[p.fields[i]][FieldValues(p, v, i)] = <<Member(p.fields[i], FieldValues(p, v, i))>>
    BY <1>1, <2>1, OneMember
  <2>. QED
    BY <1>1, <2>2
<1>3. s = [i \in 1..n |-> s[i]]
  BY <1>1
<1>4. ItemOf(p, v) = FlattenSeq(s)
  BY OneMember
<1>5. e = [i \in 1..n |-> e[i]]
  OBVIOUS
<1>. HIDE DEF e, s
<1>6. s = [i \in 1..n |-> <<e[i]>>]
  BY <1>2, <1>3
<1>. HIDE DEF n
<1>7. FlattenSeq(s) = [i \in 1..n |-> e[i]]
  BY <1>1, <1>6, SinglesFlattened
<1>8. ItemOf(p, v) = e
  BY <1>4, <1>5, <1>7
<1>. QED
  BY <1>8 DEF e, n

-----------------------------------------------------------------------------
(* The path of a leaf leads to what the leaf shows. *)

Shows(leaf, v) == IF Integral(leaf) THEN VisitAnyUint(leaf.type, v) ELSE v

LeadsTo(p) ==
  DistinctNames[p] =>
    \A v \in Seq(Seq(Byte)) : Len(v) = Len(Leaves[p]) =>
      \A objects : Under(objects, p.name) = {ItemOf(p, v)} =>
        \A i \in 1..Len(Leaves[p]) :
          Found(objects, Paths[Describe[p]][i]) = {Shows(Leaves[p][i], v[i])}

\* A name that one member of an object has leads to its item.
OneEach(n, key)          == \A i, j \in 1..n : key[i] = key[j] => i = j
Object(o, n, key, item)  == o = [i \in 1..n |-> [key |-> key[i], item |-> item[i]]]

OnlyItem(o, name, item)  == Under({o}, name) = {item}

LEMMA UnderOne ==
  ASSUME NEW n \in Nat, NEW key, NEW item, OneEach(n, key), NEW o, Object(o, n, key, item)
  PROVE  \A f \in 1..n : OnlyItem(o, key[f], item[f])
<1>. TAKE f \in 1..n
<1>1. DOMAIN o = 1..n /\ \A i \in 1..n : o[i].key = key[i] /\ o[i].item = item[i]
  BY DEF Object
<1>2. LastNamed(o, key[f]) = {f}
  <2>1. \A i \in 1..n : o[i].key = key[f] => i = f
    BY <1>1 DEF OneEach
  <2>2. o[f].key = key[f] /\ f <= f
    BY <1>1
  <2>. QED
    BY <1>1, <2>1, <2>2 DEF LastNamed
<1>3. ASSUME NEW x PROVE x \in Under({o}, key[f]) <=> x = item[f]
  <2>1. x \in Under({o}, key[f]) <=> \E i \in LastNamed(o, key[f]) : x = o[i].item
    BY Zenon DEF Under
  <2>. QED
    BY <1>1, <1>2, <2>1
<1>. QED
  BY <1>3 DEF OnlyItem

LEMMA MemberFound ==
  ASSUME NEW p \in Part, p.type = "Record", DistinctNames[p],
         NEW v \in Seq(Seq(Byte)), Len(v) = Len(Leaves[p]), NEW f \in 1..Len(p.fields)
  PROVE  Under({ItemOf(p, v)}, p.fields[f].name) = {ItemOf(p.fields[f], FieldValues(p, v, f))}
<1>1. PICK n \in Nat : n = Len(p.fields) /\ DOMAIN p.fields = 1..n
  <2>1. Len(p.fields) \in Nat /\ DOMAIN p.fields = 1..Len(p.fields)
    BY RecordLeaves, LenProperties
  <2>. QED
    BY <2>1
<1>2. PICK key : key = [i \in 1..n |-> p.fields[i].name]
  OBVIOUS
<1>3. PICK item : item = [i \in 1..n |-> ItemOf(p.fields[i], FieldValues(p, v, i))]
  OBVIOUS
<1>4. PICK o : o = ItemOf(p, v)
  OBVIOUS
<1>5. OneEach(n, key)
  <2>1. NamesDiffer(DistinctNames, p)
    BY NamesDistinct
  <2>. QED
    BY <1>1, <1>2, <2>1 DEF NamesDiffer, OneEach
<1>6. Object(o, n, key, item)
  <2>1. \A i \in 1..n : Member(p.fields[i], FieldValues(p, v, i)) = [key |-> key[i], item |-> item[i]]
    BY <1>2, <1>3 DEF Member
  <2>2. o = [i \in 1..n |-> Member(p.fields[i], FieldValues(p, v, i))]
    BY <1>1, <1>4, RecordItem
  <2>. QED
    BY <2>1, <2>2 DEF Object
<1>7. f \in 1..n
  BY <1>1
<1>8. OnlyItem(o, key[f], item[f])
  BY <1>5, <1>6, <1>7, UnderOne
<1>. QED
  BY <1>2, <1>3, <1>4, <1>7, <1>8 DEF OnlyItem

LEMMA LeafLeads ==
  ASSUME NEW p \in Part, p.type # "Record"
  PROVE  LeadsTo(p)
<1>. SUFFICES ASSUME NEW v \in Seq(Seq(Byte)), Len(v) = Len(Leaves[p]), NEW objects,
                     Under(objects, p.name) = {ItemOf(p, v)}, NEW i \in 1..Len(Leaves[p])
              PROVE  Found(objects, Paths[Describe[p]][i]) = {Shows(Leaves[p][i], v[i])}
  BY DEF LeadsTo
<1>1. Leaves[p] = <<p>> /\ i = 1
  <2>1. Leaves[p] = <<p>>
    BY LeavesListed DEF LeafList
  <2>2. Len(Leaves[p]) = 1
    BY <2>1
  <2>. QED
    BY <2>1, <2>2
<1>2. Leaves[p][i] = p
  BY <1>1
<1>3. Paths[Describe[p]][i] = <<p.name>>
  <2>1. Paths[Describe[p]] = << <<p.name>> >>
    BY PathsOfLeaf
  <2>2. << <<p.name>> >>[1] = <<p.name>>
    OBVIOUS
  <2>. QED
    BY <1>1, <2>1, <2>2
<1>4. ItemOf(p, v) = Shows(p, v[i])
  BY <1>1, OneMember DEF Shows
<1>5. Found(objects, <<p.name>>) = Under(objects, p.name)
  BY FoundOne
<1>. QED
  BY <1>2, <1>3, <1>4, <1>5

LEMMA RecordLeads ==
  ASSUME NEW p \in Part, p.type = "Record", \A f \in 1..Len(p.fields) : LeadsTo(p.fields[f])
  PROVE  LeadsTo(p)
<1>. SUFFICES ASSUME DistinctNames[p], NEW v \in Seq(Seq(Byte)), Len(v) = Len(Leaves[p]), NEW objects,
                     Under(objects, p.name) = {ItemOf(p, v)}, NEW i \in 1..Len(Leaves[p])
              PROVE  Found(objects, Paths[Describe[p]][i]) = {Shows(Leaves[p][i], v[i])}
  BY DEF LeadsTo
<1>0. PICK f \in 1..Len(p.fields) : \E j \in 1..Len(Leaves[p.fields[f]]) : i = Start(p, f) + j
  BY LeafOfField
<1>1. PICK j \in 1..Len(Leaves[p.fields[f]]) : i = Start(p, f) + j
  BY <1>0
<1>. DEFINE q == p.fields[f]
            w == FieldValues(p, v, f)
            path == Paths[Describe[q]][j]
<1>2. q \in Part /\ Leaves[p][i] = Leaves[q][j]
  BY <1>1, LeafOfField
<1>3. w \in Seq(Seq(Byte)) /\ Len(w) = Len(Leaves[q]) /\ v[i] = w[j]
  BY <1>1, ValuesOfField
<1>4. Paths[Describe[p]][i] = <<p.name>> \o path
  <2>1. \A g \in 1..Len(p.fields) : PathsFit(p.fields[g])
    BY LeafOfField, PathsListed
  <2>2. PathOfField(p, f, j)
    BY <2>1, PathsOfRecord
  <2>. QED
    BY <1>1, <2>2 DEF PathOfField
<1>5. path \in Seq(Text) /\ p.name \in Text
  <2>1. PathsFit(q)
    BY <1>2, PathsListed
  <2>2. j \in 1..Len(Paths[Describe[q]])
    BY <2>1 DEF PathsFit
  <2>3. Paths[Describe[q]] \in Seq(Seq(Text))
    BY <2>1 DEF PathsFit
  <2>4. path \in Seq(Text)
    BY <2>2, <2>3, ElementOfSeq
  <2>5. p.name \in Text
    BY PartShape DEF Shape
  <2>. QED
    BY <2>4, <2>5
<1>6. DistinctNames[q]
  <2>1. NamesDiffer(DistinctNames, p)
    BY NamesDistinct
  <2>2. f \in DOMAIN p.fields
    BY RecordLeaves, LenProperties
  <2>. QED
    BY <2>1, <2>2 DEF NamesDiffer
<1>7. Under({ItemOf(p, v)}, q.name) = {ItemOf(q, w)}
  BY MemberFound
<1>8. LeadsTo(q) /\ j \in 1..Len(Leaves[q])
  OBVIOUS
<1>. HIDE DEF q, w, path
<1>9. Found({ItemOf(p, v)}, Paths[Describe[q]][j]) = {Shows(Leaves[q][j], w[j])}
  <2>1. \A any : Under(any, q.name) = {ItemOf(q, w)} =>
          \A k \in 1..Len(Leaves[q]) : Found(any, Paths[Describe[q]][k]) = {Shows(Leaves[q][k], w[k])}
    BY <1>3, <1>6, <1>8 DEF LeadsTo
  <2>. QED
    BY <1>7, <1>8, <2>1
<1>10. Found(objects, <<p.name>> \o path) = Found({ItemOf(p, v)}, path)
  <2>1. PICK name \in Text : name = p.name
    BY <1>5
  <2>2. Found(objects, <<name>> \o path) = Found(Under(objects, name), path)
    BY ONLY <1>5, FoundNext
  <2>. QED
    BY <2>1, <2>2
<1>. QED
  BY <1>2, <1>3, <1>4, <1>9, <1>10 DEF path

LEMMA PathsLead == \A p \in Part : LeadsTo(p)
<1>. DEFINE T == {d \in Nat : d <= Len(Parts) => \A p \in Nested(d) : LeadsTo(p)}
<1>1. 0 \in T
  BY DEF Nested
<1>2. ASSUME NEW d \in Nat, d \in T PROVE d + 1 \in T
  <2>. SUFFICES ASSUME d + 1 <= Len(Parts), NEW p \in Nested(d + 1) PROVE LeadsTo(p)
    OBVIOUS
  <2>1. d + 1 \in 1..Len(Parts) /\ (d + 1) - 1 = d
    BY PartsAssumption
  <2>2. p \in Part /\ (p.type = "Record" => p.fields \in Seq(Nested(d)))
    BY <2>1, DescriptionShape
  <2>3. CASE p.type = "Record"
    <3>1. \A f \in 1..Len(p.fields) : p.fields[f] \in Nested(d)
      BY <2>2, <2>3, ElementOfSeq
    <3>2. \A f \in 1..Len(p.fields) : LeadsTo(p.fields[f])
      BY <1>2, <2>1, <3>1, PartsAssumption
    <3>. QED
      BY <2>2, <2>3, <3>2, RecordLeads
  <2>. QED
    BY <2>2, <2>3, LeafLeads
<1>3. Nat \subseteq T
  <2>. HIDE DEF T
  <2>. QED
    BY <1>1, <1>2, Induction
<1>. QED
  BY <1>3, PartsAssumption DEF Part

-----------------------------------------------------------------------------
(* A number of as many bytes as uint64_t has, or of fewer, is less than the  *)
(* modulus of the cast: one that is not negative is shown as it is.          *)

LEMMA PowerGrows ==
  ASSUME NEW m \in 0..8, NEW n \in 0..8, m <= n
  PROVE  Power[m] <= Power[n]
<1>. DEFINE T == {k \in Nat : m <= k /\ k <= 8 => Power[m] <= Power[k]}
<1>1. 0 \in T
  <2>. SUFFICES ASSUME m <= 0 PROVE Power[m] <= Power[0]
    OBVIOUS
  <2>1. m = 0
    OBVIOUS
  <2>. QED
    BY <2>1, Powers
<1>2. ASSUME NEW k \in Nat, k \in T PROVE k + 1 \in T
  <2>. SUFFICES ASSUME m <= k + 1, k + 1 <= 8 PROVE Power[m] <= Power[k + 1]
    OBVIOUS
  <2>1. PICK j \in 1..8 : j = k + 1 /\ j - 1 = k
    OBVIOUS
  <2>2. Power[j] = 256 * Power[k] /\ Power[k] \in Nat /\ Power[j] \in Nat /\ Power[m] \in Nat
    BY <2>1, Powers
  <2>3. Power[k] <= Power[j]
    BY <2>2
  <2>4. CASE m = k + 1
    BY <2>1, <2>2, <2>4
  <2>5. CASE m # k + 1
    <3>1. Power[m] <= Power[k]
      BY <1>2, <2>5
    <3>. QED
      BY <2>1, <2>2, <2>3, <3>1
  <2>. QED
    BY <2>4, <2>5
<1>3. Nat \subseteq T
  <2>. HIDE DEF T
  <2>. QED
    BY <1>1, <1>2, Induction
<1>4. n \in T
  <2>. HIDE DEF T
  <2>. QED
    BY <1>3
<1>. QED
  BY <1>4

SumsTo(b, f, m) == f = [k \in 0..m |-> IF k = 0 THEN 0 ELSE f[k - 1] + Power[k - 1] * b[k]]

LEMMA SumsExist ==
  ASSUME NEW b, NEW n \in Nat
  PROVE  \E f : SumsTo(b, f, n)
<1>. DEFINE T == {m \in Nat : \E f : SumsTo(b, f, m)}
<1>1. 0 \in T
  <2>. DEFINE f == [k \in 0..0 |-> 0]
  <2>1. SumsTo(b, f, 0)
    BY DEF SumsTo
  <2>. QED
    BY <2>1
<1>2. ASSUME NEW m \in Nat, m \in T PROVE m + 1 \in T
  <2>1. PICK f : SumsTo(b, f, m)
    BY <1>2
  <2>2. \A k \in 0..m : f[k] = IF k = 0 THEN 0 ELSE f[k - 1] + Power[k - 1] * b[k]
    <3>. DEFINE r(k) == IF k = 0 THEN 0 ELSE f[k - 1] + Power[k - 1] * b[k]
    <3>1. f = [k \in 0..m |-> r(k)]
      BY <2>1 DEF SumsTo
    <3>. HIDE DEF r
    <3>2. \A k \in 0..m : f[k] = r(k)
      BY <3>1
    <3>. QED
      BY <3>2 DEF r
  <2>. DEFINE g == [k \in 0..(m + 1) |-> IF k = m + 1 THEN f[m] + Power[m] * b[m + 1] ELSE f[k]]
  <2>3. ASSUME NEW k \in 0..(m + 1)
        PROVE  g[k] = IF k = 0 THEN 0 ELSE g[k - 1] + Power[k - 1] * b[k]
    <3>1. CASE k = m + 1
      <4>1. g[k] = f[m] + Power[m] * b[m + 1] /\ g[k - 1] = f[m] /\ k # 0 /\ k - 1 = m
        BY <3>1
      <4>. QED
        BY <3>1, <4>1
    <3>2. CASE k \in 0..m
      <4>1. g[k] = f[k] /\ (k # 0 => g[k - 1] = f[k - 1])
        BY <3>2
      <4>. QED
        BY <2>2, <3>2, <4>1
    <3>. QED
      BY <3>1, <3>2
  <2>4. g = [k \in 0..(m + 1) |-> g[k]]
    OBVIOUS
  <2>. HIDE DEF g
  <2>5. g = [k \in 0..(m + 1) |-> IF k = 0 THEN 0 ELSE g[k - 1] + Power[k - 1] * b[k]]
    BY <2>3, <2>4
  <2>. QED
    BY <2>5 DEF SumsTo
<1>3. Nat \subseteq T
  <2>. HIDE DEF T
  <2>. QED
    BY <1>1, <1>2, Induction
<1>. QED
  BY <1>3

LEMMA UnsignedBound ==
  ASSUME NEW b \in Seq(Byte), Len(b) <= 8
  PROVE  Unsigned(b) \in Nat /\ Unsigned(b) < Power[Len(b)]
<1>. DEFINE w == Len(b)
            r(f, k) == IF k = 0 THEN 0 ELSE f[k - 1] + Power[k - 1] * b[k]
<1>1. PICK g : Sums(b, g) /\ Unsigned(b) = g[Len(b)]
  <2>1. Len(b) \in Nat
    BY LenProperties
  <2>2. PICK f : SumsTo(b, f, Len(b))
    BY <2>1, SumsExist
  <2>3. Sums(b, f)
    BY <2>2 DEF Sums, SumsTo
  <2>. QED
    BY <2>3, SumTaken
<1>2. w \in Nat /\ w <= 8 /\ \A k \in 1..w : b[k] \in Byte
  BY LenProperties, ElementOfSeq
<1>3. g = [k \in 0..w |-> r(g, k)]
  BY <1>1 DEF Sums
<1>4. \A k \in 0..w : g[k] = IF k = 0 THEN 0 ELSE g[k - 1] + Power[k - 1] * b[k]
  <2>. HIDE DEF r
  <2>1. \A k \in 0..w : g[k] = r(g, k)
    BY <1>3
  <2>. QED
    BY <2>1 DEF r
<1>. HIDE DEF w, r
<1>. DEFINE T == {k \in Nat : k <= w => g[k] \in Nat /\ g[k] < Power[k]}
<1>5. 0 \in T
  <2>1. 0 \in 0..w
    BY <1>2
  <2>2. g[0] = 0 /\ Power[0] = 1
    BY <1>4, <2>1, Powers
  <2>. QED
    BY <2>2
<1>6. ASSUME NEW k \in Nat, k \in T PROVE k + 1 \in T
  <2>. SUFFICES ASSUME k + 1 <= w PROVE g[k + 1] \in Nat /\ g[k + 1] < Power[k + 1]
    OBVIOUS
  <2>1. PICK j \in 1..w : j = k + 1 /\ j - 1 = k /\ j \in 1..8
    BY <1>2
  <2>. DEFINE a == Power[k]
              x == g[k]
              y == b[j]
  <2>2. a \in Nat \ {0} /\ Power[j] = 256 * a
    <3>1. k \in 0..8
      BY <2>1
    <3>2. Power[j] = 256 * Power[j - 1]
      BY ONLY <2>1, Powers
    <3>. QED
      BY <2>1, <3>1, <3>2, Powers
  <2>3. x \in Nat /\ x < a
    BY <1>2, <1>6, <2>1
  <2>4. y \in 0..255
    BY <1>2, <2>1 DEF Byte
  <2>5. g[j] = x + a * y
    BY <1>4, <2>1
  <2>. HIDE DEF a, x, y
  <2>6. a * y \in Nat /\ a * y <= a * 255 /\ a * 255 + a = 256 * a
    BY <2>2, <2>4
  <2>7. x + a * y \in Nat /\ x + a * y < 256 * a
    <3>. DEFINE z == a * y
    <3>. HIDE DEF z
    <3>1. z \in Nat /\ z <= a * 255
      BY <2>6 DEF z
    <3>2. x + z \in Nat /\ x + z < 256 * a
      BY <2>2, <2>3, <3>1
    <3>. QED
      BY <3>2 DEF z
  <2>. QED
    BY <2>1, <2>2, <2>5, <2>7
<1>7. Nat \subseteq T
  <2>. HIDE DEF T
  <2>. QED
    BY <1>5, <1>6, Induction
<1>8. w \in T
  <2>. HIDE DEF T
  <2>. QED
    BY <1>2, <1>7
<1>. QED
  BY <1>1, <1>8 DEF w

LEMMA NumberShown ==
  ASSUME NEW p \in Part, Integral(p), NEW b \in Seq(Byte), Len(b) = Width[p.type],
         NumberOf(p.type, b) >= 0
  PROVE  VisitAnyUint(p.type, b) = NumberOf(p.type, b)
<1>. DEFINE w == Len(b)
            n == NumberOf(p.type, b)
            u == Unsigned(b)
<1>1. w \in Nat /\ w <= WideBytes /\ WideBytes \in 0..8
  BY WideAssumption, LenProperties
<1>2. u \in Nat /\ u < Power[w]
  BY <1>1, UnsignedBound
<1>3. /\ Power[w] \in Nat \ {0} /\ Wide \in Nat \ {0} /\ Power[w] <= Wide
  <2>1. w \in 0..8
    BY <1>1
  <2>. HIDE DEF w
  <2>. QED
    BY <1>1, <2>1, Powers, PowerGrows DEF Wide
<1>4. n = u \/ n = u - Power[w]
  BY DEF NumberOf, Signed
<1>. HIDE DEF w, n, u
<1>5. n >= 0
  BY DEF n
<1>6. n \in 0..(Wide - 1)
  BY <1>2, <1>3, <1>4, <1>5
<1>7. n % Wide = n
  BY <1>3, <1>6
<1>. QED
  BY <1>7 DEF VisitAnyUint, n
-----------------------------------------------------------------------------
(* The names of the advertisement lead to the values. *)

LEMMA LeavesAreParts == \A p \in Part : \A i \in 1..Len(Leaves[p]) : Leaves[p][i] \in Part
<1>. DEFINE Own(p) == \A i \in 1..Len(Leaves[p]) : Leaves[p][i] \in Part
            T == {d \in Nat : d <= Len(Parts) => \A p \in Nested(d) : Own(p)}
<1>1. 0 \in T
  BY DEF Nested
<1>2. ASSUME NEW d \in Nat, d \in T PROVE d + 1 \in T
  <2>. SUFFICES ASSUME d + 1 <= Len(Parts), NEW p \in Nested(d + 1) PROVE Own(p)
    OBVIOUS
  <2>1. d + 1 \in 1..Len(Parts) /\ (d + 1) - 1 = d
    BY PartsAssumption
  <2>2. p \in Part /\ (p.type = "Record" => p.fields \in Seq(Nested(d)))
    BY <2>1, DescriptionShape
  <2>3. CASE p.type = "Record"
    <3>. SUFFICES ASSUME NEW i \in 1..Len(Leaves[p]) PROVE Leaves[p][i] \in Part
      OBVIOUS
    <3>1. PICK f \in 1..Len(p.fields) : \E j \in 1..Len(Leaves[p.fields[f]]) : i = Start(p, f) + j
      BY <2>2, <2>3, LeafOfField
    <3>2. PICK j \in 1..Len(Leaves[p.fields[f]]) : i = Start(p, f) + j
      BY <3>1
    <3>3. p.fields[f] \in Nested(d)
      BY <2>2, <2>3, ElementOfSeq
    <3>4. Own(p.fields[f])
      <4>1. \A q \in Nested(d) : Own(q)
        <5>. HIDE DEF Own
        <5>1. d <= Len(Parts)
          BY <2>1
        <5>. QED
          BY <1>2, <5>1
      <4>. QED
        BY <3>3, <4>1
    <3>5. Leaves[p][i] = Leaves[p.fields[f]][j]
      BY <2>2, <2>3, <3>2, LeafOfField
    <3>. QED
      BY <3>4, <3>5
  <2>4. CASE p.type # "Record"
    <3>1. Leaves[p] = <<p>>
      BY <2>2, <2>4, LeavesListed DEF LeafList
    <3>2. Len(Leaves[p]) = 1 /\ Leaves[p][1] = p
      BY <3>1
    <3>. QED
      BY <2>2, <3>2
  <2>. QED
    BY <2>3, <2>4
<1>3. Nat \subseteq T
  <2>. HIDE DEF T
  <2>. QED
    BY <1>1, <1>2, Induction
<1>. QED
  BY <1>3, PartsAssumption DEF Part

\* What is shown is the listener's Part with the values of the brain.
ShowsPart ==
  pc = "shown" =>
    /\ schema \in Part /\ FitsPart(schema, values)
    /\ shown = [schema |-> Describe[schema], data |-> Members[schema][values]]

LEMMA ShowingShows ==
  ASSUME Follows, Follows', Show
  PROVE  ShowsPart'
<1>1. schema \in Part /\ Reads
  BY DEF Follows, Show, Idle, Announced, Decodes, IsStored, Acknowledged, DataArrives, IsShown,
         Answers, Requested
<1>2. schema' = schema /\ values' = values /\ held' = held /\ pc' = "shown"
  BY DEF Show
<1>3. held' = values'
  BY <1>2 DEF Follows, Idle, Announced, Decodes, IsStored, Acknowledged, DataArrives, Reads,
         IsShown, Answers, Requested
<1>4. part = schema /\ FitsPart(schema, values)
  BY <1>1 DEF Reads, DataSent
<1>5. shown' = [schema |-> Describe[schema], data |-> Members[schema][values]]
  BY <1>2, <1>3, <1>4 DEF Show
<1>. QED
  BY <1>1, <1>2, <1>4, <1>5 DEF ShowsPart

LEMMA AlwaysShowsPart == Spec /\ []DamageIsFound => []ShowsPart
<1>1. Init => ShowsPart
  BY DEF Init, ShowsPart
<1>2. /\ Faithful /\ DamageIsFound /\ ShowsPart /\ Faithful' /\ DamageIsFound' /\ [Next]_vars
      => ShowsPart'
  <2>. SUFFICES ASSUME Faithful, DamageIsFound, ShowsPart, Faithful', DamageIsFound', [Next]_vars
                PROVE  ShowsPart'
    OBVIOUS
  <2>1. CASE Show
    <3>1. ~damaged /\ ~damaged'
      BY <2>1 DEF Show, DamageIsFound
    <3>. QED
      BY <2>1, <3>1, ShowingShows DEF Faithful
  <2>2. CASE ~Show
    <3>. SUFFICES ASSUME pc' = "shown" PROVE ShowsPart'
      BY DEF ShowsPart
    <3>1. UNCHANGED <<pc, schema, values, shown>>
      BY <2>2 DEF Next, vars, WriteBroadcast, WriteData, WriteRequest, Damage, TakePacket, Branch,
           DecodePart, Place, CloseRecord, Acknowledge, ReadLeaf, SetData, Respond, Done
    <3>. QED
      BY <3>1 DEF ShowsPart
  <2>. QED
    BY <2>1, <2>2
<1>. QED
  BY <1>1, <1>2, LineFollowed, PTL DEF Spec

\* Followed by their names, the paths of a Part lead to what its leaves show.
LEMMA PartLeads ==
  ASSUME NEW p \in Part, NEW v, FitsPart(p, v), DistinctNames[p],
         NEW i \in 1..Len(Leaves[p])
  PROVE  /\ Len(v) = Len(Leaves[p])
         /\ Found({Members[p][v]}, Paths[Describe[p]][i]) = {Shows(Leaves[p][i], v[i])}
<1>. DEFINE n == Len(Leaves[p])
<1>1. n \in Nat /\ DOMAIN Leaves[p] = 1..n
  BY LeavesListed, LenProperties
<1>2. v = [k \in 1..n |-> v[k]] /\ \A k \in 1..n : v[k] \in Seq(Byte)
  BY <1>1, FittingBytes DEF FitsPart
<1>. HIDE DEF n
<1>3. v \in [1..n -> Seq(Byte)]
  BY <1>2
<1>4. v \in Seq(Seq(Byte)) /\ Len(v) = n
  BY <1>1, <1>3, IsSequence
<1>5. Under({Members[p][v]}, p.name) = {ItemOf(p, v)}
  <2>1. PICK o : o = Members[p][v]
    OBVIOUS
  <2>2. PICK key : key = [k \in 1..1 |-> p.name]
    OBVIOUS
  <2>3. PICK item : item = [k \in 1..1 |-> ItemOf(p, v)]
    OBVIOUS
  <2>4. o = <<Member(p, v)>>
    BY <1>4, <2>1, OneMember
  <2>5. Object(o, 1, key, item)
    <3>1. o = [k \in 1..1 |-> Member(p, v)]
      BY <2>4
    <3>2. \A k \in 1..1 : Member(p, v) = [key |-> key[k], item |-> item[k]]
      BY <2>2, <2>3 DEF Member
    <3>. QED
      BY <3>1, <3>2 DEF Object
  <2>6. OneEach(1, key)
    BY DEF OneEach
  <2>7. OnlyItem(o, key[1], item[1])
    BY <2>5, <2>6, UnderOne
  <2>. QED
    BY <2>1, <2>2, <2>3, <2>7 DEF OnlyItem
<1>6. LeadsTo(p) /\ i \in 1..Len(Leaves[p])
  BY PathsLead
<1>7. \A any : Under(any, p.name) = {ItemOf(p, v)} =>
        \A k \in 1..Len(Leaves[p]) : Found(any, Paths[Describe[p]][k]) = {Shows(Leaves[p][k], v[k])}
  BY <1>4, <1>6 DEF LeadsTo, n
<1>8. Found({Members[p][v]}, Paths[Describe[p]][i]) = {Shows(Leaves[p][i], v[i])}
  BY <1>5, <1>6, <1>7
<1>. QED
  BY <1>4, <1>8 DEF n

LEMMA ShownByName == ShowsPart => FoundByName
<1>. SUFFICES ASSUME ShowsPart, pc = "shown", DistinctNames[schema]
              PROVE  LET paths == Paths[shown.schema] IN
                       /\ Len(paths) = Len(values)
                       /\ \A i \in DOMAIN paths :
                            LET leaf  == Leaves[schema][i]
                                found == Found({shown.data}, paths[i])
                            IN IF ~Integral(leaf) THEN found = {values[i]}
                               ELSE LET n == NumberOf(leaf.type, values[i])
                                    IN n >= 0 => found = {n}
  BY DEF FoundByName
<1>. DEFINE n == Len(Leaves[schema])
            paths == Paths[Describe[schema]]
<1>1. schema \in Part /\ FitsPart(schema, values)
  BY DEF ShowsPart
<1>2. shown.schema = Describe[schema] /\ shown.data = Members[schema][values]
  BY DEF ShowsPart
<1>3. n \in Nat /\ DOMAIN Leaves[schema] = 1..n
  BY <1>1, LeavesListed, LenProperties
<1>4. Len(paths) = n /\ DOMAIN paths = 1..n
  <2>1. PathsFit(schema)
    BY <1>1, PathsListed
  <2>. QED
    BY <2>1, LenProperties DEF PathsFit
<1>5. Len(values) = n
  BY <1>1, <1>3, LenProperties DEF FitsPart
<1>6. ASSUME NEW i \in 1..n
      PROVE  /\ Found({shown.data}, paths[i]) = {Shows(Leaves[schema][i], values[i])}
             /\ Leaves[schema][i] \in Part
             /\ Fitting(Leaves[schema][i].type, values[i])
  <2>1. i \in 1..Len(Leaves[schema]) /\ i \in DOMAIN Leaves[schema]
    BY <1>3
  <2>2. Found({Members[schema][values]}, Paths[Describe[schema]][i])
          = {Shows(Leaves[schema][i], values[i])}
    BY <1>1, <2>1, PartLeads
  <2>3. Leaves[schema][i] \in Part /\ Fitting(Leaves[schema][i].type, values[i])
    BY <1>1, <2>1, LeavesAreParts DEF FitsPart
  <2>. QED
    BY <1>2, <2>2, <2>3
<1>7. ASSUME NEW i \in 1..n, Integral(Leaves[schema][i]),
             NumberOf(Leaves[schema][i].type, values[i]) >= 0
      PROVE  Found({shown.data}, paths[i]) = {NumberOf(Leaves[schema][i].type, values[i])}
  <2>. DEFINE leaf == Leaves[schema][i]
              b == values[i]
  <2>1. leaf \in Part /\ Fitting(leaf.type, b) /\ Integral(leaf) /\ NumberOf(leaf.type, b) >= 0
    BY <1>6, <1>7
  <2>2. Found({shown.data}, paths[i]) = {VisitAnyUint(leaf.type, b)}
    BY <1>6, <1>7 DEF Shows
  <2>. HIDE DEF leaf, b
  <2>3. leaf.type # "String"
    BY <2>1 DEF Integral, UnsignedTypes, SignedTypes
  <2>4. b \in Seq(Byte) /\ Len(b) = Width[leaf.type]
    BY <2>1, <2>3 DEF Fitting
  <2>5. VisitAnyUint(leaf.type, b) = NumberOf(leaf.type, b)
    BY <2>1, <2>4, NumberShown
  <2>. QED
    BY <2>2, <2>5 DEF leaf, b
<1>8. ASSUME NEW i \in 1..n, ~Integral(Leaves[schema][i])
      PROVE  Found({shown.data}, paths[i]) = {values[i]}
  BY <1>6, <1>8 DEF Shows
<1>. HIDE DEF n
<1>. QED
  BY <1>2, <1>4, <1>5, <1>7, <1>8

\* Whatever Part the brain registers, if the fields of each record have different
\* names then the names of the advertisement (ChannelVisitor) lead through the data
\* message (DataJSONVisitor) to the value of each leaf, and to no other.
THEOREM FoundByNameHolds == Spec /\ []DamageIsFound => []FoundByName
<1>. QED
  BY AlwaysShowsPart, ShownByName, PTL

\* All of it with nothing assumed of the bursts: the way from a registered Part to the
\* browser and back is faithful as long as no packet sent begins with a shorter one
\* that ends with its own checksum.
THEOREM CodecFaithful ==
  Spec /\ []TailsTell
    => [](/\ TypeOK /\ ReaderInsidePacket /\ SchemaRoundTrip /\ DataRoundTrip
          /\ DamageIsFound /\ SubmittedReachesBrain /\ FoundByName)
<1>. QED
  BY DamageAlwaysFound, TypeCorrect, ReaderStaysInside, SchemaRoundTripHolds, DataRoundTripHolds,
     SubmittedArrives, FoundByNameHolds, PTL
=============================================================================
