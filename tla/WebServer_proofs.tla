--------------------------- MODULE WebServer_proofs ---------------------------
(***************************************************************************)
(* Proofs about the web server, for every number of sockets, browsers and  *)
(* broadcasts and every length of its work queue.                          *)
(***************************************************************************)
EXTENDS WebServer, SequenceTheorems, TLAPS

-----------------------------------------------------------------------------
(* What a queue w holds for browser n, who was told list h last and has b    *)
(* data messages of another list behind it.                                  *)

IsList(m, n) == m.to = n /\ m.kind = "advertisement"
Counts(m, n) == m.to = n /\ m.kind = "data" /\ ~m.excused

\* A list for n lies between two places.
ListBetween(w, n, p, q) == \E k \in DOMAIN w : p < k /\ k < q /\ IsList(w[k], n)

\* The list n has been told last when the queue has come to place i.
Told(w, n, h, i, list) ==
  \/ h = list /\ ~ListBetween(w, n, 0, i)
  \/ \E k \in DOMAIN w : /\ k < i /\ IsList(w[k], n) /\ w[k].list = list
                         /\ ~ListBetween(w, n, k, i)

\* A data message of a list that n will not have been told.
Wrong(w, n, h, i) == i \in DOMAIN w /\ Counts(w[i], n) /\ ~Told(w, n, h, i, w[i].list)

\* Messages for older browsers are first, and a list comes before data that counts;
\* between two wrong messages, and between the one counted already and the next, lies
\* a list.
Ordered(w, n) ==
  /\ \A i, j \in DOMAIN w : i < j /\ w[i].to = n => w[j].to = n
  /\ \A i, j \in DOMAIN w : Counts(w[i], n) /\ w[j].to # n => ListBetween(w, n, 0, i)
Spaced(w, n, h, b) ==
  /\ \A i, j \in DOMAIN w :
       Wrong(w, n, h, i) /\ Wrong(w, n, h, j) /\ i < j => ListBetween(w, n, i, j)
  /\ b # 0 => \A i \in DOMAIN w : Wrong(w, n, h, i) => ListBetween(w, n, 0, i)
Steady(w, n, h, b) == Ordered(w, n) /\ Spaced(w, n, h, b)

\* Nothing for older browsers reaches n after its last list, and nothing wrong.
Clean(w, n, h, b) ==
  /\ (\E j \in DOMAIN w : w[j].to # n) => ListBetween(w, n, 0, Len(w) + 1)
  /\ \A i \in DOMAIN w : Wrong(w, n, h, i) => ListBetween(w, n, i, Len(w) + 1)
  /\ b # 0 => ListBetween(w, n, 0, Len(w) + 1)

-----------------------------------------------------------------------------
(* Another message at the end *)

LEMMA AppendAt ==
  ASSUME NEW S, NEW w \in Seq(S), NEW m \in S
  PROVE  /\ Append(w, m) \in Seq(S) /\ Len(w) \in Nat
         /\ DOMAIN w = 1..Len(w) /\ DOMAIN Append(w, m) = 1..(Len(w) + 1)
         /\ Len(Append(w, m)) = Len(w) + 1
         /\ \A i \in 1..Len(w) : Append(w, m)[i] = w[i]
         /\ Append(w, m)[Len(w) + 1] = m
<1> DEFINE u == Append(w, m)
<1>1. /\ u \in Seq(S) /\ Len(u) = Len(w) + 1 /\ u[Len(w) + 1] = m
      /\ \A i \in 1..Len(w) : u[i] = w[i]
  BY AppendProperties
<1>2. Len(w) \in Nat /\ DOMAIN w = 1..Len(w)
  BY LenProperties
<1> HIDE DEF u
<1>3. DOMAIN u = 1..(Len(w) + 1)
  BY <1>1, <1>2, LenProperties
<1> QED BY <1>1, <1>2, <1>3 DEF u

LEMMA ListBetweenAppend ==
  ASSUME NEW S, NEW w \in Seq(S), NEW m \in S, NEW n, NEW p \in Nat,
         NEW q \in 0..(Len(w) + 1)
  PROVE  ListBetween(Append(w, m), n, p, q) <=> ListBetween(w, n, p, q)
<1> DEFINE u == Append(w, m)
<1>1. /\ Len(w) \in Nat /\ DOMAIN w = 1..Len(w) /\ DOMAIN u = 1..(Len(w) + 1)
      /\ \A i \in 1..Len(w) : u[i] = w[i]
  BY AppendAt
<1> HIDE DEF u
<1>2. ASSUME NEW k \in DOMAIN u, k < q PROVE k \in 1..Len(w)
  BY <1>1, <1>2
<1>3. ListBetween(u, n, p, q) => ListBetween(w, n, p, q)
  BY <1>1, <1>2 DEF ListBetween
<1>4. ListBetween(w, n, p, q) => ListBetween(u, n, p, q)
  BY <1>1 DEF ListBetween
<1> QED BY <1>3, <1>4 DEF u

LEMMA ToldAppend ==
  ASSUME NEW S, NEW w \in Seq(S), NEW m \in S, NEW n, NEW h, NEW i \in 1..(Len(w) + 1),
         NEW list
  PROVE  Told(Append(w, m), n, h, i, list) <=> Told(w, n, h, i, list)
<1> DEFINE u == Append(w, m)
<1>1. /\ Len(w) \in Nat /\ DOMAIN w = 1..Len(w) /\ DOMAIN u = 1..(Len(w) + 1)
      /\ \A k \in 1..Len(w) : u[k] = w[k]
  BY AppendAt
<1>2. \A p \in Nat : ListBetween(u, n, p, i) <=> ListBetween(w, n, p, i)
  <2>1. i \in 0..(Len(w) + 1)
    BY <1>1
  <2> QED BY <2>1, ListBetweenAppend
<1> HIDE DEF u
<1>3. ASSUME NEW k \in DOMAIN u, k < i PROVE k \in DOMAIN w
  BY <1>1, <1>3
<1>4. ASSUME NEW k \in DOMAIN w PROVE k \in DOMAIN u /\ k \in Nat /\ u[k] = w[k]
  BY <1>1
<1>5. ListBetween(u, n, 0, i) <=> ListBetween(w, n, 0, i)
  BY <1>2
<1>6. (\E k \in DOMAIN u : k < i /\ IsList(u[k], n) /\ u[k].list = list /\ ~ListBetween(u, n, k, i))
      <=> (\E k \in DOMAIN w : k < i /\ IsList(w[k], n) /\ w[k].list = list /\ ~ListBetween(w, n, k, i))
  BY <1>2, <1>3, <1>4
<1>7. Told(u, n, h, i, list) <=> Told(w, n, h, i, list)
  BY <1>5, <1>6 DEF Told
<1> QED BY <1>7 DEF u

LEMMA WrongAppend ==
  ASSUME NEW S, NEW w \in Seq(S), NEW m \in S, NEW n, NEW h
  PROVE  /\ \A i \in DOMAIN w : Wrong(Append(w, m), n, h, i) <=> Wrong(w, n, h, i)
         /\ Wrong(Append(w, m), n, h, Len(w) + 1)
              <=> Counts(m, n) /\ ~Told(w, n, h, Len(w) + 1, m.list)
<1> DEFINE u == Append(w, m)
<1>1. /\ Len(w) \in Nat /\ DOMAIN w = 1..Len(w) /\ DOMAIN u = 1..(Len(w) + 1)
      /\ \A k \in 1..Len(w) : u[k] = w[k]
      /\ u[Len(w) + 1] = m
  BY AppendAt
<1>2. \A i \in 1..(Len(w) + 1) : \A list : Told(u, n, h, i, list) <=> Told(w, n, h, i, list)
  BY ToldAppend
<1> HIDE DEF u
<1>3. ASSUME NEW i \in DOMAIN w PROVE Wrong(u, n, h, i) <=> Wrong(w, n, h, i)
  <2>1. i \in 1..(Len(w) + 1) /\ i \in DOMAIN u /\ u[i] = w[i]
    BY <1>1
  <2> QED BY <1>2, <2>1 DEF Wrong
<1>4. Wrong(u, n, h, Len(w) + 1) <=> Counts(m, n) /\ ~Told(w, n, h, Len(w) + 1, m.list)
  <2>1. Len(w) + 1 \in 1..(Len(w) + 1) /\ Len(w) + 1 \in DOMAIN u
    BY <1>1
  <2> QED BY <1>1, <1>2, <2>1 DEF Wrong
<1> QED BY <1>3, <1>4 DEF u

\* A list at the end is the last one told, and nothing is wrong behind it.
LEMMA AppendList ==
  ASSUME NEW S, NEW w \in Seq(S), NEW m \in S, NEW n, NEW h, NEW b,
         Steady(w, n, h, b), IsList(m, n)
  PROVE  /\ Steady(Append(w, m), n, h, b) /\ Clean(Append(w, m), n, h, b)
         /\ Told(Append(w, m), n, h, Len(w) + 2, m.list)
<1> DEFINE u == Append(w, m)
           l == Len(w) + 1
<1>1. /\ l \in Nat /\ l >= 1 /\ DOMAIN w = 1..(l - 1) /\ DOMAIN u = 1..l /\ Len(u) = l
      /\ \A i \in DOMAIN w : u[i] = w[i]
      /\ u[l] = m
  BY AppendAt
<1>2. \A p \in Nat, q \in 0..l : ListBetween(u, n, p, q) <=> ListBetween(w, n, p, q)
  BY ListBetweenAppend
<1>3. /\ \A i \in DOMAIN w : Wrong(u, n, h, i) <=> Wrong(w, n, h, i)
      /\ ~Wrong(u, n, h, l)
  <2>1. ~Counts(m, n)
    BY DEF IsList, Counts
  <2> QED BY <2>1, WrongAppend
<1> HIDE DEF u, l
<1>4. ASSUME NEW i \in DOMAIN u, i # l PROVE i \in DOMAIN w /\ i \in 0..l
  BY <1>1, <1>4
<1>5. ASSUME NEW p \in 0..(l - 1) PROVE ListBetween(u, n, p, l + 1)
  BY <1>1, <1>5 DEF ListBetween
<1>6. ~ListBetween(u, n, l, l + 1)
  BY <1>1 DEF ListBetween
<1>7. Ordered(u, n)
  <2>1. ASSUME NEW i \in DOMAIN u, NEW j \in DOMAIN u, i < j, u[i].to = n PROVE u[j].to = n
    <3>1. CASE j = l
      BY <1>1, <3>1 DEF IsList
    <3>2. CASE j # l
      <4>1. i # l
        BY <1>1, <2>1
      <4>2. i \in DOMAIN w /\ j \in DOMAIN w /\ u[i] = w[i] /\ u[j] = w[j]
        BY <1>1, <1>4, <3>2, <4>1
      <4> QED BY <2>1, <4>2 DEF Steady, Ordered
    <3> QED BY <3>1, <3>2
  <2>2. ASSUME NEW i \in DOMAIN u, NEW j \in DOMAIN u, Counts(u[i], n), u[j].to # n
        PROVE  ListBetween(u, n, 0, i)
    <3>1. i # l /\ j # l
      BY <1>1, <2>2 DEF Counts, IsList
    <3>2. i \in DOMAIN w /\ j \in DOMAIN w /\ u[i] = w[i] /\ u[j] = w[j] /\ i \in 0..l
      BY <1>1, <1>4, <3>1
    <3>3. ListBetween(w, n, 0, i)
      BY <2>2, <3>2 DEF Steady, Ordered
    <3> QED BY <1>2, <3>2, <3>3
  <2> QED BY <2>1, <2>2 DEF Ordered
<1>8. Spaced(u, n, h, b)
  <2>1. ASSUME NEW i \in DOMAIN u, NEW j \in DOMAIN u, Wrong(u, n, h, i), Wrong(u, n, h, j), i < j
        PROVE  ListBetween(u, n, i, j)
    <3>1. i \in DOMAIN w /\ j \in DOMAIN w /\ j \in 0..l /\ i \in Nat
      BY <1>1, <1>3, <1>4, <2>1
    <3>2. ListBetween(w, n, i, j)
      BY <1>3, <2>1, <3>1 DEF Steady, Spaced
    <3> QED BY <1>2, <3>1, <3>2
  <2>2. ASSUME b # 0, NEW i \in DOMAIN u, Wrong(u, n, h, i) PROVE ListBetween(u, n, 0, i)
    <3>1. i \in DOMAIN w /\ i \in 0..l
      BY <1>3, <1>4, <2>2
    <3>2. ListBetween(w, n, 0, i)
      BY <1>3, <2>2, <3>1 DEF Steady, Spaced
    <3> QED BY <1>2, <3>1, <3>2
  <2> QED BY <2>1, <2>2 DEF Spaced
<1>9. Clean(u, n, h, b)
  <2>1. ListBetween(u, n, 0, l + 1)
    <3>1. 0 \in 0..(l - 1)
      BY <1>1
    <3> QED BY <1>5, <3>1
  <2>2. ASSUME NEW i \in DOMAIN u, Wrong(u, n, h, i) PROVE ListBetween(u, n, i, l + 1)
    BY <1>1, <1>3, <1>5, <2>2
  <2> QED BY <1>1, <2>1, <2>2 DEF Clean
<1>10. Told(u, n, h, l + 1, m.list)
  <2>1. l \in DOMAIN u /\ l < l + 1 /\ IsList(u[l], n) /\ u[l].list = m.list
    BY <1>1
  <2> QED BY <1>6, <2>1 DEF Told
<1> QED BY <1>1, <1>7, <1>8, <1>9, <1>10 DEF Steady, u, l

\* A data message at the end is the first wrong one behind the last list, if it is
\* one at all.
LEMMA AppendData ==
  ASSUME NEW S, NEW w \in Seq(S), NEW m \in S, NEW n, NEW h, NEW b,
         Steady(w, n, h, b), m.to = n, m.kind = "data", m.excused \/ Clean(w, n, h, b)
  PROVE  Steady(Append(w, m), n, h, b)
<1> DEFINE u == Append(w, m)
           l == Len(w) + 1
<1>1. /\ l \in Nat /\ l >= 1 /\ DOMAIN w = 1..(l - 1) /\ DOMAIN u = 1..l
      /\ \A i \in DOMAIN w : u[i] = w[i]
      /\ u[l] = m
  BY AppendAt
<1>2. \A p \in Nat, q \in 0..l : ListBetween(u, n, p, q) <=> ListBetween(w, n, p, q)
  BY ListBetweenAppend
<1>3. /\ \A i \in DOMAIN w : Wrong(u, n, h, i) <=> Wrong(w, n, h, i)
      /\ Wrong(u, n, h, l) => Counts(m, n)
  BY WrongAppend
<1>4. Counts(m, n) => /\ (\E j \in DOMAIN w : w[j].to # n) => ListBetween(w, n, 0, l)
                      /\ \A i \in DOMAIN w : Wrong(w, n, h, i) => ListBetween(w, n, i, l)
                      /\ b # 0 => ListBetween(w, n, 0, l)
  BY DEF Counts, Clean
<1> HIDE DEF u, l
<1>5. ASSUME NEW i \in DOMAIN u, i # l PROVE i \in DOMAIN w /\ i \in 0..l /\ u[i] = w[i]
  BY <1>1, <1>5
<1>6. l \in 0..l /\ 0 \in Nat
  BY <1>1
<1>7. Ordered(u, n)
  <2>1. ASSUME NEW i \in DOMAIN u, NEW j \in DOMAIN u, i < j, u[i].to = n PROVE u[j].to = n
    <3>1. CASE j = l
      BY <1>1, <3>1
    <3>2. CASE j # l
      <4>1. i # l
        BY <1>1, <2>1
      <4> QED BY <1>5, <2>1, <3>2, <4>1 DEF Steady, Ordered
    <3> QED BY <3>1, <3>2
  <2>2. ASSUME NEW i \in DOMAIN u, NEW j \in DOMAIN u, Counts(u[i], n), u[j].to # n
        PROVE  ListBetween(u, n, 0, i)
    <3>1. j # l
      BY <1>1, <2>2
    <3>2. j \in DOMAIN w /\ w[j].to # n
      BY <1>5, <2>2, <3>1
    <3>3. CASE i = l
      <4>1. ListBetween(w, n, 0, l)
        BY <1>1, <1>4, <2>2, <3>2, <3>3
      <4> QED BY <1>2, <1>6, <3>3, <4>1
    <3>4. CASE i # l
      <4>1. ListBetween(w, n, 0, i)
        BY <1>5, <2>2, <3>2, <3>4 DEF Steady, Ordered
      <4> QED BY <1>2, <1>5, <1>6, <3>4, <4>1
    <3> QED BY <3>3, <3>4
  <2> QED BY <2>1, <2>2 DEF Ordered
<1>8. Spaced(u, n, h, b)
  <2>1. ASSUME NEW i \in DOMAIN u, NEW j \in DOMAIN u, Wrong(u, n, h, i), Wrong(u, n, h, j), i < j
        PROVE  ListBetween(u, n, i, j)
    <3>1. i # l /\ i \in Nat
      BY <1>1, <2>1
    <3>2. i \in DOMAIN w /\ Wrong(w, n, h, i)
      BY <1>3, <1>5, <2>1, <3>1
    <3>3. CASE j = l
      <4>1. ListBetween(w, n, i, l)
        BY <1>3, <1>4, <2>1, <3>2, <3>3
      <4> QED BY <1>2, <1>6, <3>1, <3>3, <4>1
    <3>4. CASE j # l
      <4>1. ListBetween(w, n, i, j)
        BY <1>3, <1>5, <2>1, <3>2, <3>4 DEF Steady, Spaced
      <4> QED BY <1>2, <1>5, <3>1, <3>4, <4>1
    <3> QED BY <3>3, <3>4
  <2>2. ASSUME b # 0, NEW i \in DOMAIN u, Wrong(u, n, h, i) PROVE ListBetween(u, n, 0, i)
    <3>1. CASE i = l
      <4>1. ListBetween(w, n, 0, l)
        BY <1>3, <1>4, <2>2, <3>1
      <4> QED BY <1>2, <1>6, <3>1, <4>1
    <3>2. CASE i # l
      <4>1. ListBetween(w, n, 0, i)
        BY <1>3, <1>5, <2>2, <3>2 DEF Steady, Spaced
      <4> QED BY <1>2, <1>5, <1>6, <3>2, <4>1
    <3> QED BY <3>1, <3>2
  <2> QED BY <2>1, <2>2 DEF Spaced
<1> QED BY <1>7, <1>8 DEF Steady, u

\* A data message of the list that was told last changes nothing of this.
LEMMA AppendRightData ==
  ASSUME NEW S, NEW w \in Seq(S), NEW m \in S, NEW n, NEW h, NEW b,
         Clean(w, n, h, b), m.to = n, m.kind = "data", Told(w, n, h, Len(w) + 1, m.list)
  PROVE  /\ Clean(Append(w, m), n, h, b)
         /\ Told(Append(w, m), n, h, Len(w) + 2, m.list)
<1> DEFINE u == Append(w, m)
           l == Len(w) + 1
<1>1. /\ l \in Nat /\ l >= 1 /\ DOMAIN w = 1..(l - 1) /\ DOMAIN u = 1..l /\ Len(u) = l
      /\ \A i \in DOMAIN w : u[i] = w[i]
      /\ u[l] = m
  BY AppendAt
<1>2. \A p \in Nat, q \in 0..l : ListBetween(u, n, p, q) <=> ListBetween(w, n, p, q)
  BY ListBetweenAppend
<1>3. /\ \A i \in DOMAIN w : Wrong(u, n, h, i) <=> Wrong(w, n, h, i)
      /\ ~Wrong(u, n, h, l)
  BY WrongAppend
<1>4. Told(u, n, h, l, m.list)
  <2>1. l \in 1..(Len(w) + 1)
    BY <1>1
  <2> QED BY <2>1, ToldAppend
<1>5. /\ (\E j \in DOMAIN w : w[j].to # n) => ListBetween(w, n, 0, l)
      /\ \A i \in DOMAIN w : Wrong(w, n, h, i) => ListBetween(w, n, i, l)
      /\ b # 0 => ListBetween(w, n, 0, l)
  BY DEF Clean
<1> HIDE DEF u, l
<1>6. ASSUME NEW p \in Nat
      PROVE  /\ ListBetween(u, n, p, l) => ListBetween(u, n, p, l + 1)
             /\ ListBetween(u, n, p, l + 1) => ListBetween(u, n, p, l)
  <2>1. ASSUME NEW k \in DOMAIN u, IsList(u[k], n) PROVE k < l
    BY <1>1, <2>1 DEF IsList
  <2>2. \A k \in DOMAIN u : k < l => k < l + 1
    BY <1>1
  <2> QED BY <2>1, <2>2 DEF ListBetween
<1>7. l \in 0..l /\ 0 \in Nat
  BY <1>1
<1>8. ASSUME NEW i \in DOMAIN u, i # l PROVE i \in DOMAIN w /\ i \in Nat /\ u[i] = w[i]
  BY <1>1, <1>8
<1>9. Clean(u, n, h, b)
  <2>1. ASSUME NEW j \in DOMAIN u, u[j].to # n PROVE ListBetween(u, n, 0, l + 1)
    <3>1. j # l
      BY <1>1, <2>1
    <3>2. ListBetween(w, n, 0, l)
      BY <1>5, <1>8, <2>1, <3>1
    <3> QED BY <1>2, <1>6, <1>7, <3>2
  <2>2. ASSUME NEW i \in DOMAIN u, Wrong(u, n, h, i) PROVE ListBetween(u, n, i, l + 1)
    <3>1. i \in DOMAIN w /\ i \in Nat
      BY <1>3, <1>8, <2>2
    <3>2. ListBetween(w, n, i, l)
      BY <1>3, <1>5, <2>2, <3>1
    <3> QED BY <1>2, <1>6, <1>7, <3>1, <3>2
  <2>3. ASSUME b # 0 PROVE ListBetween(u, n, 0, l + 1)
    BY <1>2, <1>5, <1>6, <1>7, <2>3
  <2> QED BY <1>1, <2>1, <2>2, <2>3 DEF Clean
<1>10. Told(u, n, h, l + 1, m.list)
  <2>1. CASE h = m.list /\ ~ListBetween(u, n, 0, l)
    BY <1>6, <1>7, <2>1 DEF Told
  <2>2. CASE \E k \in DOMAIN u : /\ k < l /\ IsList(u[k], n) /\ u[k].list = m.list
                                 /\ ~ListBetween(u, n, k, l)
    <3>1. PICK k \in DOMAIN u : /\ k < l /\ IsList(u[k], n) /\ u[k].list = m.list
                                /\ ~ListBetween(u, n, k, l)
      BY <2>2
    <3>2. k \in Nat /\ k < l + 1
      BY <1>1, <3>1
    <3> QED BY <1>6, <3>1, <3>2 DEF Told
  <2> QED BY <1>4, <2>1, <2>2 DEF Told
<1> QED BY <1>1, <1>9, <1>10 DEF u, l

-----------------------------------------------------------------------------
(* The first message is on its way to the browser *)

LEMMA TailAt ==
  ASSUME NEW S, NEW w \in Seq(S), w # <<>>
  PROVE  /\ Tail(w) \in Seq(S) /\ Len(w) \in Nat \ {0} /\ Head(w) \in S /\ Head(w) = w[1]
         /\ DOMAIN w = 1..Len(w) /\ DOMAIN Tail(w) = 1..(Len(w) - 1)
         /\ Len(Tail(w)) = Len(w) - 1
         /\ \A i \in 1..(Len(w) - 1) : Tail(w)[i] = w[i + 1]
<1> DEFINE u == Tail(w)
<1>1. /\ u \in Seq(S) /\ Len(u) = Len(w) - 1 /\ Head(w) \in S
      /\ \A i \in 1..Len(u) : u[i] = w[i + 1]
  BY HeadTailProperties
<1>2. Len(w) \in Nat /\ DOMAIN w = 1..Len(w) /\ DOMAIN u = 1..Len(u) /\ Len(u) \in Nat
  BY <1>1, LenProperties
<1>3. Head(w) = w[1]
  OBVIOUS
<1> HIDE DEF u
<1>4. Len(w) \in Nat \ {0} /\ DOMAIN u = 1..(Len(w) - 1)
  BY <1>1, <1>2
<1> QED BY <1>1, <1>2, <1>3, <1>4 DEF u

LEMMA ListBetweenTail ==
  ASSUME NEW S, NEW w \in Seq(S), w # <<>>, NEW n, NEW p \in Nat, NEW q \in Nat
  PROVE  ListBetween(Tail(w), n, p, q) <=> ListBetween(w, n, p + 1, q + 1)
<1> DEFINE u == Tail(w)
<1>1. /\ Len(w) \in Nat /\ DOMAIN w = 1..Len(w) /\ DOMAIN u = 1..(Len(w) - 1)
      /\ \A i \in 1..(Len(w) - 1) : u[i] = w[i + 1]
  BY TailAt
<1> HIDE DEF u
<1>2. ASSUME NEW k \in DOMAIN u, p < k, k < q, IsList(u[k], n)
      PROVE  ListBetween(w, n, p + 1, q + 1)
  <2>1. k + 1 \in DOMAIN w /\ p + 1 < k + 1 /\ k + 1 < q + 1 /\ w[k + 1] = u[k]
    BY <1>1, <1>2
  <2> QED BY <1>2, <2>1 DEF ListBetween
<1>3. ASSUME NEW k \in DOMAIN w, p + 1 < k, k < q + 1, IsList(w[k], n)
      PROVE  ListBetween(u, n, p, q)
  <2>1. k - 1 \in DOMAIN u /\ p < k - 1 /\ k - 1 < q /\ u[k - 1] = w[k]
    BY <1>1, <1>3
  <2> QED BY <1>3, <2>1 DEF ListBetween
<1>4. ListBetween(u, n, p, q) => ListBetween(w, n, p + 1, q + 1)
  BY <1>2 DEF ListBetween
<1>5. ListBetween(w, n, p + 1, q + 1) => ListBetween(u, n, p, q)
  BY <1>3 DEF ListBetween
<1> QED BY <1>4, <1>5 DEF u

\* What the browser has after the first message: its list h2 is that of the message if
\* that is one for it, and is of no account or as before otherwise.
LEMMA ToldTail ==
  ASSUME NEW S, NEW w \in Seq(S), w # <<>>, NEW n, NEW h, NEW h2, NEW i \in Nat \ {0}, NEW list,
         IF IsList(Head(w), n) THEN h2 = Head(w).list
                               ELSE h2 = h \/ ListBetween(w, n, 0, i + 1)
  PROVE  Told(Tail(w), n, h2, i, list) <=> Told(w, n, h, i + 1, list)
<1> DEFINE u == Tail(w)
<1>1. /\ Len(w) \in Nat /\ DOMAIN w = 1..Len(w) /\ DOMAIN u = 1..(Len(w) - 1)
      /\ \A k \in 1..(Len(w) - 1) : u[k] = w[k + 1]
      /\ 1 \in DOMAIN w /\ Head(w) = w[1]
  BY TailAt
<1>2. \A p \in Nat : ListBetween(u, n, p, i) <=> ListBetween(w, n, p + 1, i + 1)
  BY ListBetweenTail
<1> HIDE DEF u
<1>3. ListBetween(u, n, 0, i) <=> ListBetween(w, n, 1, i + 1)
  BY <1>2
<1>4. ASSUME NEW k \in DOMAIN u, k < i, IsList(u[k], n), u[k].list = list,
             ~ListBetween(u, n, k, i)
      PROVE  Told(w, n, h, i + 1, list)
  <2>1. k + 1 \in DOMAIN w /\ k + 1 < i + 1 /\ w[k + 1] = u[k] /\ k \in Nat
    BY <1>1, <1>4
  <2>2. ~ListBetween(w, n, k + 1, i + 1)
    BY <1>2, <1>4, <2>1
  <2> QED BY <1>4, <2>1, <2>2 DEF Told
<1>5. ASSUME NEW k \in DOMAIN w, k # 1, k < i + 1, IsList(w[k], n), w[k].list = list,
             ~ListBetween(w, n, k, i + 1)
      PROVE  Told(u, n, h2, i, list)
  <2>1. k - 1 \in DOMAIN u /\ k - 1 < i /\ u[k - 1] = w[k] /\ k - 1 \in Nat /\ (k - 1) + 1 = k
    BY <1>1, <1>5
  <2>2. ~ListBetween(u, n, k - 1, i)
    BY <1>2, <1>5, <2>1
  <2> QED BY <1>5, <2>1, <2>2 DEF Told
<1>6. CASE IsList(w[1], n)
  <2>1. h2 = w[1].list
    BY <1>1, <1>6
  <2>2. ListBetween(w, n, 0, i + 1)
    BY <1>1, <1>6 DEF ListBetween
  <2>3. ASSUME h2 = list, ~ListBetween(u, n, 0, i) PROVE Told(w, n, h, i + 1, list)
    BY <1>1, <1>3, <1>6, <2>1, <2>3 DEF Told
  <2>4. ASSUME w[1].list = list, ~ListBetween(w, n, 1, i + 1) PROVE Told(u, n, h2, i, list)
    BY <1>3, <2>1, <2>4 DEF Told
  <2>5. Told(u, n, h2, i, list) => Told(w, n, h, i + 1, list)
    BY <1>4, <2>3 DEF Told
  <2>6. Told(w, n, h, i + 1, list) => Told(u, n, h2, i, list)
    BY <1>5, <2>2, <2>4 DEF Told
  <2> QED BY <2>5, <2>6 DEF u
<1>7. CASE ~IsList(w[1], n)
  <2>1. ListBetween(w, n, 0, i + 1) <=> ListBetween(w, n, 1, i + 1)
    <3>1. ASSUME NEW k \in DOMAIN w, IsList(w[k], n) PROVE 0 < k /\ 1 < k
      <4>1. k # 1
        BY <1>7, <3>1
      <4> QED BY <1>1, <4>1
    <3> QED BY <3>1 DEF ListBetween
  <2>2. h2 = h \/ ListBetween(w, n, 0, i + 1)
    BY <1>1, <1>7
  <2>3. Told(u, n, h2, i, list) => Told(w, n, h, i + 1, list)
    BY <1>3, <1>4, <2>1, <2>2 DEF Told
  <2>4. Told(w, n, h, i + 1, list) => Told(u, n, h2, i, list)
    BY <1>3, <1>5, <1>7, <2>1, <2>2 DEF Told
  <2> QED BY <2>3, <2>4 DEF u
<1> QED BY <1>6, <1>7

\* A first message that is not for n's list leaves the lists where they are.
LEMMA ListBehindHead ==
  ASSUME NEW S, NEW w \in Seq(S), w # <<>>, NEW n, NEW q \in Nat,
         ~IsList(Head(w), n), ListBetween(w, n, 0, q + 1)
  PROVE  ListBetween(Tail(w), n, 0, q)
<1>1. DOMAIN w = 1..Len(w) /\ Len(w) \in Nat /\ Head(w) = w[1]
  BY TailAt
<1>2. PICK k \in DOMAIN w : k < q + 1 /\ IsList(w[k], n)
  BY DEF ListBetween
<1>3. k # 1
  BY <1>1, <1>2
<1>4. 1 < k
  BY <1>1, <1>3
<1>5. ListBetween(w, n, 0 + 1, q + 1)
  BY <1>2, <1>4 DEF ListBetween
<1> QED BY <1>5, ListBetweenTail

\* At most one wrong message has been delivered since the last list.
LEMMA FirstWrong ==
  ASSUME NEW S, NEW w \in Seq(S), w # <<>>, NEW n, NEW h, NEW b, Steady(w, n, h, b),
         Counts(Head(w), n), Head(w).list # h
  PROVE  Wrong(w, n, h, 1) /\ 1 \in DOMAIN w /\ b = 0
<1>1. 1 \in DOMAIN w /\ Head(w) = w[1] /\ \A k \in DOMAIN w : k >= 1
  BY TailAt
<1>2. \A p \in Nat : ~ListBetween(w, n, p, 1)
  BY <1>1 DEF ListBetween
<1>3. Wrong(w, n, h, 1)
  BY <1>1 DEF Wrong, Told
<1> QED BY <1>1, <1>2, <1>3 DEF Steady, Spaced

\* What the first message may do to n: give it a list, be a wrong one, do nothing to
\* it, or, meant for an older browser with the same socket, give it that one's list.
GivesList(m, n, h2, b2)      == IsList(m, n) /\ h2 = m.list /\ b2 = 0
IsWrong(m, n, h, b, h2, b2)  == Counts(m, n) /\ m.list # h /\ h2 = h /\ b2 = b + 1
LeavesIt(m, n, h, b, h2, b2) == /\ ~IsList(m, n) /\ ~(Counts(m, n) /\ m.list # h)
                                /\ h2 = h /\ b2 = b
Strays(m, n, b2)             == m.to # n /\ b2 = 0

LEMMA Deliver ==
  ASSUME NEW S, NEW w \in Seq(S), w # <<>>, NEW n, NEW h, NEW b, NEW h2, NEW b2,
         Steady(w, n, h, b),
         \/ GivesList(Head(w), n, h2, b2)
         \/ IsWrong(Head(w), n, h, b, h2, b2)
         \/ LeavesIt(Head(w), n, h, b, h2, b2)
         \/ Strays(Head(w), n, b2)
  PROVE  /\ Steady(Tail(w), n, h2, b2)
         /\ Clean(w, n, h, b)
              => /\ Clean(Tail(w), n, h2, b2)
                 /\ \A list : Told(w, n, h, Len(w) + 1, list)
                                => Told(Tail(w), n, h2, Len(w), list)
<1> DEFINE u == Tail(w)
           l == Len(w)
           m == Head(w)
<1>1. /\ l \in Nat \ {0} /\ DOMAIN w = 1..l /\ DOMAIN u = 1..(l - 1) /\ Len(u) = l - 1
      /\ \A i \in 1..(l - 1) : u[i] = w[i + 1]
      /\ 1 \in DOMAIN w /\ m = w[1]
  BY TailAt
<1>2. \A p, q \in Nat : ListBetween(u, n, p, q) <=> ListBetween(w, n, p + 1, q + 1)
  BY ListBetweenTail
<1>3. \A q \in Nat : ~IsList(m, n) /\ ListBetween(w, n, 0, q + 1) => ListBetween(u, n, 0, q)
  BY ListBehindHead
<1>4. ASSUME NEW i \in Nat \ {0}, m.to # n => ListBetween(w, n, 0, i + 1), NEW list
      PROVE  Told(u, n, h2, i, list) <=> Told(w, n, h, i + 1, list)
  <2>1. IF IsList(m, n) THEN h2 = m.list ELSE h2 = h \/ ListBetween(w, n, 0, i + 1)
    BY <1>4 DEF GivesList, IsWrong, LeavesIt, Strays, Counts, IsList
  <2> QED BY <2>1, ToldTail
<1>5. b2 # 0 => \/ ~IsList(m, n) /\ b # 0
                \/ Wrong(w, n, h, 1)
  <2>1. CASE IsWrong(m, n, h, b, h2, b2)
    <3>1. Counts(m, n) /\ m.list # h
      BY <2>1 DEF IsWrong
    <3> QED BY <3>1, FirstWrong
  <2>2. CASE ~IsWrong(m, n, h, b, h2, b2)
    BY <2>2 DEF GivesList, LeavesIt, Strays
  <2> QED BY <2>1, <2>2
<1> HIDE DEF u, l, m
<1>6. ASSUME NEW i \in DOMAIN u PROVE i + 1 \in DOMAIN w /\ i \in Nat \ {0} /\ u[i] = w[i + 1]
  BY <1>1
<1>7. ASSUME NEW j \in DOMAIN u, u[j].to # n PROVE ~IsList(m, n)
  <2>1. j + 1 \in DOMAIN w /\ 1 < j + 1 /\ w[j + 1].to # n
    BY <1>6, <1>7
  <2>2. w[1].to # n
    BY <1>1, <2>1 DEF Steady, Ordered
  <2> QED BY <1>1, <2>2 DEF IsList
<1>8. ASSUME NEW i \in DOMAIN u, Wrong(u, n, h2, i) PROVE Wrong(w, n, h, i + 1)
  <2>1. i + 1 \in DOMAIN w /\ Counts(w[i + 1], n)
    BY <1>6, <1>8 DEF Wrong
  <2>2. m.to # n => ListBetween(w, n, 0, i + 1)
    BY <1>1, <2>1 DEF Steady, Ordered
  <2> QED BY <1>4, <1>6, <1>8, <2>1, <2>2 DEF Wrong
<1>9. Ordered(u, n)
  <2>1. ASSUME NEW i \in DOMAIN u, NEW j \in DOMAIN u, i < j, u[i].to = n PROVE u[j].to = n
    <3>1. i + 1 < j + 1
      BY <1>6, <2>1
    <3> QED BY <1>6, <2>1, <3>1 DEF Steady, Ordered
  <2>2. ASSUME NEW i \in DOMAIN u, NEW j \in DOMAIN u, Counts(u[i], n), u[j].to # n
        PROVE  ListBetween(u, n, 0, i)
    <3>1. ListBetween(w, n, 0, i + 1)
      BY <1>6, <2>2 DEF Steady, Ordered
    <3> QED BY <1>3, <1>6, <1>7, <2>2, <3>1
  <2> QED BY <2>1, <2>2 DEF Ordered
<1>10. Spaced(u, n, h2, b2)
  <2>1. ASSUME NEW i \in DOMAIN u, NEW j \in DOMAIN u, Wrong(u, n, h2, i), Wrong(u, n, h2, j),
               i < j
        PROVE  ListBetween(u, n, i, j)
    <3>1. Wrong(w, n, h, i + 1) /\ Wrong(w, n, h, j + 1) /\ i + 1 < j + 1
      BY <1>6, <1>8, <2>1
    <3>2. ListBetween(w, n, i + 1, j + 1)
      BY <1>6, <3>1 DEF Steady, Spaced
    <3> QED BY <1>2, <1>6, <3>2
  <2>2. ASSUME b2 # 0, NEW i \in DOMAIN u, Wrong(u, n, h2, i) PROVE ListBetween(u, n, 0, i)
    <3>1. i + 1 \in DOMAIN w /\ Wrong(w, n, h, i + 1) /\ i \in Nat /\ 1 < i + 1
      BY <1>6, <1>8, <2>2
    <3>2. CASE ~IsList(m, n) /\ b # 0
      <4>1. ListBetween(w, n, 0, i + 1)
        BY <3>1, <3>2 DEF Steady, Spaced
      <4> QED BY <1>3, <3>1, <3>2, <4>1
    <3>3. CASE Wrong(w, n, h, 1)
      <4>1. ListBetween(w, n, 0 + 1, i + 1)
        BY <1>1, <3>1, <3>3 DEF Steady, Spaced
      <4> QED BY <1>2, <3>1, <4>1
    <3> QED BY <1>5, <2>2, <3>2, <3>3
  <2> QED BY <2>1, <2>2 DEF Spaced
<1>11. ASSUME Clean(w, n, h, b)
       PROVE  /\ Clean(u, n, h2, b2)
              /\ \A list : Told(w, n, h, l + 1, list) => Told(u, n, h2, l, list)
  <2>1. /\ (\E j \in DOMAIN w : w[j].to # n) => ListBetween(w, n, 0, l + 1)
        /\ \A i \in DOMAIN w : Wrong(w, n, h, i) => ListBetween(w, n, i, l + 1)
        /\ b # 0 => ListBetween(w, n, 0, l + 1)
    BY <1>11 DEF Clean, l
  <2>2. l \in Nat /\ Len(u) + 1 = l
    BY <1>1
  <2>3. ASSUME NEW j \in DOMAIN u, u[j].to # n PROVE ListBetween(u, n, 0, l)
    <3>1. ListBetween(w, n, 0, l + 1)
      BY <1>6, <2>1, <2>3
    <3> QED BY <1>3, <1>7, <2>2, <2>3, <3>1
  <2>4. ASSUME NEW i \in DOMAIN u, Wrong(u, n, h2, i) PROVE ListBetween(u, n, i, l)
    <3>1. ListBetween(w, n, i + 1, l + 1)
      BY <1>6, <1>8, <2>1, <2>4
    <3> QED BY <1>2, <1>6, <2>2, <3>1
  <2>5. ASSUME b2 # 0 PROVE ListBetween(u, n, 0, l)
    <3>1. CASE ~IsList(m, n) /\ b # 0
      BY <1>3, <2>1, <2>2, <3>1
    <3>2. CASE Wrong(w, n, h, 1)
      <4>1. ListBetween(w, n, 0 + 1, l + 1)
        BY <1>1, <2>1, <3>2
      <4> QED BY <1>2, <2>2, <4>1
    <3> QED BY <1>5, <2>5, <3>1, <3>2
  <2>6. \A list : Told(w, n, h, l + 1, list) => Told(u, n, h2, l, list)
    <3>1. m.to # n => ListBetween(w, n, 0, l + 1)
      BY <1>1, <2>1
    <3> QED BY <1>1, <1>4, <3>1
  <2> QED BY <2>2, <2>3, <2>4, <2>5, <2>6 DEF Clean
<1> QED BY <1>9, <1>10, <1>11 DEF Steady, u, l

-----------------------------------------------------------------------------
(* The inductive invariant: types, who has which socket, what the http task is   *)
(* about to queue, and the newest browser's queue as above.                      *)

Sessions == [visit : 0..MaxVisits, ws : BOOLEAN, heard : Lists, behind : 0..2]

\* A visit has one socket and keeps it; a message is for the visit that had its
\* socket when it was queued, and global_fd is the socket of the newest one.
SocketInv ==
  /\ \A fd \in Sockets : /\ session[fd].visit <= visits
                         /\ session[fd].visit = 0 => session[fd] = NoVisit
                         /\ ~session[fd].ws => session[fd].behind = 0
  /\ \A fd, gd \in Sockets : session[fd].visit = session[gd].visit /\ session[fd].visit # 0
                             => fd = gd
  /\ newest <= visits /\ (newest = 0 <=> global_fd = 0)
  /\ \A fd \in Sockets : session[fd].visit = newest /\ newest # 0
                         => fd = global_fd /\ session[fd].ws
  /\ \A i \in DOMAIN work :
       /\ work[i].to <= visits
       /\ \A fd \in Sockets : session[fd].visit = work[i].to => fd = work[i].fd /\ session[fd].ws

\* A greeting that nothing overtook is up to date in data mode.
GreetInv == hpc = "greet" /\ ~overtaken /\ data_mode /\ ppc = "idle" => greeting = activeChannels

NewestOpen == newest # 0 /\ session[global_fd].visit = newest
Describable == hpc = "idle" /\ ~Undescribed /\ ppc = "idle"
ToldActive(h)   == Told(work, newest, h, Len(work) + 1, activeChannels)

BrowserInv ==
  NewestOpen =>
    LET h == session[global_fd].heard
        b == session[global_fd].behind
    IN  /\ Steady(work, newest, h, b) /\ b <= 1
        /\ Describable => Clean(work, newest, h, b)
        /\ Describable /\ data_mode => ToldActive(h)

IInv == WebTypeOK /\ SocketInv /\ GreetInv /\ BrowserInv

-----------------------------------------------------------------------------
(* Types *)

LEMMA ListsAppend ==
  ASSUME NEW list \in Lists, NEW k \in 1..MaxBroadcasts PROVE Append(list, k) \in Lists /\ <<k>> \in Lists
BY AppendProperties DEF Lists

LEMMA NoListIsAList == <<>> \in Lists
BY DEF Lists

LEMMA HeardType ==
  ASSUME NEW v \in Sessions, NEW m \in Messages
  PROVE  Heard(v, m) \in Sessions /\ Heard(v, m).visit = v.visit /\ Heard(v, m).ws = v.ws
<1>1. m.list \in Lists /\ v.behind \in 0..2
  BY DEF Messages, Sessions
<1>2. CASE m.kind = "advertisement"
  <2> DEFINE t == [v EXCEPT !.heard = m.list, !.behind = 0]
  <2>1. Heard(v, m) = t
    BY <1>2 DEF Heard
  <2>2. t.visit = v.visit /\ t.ws = v.ws
    BY DEF Sessions
  <2>3. 0 \in 0..2
    OBVIOUS
  <2>4. t \in Sessions
    BY <1>1, <2>3 DEF Sessions
  <2> QED BY <2>1, <2>2, <2>4
<1>3. CASE m.kind # "advertisement"
  <2>1. CASE m.excused \/ m.to # v.visit \/ m.list = v.heard \/ v.behind = 2
    BY <1>3, <2>1 DEF Heard
  <2>2. CASE ~(m.excused \/ m.to # v.visit \/ m.list = v.heard \/ v.behind = 2)
    <3>1. Heard(v, m) = [v EXCEPT !.behind = @ + 1]
      BY <1>3, <2>2 DEF Heard
    <3>2. v.behind + 1 \in 0..2
      BY <1>1, <2>2
    <3> QED BY <3>1, <3>2 DEF Sessions
  <2> QED BY <2>1, <2>2
<1> QED BY <1>2, <1>3

LEMMA NoVisitType == \A n \in 0..MaxVisits : /\ Visit(n) \in Sessions /\ Visit(n).visit = n
                                             /\ ~Visit(n).ws /\ Visit(n).behind = 0
BY NoListIsAList DEF Visit, Sessions

\* What Send does to the queue.
LEMMA SendQueues ==
  ASSUME WebTypeOK, SocketInv, NEW kind \in {"data", "advertisement"}, NEW list \in Lists,
         Send(Message(kind, list))
  PROVE  /\ work' \in Seq(Messages) /\ Len(work') <= WorkLen
         /\ \/ work' = work /\ (global_fd = 0 \/ QueueFull)
            \/ /\ work' = Append(work, Message(kind, list)) /\ global_fd # 0 /\ ~QueueFull
               /\ Message(kind, list) \in Messages
<1>1. CASE global_fd = 0 \/ QueueFull
  BY <1>1 DEF Send, WebTypeOK
<1>2. CASE ~(global_fd = 0 \/ QueueFull)
  <2> DEFINE m == Message(kind, list)
  <2>1. newest \in 1..MaxVisits /\ global_fd \in Sockets
    BY <1>2 DEF WebTypeOK, SocketInv
  <2>2. (hpc # "idle" \/ Undescribed) \in BOOLEAN
    BY DEF Undescribed, WebTypeOK
  <2>3. m \in Messages
    BY <2>1, <2>2 DEF Message, Messages
  <2>4. work' = Append(work, m)
    BY <1>2 DEF Send
  <2>5. Len(work) < WorkLen
    BY <1>2, LenProperties, WebServerAssumption DEF QueueFull, WebTypeOK
  <2> HIDE DEF m
  <2>6. work' \in Seq(Messages) /\ Len(work') = Len(work) + 1
    BY <2>3, <2>4, AppendProperties DEF WebTypeOK
  <2>7. Len(work') <= WorkLen
    BY <2>5, <2>6, LenProperties, WebServerAssumption DEF WebTypeOK
  <2> QED BY <1>2, <2>3, <2>4, <2>6, <2>7 DEF m
<1> QED BY <1>1, <1>2

LEMMA TypeInit == Init => WebTypeOK
<1> SUFFICES ASSUME Init PROVE WebTypeOK
  OBVIOUS
<1> USE WebServerAssumption DEF Init
<1>1. session \in [Sockets -> Sessions]
  BY NoVisitType DEF NoVisit
<1>2. work \in Seq(Messages) /\ Len(work) <= WorkLen
  OBVIOUS
<1>3. stage \in 0..(Len(StartSteps) + 1)
  BY DEF StartSteps
<1>4. visits \in 0..MaxVisits /\ newest \in 0..MaxVisits /\ broadcasts \in 0..MaxBroadcasts
  OBVIOUS
<1>5. greeting \in Lists /\ activeChannels \in Lists
  BY NoListIsAList
<1> QED BY <1>1, <1>2, <1>3, <1>4, <1>5 DEF WebTypeOK, Sessions

LEMMA TypeStep == WebTypeOK /\ SocketInv /\ [Next]_vars => WebTypeOK'
<1> SUFFICES ASSUME WebTypeOK, SocketInv, [Next]_vars PROVE WebTypeOK'
  OBVIOUS
<1>0. /\ session \in [Sockets -> Sessions] /\ work \in Seq(Messages) /\ Len(work) <= WorkLen
      /\ visits \in 0..MaxVisits /\ greeting \in Lists /\ activeChannels \in Lists
  BY DEF WebTypeOK, Sessions
<1>1. CASE ServerStart
  <2>1. stage' \in 0..(Len(StartSteps) + 1)
    BY <1>1 DEF ServerStart, Started, WebTypeOK, StartSteps
  <2> QED BY <1>1, <2>1 DEF ServerStart, WebTypeOK, socketVars, targetVars, listVars, fateVars
<1>2. CASE AsyncSend
  <2>1. work # <<>> /\ work' = Tail(work)
    BY <1>2 DEF AsyncSend
  <2>2. work' \in Seq(Messages) /\ Len(work') = Len(work) - 1 /\ Head(work) \in Messages
        /\ Len(work) \in Nat
    BY <1>0, <2>1, TailAt
  <2>3. Len(work') <= WorkLen
    BY <1>0, <2>2, WebServerAssumption
  <2>4. session' \in [Sockets -> Sessions]
    <3> DEFINE m == Head(work)
    <3>1. session' = [session EXCEPT ![m.fd] = IF session[m.fd].ws THEN Heard(session[m.fd], m)
                                                                ELSE session[m.fd]]
      BY <1>2 DEF AsyncSend
    <3>2. m.fd \in Sockets /\ m \in Messages
      BY <2>2 DEF Messages
    <3>3. Heard(session[m.fd], m) \in Sessions
      BY <1>0, <3>2, HeardType
    <3> QED BY <1>0, <3>1, <3>2, <3>3
  <2> QED BY <1>2, <2>2, <2>3, <2>4
          DEF AsyncSend, WebTypeOK, Sessions, targetVars, listVars, fateVars
<1>3. ASSUME NEW fd \in Sockets, Accept(fd) PROVE WebTypeOK'
  <2>1. visits' \in 0..MaxVisits
    BY <1>0, <1>3, WebServerAssumption DEF Accept
  <2>2. session' \in [Sockets -> Sessions]
    BY <1>0, <1>3, <2>1, NoVisitType DEF Accept
  <2> QED BY <1>3, <2>1, <2>2 DEF Accept, WebTypeOK, Sessions, targetVars, listVars, fateVars
<1>4. ASSUME NEW fd \in Sockets, Close(fd) PROVE WebTypeOK'
  <2>1. NoVisit \in Sessions
    BY NoVisitType, WebServerAssumption DEF NoVisit
  <2>2. session' \in [Sockets -> Sessions]
    BY <1>0, <1>4, <2>1 DEF Close
  <2> QED BY <1>4, <2>2 DEF Close, WebTypeOK, Sessions, targetVars, listVars, fateVars
<1>5. ASSUME NEW fd \in Sockets, Handshake(fd) PROVE WebTypeOK'
  <2>1. session[fd] \in Sessions /\ session[fd].visit \in 0..MaxVisits
    BY <1>0 DEF Sessions
  <2>2. [session[fd] EXCEPT !.ws = TRUE] \in Sessions
    BY <2>1 DEF Sessions
  <2>3. session' \in [Sockets -> Sessions]
    BY <1>0, <1>5, <2>2 DEF Handshake
  <2> QED BY <1>5, <2>1, <2>3 DEF Handshake, WebTypeOK, Sessions, listVars
<1>6. CASE Snapshot
  BY <1>6 DEF Snapshot, WebTypeOK, socketVars, targetVars, listVars, fateVars
<1>7. CASE Greet
  <2>1. work' \in Seq(Messages) /\ Len(work') <= WorkLen
    BY <1>0, <1>7, SendQueues DEF Greet
  <2>2. lost' \in BOOLEAN /\ overtaken' \in BOOLEAN
    BY <1>7 DEF Greet, WebTypeOK
  <2> QED BY <1>7, <2>1, <2>2, NoListIsAList
          DEF Greet, WebTypeOK, socketVars, targetVars, listVars
<1>8. ASSUME NEW fd \in Sockets, Frame(fd) PROVE WebTypeOK'
  BY <1>8 DEF Frame, TargetStays, WebTypeOK, socketVars, listVars, fateVars
<1>9. CASE OnBroadcast
  <2>1. broadcasts' \in 1..MaxBroadcasts /\ broadcasts' \in 0..MaxBroadcasts
    BY <1>9, WebServerAssumption DEF OnBroadcast, WebTypeOK
  <2>2. activeChannels' \in Lists
    BY <1>0, <1>9, <2>1, ListsAppend, NoListIsAList DEF OnBroadcast
  <2>3. UNCHANGED <<stage, session, visits, global_fd, newest, work, hpc, greeting, ppc,
                    lost, overtaken>>
    BY <1>9 DEF OnBroadcast, socketVars, targetVars, fateVars
  <2>4. data_mode' \in BOOLEAN
    BY <1>9 DEF OnBroadcast, LeaveDataMode
  <2> QED BY <2>1, <2>2, <2>3, <2>4 DEF WebTypeOK
<1>10. CASE OnData
  <2>1. work' \in Seq(Messages) /\ Len(work') <= WorkLen
    BY <1>0, <1>10, SendQueues DEF OnData
  <2>2. ppc' \in {"idle", "advertise"} /\ data_mode' \in BOOLEAN
    BY <1>10 DEF OnData
  <2>3. UNCHANGED <<stage, session, visits, global_fd, newest, hpc, greeting, activeChannels,
                    broadcasts, lost, overtaken>>
    BY <1>10 DEF OnData, socketVars, targetVars, fateVars
  <2> QED BY <2>1, <2>2, <2>3 DEF WebTypeOK
<1>11. CASE Advertise
  <2>1. work' \in Seq(Messages) /\ Len(work') <= WorkLen
    BY <1>0, <1>11, SendQueues DEF Advertise
  <2>2. lost' \in BOOLEAN /\ overtaken' \in BOOLEAN
    BY <1>11 DEF Advertise, QueueFull
  <2> QED BY <1>11, <2>1, <2>2 DEF Advertise, WebTypeOK, socketVars, targetVars, listVars
<1>12. CASE UNCHANGED vars
  BY <1>12 DEF vars, WebTypeOK, socketVars, targetVars, listVars, fateVars
<1> QED BY <1>1, <1>2, <1>3, <1>4, <1>5, <1>6, <1>7, <1>8, <1>9, <1>10, <1>11, <1>12
        DEF Next, HttpTask, HttpStep, PacketTask, Get

-----------------------------------------------------------------------------
(* Sockets and visits *)

LEMMA SocketInit == Init => SocketInv
<1> SUFFICES ASSUME Init PROVE SocketInv
  OBVIOUS
<1> USE DEF Init
<1>1. NoVisit.visit = 0 /\ NoVisit.behind = 0
  <2>1. 0 \in 0..MaxVisits
    BY WebServerAssumption
  <2> QED BY <2>1, NoVisitType DEF NoVisit
<1>2. \A fd \in Sockets : session[fd] = NoVisit
  OBVIOUS
<1>3. DOMAIN work = {}
  OBVIOUS
<1> QED BY <1>1, <1>2, <1>3, WebServerAssumption DEF SocketInv

\* Sending adds a message for the newest browser to its socket.
LEMMA SocketSend ==
  ASSUME WebTypeOK, SocketInv, NEW kind \in {"data", "advertisement"}, NEW list \in Lists,
         Send(Message(kind, list)), UNCHANGED <<session, visits, global_fd, newest>>
  PROVE  SocketInv'
<1> DEFINE m == Message(kind, list)
<1>1. CASE work' = work
  BY <1>1 DEF SocketInv
<1>2. CASE work' = Append(work, m) /\ global_fd # 0 /\ m \in Messages
  <2>1. m.to = newest /\ m.fd = global_fd
    BY DEF Message
  <2> HIDE DEF m
  <2>2. /\ Len(work) \in Nat /\ DOMAIN work' = 1..(Len(work) + 1) /\ DOMAIN work = 1..Len(work)
        /\ \A i \in 1..Len(work) : work'[i] = work[i]
        /\ work'[Len(work) + 1] = m
    BY <1>2, AppendAt DEF WebTypeOK
  <2>3. ASSUME NEW i \in DOMAIN work'
        PROVE  /\ work'[i].to <= visits
               /\ \A fd \in Sockets : session[fd].visit = work'[i].to
                                      => fd = work'[i].fd /\ session[fd].ws
    <3>1. CASE i = Len(work) + 1
      BY <1>2, <2>1, <2>2, <3>1 DEF SocketInv
    <3>2. CASE i # Len(work) + 1
      <4>1. i \in DOMAIN work /\ work'[i] = work[i]
        BY <2>2, <3>2
      <4> QED BY <4>1 DEF SocketInv
    <3> QED BY <3>1, <3>2
  <2> QED BY <2>3 DEF SocketInv
<1> QED BY <1>1, <1>2, SendQueues DEF m

LEMMA SocketStep == WebTypeOK /\ SocketInv /\ [Next]_vars => SocketInv'
<1> SUFFICES ASSUME WebTypeOK, SocketInv, [Next]_vars PROVE SocketInv'
  OBVIOUS
<1>0. /\ session \in [Sockets -> Sessions] /\ work \in Seq(Messages) /\ visits \in 0..MaxVisits
      /\ newest \in 0..MaxVisits /\ activeChannels \in Lists /\ greeting \in Lists
      /\ MaxVisits \in Nat
  BY WebServerAssumption DEF WebTypeOK, Sessions
<1>1. CASE AsyncSend
  <2> DEFINE m == Head(work)
  <2>1. work # <<>> /\ work' = Tail(work)
    BY <1>1 DEF AsyncSend
  <2>2. /\ m \in Messages /\ Len(work) \in Nat
        /\ DOMAIN work' = 1..(Len(work) - 1) /\ DOMAIN work = 1..Len(work)
        /\ \A i \in 1..(Len(work) - 1) : work'[i] = work[i + 1]
    BY <1>0, <2>1, TailAt
  <2>3. session' = [session EXCEPT ![m.fd] = IF session[m.fd].ws THEN Heard(session[m.fd], m)
                                                              ELSE session[m.fd]]
    BY <1>1 DEF AsyncSend
  <2> HIDE DEF m
  <2>4. ASSUME NEW fd \in Sockets
        PROVE  /\ session'[fd].visit = session[fd].visit /\ session'[fd].ws = session[fd].ws
               /\ session[fd].ws \/ session'[fd] = session[fd]
    <3>1. session[fd] \in Sessions
      BY <1>0
    <3>2. Heard(session[fd], m).visit = session[fd].visit /\ Heard(session[fd], m).ws = session[fd].ws
      BY <2>2, <3>1, HeardType
    <3>3. session'[fd] \in {session[fd], Heard(session[fd], m)}
          /\ (session[fd].ws \/ session'[fd] = session[fd])
      BY <1>0, <2>3
    <3> QED BY <3>2, <3>3
  <2>5. ~NoVisit.ws
    BY NoVisitType, <1>0 DEF NoVisit
  <2>6. ASSUME NEW fd \in Sockets
        PROVE  /\ session'[fd].visit <= visits
               /\ session'[fd].visit = 0 => session'[fd] = NoVisit
               /\ ~session'[fd].ws => session'[fd].behind = 0
    BY <2>4, <2>5 DEF SocketInv
  <2>7. ASSUME NEW i \in DOMAIN work'
        PROVE  /\ work'[i].to <= visits
               /\ \A fd \in Sockets : session'[fd].visit = work'[i].to
                                      => fd = work'[i].fd /\ session'[fd].ws
    <3>1. i + 1 \in DOMAIN work /\ work'[i] = work[i + 1]
      BY <2>2
    <3> QED BY <2>4, <3>1 DEF SocketInv
  <2>8. visits' = visits /\ newest' = newest /\ global_fd' = global_fd
    BY <1>1 DEF AsyncSend, targetVars
  <2>9. \A fd, gd \in Sockets : session'[fd].visit = session'[gd].visit /\ session'[fd].visit # 0
                                => fd = gd
    BY <2>4 DEF SocketInv
  <2>10. \A fd \in Sockets : session'[fd].visit = newest /\ newest # 0
                             => fd = global_fd /\ session'[fd].ws
    BY <2>4 DEF SocketInv
  <2>11. newest <= visits /\ (newest = 0 <=> global_fd = 0)
    BY DEF SocketInv
  <2> QED BY <2>6, <2>7, <2>8, <2>9, <2>10, <2>11 DEF SocketInv
<1>2. ASSUME NEW gd \in Sockets, Accept(gd) PROVE SocketInv'
  <2>1. visits' = visits + 1 /\ UNCHANGED <<work, newest, global_fd>>
    BY <1>2 DEF Accept, targetVars
  <2>2. session' = [session EXCEPT ![gd] = Visit(visits')]
    BY <1>2 DEF Accept
  <2>3. Visit(visits').visit = visits + 1 /\ Visit(visits').behind = 0
    <3>1. visits + 1 \in 0..MaxVisits
      BY <1>0, <1>2 DEF Accept
    <3> QED BY <2>1, <3>1, NoVisitType
  <2>4. \A fd \in Sockets : session[fd].visit <= visits /\ session[fd].visit \in Nat
    BY <1>0 DEF SocketInv, Sessions
  <2>5. \A fd \in Sockets : IF fd = gd THEN session'[fd].visit = visits + 1 /\ session'[fd].behind = 0
                                       ELSE session'[fd] = session[fd]
    BY <1>0, <2>2, <2>3
  <2>6. newest <= visits /\ newest \in Nat /\ visits \in Nat
    BY <1>0 DEF SocketInv
  <2>7. \A fd \in Sockets : session'[fd].visit <= visits + 1
    BY <2>4, <2>5, <2>6
  <2>8. \A fd \in Sockets : /\ session'[fd].visit = 0 => session'[fd] = NoVisit
                            /\ ~session'[fd].ws => session'[fd].behind = 0
    BY <2>5, <2>6 DEF SocketInv
  <2>9. \A fd, hd \in Sockets : session'[fd].visit = session'[hd].visit /\ session'[fd].visit # 0
                                => fd = hd
    <3>1. \A fd \in Sockets : session[fd].visit # visits + 1
      BY <2>4, <2>6
    <3> QED BY <2>5, <3>1 DEF SocketInv
  <2>10. \A fd \in Sockets : session'[fd].visit = newest /\ newest # 0
                             => fd = global_fd /\ session'[fd].ws
    <3>1. newest # visits + 1
      BY <2>6
    <3> QED BY <2>5, <3>1 DEF SocketInv
  <2>11. ASSUME NEW i \in DOMAIN work
         PROVE  /\ work[i].to <= visits + 1
                /\ \A fd \in Sockets : session'[fd].visit = work[i].to
                                       => fd = work[i].fd /\ session'[fd].ws
    <3>1. work[i] \in Messages
      BY <1>0, ElementOfSeq, LenProperties
    <3>2. work[i].to <= visits /\ work[i].to \in Nat
      BY <3>1 DEF SocketInv, Messages
    <3>3. work[i].to # visits + 1 /\ work[i].to <= visits + 1
      BY <2>6, <3>2
    <3> QED BY <2>5, <3>3 DEF SocketInv
  <2>12. newest <= visits + 1 /\ (newest = 0 <=> global_fd = 0)
    BY <2>6 DEF SocketInv
  <2> QED BY <2>1, <2>7, <2>8, <2>9, <2>10, <2>11, <2>12 DEF SocketInv
<1>3. ASSUME NEW gd \in Sockets, Close(gd) PROVE SocketInv'
  <2>1. UNCHANGED <<visits, work, newest, global_fd>>
    BY <1>3 DEF Close, targetVars
  <2>2. \A fd \in Sockets : session'[fd] = IF fd = gd THEN NoVisit ELSE session[fd]
    BY <1>0, <1>3 DEF Close
  <2>3. NoVisit.visit = 0 /\ NoVisit.behind = 0 /\ ~NoVisit.ws /\ 0 <= visits
    BY <1>0, NoVisitType DEF NoVisit
  <2>4. \A i \in DOMAIN work : work[i].to # 0
    <3>1. \A i \in DOMAIN work : work[i] \in Messages
      BY <1>0, ElementOfSeq, LenProperties
    <3> QED BY <3>1 DEF Messages
  <2>5. \A fd \in Sockets : session'[fd].visit \in {0, session[fd].visit}
    BY <2>2, <2>3
  <2>6. \A fd, hd \in Sockets : session'[fd].visit = session'[hd].visit /\ session'[fd].visit # 0
                                => fd = hd
    BY <2>2, <2>3 DEF SocketInv
  <2>7. \A fd \in Sockets : session'[fd].visit = newest /\ newest # 0
                             => fd = global_fd /\ session'[fd].ws
    BY <2>2, <2>3 DEF SocketInv
  <2>8. \A i \in DOMAIN work : \A fd \in Sockets :
          session'[fd].visit = work[i].to => fd = work[i].fd /\ session'[fd].ws
    BY <2>2, <2>3, <2>4 DEF SocketInv
  <2>9. \A fd \in Sockets : /\ session'[fd].visit <= visits
                            /\ session'[fd].visit = 0 => session'[fd] = NoVisit
                            /\ ~session'[fd].ws => session'[fd].behind = 0
    BY <2>2, <2>3 DEF SocketInv
  <2> QED BY <2>1, <2>6, <2>7, <2>8, <2>9 DEF SocketInv
<1>4. ASSUME NEW gd \in Sockets, Handshake(gd) PROVE SocketInv'
  <2>1. /\ global_fd' = gd /\ newest' = session[gd].visit /\ session[gd] # NoVisit
        /\ visits' = visits /\ work' = work
    BY <1>4 DEF Handshake
  <2>2. session' = [session EXCEPT ![gd].ws = TRUE]
    BY <1>4 DEF Handshake
  <2>3. \A fd \in Sockets : session[fd] \in Sessions
    BY <1>0
  <2>4. ASSUME NEW fd \in Sockets
        PROVE  /\ session'[fd].visit = session[fd].visit
               /\ fd = gd \/ session[fd].ws => session'[fd].ws
               /\ session'[fd].behind = session[fd].behind
               /\ fd # gd => session'[fd] = session[fd]
    <3>1. CASE fd = gd
      <4>1. session'[fd] = [session[fd] EXCEPT !.ws = TRUE]
        BY <1>0, <2>2, <3>1
      <4>2. session[fd].ws \in BOOLEAN
        BY <2>3 DEF Sessions
      <4> QED BY <2>3, <3>1, <4>1, <4>2 DEF Sessions
    <3>2. CASE fd # gd
      <4>1. session'[fd] = session[fd]
        BY <1>0, <2>2, <3>2
      <4>2. session[fd].ws \in BOOLEAN
        BY <2>3 DEF Sessions
      <4> QED BY <3>2, <4>1, <4>2
    <3> QED BY <3>1, <3>2
  <2>5. session[gd].visit # 0 /\ session[gd].visit <= visits /\ gd # 0
    BY <2>1, WebServerAssumption DEF SocketInv
  <2>6. \A fd \in Sockets : /\ session'[fd].visit <= visits
                            /\ session'[fd].visit = 0 => session'[fd] = NoVisit
                            /\ ~session'[fd].ws => session'[fd].behind = 0
    BY <2>4, <2>5 DEF SocketInv
  <2>7. \A fd, hd \in Sockets : session'[fd].visit = session'[hd].visit /\ session'[fd].visit # 0
                                => fd = hd
    BY <2>4 DEF SocketInv
  <2>8. \A fd \in Sockets : session'[fd].visit = session[gd].visit => fd = gd /\ session'[fd].ws
    BY <2>4, <2>5 DEF SocketInv
  <2>9. \A i \in DOMAIN work :
          /\ work[i].to <= visits
          /\ \A fd \in Sockets : session'[fd].visit = work[i].to => fd = work[i].fd /\ session'[fd].ws
    BY <2>4 DEF SocketInv
  <2> QED BY <2>1, <2>5, <2>6, <2>7, <2>8, <2>9 DEF SocketInv
<1>5. CASE Greet
  BY <1>0, <1>5, SocketSend DEF Greet, socketVars, targetVars
<1>6. CASE OnData
  BY <1>0, <1>6, SocketSend DEF OnData, socketVars, targetVars
<1>7. CASE Advertise
  BY <1>0, <1>7, SocketSend DEF Advertise, socketVars, targetVars
<1>8. CASE UNCHANGED <<session, visits, global_fd, newest, work>>
  BY <1>8 DEF SocketInv
<1> QED BY <1>1, <1>2, <1>3, <1>4, <1>5, <1>6, <1>7, <1>8
        DEF Next, HttpTask, HttpStep, PacketTask, Get, ServerStart, Snapshot, Frame, TargetStays,
            OnBroadcast, vars, socketVars, targetVars

-----------------------------------------------------------------------------
(* The newest browser *)

LEMMA GreetStep == GreetInv /\ [Next]_vars => GreetInv'
<1> SUFFICES ASSUME GreetInv, [Next]_vars PROVE GreetInv'
  OBVIOUS
<1> USE DEF GreetInv
<1>1. CASE Snapshot
  BY <1>1 DEF Snapshot, listVars
<1>2. CASE Greet
  BY <1>2 DEF Greet
<1>3. CASE OnBroadcast
  BY <1>3 DEF OnBroadcast, LeaveDataMode
<1>4. CASE OnData
  BY <1>4 DEF OnData, FirstData, fateVars
<1>5. CASE Advertise
  BY <1>5 DEF Advertise
<1>6. ASSUME NEW fd \in Sockets, Handshake(fd) PROVE GreetInv'
  BY <1>6 DEF Handshake
<1>7. CASE UNCHANGED <<hpc, overtaken, data_mode, ppc, greeting, activeChannels>>
  BY <1>7
<1> QED BY <1>1, <1>2, <1>3, <1>4, <1>5, <1>6, <1>7
        DEF Next, HttpTask, HttpStep, PacketTask, Get, ServerStart, AsyncSend, Accept, Close, Frame,
            vars, listVars, fateVars

\* A browser for whom nothing has been queued yet.
LEMMA NothingQueued ==
  ASSUME NEW w, NEW n, NEW h, \A i \in DOMAIN w : w[i].to # n
  PROVE  Steady(w, n, h, 0)
BY DEF Steady, Ordered, Spaced, Wrong, Counts

\* Steps that leave the newest browser and its queue alone.
LEMMA BrowserSame ==
  ASSUME BrowserInv, UNCHANGED <<work, newest, global_fd>>,
         NewestOpen' => session'[global_fd] = session[global_fd],
         Describable' => Describable,
         Describable' /\ data_mode' => data_mode /\ activeChannels' = activeChannels
  PROVE  BrowserInv'
<1> SUFFICES ASSUME NewestOpen' PROVE BrowserInv'
  BY DEF BrowserInv
<1>1. NewestOpen /\ session'[global_fd'] = session[global_fd]
  BY DEF NewestOpen
<1>2. BrowserInv
  OBVIOUS
<1> QED BY <1>1, <1>2 DEF BrowserInv, ToldActive

\* Steps that queue a message for it.
LEMMA BrowserSend ==
  ASSUME IInv, NEW kind \in {"data", "advertisement"}, NEW list \in Lists,
         Send(Message(kind, list)), UNCHANGED <<session, newest, global_fd, activeChannels>>,
         kind = "data" => /\ list = activeChannels /\ hpc' = hpc /\ ppc = "idle"
                          /\ UNCHANGED <<lost, overtaken>>
                          /\ ppc' = IF data_mode THEN "idle" ELSE "advertise",
         kind = "advertisement" =>
           /\ QueueFull => ~Describable'
           /\ Describable' /\ data_mode' => list = activeChannels
  PROVE  BrowserInv'
<1> SUFFICES ASSUME NewestOpen' PROVE BrowserInv'
  BY DEF BrowserInv
<1> DEFINE h == session[global_fd].heard
           b == session[global_fd].behind
           m == Message(kind, list)
<1>1. NewestOpen
  BY DEF NewestOpen
<1>2. /\ Steady(work, newest, h, b) /\ b <= 1
      /\ Describable => Clean(work, newest, h, b)
      /\ Describable /\ data_mode => Told(work, newest, h, Len(work) + 1, activeChannels)
  BY <1>1 DEF IInv, BrowserInv, ToldActive
<1>3. global_fd # 0
  BY <1>1 DEF NewestOpen, IInv, SocketInv
<1>4. work \in Seq(Messages) /\ Len(work) \in Nat
  BY LenProperties DEF IInv, WebTypeOK
<1>5. m.to = newest /\ m.kind = kind /\ m.list = list
      /\ (m.excused <=> hpc # "idle" \/ Undescribed)
  BY DEF Message
<1>6. \/ work' = work /\ QueueFull
      \/ work' = Append(work, m) /\ m \in Messages
  BY <1>3, SendQueues DEF IInv
<1> HIDE DEF m
<1> SUFFICES /\ Steady(work', newest, h, b)
             /\ Describable' => Clean(work', newest, h, b)
             /\ Describable' /\ data_mode' => Told(work', newest, h, Len(work') + 1, activeChannels)
  BY <1>2 DEF BrowserInv, ToldActive
<1>7. CASE kind = "data"
  <2>1. Describable' => Describable /\ data_mode
    BY <1>7 DEF Describable, Undescribed
  <2>2. CASE work' = work
    BY <1>2, <2>1, <2>2
  <2>3. CASE work' = Append(work, m) /\ m \in Messages
    <3>1. m.excused \/ Clean(work, newest, h, b)
      BY <1>2, <1>5, <1>7 DEF Describable
    <3>2. Steady(work', newest, h, b)
      BY <1>2, <1>4, <1>5, <1>7, <2>3, <3>1, AppendData
    <3>3. ASSUME Describable' PROVE Clean(work', newest, h, b)
                                    /\ Told(work', newest, h, Len(work') + 1, activeChannels)
      <4>1. Clean(work, newest, h, b) /\ Told(work, newest, h, Len(work) + 1, m.list)
        BY <1>2, <1>5, <1>7, <2>1, <3>3
      <4>2. Clean(work', newest, h, b) /\ Told(work', newest, h, Len(work) + 2, m.list)
        BY <1>4, <1>5, <1>7, <2>3, <4>1, AppendRightData
      <4>3. Len(work') + 1 = Len(work) + 2
        BY <1>4, <2>3, AppendProperties
      <4> QED BY <1>5, <1>7, <4>2, <4>3
    <3> QED BY <3>2, <3>3
  <2> QED BY <1>6, <2>2, <2>3
<1>8. CASE kind = "advertisement"
  <2>1. CASE work' = work /\ QueueFull
    BY <1>2, <1>8, <2>1
  <2>2. CASE work' = Append(work, m) /\ m \in Messages
    <3>1. IsList(m, newest)
      BY <1>5, <1>8 DEF IsList
    <3>2. /\ Steady(work', newest, h, b) /\ Clean(work', newest, h, b)
          /\ Told(work', newest, h, Len(work) + 2, m.list)
      BY <1>2, <1>4, <2>2, <3>1, AppendList
    <3>3. Len(work') + 1 = Len(work) + 2
      BY <1>4, <2>2, AppendProperties
    <3> QED BY <1>5, <1>8, <3>2, <3>3
  <2> QED BY <1>6, <2>1, <2>2
<1> QED BY <1>7, <1>8

\* The step that delivers one.
LEMMA BrowserDeliver == IInv /\ AsyncSend => BrowserInv'
<1> SUFFICES ASSUME IInv, AsyncSend, NewestOpen' PROVE BrowserInv'
  BY DEF BrowserInv
<1> DEFINE m == Head(work)
           v == session[global_fd]
           h == v.heard
           b == v.behind
           h2 == session'[global_fd].heard
           b2 == session'[global_fd].behind
<1>1. /\ work # <<>> /\ work' = Tail(work)
      /\ session' = [session EXCEPT ![m.fd] = IF session[m.fd].ws THEN Heard(session[m.fd], m)
                                                                  ELSE session[m.fd]]
      /\ UNCHANGED <<global_fd, newest, hpc, lost, overtaken, ppc, data_mode, activeChannels>>
  BY DEF AsyncSend, targetVars, listVars, fateVars
<1>2. /\ m \in Messages /\ m = work[1] /\ 1 \in DOMAIN work
      /\ Len(work) \in Nat /\ Len(work') = Len(work) - 1
      /\ work \in Seq(Messages) /\ session \in [Sockets -> Sessions]
  BY <1>1, TailAt DEF IInv, WebTypeOK, Sessions
<1>3. global_fd \in Sockets /\ newest # 0
  BY <1>1 DEF NewestOpen, IInv, WebTypeOK, SocketInv
<1>4. v \in Sessions
  BY <1>2, <1>3
<1> HIDE DEF m, v, h, b, h2, b2
<1>5. session'[global_fd] = IF m.fd = global_fd /\ v.ws THEN Heard(v, m) ELSE v
  BY <1>1, <1>2, <1>3 DEF v
<1>6. NewestOpen
  <2>1. Heard(v, m).visit = v.visit
    BY <1>2, <1>4, HeardType
  <2>2. session'[global_fd].visit = newest
    BY <1>1 DEF NewestOpen
  <2> QED BY <1>3, <1>5, <2>1, <2>2 DEF NewestOpen, v
<1>7. v.visit = newest /\ v.ws
  BY <1>3, <1>6 DEF NewestOpen, IInv, SocketInv, v
<1>8. /\ Steady(work, newest, h, b) /\ b <= 1 /\ b \in 0..2
      /\ Describable => Clean(work, newest, h, b)
      /\ Describable /\ data_mode => Told(work, newest, h, Len(work) + 1, activeChannels)
  BY <1>4, <1>6 DEF IInv, BrowserInv, ToldActive, h, b, v, Sessions
<1>9. m.to = newest => m.fd = global_fd
  BY <1>2, <1>3, <1>7 DEF IInv, SocketInv, v
<1>10. /\ \/ GivesList(m, newest, h2, b2)
          \/ IsWrong(m, newest, h, b, h2, b2)
          \/ LeavesIt(m, newest, h, b, h2, b2)
          \/ Strays(m, newest, b2)
       /\ b2 <= 1
  <2>1. CASE m.fd # global_fd
    <3>1. h2 = h /\ b2 = b
      BY <1>5, <2>1 DEF h, b, h2, b2
    <3> QED BY <1>8, <1>9, <2>1, <3>1 DEF LeavesIt, IsList, Counts
  <2>2. CASE m.fd = global_fd /\ m.kind = "advertisement"
    <3>1. session'[global_fd] = [v EXCEPT !.heard = m.list, !.behind = 0]
      BY <1>5, <1>7, <2>2 DEF Heard
    <3>2. h2 = m.list /\ b2 = 0
      BY <1>4, <3>1 DEF h2, b2, Sessions
    <3> QED BY <2>2, <3>2 DEF GivesList, Strays, IsList
  <2>3. CASE m.fd = global_fd /\ m.kind # "advertisement"
    <3>1. m.kind = "data"
      BY <1>2, <2>3 DEF Messages
    <3>2. session'[global_fd] = Heard(v, m)
      BY <1>5, <1>7, <2>3
    <3>3. CASE m.excused \/ m.to # v.visit \/ m.list = v.heard \/ v.behind = 2
      <4>1. h2 = h /\ b2 = b
        BY <2>3, <3>2, <3>3 DEF Heard, h, b, h2, b2
      <4>2. ~(Counts(m, newest) /\ m.list # h)
        BY <1>7, <1>8, <3>3 DEF Counts, h, b
      <4> QED BY <1>8, <3>1, <4>1, <4>2 DEF LeavesIt, IsList
    <3>4. CASE ~(m.excused \/ m.to # v.visit \/ m.list = v.heard \/ v.behind = 2)
      <4>1. session'[global_fd] = [v EXCEPT !.behind = @ + 1]
        BY <2>3, <3>2, <3>4 DEF Heard
      <4>2. h2 = h /\ b2 = b + 1
        BY <1>4, <4>1 DEF h, b, h2, b2, Sessions
      <4>3. Counts(m, newest) /\ m.list # h
        BY <1>7, <3>1, <3>4 DEF Counts, h
      <4>4. b = 0
        BY <1>1, <1>2, <1>8, <4>3, FirstWrong DEF m
      <4> QED BY <4>2, <4>3, <4>4 DEF IsWrong
    <3> QED BY <3>3, <3>4
  <2> QED BY <2>1, <2>2, <2>3
<1>11. /\ Steady(work', newest, h2, b2)
       /\ Clean(work, newest, h, b)
            => /\ Clean(work', newest, h2, b2)
               /\ \A list : Told(work, newest, h, Len(work) + 1, list)
                              => Told(work', newest, h2, Len(work), list)
  BY <1>1, <1>2, <1>8, <1>10, Deliver DEF m
<1>12. Len(work') + 1 = Len(work) /\ (Describable' <=> Describable)
  BY <1>1, <1>2 DEF Describable, Undescribed
<1>13. /\ Describable' => Clean(work', newest, h2, b2)
       /\ Describable' /\ data_mode => Told(work', newest, h2, Len(work') + 1, activeChannels)
  BY <1>8, <1>11, <1>12
<1> QED BY <1>1, <1>10, <1>11, <1>13 DEF BrowserInv, ToldActive, h2, b2

LEMMA BrowserStep == IInv /\ SocketInv' /\ [Next]_vars => BrowserInv'
<1> SUFFICES ASSUME IInv, SocketInv', [Next]_vars PROVE BrowserInv'
  OBVIOUS
<1>0. /\ session \in [Sockets -> Sessions] /\ visits \in 0..MaxVisits /\ newest \in 0..MaxVisits
      /\ greeting \in Lists /\ activeChannels \in Lists /\ MaxVisits \in Nat /\ BrowserInv
  BY WebServerAssumption DEF IInv, WebTypeOK, Sessions
<1>1. CASE AsyncSend
  BY <1>1, BrowserDeliver
<1>2. ASSUME NEW fd \in Sockets, Accept(fd) PROVE BrowserInv'
  <2>1. NewestOpen' => session'[global_fd] = session[global_fd]
    <3>1. CASE global_fd = fd
      <4>1. session'[global_fd].visit = visits + 1
        <5>1. visits + 1 \in 0..MaxVisits
          BY <1>0, <1>2 DEF Accept
        <5> QED BY <1>0, <1>2, <3>1, <5>1, NoVisitType DEF Accept
      <4>2. newest # visits + 1
        BY <1>0 DEF IInv, SocketInv
      <4> QED BY <1>2, <4>1, <4>2 DEF Accept, NewestOpen, targetVars
    <3>2. CASE global_fd # fd
      BY <1>2, <3>2 DEF Accept
    <3> QED BY <3>1, <3>2
  <2> QED BY <1>0, <1>2, <2>1, BrowserSame
          DEF Accept, Describable, Undescribed, targetVars, listVars, fateVars
<1>3. ASSUME NEW fd \in Sockets, Close(fd) PROVE BrowserInv'
  <2>1. NewestOpen' => session'[global_fd] = session[global_fd]
    <3>1. CASE global_fd = fd
      <4>1. session'[global_fd].visit = 0
        BY <1>0, <1>3, <3>1, NoVisitType DEF Close, NoVisit
      <4> QED BY <1>3, <4>1 DEF Close, NewestOpen, targetVars
    <3>2. CASE global_fd # fd
      BY <1>3, <3>2 DEF Close
    <3> QED BY <3>1, <3>2
  <2> QED BY <1>0, <1>3, <2>1, BrowserSame
          DEF Close, Describable, Undescribed, targetVars, listVars, fateVars
<1>4. ASSUME NEW fd \in Sockets, Handshake(fd) PROVE BrowserInv'
  <2>1. /\ global_fd' = fd /\ newest' = session[fd].visit /\ hpc' = "snapshot" /\ work' = work
        /\ ~session[fd].ws
    BY <1>4 DEF Handshake
  <2>2. session'[fd] = [session[fd] EXCEPT !.ws = TRUE]
    BY <1>0, <1>4 DEF Handshake
  <2>3. session'[fd].behind = 0
    BY <1>0, <2>1, <2>2 DEF IInv, SocketInv, Sessions
  <2>4. \A i \in DOMAIN work : work[i].to # newest'
    BY <2>1 DEF IInv, SocketInv
  <2>5. Steady(work', newest', session'[fd].heard, 0)
    BY <2>1, <2>4, NothingQueued
  <2>6. ~Describable'
    BY <2>1 DEF Describable
  <2> QED BY <2>1, <2>3, <2>5, <2>6 DEF BrowserInv
<1>5. CASE Greet
  <2>1. QueueFull => ~Describable'
    BY <1>5 DEF Greet, Describable, Undescribed
  <2>2. Describable' /\ data_mode' => greeting = activeChannels
    BY <1>5 DEF Greet, Describable, Undescribed, IInv, GreetInv, listVars
  <2> QED BY <1>0, <1>5, <2>1, <2>2, BrowserSend DEF Greet, socketVars, targetVars, listVars
<1>6. CASE OnData
  <2>1. ppc' = IF data_mode THEN "idle" ELSE "advertise"
    BY <1>6 DEF OnData, FirstData
  <2> QED BY <1>0, <1>6, <2>1, BrowserSend DEF OnData, socketVars, targetVars, fateVars
<1>7. CASE Advertise
  <2>1. QueueFull => ~Describable'
    BY <1>7 DEF Advertise, Describable, Undescribed
  <2> QED BY <1>0, <1>7, <2>1, BrowserSend DEF Advertise, socketVars, targetVars, listVars
<1>8. CASE Snapshot
  BY <1>0, <1>8, BrowserSame DEF Snapshot, Describable, socketVars, targetVars
<1>9. CASE OnBroadcast
  BY <1>0, <1>9, BrowserSame
  DEF OnBroadcast, LeaveDataMode, Describable, Undescribed, socketVars, targetVars, fateVars
<1>10. CASE UNCHANGED <<session, global_fd, newest, work, hpc, lost, overtaken, ppc, data_mode,
                        activeChannels>>
  BY <1>0, <1>10, BrowserSame DEF Describable, Undescribed
<1> QED BY <1>1, <1>2, <1>3, <1>4, <1>5, <1>6, <1>7, <1>8, <1>9, <1>10
        DEF Next, HttpTask, HttpStep, PacketTask, Get, ServerStart, Frame, TargetStays,
            vars, socketVars, targetVars, listVars, fateVars

LEMMA IInvInit == Init => IInv
<1> SUFFICES ASSUME Init PROVE IInv
  OBVIOUS
<1>1. GreetInv /\ BrowserInv
  BY DEF Init, GreetInv, BrowserInv, NewestOpen
<1> QED BY <1>1, TypeInit, SocketInit DEF IInv

LEMMA IInvStep == IInv /\ [Next]_vars => IInv'
BY TypeStep, SocketStep, GreetStep, BrowserStep DEF IInv

LEMMA IInvHolds == Spec => []IInv
BY IInvInit, IInvStep, PTL DEF Spec

-----------------------------------------------------------------------------
(* What the browsers may rely on. *)

\* Type correctness, the bound on the work queue included, and no message is ever
\* addressed to a socket the server does not have.
THEOREM WebTypeCorrect == Spec => []WebTypeOK
<1>1. IInv => WebTypeOK
  BY DEF IInv
<1> QED BY <1>1, IInvHolds, PTL

\* ws_async_send reaches another browser than send_string_to_ws meant only when that one
\* is gone, and nothing but a newer handshake or its own end takes the stream away from
\* the newest browser.
THEOREM OnlyClosedReplaced == Spec => []OnlyClosedIsReplaced
<1>1. IInv => OnlyClosedIsReplaced
  BY DEF IInv, SocketInv, OnlyClosedIsReplaced, Open
<1> QED BY <1>1, IInvHolds, PTL

\* While the data callback streams, the list of channels the newest browser has, or has
\* queued for it, is the one the data belongs to, at most one message excepted.
THEOREM BrowserIsDescribed == Spec => []Described
<1>1. IInv => Described
  <2> SUFFICES ASSUME IInv, newest # 0, Open(newest), hpc = "idle", ~Undescribed
               PROVE  /\ data_mode /\ ppc = "idle" => LastTold(activeChannels)
                      /\ session[global_fd].behind <= 1
    BY DEF Described
  <2> DEFINE h == session[global_fd].heard
             l == Len(work)
  <2>1. NewestOpen
    BY DEF NewestOpen, Open, IInv, SocketInv
  <2>2. session[global_fd].behind <= 1
    BY <2>1 DEF IInv, BrowserInv
  <2>3. ASSUME data_mode, ppc = "idle" PROVE LastTold(activeChannels)
    <3>1. Told(work, newest, h, l + 1, activeChannels)
      BY <2>1, <2>3 DEF IInv, BrowserInv, ToldActive, Describable
    <3>2. DOMAIN work = 1..l /\ l \in Nat
      BY LenProperties DEF IInv, WebTypeOK
    <3> HIDE DEF h, l
    <3>3. \A k \in DOMAIN work : IsList(work[k], newest) <=> k \in Advertised
      BY DEF IsList, Advertised
    <3>4. Advertised \subseteq DOMAIN work
      BY DEF Advertised
    <3>5. CASE h = activeChannels /\ ~ListBetween(work, newest, 0, l + 1)
      <4>1. Advertised = {}
        BY <3>2, <3>3, <3>4, <3>5 DEF ListBetween
      <4> QED BY <3>5, <4>1 DEF LastTold, h
    <3>6. CASE \E k \in DOMAIN work : /\ k < l + 1 /\ IsList(work[k], newest)
                                      /\ work[k].list = activeChannels
                                      /\ ~ListBetween(work, newest, k, l + 1)
      <4>1. PICK k \in DOMAIN work : /\ IsList(work[k], newest) /\ work[k].list = activeChannels
                                     /\ ~ListBetween(work, newest, k, l + 1)
        BY <3>6
      <4>2. \A j \in Advertised : j <= k
        BY <3>2, <3>3, <3>4, <4>1 DEF ListBetween
      <4> QED BY <3>3, <4>1, <4>2 DEF LastTold
    <3> QED BY <3>1, <3>5, <3>6 DEF Told
  <2> QED BY <2>2, <2>3
<1> QED BY <1>1, IInvHolds, PTL
=============================================================================
