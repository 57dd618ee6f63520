-------------------------- MODULE YamlSourceProofs --------------------------
(***************************************************************************)
(* YamlSource for every set of keys, scalars and handles and any values    *)
(* that are saved: no part of a document shows twice, sources stay in it,  *)
(* a jump past the end of a list leaves it what it was, and what is saved  *)
(* is there.                                                               *)
(***************************************************************************)
EXTENDS YamlSource, FiniteSetTheorems, WellFoundedInduction, TLAPS

USE DEF Root

Ids(h) == 1..Newest(h)

Maps  == UNION {[S -> Nat] : S \in SUBSET (Keys \cup Nat)}
Datum == {Undefined, Null} \cup {Scalar(v) : v \in Scalars} \cup {List(s) : s \in Seq(Nat)}
            \cup {Map(f) : f \in Maps}

\* Node n is in the i-th data, at r.
Placed(h, i, r, n) == i \in 1..Len(h.data) /\ r \in DOMAIN Within(h.data[i]) /\ Within(h.data[i])[r] = n
IsPlaced(h, n)     == n = Root \/ \E i, r : Placed(h, i, r, n)

Typed(h) ==
    /\ h \in [ptr: Seq(Nat), data: Seq(Datum)]
    /\ Root \in Ids(h)
    /\ \A n \in Ids(h) : h.ptr[n] \in 1..Len(h.data)

\* A node is in one place, after the nodes with the data it is in were made, and
\* no other node that is in a place has its data. Nodes that sources were left with
\* are in no place and may share data.
HeapOK(h) ==
    /\ Typed(h)
    /\ \A i, r, n : Placed(h, i, r, n) => n \in Ids(h) /\ n # Root
    /\ \A i, r, j, q, n : Placed(h, i, r, n) /\ Placed(h, j, q, n) => i = j /\ r = q
    /\ \A n, m \in Ids(h) : IsPlaced(h, n) /\ IsPlaced(h, m) /\ h.ptr[n] = h.ptr[m] => n = m
    /\ \A m \in Ids(h) : \A r, n : Placed(h, h.ptr[m], r, n) => m < n

-----------------------------------------------------------------------------
(***************************************************************************)
(* Data                                                                    *)
(***************************************************************************)
LEMMA DatumIs ==
    ASSUME NEW d \in Datum
    PROVE  /\ d.t \in {"undefined", "null", "scalar", "list", "map"}
           /\ d.t = "list" => d = List(d.of) /\ d.of \in Seq(Nat)
           /\ d.t = "map"  => d = Map(d.of) /\ d.of \in Maps
           /\ d.t \in {"list", "map"} => Within(d) = d.of
           /\ d.t \notin {"list", "map"} => Within(d) = <<>>
  BY DEF Datum, Undefined, Null, Scalar, List, Map, Within

LEMMA DataAre ==
    /\ \A s \in Seq(Nat) : /\ List(s) \in Datum /\ List(s).t = "list" /\ List(s).of = s
                           /\ Within(List(s)) = s
    /\ \A f \in Maps : Map(f) \in Datum /\ Map(f).t = "map" /\ Map(f).of = f /\ Within(Map(f)) = f
    /\ \A v \in Scalars : Scalar(v) \in Datum /\ Within(Scalar(v)) = <<>>
    /\ Undefined \in Datum /\ Within(Undefined) = <<>>
    /\ Null \in Datum /\ Within(Null) = <<>> /\ Null # Undefined
  BY DEF Datum, Undefined, Null, Scalar, List, Map, Within

LEMMA EmptyIs ==
    ASSUME NEW t \in {"list", "map"}
    PROVE  Empty(t) \in Datum /\ Empty(t).t = t /\ DOMAIN Within(Empty(t)) = {}
<1> DEFINE f == [k \in {} |-> Root]
<1>1. f \in Maps /\ DOMAIN f = {}
  <2>1. f \in [{} -> Nat] /\ {} \in SUBSET (Keys \cup Nat)
    OBVIOUS
  <2> QED BY <2>1 DEF Maps
<1>2. <<>> \in Seq(Nat) /\ DOMAIN <<>> = {}
  OBVIOUS
<1> HIDE DEF f
<1>3. Empty(t) = IF t = "map" THEN Map(f) ELSE List(<<>>)
  BY DEF Empty, f
<1> QED BY <1>1, <1>2, <1>3, DataAre

-----------------------------------------------------------------------------
(***************************************************************************)
(* Assigning data, and new nodes                                           *)
(***************************************************************************)

\* A node that no data has and whose data no other node has.
Fresh(h, m) ==
    /\ m \in Ids(h) /\ m # Root
    /\ \A i, r : ~Placed(h, i, r, m)
    /\ \A k \in Ids(h) : h.ptr[k] = h.ptr[m] => k = m

\* The data that node n may be assigned: what it has is in one place, and was in
\* what n had, or is fresh.
Assignable(h, n, d) ==
    /\ d \in Datum
    /\ \A r, q \in DOMAIN Within(d) : Within(d)[r] = Within(d)[q] => r = q
    /\ \A r \in DOMAIN Within(d) :
          \/ \E q : Placed(h, h.ptr[n], q, Within(d)[r])
          \/ Fresh(h, Within(d)[r]) /\ \A k \in Ids(h) : h.ptr[k] = h.ptr[n] => k < Within(d)[r]

LEMMA AssignDataIs ==
    ASSUME NEW h, Typed(h), NEW n \in Ids(h), NEW d \in Datum
    PROVE  LET g == AssignData(h, n, d)
           IN  /\ Typed(g) /\ g.ptr = h.ptr /\ Len(g.data) = Len(h.data) /\ Data(g, n) = d
               /\ \A i \in 1..Len(h.data) : g.data[i] = IF i = h.ptr[n] THEN d ELSE h.data[i]
<1> DEFINE g == AssignData(h, n, d)
           s == [h.data EXCEPT ![h.ptr[n]] = d]
<1>1. h.data \in Seq(Datum) /\ h.ptr \in Seq(Nat) /\ h.ptr[n] \in 1..Len(h.data)
  BY DEF Typed
<1>2. /\ s \in Seq(Datum) /\ Len(s) = Len(h.data)
      /\ \A i \in 1..Len(h.data) : s[i] = IF i = h.ptr[n] THEN d ELSE h.data[i]
  BY <1>1
<1>3. g = [h EXCEPT !.data = s]
  BY DEF AssignData
<1> HIDE DEF s
<1>4. g.ptr = h.ptr /\ g.data = s /\ g \in [ptr: Seq(Nat), data: Seq(Datum)]
  BY <1>2, <1>3 DEF Typed
<1> HIDE DEF g
<1>5. Data(g, n) = d
  BY <1>1, <1>2, <1>4 DEF Data
<1>6. Typed(g)
  BY <1>2, <1>4 DEF Typed, Ids, Newest
<1> QED BY <1>2, <1>4, <1>5, <1>6 DEF g

LEMMA AssignDataOK ==
    ASSUME NEW h, HeapOK(h), NEW n \in Ids(h), NEW d, Assignable(h, n, d)
    PROVE  HeapOK(AssignData(h, n, d))
<1> DEFINE g == AssignData(h, n, d)
           p == h.ptr[n]
           of == Within(d)
<1>1. /\ Typed(g) /\ g.ptr = h.ptr /\ Len(g.data) = Len(h.data) /\ p \in 1..Len(h.data)
      /\ \A i \in 1..Len(h.data) : g.data[i] = IF i = p THEN d ELSE h.data[i]
  <2>1. Typed(h) /\ d \in Datum
    BY DEF HeapOK, Assignable
  <2>2. h.ptr[n] \in 1..Len(h.data)
    BY <2>1 DEF Typed
  <2> QED BY <2>1, <2>2, AssignDataIs
<1>2. \A m : m \in Ids(g) <=> m \in Ids(h)
  BY <1>1 DEF Ids, Newest
<1>a. /\ \A r, q \in DOMAIN of : of[r] = of[q] => r = q
      /\ \A r \in DOMAIN of :
            \/ \E q : Placed(h, p, q, of[r])
            \/ Fresh(h, of[r]) /\ \A k \in Ids(h) : h.ptr[k] = p => k < of[r]
  BY DEF Assignable
<1> HIDE DEF g, p, of
<1>3. ASSUME NEW i, NEW r, NEW m
      PROVE  Placed(g, i, r, m) <=> \/ i # p /\ Placed(h, i, r, m)
                                    \/ i = p /\ r \in DOMAIN of /\ of[r] = m
  BY <1>1 DEF Placed, of
<1>4. ASSUME NEW i, NEW r, NEW m, Placed(g, i, r, m)
      PROVE  \/ \E q : Placed(h, i, q, m)
             \/ Fresh(h, m) /\ i = p /\ \A k \in Ids(h) : h.ptr[k] = p => k < m
  BY <1>3, <1>4, <1>a
<1>5. ASSUME NEW i, NEW r, NEW m, Placed(g, i, r, m) PROVE m \in Ids(g) /\ m # Root
  BY <1>2, <1>4, <1>5 DEF HeapOK, Fresh
<1>6. ASSUME NEW i, NEW r, NEW j, NEW q, NEW m, Placed(g, i, r, m), Placed(g, j, q, m)
      PROVE  i = j /\ r = q
  <2>1. CASE i = p /\ j = p
    BY <1>3, <1>6, <1>a, <2>1
  <2>2. CASE i # p
    <3>1. Placed(h, i, r, m) /\ ~Fresh(h, m)
      BY <1>3, <1>6, <2>2 DEF Fresh
    <3>2. \E x : Placed(h, j, x, m)
      BY <1>4, <1>6, <3>1
    <3>3. i = j
      BY <3>1, <3>2 DEF HeapOK
    <3> QED BY <1>3, <1>6, <2>2, <3>1, <3>3 DEF HeapOK
  <2>3. CASE j # p
    <3>1. Placed(h, j, q, m) /\ ~Fresh(h, m)
      BY <1>3, <1>6, <2>3 DEF Fresh
    <3>2. \E x : Placed(h, i, x, m)
      BY <1>4, <1>6, <3>1
    <3>3. i = j
      BY <3>1, <3>2 DEF HeapOK
    <3> QED BY <1>3, <1>6, <2>3, <3>1, <3>3 DEF HeapOK
  <2> QED BY <2>1, <2>2, <2>3
<1>7. ASSUME NEW m \in Ids(g), NEW k \in Ids(g), IsPlaced(g, m), IsPlaced(g, k), g.ptr[m] = g.ptr[k]
      PROVE  m = k
  <2>1. \A x : IsPlaced(g, x) => IsPlaced(h, x) \/ Fresh(h, x)
    BY <1>4 DEF IsPlaced
  <2> QED BY <1>1, <1>2, <1>7, <2>1 DEF HeapOK, Fresh
<1>8. ASSUME NEW m \in Ids(g), NEW r, NEW k, Placed(g, g.ptr[m], r, k)
      PROVE  m < k
  BY <1>1, <1>2, <1>4, <1>8 DEF HeapOK
<1> QED BY <1>1, <1>5, <1>6, <1>7, <1>8 DEF HeapOK, g

\* k new nodes, each with new data that has nothing in it.
More(h, g, k) ==
    /\ g \in [ptr: Seq(Nat), data: Seq(Datum)]
    /\ Len(g.ptr) = Len(h.ptr) + k /\ Len(g.data) = Len(h.data) + k
    /\ \A i \in 1..Len(h.ptr) : g.ptr[i] = h.ptr[i]
    /\ \A i \in 1..Len(h.data) : g.data[i] = h.data[i]
    /\ \A j \in 1..k : /\ g.ptr[Len(h.ptr) + j] = Len(h.data) + j
                       /\ Within(g.data[Len(h.data) + j]) = <<>>

LEMMA MoreOK ==
    ASSUME NEW h, HeapOK(h), NEW k \in Nat, NEW g, More(h, g, k)
    PROVE  HeapOK(g) /\ \A j \in 1..k : Fresh(g, Len(h.ptr) + j)
<1> DEFINE L == Len(h.ptr)
           D == Len(h.data)
<1>1. /\ L \in Nat /\ D \in Nat /\ Root \in 1..L /\ \A n \in 1..L : h.ptr[n] \in 1..D
      /\ \A n : n \in Ids(h) <=> n \in 1..L
      /\ \A n : n \in Ids(g) <=> n \in 1..(L + k)
  BY DEF HeapOK, Typed, Ids, Newest, More
<1>2. /\ Len(g.ptr) = L + k /\ Len(g.data) = D + k
      /\ \A i \in 1..L : g.ptr[i] = h.ptr[i]
      /\ \A i \in 1..D : g.data[i] = h.data[i]
      /\ \A j \in 1..k : g.ptr[L + j] = D + j /\ Within(g.data[D + j]) = <<>>
  BY DEF More
<1> HIDE DEF L, D
<1>3. \A i \in 1..(L + k) : i \in 1..L \/ (i - L \in 1..k /\ i = L + (i - L))
  BY <1>1
<1>4. \A i \in 1..(D + k) : i \in 1..D \/ (i - D \in 1..k /\ i = D + (i - D))
  BY <1>1
<1>5. \A n \in 1..L : g.ptr[n] = h.ptr[n] /\ g.ptr[n] \in 1..D
  BY <1>1, <1>2
<1>6. \A n \in 1..(L + k) : n \notin 1..L => g.ptr[n] = n - L + D /\ n - L \in 1..k
  <2> SUFFICES ASSUME NEW n \in 1..(L + k), n \notin 1..L
               PROVE  g.ptr[n] = n - L + D /\ n - L \in 1..k
    OBVIOUS
  <2>1. n - L \in 1..k /\ n = L + (n - L)
    BY <1>3
  <2>2. g.ptr[L + (n - L)] = D + (n - L)
    BY <1>2, <2>1
  <2> QED BY <1>1, <2>1, <2>2
<1>7. Typed(g)
  <2>1. \A n \in 1..(L + k) : g.ptr[n] \in 1..(D + k)
    <3> SUFFICES ASSUME NEW n \in 1..(L + k) PROVE g.ptr[n] \in 1..(D + k)
      OBVIOUS
    <3>1. CASE n \in 1..L
      <4>1. g.ptr[n] \in 1..D
        BY <1>5, <3>1
      <4> QED BY <1>1, <4>1
    <3>2. CASE n \notin 1..L
      <4>1. g.ptr[n] = n - L + D /\ n - L \in 1..k
        BY <1>6, <3>2
      <4> QED BY <1>1, <4>1
    <3> QED BY <3>1, <3>2
  <2>2. Root \in 1..(L + k)
    BY <1>1
  <2> QED BY <1>1, <1>2, <2>1, <2>2 DEF Typed, More
<1>8. \A i, r, m : Placed(g, i, r, m) <=> Placed(h, i, r, m)
  <2> SUFFICES ASSUME NEW i, NEW r, NEW m PROVE Placed(g, i, r, m) <=> Placed(h, i, r, m)
    OBVIOUS
  <2>1. CASE i \in 1..D
    <3>1. i \in 1..(D + k)
      BY <1>1, <2>1
    <3>2. g.data[i] = h.data[i]
      BY <1>2, <2>1
    <3> QED BY <1>2, <2>1, <3>1, <3>2 DEF Placed, D
  <2>2. CASE i \in 1..(D + k) /\ i \notin 1..D
    <3>1. i - D \in 1..k /\ i = D + (i - D)
      BY <1>4, <2>2
    <3>2. Within(g.data[i]) = <<>>
      BY <1>2, <3>1
    <3> QED BY <2>2, <3>2 DEF Placed, D
  <2>3. CASE i \notin 1..(D + k)
    <3>1. i \notin 1..D
      BY <1>1, <2>3
    <3> QED BY <1>2, <2>3, <3>1 DEF Placed, D
  <2> QED BY <2>1, <2>2, <2>3
<1>9. \A n : IsPlaced(g, n) <=> IsPlaced(h, n)
  BY <1>8 DEF IsPlaced
<1>10. \A n : IsPlaced(h, n) => n \in 1..L
  BY <1>1 DEF IsPlaced, HeapOK
<1>11. HeapOK(g)
  <2>1. \A i, r, n : Placed(g, i, r, n) => n \in Ids(g) /\ n # Root
    BY <1>1, <1>8 DEF HeapOK
  <2>2. \A i, r, j, q, n : Placed(g, i, r, n) /\ Placed(g, j, q, n) => i = j /\ r = q
    BY <1>8 DEF HeapOK
  <2>3. \A n, m \in Ids(g) : IsPlaced(g, n) /\ IsPlaced(g, m) /\ g.ptr[n] = g.ptr[m] => n = m
    BY <1>1, <1>5, <1>9, <1>10 DEF HeapOK
  <2>4. ASSUME NEW m \in Ids(g), NEW r, NEW n, Placed(g, g.ptr[m], r, n)
        PROVE  m < n
    <3>1. Placed(h, g.ptr[m], r, n)
      BY <1>8, <2>4
    <3>2. g.ptr[m] \in 1..D
      BY <3>1 DEF Placed, D
    <3>3. m \in 1..L
      <4> SUFFICES ASSUME m \notin 1..L PROVE FALSE
        OBVIOUS
      <4>1. g.ptr[m] = m - L + D /\ m - L \in 1..k
        BY <1>1, <1>6
      <4> QED BY <1>1, <3>2, <4>1
    <3> QED BY <1>1, <1>5, <3>1, <3>3 DEF HeapOK
  <2> QED BY <1>7, <2>1, <2>2, <2>3, <2>4 DEF HeapOK
<1>12. ASSUME NEW j \in 1..k PROVE Fresh(g, L + j)
  <2>1. L + j \in 1..(L + k) /\ L + j \notin 1..L /\ L + j # Root
    BY <1>1
  <2>2. \A i, r : ~Placed(g, i, r, L + j)
    BY <1>8, <1>10, <2>1 DEF IsPlaced
  <2>3. ASSUME NEW n \in 1..(L + k), g.ptr[n] = g.ptr[L + j] PROVE n = L + j
    <3>1. g.ptr[L + j] = D + j
      BY <1>2
    <3>2. n \notin 1..L
      <4> SUFFICES ASSUME n \in 1..L PROVE FALSE
        OBVIOUS
      <4>1. g.ptr[n] \in 1..D
        BY <1>5
      <4> QED BY <1>1, <2>3, <3>1, <4>1
    <3>3. g.ptr[n] = n - L + D /\ n - L \in 1..k
      BY <1>6, <3>2
    <3> QED BY <1>1, <2>3, <3>1, <3>3
  <2> QED BY <1>1, <2>1, <2>2, <2>3 DEF Fresh
<1> QED BY <1>11, <1>12 DEF L

\* One new node.
LEMMA NewIs ==
    ASSUME NEW h, HeapOK(h), NEW d \in Datum, Within(d) = <<>>
    PROVE  LET g == New(h, d)
           IN  /\ More(h, g, 1) /\ HeapOK(g) /\ Newest(g) = Newest(h) + 1 /\ Newest(h) \in Nat
               /\ Fresh(g, Newest(g)) /\ g.ptr[Newest(g)] = Len(h.data) + 1
               /\ Data(g, Newest(g)) = d
<1> DEFINE g == New(h, d)
           P == Append(h.ptr, Len(h.data) + 1)
           S == Append(h.data, d)
<1>1. h.ptr \in Seq(Nat) /\ h.data \in Seq(Datum) /\ Len(h.data) \in Nat /\ Len(h.ptr) \in Nat
  BY DEF HeapOK, Typed
<1>2. /\ P \in Seq(Nat) /\ Len(P) = Len(h.ptr) + 1 /\ P[Len(h.ptr) + 1] = Len(h.data) + 1
      /\ \A i \in 1..Len(h.ptr) : P[i] = h.ptr[i]
  BY <1>1
<1>3. /\ S \in Seq(Datum) /\ Len(S) = Len(h.data) + 1 /\ S[Len(h.data) + 1] = d
      /\ \A i \in 1..Len(h.data) : S[i] = h.data[i]
  BY <1>1
<1> HIDE DEF P, S
<1>4. g = [ptr |-> P, data |-> S]
  BY DEF New, P, S
<1>5. g.ptr = P /\ g.data = S /\ g \in [ptr: Seq(Nat), data: Seq(Datum)]
  BY <1>2, <1>3, <1>4
<1> HIDE DEF g
<1>6. \A j \in 1..1 : j = 1
  OBVIOUS
<1>7. More(h, g, 1)
  BY <1>2, <1>3, <1>5, <1>6 DEF More
<1>8. HeapOK(g) /\ Fresh(g, Len(h.ptr) + 1)
  BY <1>7, MoreOK
<1> QED BY <1>1, <1>2, <1>3, <1>5, <1>7, <1>8 DEF Newest, Data, g

\* Of what there was, only the data that node n has is another.
Edited(h, g, n) ==
    /\ Newest(h) \in Nat /\ Newest(g) \in Nat /\ Newest(h) <= Newest(g)
    /\ Len(h.data) \in Nat /\ Len(g.data) \in Nat /\ Len(h.data) <= Len(g.data)
    /\ \A m \in Ids(h) : g.ptr[m] = h.ptr[m]
    /\ \A i \in 1..Len(h.data) : i # h.ptr[n] => g.data[i] = h.data[i]

LEMMA EditedTwice ==
    ASSUME NEW h, NEW g, NEW f, NEW n \in Ids(h), Edited(h, g, n), Edited(g, f, n)
    PROVE  Edited(h, f, n)
<1>1. \A m \in Ids(h) : m \in Ids(g)
  BY DEF Edited, Ids
<1>2. \A i \in 1..Len(h.data) : i \in 1..Len(g.data)
  BY DEF Edited
<1> QED BY <1>1, <1>2 DEF Edited

\* A node gets, beside what it has, some of k new nodes.
Extends(h, k, n, d) ==
    /\ d \in Datum
    /\ \A r \in DOMAIN Within(d) :
          IF r \in DOMAIN Within(Data(h, n)) THEN Within(d)[r] = Within(Data(h, n))[r]
          ELSE \E j \in 1..k : Within(d)[r] = Newest(h) + j
    /\ \A r, q \in DOMAIN Within(d) :
          r \notin DOMAIN Within(Data(h, n)) /\ q \notin DOMAIN Within(Data(h, n))
             /\ Within(d)[r] = Within(d)[q] => r = q

LEMMA ExtendedOK ==
    ASSUME NEW h, HeapOK(h), NEW k \in Nat, NEW g, More(h, g, k), NEW n \in Ids(h),
           NEW d, Extends(h, k, n, d)
    PROVE  LET f == AssignData(g, n, d)
           IN  HeapOK(f) /\ Edited(h, f, n) /\ Data(f, n) = d
<1> DEFINE f == AssignData(g, n, d)
           of == Within(d)
           was == Within(Data(h, n))
           L == Newest(h)
<1>1. HeapOK(g) /\ \A j \in 1..k : Fresh(g, L + j)
  BY MoreOK DEF Newest
<1>2. /\ L \in Nat /\ Newest(g) = L + k /\ n \in Ids(g) /\ g.ptr[n] = h.ptr[n]
      /\ h.ptr[n] \in 1..Len(h.data) /\ g.data[h.ptr[n]] = h.data[h.ptr[n]]
      /\ Len(h.data) \in Nat /\ Len(g.data) = Len(h.data) + k /\ h.ptr[n] \in 1..Len(g.data)
      /\ \A m \in Ids(h) : g.ptr[m] = h.ptr[m]
  <2>1. /\ L \in Nat /\ n \in 1..L /\ h.ptr[n] \in 1..Len(h.data) /\ Len(h.data) \in Nat
        /\ \A m : m \in Ids(h) <=> m \in 1..Len(h.ptr)
    BY DEF HeapOK, Typed, Ids, Newest
  <2>2. Newest(g) = L + k /\ Len(g.data) = Len(h.data) + k
    BY DEF More, Newest
  <2>3. /\ g.data[h.ptr[n]] = h.data[h.ptr[n]] /\ \A m \in Ids(h) : g.ptr[m] = h.ptr[m]
    BY <2>1 DEF More
  <2>4. n \in Ids(g) /\ h.ptr[n] \in 1..Len(g.data)
    BY <2>1, <2>2 DEF Ids
  <2> QED BY <2>1, <2>2, <2>3, <2>4
<1>3. \A r \in DOMAIN was : Placed(g, g.ptr[n], r, was[r])
  BY <1>2 DEF Placed, Data
<1>4. /\ d \in Datum
      /\ \A r \in DOMAIN of : IF r \in DOMAIN was THEN of[r] = was[r]
                              ELSE \E j \in 1..k : of[r] = L + j
      /\ \A r, q \in DOMAIN of : r \notin DOMAIN was /\ q \notin DOMAIN was /\ of[r] = of[q] => r = q
  BY DEF Extends
<1> HIDE DEF of, was, L
<1>5. \A r \in DOMAIN was : \A j \in 1..k : was[r] # L + j
  BY <1>1, <1>3 DEF Fresh
<1>6. ASSUME NEW r \in DOMAIN of, NEW q \in DOMAIN of, of[r] = of[q] PROVE r = q
  <2>1. CASE r \in DOMAIN was /\ q \in DOMAIN was
    <3>1. Placed(g, g.ptr[n], r, of[r]) /\ Placed(g, g.ptr[n], q, of[r])
      BY <1>3, <1>4, <1>6, <2>1
    <3> QED BY <1>1, <3>1 DEF HeapOK
  <2>2. CASE r \notin DOMAIN was /\ q \notin DOMAIN was
    BY <1>4, <1>6, <2>2
  <2>3. CASE r \in DOMAIN was /\ q \notin DOMAIN was
    BY <1>4, <1>5, <1>6, <2>3
  <2>4. CASE r \notin DOMAIN was /\ q \in DOMAIN was
    BY <1>4, <1>5, <1>6, <2>4
  <2> QED BY <2>1, <2>2, <2>3, <2>4
<1>7. ASSUME NEW j \in 1..k, NEW m \in Ids(g), g.ptr[m] = g.ptr[n] PROVE m < L + j
  <2>1. m \in Ids(h)
    <3> SUFFICES ASSUME m \notin Ids(h) PROVE FALSE
      OBVIOUS
    <3>1. m - L \in 1..k /\ m = L + (m - L)
      <4>1. m \in 1..(L + k) /\ m \notin 1..L /\ L \in Nat
        BY <1>2 DEF Ids, L
      <4> HIDE DEF L
      <4>2. m \in Int /\ m >= 1 /\ m <= L + k /\ ~(m <= L)
        BY <4>1
      <4> QED BY <4>1, <4>2
    <3>2. Fresh(g, m)
      <4>1. Fresh(g, L + (m - L))
        BY <1>1, <3>1
      <4> QED BY <3>1, <4>1
    <3>3. n = m
      BY <1>2, <1>7, <3>2 DEF Fresh
    <3> QED BY <3>3
  <2> QED BY <1>2, <2>1 DEF Ids, L
<1>8. Assignable(g, n, d)
  <2>1. ASSUME NEW r \in DOMAIN of
        PROVE  \/ \E q : Placed(g, g.ptr[n], q, of[r])
               \/ Fresh(g, of[r]) /\ \A m \in Ids(g) : g.ptr[m] = g.ptr[n] => m < of[r]
    <3>1. CASE r \in DOMAIN was
      BY <1>3, <1>4, <3>1
    <3>2. CASE r \notin DOMAIN was
      <4>1. PICK j \in 1..k : of[r] = L + j
        BY <1>4, <3>2
      <4> QED BY <1>1, <1>7, <4>1
    <3> QED BY <3>1, <3>2
  <2> QED BY <1>4, <1>6, <2>1 DEF Assignable, of
<1>9. HeapOK(f)
  BY <1>1, <1>2, <1>8, AssignDataOK
<1>10. /\ f.ptr = g.ptr /\ Len(f.data) = Len(g.data) /\ Data(f, n) = d
       /\ \A i \in 1..Len(g.data) : f.data[i] = IF i = g.ptr[n] THEN d ELSE g.data[i]
  <2>1. Typed(g)
    BY <1>1 DEF HeapOK
  <2> QED BY <1>2, <1>4, <2>1, AssignDataIs
<1> HIDE DEF f
<1>11. Edited(h, f, n)
  <2>1. Newest(f) = L + k
    BY <1>2, <1>10 DEF Newest
  <2>2. \A i \in 1..Len(h.data) : i \in 1..Len(g.data) /\ g.data[i] = h.data[i]
    BY <1>2 DEF More
  <2> QED BY <1>2, <1>10, <2>1, <2>2 DEF Edited, L
<1> QED BY <1>9, <1>10, <1>11 DEF f

-----------------------------------------------------------------------------
(***************************************************************************)
(* Steps                                                                   *)
(***************************************************************************)
LEMMA NodesAre ==
    ASSUME NEW h, HeapOK(h), NEW n \in Ids(h)
    PROVE  /\ Data(h, n) \in Datum /\ h.ptr[n] \in 1..Len(h.data) /\ Newest(h) \in Nat
           /\ Len(h.data) \in Nat /\ n \in Nat
           /\ \A r \in DOMAIN Within(Data(h, n)) : Placed(h, h.ptr[n], r, Within(Data(h, n))[r])
           /\ \A r \in DOMAIN Within(Data(h, n)) : Within(Data(h, n))[r] \in Ids(h)
<1>1. h.data \in Seq(Datum) /\ h.ptr \in Seq(Nat) /\ h.ptr[n] \in 1..Len(h.data)
  BY DEF HeapOK, Typed
<1>2. Data(h, n) \in Datum /\ Newest(h) \in Nat /\ Len(h.data) \in Nat /\ n \in Nat
  BY <1>1 DEF Data, Newest, Ids
<1>3. \A r \in DOMAIN Within(Data(h, n)) : Placed(h, h.ptr[n], r, Within(Data(h, n))[r])
  BY <1>1 DEF Placed, Data
<1> QED BY <1>1, <1>2, <1>3 DEF HeapOK

\* What is below nodes of other data is as it was.
Elsewhere(h, g, n) ==
    \A m \in Ids(h) : m = n \/ h.ptr[m] = h.ptr[n] \/ (g.ptr[m] # g.ptr[n] /\ Data(g, m) = Data(h, m))

LEMMA AssignNodeOK ==
    ASSUME NEW h, HeapOK(h), NEW n \in Ids(h), NEW d \in Datum, DOMAIN Within(d) = {}, Within(d) = <<>>
    PROVE  LET g == AssignNode(h, n, d)
           IN  /\ HeapOK(g) /\ Newest(g) = Newest(h) + 1 /\ Elsewhere(h, g, n)
               /\ g.ptr[n] = g.ptr[Newest(g)] /\ Data(g, n) = d
               /\ \A m \in Ids(h) : m # n => g.ptr[m] = h.ptr[m]
<1> DEFINE made == New(h, d)
           g == AssignNode(h, n, d)
           p == Len(h.data) + 1
           N == Newest(h) + 1
<1>1. /\ More(h, made, 1) /\ HeapOK(made) /\ Newest(made) = N /\ Newest(h) \in Nat
      /\ Fresh(made, N) /\ made.ptr[N] = p /\ Data(made, N) = d
  BY NewIs
<1>2. g = [made EXCEPT !.ptr[n] = p]
  BY <1>1 DEF AssignNode
<1>3. /\ made \in [ptr: Seq(Nat), data: Seq(Datum)] /\ n \in 1..N /\ N \in 1..N /\ n # N
      /\ Len(made.ptr) = N /\ Len(h.data) \in Nat /\ p \in 1..Len(made.data)
  <2>1. n \in 1..Newest(h) /\ Len(h.data) \in Nat /\ Newest(h) \in Nat /\ Len(made.data) = p
    BY NodesAre, <1>1 DEF Ids, More
  <2> QED BY <1>1, <2>1 DEF HeapOK, Typed, Newest
<1> HIDE DEF made, p, N, g
<1>4. /\ g.data = made.data /\ Len(g.ptr) = N
      /\ g \in [ptr: Seq(Nat), data: Seq(Datum)]
      /\ \A m \in 1..N : g.ptr[m] = IF m = n THEN p ELSE made.ptr[m]
  <2> DEFINE q == [made.ptr EXCEPT ![n] = p]
  <2>1. p \in Nat /\ made.ptr \in Seq(Nat)
    BY <1>3
  <2>2. q \in Seq(Nat) /\ Len(q) = N /\ \A m \in 1..N : q[m] = IF m = n THEN p ELSE made.ptr[m]
    BY <1>3, <2>1
  <2>3. g = [made EXCEPT !.ptr = q]
    BY <1>2
  <2> HIDE DEF q
  <2>4. g.data = made.data /\ g.ptr = q /\ g \in [ptr: Seq(Nat), data: Seq(Datum)]
    BY <1>3, <2>2, <2>3
  <2> QED BY <2>2, <2>4
<1>5. \A m : (m \in Ids(g) <=> m \in 1..N) /\ (m \in Ids(made) <=> m \in 1..N)
  BY <1>3, <1>4 DEF Ids, Newest
<1>6. \A i, r, m : Placed(g, i, r, m) <=> Placed(made, i, r, m)
  BY <1>4 DEF Placed
<1>7. \A r, m : ~Placed(made, p, r, m)
  <2>1. made.data[p] = d
    BY <1>1 DEF Data
  <2> QED BY <2>1 DEF Placed
<1>8. \A m \in 1..N : made.ptr[m] = p => m = N
  BY <1>1, <1>5 DEF Fresh
<1>9. ~IsPlaced(made, N)
  BY <1>1 DEF Fresh, IsPlaced
<1>10. HeapOK(g)
  <2>1. Typed(g)
    <3>1. Root \in 1..N /\ \A m \in 1..N : made.ptr[m] \in 1..Len(made.data)
      BY <1>1, <1>5 DEF HeapOK, Typed
    <3> QED BY <1>3, <1>4, <1>5, <3>1 DEF Typed
  <2>2. \A i, r, m : Placed(g, i, r, m) => m \in Ids(g) /\ m # Root
    BY <1>1, <1>5, <1>6 DEF HeapOK
  <2>3. \A i, r, j, q, m : Placed(g, i, r, m) /\ Placed(g, j, q, m) => i = j /\ r = q
    BY <1>1, <1>6 DEF HeapOK
  <2>4. \A k, m \in 1..N : IsPlaced(made, k) /\ IsPlaced(made, m) /\ made.ptr[k] = made.ptr[m] => k = m
    BY <1>1, <1>5 DEF HeapOK
  <2>5. \A m : IsPlaced(g, m) <=> IsPlaced(made, m)
    BY <1>6 DEF IsPlaced
  <2>6. \A k, m \in Ids(g) : IsPlaced(g, k) /\ IsPlaced(g, m) /\ g.ptr[k] = g.ptr[m] => k = m
    BY <1>4, <1>5, <1>8, <1>9, <2>4, <2>5
  <2>7. \A m \in Ids(g) : \A r, k : Placed(g, g.ptr[m], r, k) => m < k
    BY <1>1, <1>4, <1>5, <1>6, <1>7 DEF HeapOK
  <2> QED BY <2>1, <2>2, <2>3, <2>6, <2>7 DEF HeapOK
<1>11. Newest(g) = N /\ g.ptr[n] = p /\ g.ptr[N] = p
  BY <1>1, <1>3, <1>4 DEF Newest
<1>12. Data(g, n) = d
  BY <1>1, <1>4, <1>11 DEF Data
<1>13. Elsewhere(h, g, n) /\ \A m \in Ids(h) : m # n => g.ptr[m] = h.ptr[m]
  <2> SUFFICES ASSUME NEW m \in Ids(h), m # n
               PROVE  g.ptr[m] # g.ptr[n] /\ Data(g, m) = Data(h, m) /\ g.ptr[m] = h.ptr[m]
    BY DEF Elsewhere
  <2>1. h.ptr[m] \in 1..Len(h.data) /\ m \in 1..Newest(h)
    BY NodesAre DEF Ids
  <2>2. m \in 1..N /\ made.ptr[m] = h.ptr[m] /\ made.data[h.ptr[m]] = h.data[h.ptr[m]]
    <3>1. m \in 1..N
      BY <1>1, <2>1 DEF N
    <3>2. /\ \A i \in 1..Newest(h) : made.ptr[i] = h.ptr[i]
          /\ \A i \in 1..Len(h.data) : made.data[i] = h.data[i]
      BY <1>1, Zenon DEF More, Newest
    <3> QED BY <2>1, <3>1, <3>2
  <2>3. g.ptr[m] = h.ptr[m] /\ h.ptr[m] # p
    BY <1>3, <1>4, <2>1, <2>2 DEF p
  <2> QED BY <1>4, <1>11, <2>2, <2>3 DEF Data
<1> QED BY <1>10, <1>11, <1>12, <1>13 DEF g, N

LEMMA ConvertedOK ==
    ASSUME NEW h, HeapOK(h), NEW n \in Ids(h), NEW t \in {"list", "map"}
    PROVE  LET c == Converted(h, n, t)
               g == c.heap
           IN  /\ HeapOK(g) /\ Newest(h) <= Newest(g) /\ Elsewhere(h, g, n)
               /\ n \in Ids(g) /\ c.node \in Ids(g) /\ g.ptr[c.node] = g.ptr[n]
               /\ Data(g, n).t = t
<1> DEFINE c == Converted(h, n, t)
           g == AssignNode(h, n, Empty(t))
<1>1. CASE Data(h, n).t = t
  <2>1. c = [heap |-> h, node |-> n, next |-> n]
    BY <1>1 DEF Converted, Stepped
  <2>2. c.heap = h /\ c.node = n
    BY <2>1
  <2> HIDE DEF c
  <2>3. Elsewhere(h, h, n)
    BY DEF Elsewhere
  <2>4. Newest(h) <= Newest(h)
    BY NodesAre
  <2> QED BY <1>1, <2>2, <2>3, <2>4 DEF c
<1>2. CASE Data(h, n).t # t
  <2>1. c = [heap |-> g, node |-> Newest(g), next |-> n]
    BY <1>2 DEF Converted, Stepped
  <2>2. c.heap = g /\ c.node = Newest(g)
    BY <2>1
  <2>3. Empty(t) \in Datum /\ DOMAIN Within(Empty(t)) = {} /\ Empty(t).t = t /\ Within(Empty(t)) = <<>>
    BY EmptyIs
  <2>4. HeapOK(g) /\ Newest(g) = Newest(h) + 1 /\ Elsewhere(h, g, n) /\ g.ptr[n] = g.ptr[Newest(g)]
           /\ Data(g, n) = Empty(t)
    BY <2>3, AssignNodeOK
  <2>5. Newest(h) \in Nat /\ n \in 1..Newest(h)
    BY NodesAre DEF Ids
  <2> HIDE DEF c, g
  <2>6. Newest(h) <= Newest(g) /\ n \in Ids(g) /\ Newest(g) \in Ids(g)
    BY <2>4, <2>5 DEF Ids
  <2> QED BY <2>2, <2>3, <2>4, <2>6 DEF c
<1> QED BY <1>1, <1>2

\* Only what is no such container is replaced, and only at the node itself.
LEMMA ConvertedIs ==
    ASSUME NEW h, HeapOK(h), NEW n \in Ids(h), NEW t \in {"list", "map"}
    PROVE  /\ Data(h, n).t = t => Converted(h, n, t).heap = h /\ Converted(h, n, t).node = n
           /\ Data(h, n).t # t => Data(Converted(h, n, t).heap, n) = Empty(t)
           /\ \A m \in Ids(h) : m # n => Converted(h, n, t).heap.ptr[m] = h.ptr[m]
<1> DEFINE g == AssignNode(h, n, Empty(t))
<1>1. CASE Data(h, n).t = t
  <2>1. Converted(h, n, t) = [heap |-> h, node |-> n, next |-> n]
    BY <1>1 DEF Converted, Stepped
  <2> QED BY <1>1, <2>1
<1>2. CASE Data(h, n).t # t
  <2>1. Converted(h, n, t) = [heap |-> g, node |-> Newest(g), next |-> n]
    BY <1>2 DEF Converted, Stepped
  <2>2. Empty(t) \in Datum /\ DOMAIN Within(Empty(t)) = {} /\ Within(Empty(t)) = <<>>
    BY EmptyIs
  <2>3. Data(g, n) = Empty(t) /\ \A m \in Ids(h) : m # n => g.ptr[m] = h.ptr[m]
    BY <2>2, AssignNodeOK
  <2> HIDE DEF g
  <2> QED BY <1>2, <2>1, <2>3
<1> QED BY <1>1, <1>2

\* A step that was taken in a node, to one in it.
IsSubscript(h, n, s) ==
    /\ HeapOK(s.heap) /\ Edited(h, s.heap, n) /\ s.node = n
    /\ s.next \in Ids(s.heap) /\ s.next \in NodesIn(Data(s.heap, n))

LEMMA EditedNot ==
    ASSUME NEW h, HeapOK(h), NEW n \in Ids(h), NEW r \in DOMAIN Within(Data(h, n))
    PROVE  IsSubscript(h, n, Stepped(h, n, Within(Data(h, n))[r]))
<1> DEFINE x == Within(Data(h, n))[r]
           s == Stepped(h, n, x)
<1>1. s.heap = h /\ s.node = n /\ s.next = x
  BY DEF Stepped
<1>2. x \in Ids(h) /\ x \in NodesIn(Data(h, n))
  BY NodesAre DEF NodesIn
<1>3. Edited(h, h, n)
  BY NodesAre DEF Edited
<1> HIDE DEF s, x
<1> QED BY <1>1, <1>2, <1>3 DEF IsSubscript, s, x

\* The node that is new in d is where the step leads.
LEMMA EditedWithOne ==
    ASSUME NEW h, HeapOK(h), NEW n \in Ids(h), NEW d, Extends(h, 1, n, d),
           NEW r \in DOMAIN Within(d), Within(d)[r] = Newest(h) + 1
    PROVE  LET made == New(h, Undefined)
               s    == Stepped(AssignData(made, n, d), n, Newest(made))
           IN  IsSubscript(h, n, s) /\ Data(s.heap, n) = d /\ s.next = Within(d)[r]
<1> DEFINE made == New(h, Undefined)
           f == AssignData(made, n, d)
           s == Stepped(f, n, Newest(made))
<1>1. More(h, made, 1) /\ Newest(made) = Newest(h) + 1 /\ Newest(h) \in Nat
  <2>1. Undefined \in Datum /\ Within(Undefined) = <<>>
    BY DataAre
  <2> QED BY <2>1, NewIs
<1> HIDE DEF made
<1>2. HeapOK(f) /\ Edited(h, f, n) /\ Data(f, n) = d
  BY <1>1, ExtendedOK
<1> HIDE DEF f
<1>3. s.heap = f /\ s.node = n /\ s.next = Newest(h) + 1
  BY <1>1 DEF Stepped
<1> HIDE DEF s
<1>4. n \in Ids(f)
  BY <1>2 DEF Edited, Ids
<1>5. Within(d)[r] \in Ids(f) /\ Within(d)[r] \in NodesIn(Data(f, n))
  BY <1>2, <1>4, NodesAre DEF NodesIn
<1> QED BY <1>2, <1>3, <1>5 DEF IsSubscript, s, f, made

\* The node at an index of a list, or a new one at its end.
LEMMA AtIndexOK ==
    ASSUME NEW h, HeapOK(h), NEW n \in Ids(h), Data(h, n).t = "list",
           NEW i \in Nat, i <= Len(Data(h, n).of)
    PROVE  LET s   == AtIndex(h, n, i)
               was == Data(h, n).of
               is  == Data(s.heap, n).of
           IN  /\ IsSubscript(h, n, s) /\ Data(s.heap, n).t = "list"
               /\ \A j \in DOMAIN was : j \in DOMAIN is /\ is[j] = was[j]
               /\ i + 1 \in DOMAIN is /\ is[i + 1] = s.next
<1> DEFINE s   == AtIndex(h, n, i)
           was == Data(h, n).of
           new == Append(was, Newest(h) + 1)
<1>1. /\ was \in Seq(Nat) /\ Within(Data(h, n)) = was /\ Newest(h) \in Nat
  BY NodesAre, DatumIs
<1>2. CASE i < Len(was)
  <2>1. s = Stepped(h, n, was[i + 1]) /\ i + 1 \in DOMAIN was
    BY <1>1, <1>2 DEF AtIndex
  <2>2. IsSubscript(h, n, s)
    BY <1>1, <2>1, EditedNot
  <2>3. s.heap = h /\ s.next = was[i + 1]
    BY <2>1 DEF Stepped
  <2> HIDE DEF s, was
  <2> QED BY <2>1, <2>2, <2>3 DEF s, was
<1>3. CASE ~(i < Len(was))
  <2>1. /\ new \in Seq(Nat) /\ i + 1 \in DOMAIN new /\ new[i + 1] = Newest(h) + 1
        /\ \A j \in DOMAIN new : j \in DOMAIN was \/ j = i + 1
        /\ \A j \in DOMAIN was : j \in DOMAIN new /\ new[j] = was[j] /\ j # i + 1
    <3>1. i = Len(was)
      BY <1>1, <1>3
    <3> HIDE DEF was
    <3> QED BY <1>1, <3>1
  <2>2. Undefined \in Datum /\ Within(Undefined) = <<>>
    BY DataAre
  <2>3. Newest(New(h, Undefined)) = Newest(h) + 1
    BY <2>2, NewIs
  <2>4. s = Stepped(AssignData(New(h, Undefined), n, List(new)), n, Newest(New(h, Undefined)))
    BY <1>3, <2>3 DEF AtIndex
  <2> HIDE DEF new, s, was
  <2>5. List(new) \in Datum /\ List(new).t = "list" /\ List(new).of = new /\ Within(List(new)) = new
    BY <2>1, DataAre
  <2>6. Extends(h, 1, n, List(new))
    BY <1>1, <2>1, <2>5 DEF Extends
  <2>7. IsSubscript(h, n, s) /\ Data(s.heap, n) = List(new) /\ s.next = new[i + 1]
    BY <2>1, <2>4, <2>5, <2>6, EditedWithOne
  <2> QED BY <2>1, <2>5, <2>7 DEF s, was
<1> QED BY <1>2, <1>3

\* The node at a key of a map, or a new one.
LEMMA AtKeyOK ==
    ASSUME NEW h, HeapOK(h), NEW n \in Ids(h), Data(h, n).t = "map", NEW k \in Keys \cup Nat
    PROVE  LET s   == AtKey(h, n, k)
               was == Data(h, n).of
               is  == Data(s.heap, n).of
           IN  /\ IsSubscript(h, n, s) /\ Data(s.heap, n).t = "map"
               /\ \A j \in DOMAIN was : j \in DOMAIN is /\ is[j] = was[j]
               /\ k \in DOMAIN is /\ is[k] = s.next
<1> DEFINE s   == AtKey(h, n, k)
           was == Data(h, n).of
           new == [j \in DOMAIN was \cup {k} |-> IF j = k THEN Newest(h) + 1 ELSE was[j]]
<1>1. was \in Maps /\ Within(Data(h, n)) = was /\ Newest(h) \in Nat
  BY NodesAre, DatumIs
<1>2. CASE k \in DOMAIN was
  <2>1. s = Stepped(h, n, was[k])
    BY <1>2 DEF AtKey
  <2>2. IsSubscript(h, n, s)
    BY <1>1, <1>2, <2>1, EditedNot
  <2>3. s.heap = h /\ s.next = was[k]
    BY <2>1 DEF Stepped
  <2> HIDE DEF s, was
  <2> QED BY <1>2, <2>2, <2>3 DEF s, was
<1>3. CASE k \notin DOMAIN was
  <2>1. new \in Maps
    <3>1. PICK S \in SUBSET (Keys \cup Nat) : was \in [S -> Nat]
      BY <1>1 DEF Maps
    <3> HIDE DEF was
    <3>2. DOMAIN was = S /\ S \cup {k} \in SUBSET (Keys \cup Nat) /\ \A j \in S : was[j] \in Nat
      BY <3>1
    <3>3. new \in [S \cup {k} -> Nat]
      BY <1>1, <3>2
    <3> HIDE DEF new
    <3> QED BY <3>2, <3>3 DEF Maps
  <2>2. /\ k \in DOMAIN new /\ new[k] = Newest(h) + 1
        /\ \A j \in DOMAIN new : j \in DOMAIN was \/ j = k
        /\ \A j \in DOMAIN was : j \in DOMAIN new /\ new[j] = was[j]
    BY <1>3
  <2>3. Undefined \in Datum /\ Within(Undefined) = <<>>
    BY DataAre
  <2>4. Newest(New(h, Undefined)) = Newest(h) + 1
    BY <2>3, NewIs
  <2>5. s = Stepped(AssignData(New(h, Undefined), n, Map(new)), n, Newest(New(h, Undefined)))
    BY <1>3, <2>4 DEF AtKey
  <2> HIDE DEF new, s, was
  <2>6. Map(new) \in Datum /\ Map(new).t = "map" /\ Map(new).of = new /\ Within(Map(new)) = new
    BY <2>1, DataAre
  <2>7. Extends(h, 1, n, Map(new))
    BY <1>1, <1>3, <2>2, <2>6 DEF Extends
  <2>8. IsSubscript(h, n, s) /\ Data(s.heap, n) = Map(new) /\ s.next = new[k]
    BY <2>2, <2>5, <2>6, <2>7, EditedWithOne
  <2> QED BY <2>2, <2>6, <2>8 DEF s, was
<1> QED BY <1>2, <1>3

LEMMA ListAsMapOK ==
    ASSUME NEW h, HeapOK(h), NEW n \in Ids(h), Data(h, n).t = "list"
    PROVE  LET g == ListAsMap(h, n)
           IN  HeapOK(g) /\ Edited(h, g, n) /\ Data(g, n).t = "map"
<1> DEFINE g   == ListAsMap(h, n)
           was == Data(h, n).of
           new == [i \in 0..Len(was) - 1 |-> was[i + 1]]
<1>1. was \in Seq(Nat) /\ Within(Data(h, n)) = was /\ Len(was) \in Nat
  BY NodesAre, DatumIs
<1>2. /\ DOMAIN new = 0..Len(was) - 1
      /\ \A i \in 0..Len(was) - 1 : i + 1 \in DOMAIN was /\ new[i] = was[i + 1]
  <2> HIDE DEF was
  <2> QED BY <1>1
<1>3. new \in Maps
  <2>1. \A i \in 0..Len(was) - 1 : was[i + 1] \in Nat
    <3>1. was \in Seq(Nat)
      BY <1>1
    <3> HIDE DEF was
    <3> QED BY <1>2, <3>1
  <2>2. new \in [0..Len(was) - 1 -> Nat]
    BY <2>1
  <2>3. 0..Len(was) - 1 \in SUBSET (Keys \cup Nat)
    BY <1>1
  <2> HIDE DEF new
  <2> QED BY <2>2, <2>3 DEF Maps
<1>4. g = AssignData(h, n, Map(new))
  BY DEF ListAsMap
<1> HIDE DEF new, g, was
<1>5. Map(new) \in Datum /\ Map(new).t = "map" /\ Within(Map(new)) = new
  BY <1>3, DataAre
<1>6. \A r \in DOMAIN was : Placed(h, h.ptr[n], r, was[r])
  BY <1>1, NodesAre
<1>7. Assignable(h, n, Map(new))
  <2>1. ASSUME NEW i \in DOMAIN new, NEW j \in DOMAIN new, new[i] = new[j] PROVE i = j
    <3>1. Placed(h, h.ptr[n], i + 1, new[i]) /\ Placed(h, h.ptr[n], j + 1, new[i])
      BY <1>2, <1>6, <2>1
    <3>2. i + 1 = j + 1
      BY <3>1 DEF HeapOK
    <3> QED BY <1>1, <1>2, <3>2
  <2>2. \A i \in DOMAIN new : Placed(h, h.ptr[n], i + 1, new[i])
    BY <1>2, <1>6
  <2> QED BY <1>5, <2>1, <2>2 DEF Assignable
<1>8. HeapOK(g)
  BY <1>4, <1>7, AssignDataOK
<1>9. g.ptr = h.ptr /\ Len(g.data) = Len(h.data) /\ Data(g, n) = Map(new)
      /\ \A i \in 1..Len(h.data) : g.data[i] = IF i = h.ptr[n] THEN Map(new) ELSE h.data[i]
  <2>1. Typed(h)
    BY DEF HeapOK
  <2> QED BY <1>4, <1>5, <2>1, AssignDataIs
<1>10. Edited(h, g, n)
  <2>1. Newest(h) \in Nat /\ Newest(g) = Newest(h) /\ Len(h.data) \in Nat
    BY <1>9, NodesAre DEF Newest
  <2> QED BY <1>9, <2>1 DEF Edited
<1> QED BY <1>5, <1>8, <1>9, <1>10 DEF g

LEMMA SubscriptOK ==
    ASSUME NEW h, HeapOK(h), NEW n \in Ids(h), NEW r \in Keys \cup Nat, Data(h, n).t = TypeFor(r)
    PROVE  IsSubscript(h, n, Subscript(h, n, r))
<1> DEFINE d == Data(h, n)
           s == Subscript(h, n, r)
<1>0. r \in Keys \/ (r \in Nat /\ r \notin Keys)
  BY KeysAreNotIndices
<1>1. CASE r \in Keys
  <2>1. d.t = "map"
    BY <1>1 DEF TypeFor
  <2>2. s = AtKey(h, n, r)
    BY <2>1 DEF Subscript
  <2> QED BY <1>1, <2>1, <2>2, AtKeyOK
<1>2. CASE r \in Nat /\ r \notin Keys
  <2>1. d.t = "list" /\ d.of \in Seq(Nat) /\ Len(d.of) \in Nat
    BY <1>2, NodesAre, DatumIs DEF TypeFor
  <2>2. CASE r = 0 \/ (r <= Len(d.of) /\ IsDefined(h, d.of[r]))
    <3>1. s = AtIndex(h, n, r)
      BY <2>1, <2>2 DEF Subscript
    <3>2. r <= Len(d.of)
      <4> HIDE DEF d
      <4> QED BY <2>1, <2>2
    <3> QED BY <1>2, <2>1, <3>1, <3>2, AtIndexOK
  <2>3. CASE ~(r = 0 \/ (r <= Len(d.of) /\ IsDefined(h, d.of[r])))
    <3> DEFINE g == ListAsMap(h, n)
    <3>1. s = AtKey(g, n, r)
      BY <2>1, <2>3 DEF Subscript
    <3>2. HeapOK(g) /\ Edited(h, g, n) /\ Data(g, n).t = "map"
      BY <2>1, ListAsMapOK
    <3> HIDE DEF g, s
    <3>3. n \in Ids(g)
      BY <3>2 DEF Edited, Ids
    <3>4. IsSubscript(g, n, s)
      BY <1>2, <3>1, <3>2, <3>3, AtKeyOK
    <3> QED BY <3>2, <3>4, EditedTwice DEF IsSubscript, s
  <2> QED BY <2>2, <2>3
<1> QED BY <1>0, <1>1, <1>2

\* What Size counts of a list is no more than what is in it, and if it is as much,
\* everything in it is defined.
LEMMA SizeIs ==
    ASSUME NEW h, HeapOK(h), NEW n \in Ids(h), Data(h, n).t = "list"
    PROVE  LET of == Data(h, n).of
           IN  /\ of \in Seq(Nat) /\ Within(Data(h, n)) = of
               /\ Size(h, n) \in Nat /\ Size(h, n) <= Len(of)
               /\ Size(h, n) = Len(of) => \A i \in DOMAIN of : IsDefined(h, of[i])
<1> DEFINE of == Data(h, n).of
           C  == {i \in DOMAIN of : \A j \in 1..i : IsDefined(h, of[j])}
<1>1. of \in Seq(Nat) /\ Within(Data(h, n)) = of
  BY NodesAre, DatumIs
<1>2. Size(h, n) = Cardinality(C)
  BY DEF Size
<1> HIDE DEF of
<1>3. Len(of) \in Nat /\ DOMAIN of = 1..Len(of)
  BY <1>1
<1>4. C \in SUBSET DOMAIN of
  OBVIOUS
<1>5. \A i \in C : IsDefined(h, of[i])
  BY <1>3
<1> HIDE DEF C
<1>6. IsFiniteSet(DOMAIN of) /\ Cardinality(DOMAIN of) = Len(of)
  <2>1. IsFiniteSet(1..Len(of)) /\ Cardinality(1..Len(of)) = IF 1 > Len(of) THEN 0 ELSE Len(of) - 1 + 1
    BY <1>3, FS_Interval
  <2>2. Cardinality(1..Len(of)) = Len(of)
    BY <1>3, <2>1
  <2> QED BY <1>3, <2>1, <2>2
<1>7. Cardinality(C) <= Len(of) /\ (Cardinality(C) = Len(of) => C = DOMAIN of) /\ IsFiniteSet(C)
  BY <1>4, <1>6, FS_Subset
<1>8. Cardinality(C) \in Nat
  BY <1>7, FS_CardinalityType
<1> QED BY <1>1, <1>2, <1>5, <1>7, <1>8 DEF of

\* A list is filled at its end, with nodes that are defined.
LEMMA FilledOK ==
    ASSUME NEW h, HeapOK(h), NEW n \in Ids(h), Data(h, n).t = "list", NEW i \in Nat
    PROVE  LET g   == Filled(h, n, i)
               was == Data(h, n).of
               is  == Data(g, n).of
           IN  /\ HeapOK(g) /\ Edited(h, g, n) /\ Data(g, n).t = "list"
               /\ is \in Seq(Nat) /\ \A j \in DOMAIN was : j \in DOMAIN is /\ is[j] = was[j]
               /\ Size(h, n) = Len(was) =>
                     i <= Len(is) /\ (i # 0 => IsDefined(g, is[i]))
<1> DEFINE g   == Filled(h, n, i)
           was == Data(h, n).of
           S   == Size(h, n)
           k   == i - S
           L   == Newest(h)
           D   == Len(h.data)
           ids == [j \in 1..k |-> L + j]
           P   == h.ptr \o [j \in 1..k |-> D + j]
           T   == h.data \o [j \in 1..k |-> Null]
           made == [ptr |-> P, data |-> T]
           new == was \o ids
<1>1. /\ was \in Seq(Nat) /\ Within(Data(h, n)) = was /\ S \in Nat /\ S <= Len(was)
      /\ S = Len(was) => \A j \in DOMAIN was : IsDefined(h, was[j])
  BY SizeIs
<1>2. L \in Nat /\ D \in Nat /\ L = Len(h.ptr) /\ h.ptr \in Seq(Nat) /\ h.data \in Seq(Datum)
  BY NodesAre DEF Newest, HeapOK, Typed
<1>3. CASE S >= i
  <2>1. g = h
    BY <1>3 DEF Filled
  <2>2. Edited(h, h, n)
    BY NodesAre DEF Edited
  <2>3. Size(h, n) = Len(was) => i <= Len(was) /\ (i # 0 => i \in DOMAIN was /\ IsDefined(h, was[i]))
    <3> HIDE DEF was, L, D
    <3> QED BY <1>1, <1>3
  <2> HIDE DEF g, was
  <2> QED BY <1>1, <2>1, <2>2, <2>3 DEF g, was
<1>4. CASE ~(S >= i)
  <2>1. k \in Nat /\ k # 0
    BY <1>1, <1>4
  <2>2. g = AssignData(made, n, List(new))
    BY <1>4 DEF Filled
  <2> HIDE DEF k, S, g, was, D, L
  <2>3. ids \in Seq(Nat) /\ Len(ids) = k /\ \A j \in 1..k : ids[j] = L + j
    BY <1>2, <2>1
  <2>4. P \in Seq(Nat) /\ Len(P) = L + k /\ (\A j \in 1..L : P[j] = h.ptr[j]) /\ \A j \in 1..k : P[L + j] = D + j
    <3> DEFINE q == [j \in 1..k |-> D + j]
    <3>1. q \in Seq(Nat) /\ Len(q) = k /\ \A j \in 1..k : q[j] = D + j
      BY <1>2, <2>1
    <3> HIDE DEF q
    <3> DEFINE w == h.ptr
    <3>w. w \in Seq(Nat) /\ Len(w) = L /\ L \in Nat
      BY <1>2
    <3> HIDE DEF w
    <3>2. w \o q \in Seq(Nat) /\ Len(w \o q) = L + k
      BY <2>1, <3>1, <3>w
    <3>3. ASSUME NEW j \in 1..L PROVE (w \o q)[j] = w[j]
      BY <2>1, <3>1, <3>w
    <3>4. ASSUME NEW j \in 1..k PROVE (w \o q)[L + j] = q[j]
      BY <2>1, <3>1, <3>w
    <3> QED BY <3>1, <3>2, <3>3, <3>4 DEF q, w
  <2>5. T \in Seq(Datum) /\ Len(T) = D + k /\ (\A j \in 1..D : T[j] = h.data[j]) /\ \A j \in 1..k : T[D + j] = Null
    <3> DEFINE q == [j \in 1..k |-> Null]
    <3>0. D = Len(h.data) /\ Null \in Datum
      BY DataAre DEF D
    <3>1. q \in Seq(Datum) /\ Len(q) = k /\ \A j \in 1..k : q[j] = Null
      BY <1>2, <2>1, <3>0
    <3> HIDE DEF q
    <3> DEFINE w == h.data
    <3>w. w \in Seq(Datum) /\ Len(w) = D /\ D \in Nat
      BY <1>2, <3>0
    <3> HIDE DEF w
    <3>2. w \o q \in Seq(Datum) /\ Len(w \o q) = D + k
      BY <2>1, <3>1, <3>w
    <3>3. ASSUME NEW j \in 1..D PROVE (w \o q)[j] = w[j]
      BY <2>1, <3>1, <3>w
    <3>4. ASSUME NEW j \in 1..k PROVE (w \o q)[D + j] = q[j]
      BY <2>1, <3>1, <3>w
    <3> QED BY <3>1, <3>2, <3>3, <3>4 DEF q, w
  <2> HIDE DEF P, T
  <2>6. made.ptr = P /\ made.data = T /\ made \in [ptr: Seq(Nat), data: Seq(Datum)]
    BY <2>4, <2>5
  <2> HIDE DEF made
  <2>7. More(h, made, k)
    <3>1. Within(Null) = <<>>
      BY DataAre
    <3> QED BY <1>2, <2>4, <2>5, <2>6, <3>1 DEF More, D, L
  <2> HIDE DEF ids
  <2>8. /\ new \in Seq(Nat) /\ Len(new) = Len(was) + k
        /\ \A j \in DOMAIN was : j \in DOMAIN new /\ new[j] = was[j]
        /\ \A j \in 1..k : new[Len(was) + j] = ids[j]
        /\ \A j \in DOMAIN new : j \in DOMAIN was \/ (j - Len(was) \in 1..k /\ j = Len(was) + (j - Len(was)))
    <3>1. /\ Len(was) \in Nat /\ DOMAIN was = 1..Len(was) /\ Len(ids) = k
          /\ was \in Seq(Nat) /\ ids \in Seq(Nat)
      BY <1>1, <2>3
    <3>2. new \in Seq(Nat) /\ Len(new) = Len(was) + k
      BY <2>1, <3>1
    <3>3. ASSUME NEW j \in DOMAIN was PROVE new[j] = was[j]
      BY <2>1, <3>1
    <3>4. ASSUME NEW j \in 1..k PROVE new[Len(was) + j] = ids[j]
      BY <2>1, <3>1
    <3> HIDE DEF new
    <3>5. \A j \in DOMAIN new : j \in DOMAIN was \/ (j - Len(was) \in 1..k /\ j = Len(was) + (j - Len(was)))
      BY <2>1, <3>1, <3>2
    <3>6. \A j \in DOMAIN was : j \in DOMAIN new
      BY <2>1, <3>1, <3>2
    <3> QED BY <3>2, <3>3, <3>4, <3>5, <3>6
  <2> HIDE DEF new
  <2>9. List(new) \in Datum /\ Within(List(new)) = new /\ List(new).of = new /\ List(new).t = "list"
    BY <2>8, DataAre
  <2>10. ASSUME NEW j \in DOMAIN new, j \notin DOMAIN was
         PROVE  j - Len(was) \in 1..k /\ new[j] = L + (j - Len(was))
    BY <2>3, <2>8, <2>10
  <2>11. Extends(h, k, n, List(new))
    <3>1. \A r \in DOMAIN new : IF r \in DOMAIN was THEN new[r] = was[r] ELSE \E j \in 1..k : new[r] = L + j
      BY <2>8, <2>10
    <3>2. ASSUME NEW r \in DOMAIN new, NEW q \in DOMAIN new, r \notin DOMAIN was, q \notin DOMAIN was,
                 new[r] = new[q]
          PROVE  r = q
      <4>1. L + (r - Len(was)) = L + (q - Len(was)) /\ r \in Int /\ q \in Int /\ Len(was) \in Nat
        BY <1>1, <2>8, <2>10, <3>2
      <4> QED BY <1>2, <4>1
    <3> QED BY <1>1, <2>9, <3>1, <3>2 DEF Extends, L
  <2>12. HeapOK(g) /\ Edited(h, g, n) /\ Data(g, n) = List(new)
    BY <2>1, <2>2, <2>7, <2>11, ExtendedOK
  <2>13. ASSUME S = Len(was) PROVE i = Len(new) /\ IsDefined(g, new[i])
    <3>1. i = Len(new) /\ i = Len(was) + k
      BY <1>1, <2>8, <2>13 DEF k
    <3>2. k \in 1..k /\ new[i] = L + k /\ i \in DOMAIN new
      <4>1. k \in 1..k
        BY <2>1
      <4>2. i \in DOMAIN new
        BY <2>1, <2>8, <3>1
      <4> QED BY <2>3, <2>8, <3>1, <4>1, <4>2
    <3>3. made.ptr[L + k] = D + k /\ made.data[D + k] = Null
      BY <2>4, <2>5, <2>6, <3>2
    <3>4. /\ g.ptr = made.ptr
          /\ \A j \in 1..Len(made.data) : g.data[j] = IF j = made.ptr[n] THEN List(new) ELSE made.data[j]
      <4>1. Typed(made) /\ n \in Ids(made)
        <5>1. HeapOK(made)
          BY <2>1, <2>7, MoreOK
        <5>2. n \in 1..L /\ Newest(made) = L + k
          BY <2>4, <2>6 DEF Ids, L, Newest
        <5> QED BY <1>2, <2>1, <5>1, <5>2 DEF HeapOK, Ids
      <4> QED BY <2>2, <2>9, <4>1, AssignDataIs
    <3>5. made.ptr[n] = h.ptr[n] /\ h.ptr[n] \in 1..D
      <4>1. n \in 1..L /\ h.ptr[n] \in 1..D
        BY NodesAre DEF Ids, L, D
      <4> QED BY <2>4, <2>6, <4>1
    <3>6. D + k \in 1..Len(made.data) /\ D + k # made.ptr[n]
      BY <1>2, <2>1, <2>5, <2>6, <3>5
    <3>7. g.ptr[new[i]] = D + k /\ g.data[D + k] = Null
      BY <3>2, <3>3, <3>4, <3>6
    <3>8. Null # Undefined
      BY DataAre
    <3> QED BY <3>1, <3>7, <3>8 DEF IsDefined, Data
  <2>14. S = Len(was) => i <= Len(new) /\ (i # 0 => IsDefined(g, new[i]))
    BY <2>13
  <2> QED BY <2>8, <2>9, <2>12, <2>14 DEF g, was, S
<1> QED BY <1>3, <1>4

LEMMA EditedElsewhere ==
    ASSUME NEW h, HeapOK(h), NEW n \in Ids(h), NEW c, HeapOK(c), Newest(h) <= Newest(c),
           Elsewhere(h, c, n), NEW x \in Ids(c), c.ptr[x] = c.ptr[n], NEW g, Edited(c, g, x)
    PROVE  /\ Elsewhere(h, g, n) /\ Data(g, x) = Data(g, n)
           /\ Newest(h) <= Newest(g) /\ \A m \in Ids(h) : m \in Ids(g)
<1>1. /\ Newest(h) \in Nat /\ Newest(c) \in Nat /\ Newest(g) \in Nat /\ Newest(c) <= Newest(g)
      /\ \A m \in Ids(c) : g.ptr[m] = c.ptr[m] /\ c.ptr[m] \in 1..Len(c.data)
      /\ \A i \in 1..Len(c.data) : i # c.ptr[n] => g.data[i] = c.data[i]
  BY NodesAre DEF Edited
<1>2. \A m \in Ids(h) : m \in Ids(c) /\ m \in Ids(g)
  BY <1>1 DEF Ids
<1>3. Newest(h) <= Newest(g)
  BY <1>1
<1>4. Elsewhere(h, g, n)
  BY <1>1, <1>2 DEF Elsewhere, Data
<1>5. Data(g, x) = Data(g, n)
  BY <1>1, <1>2 DEF Data
<1> QED BY <1>2, <1>3, <1>4, <1>5

LEMMA StepOK ==
    ASSUME NEW h, HeapOK(h), NEW n \in Ids(h), NEW r \in Keys \cup Nat
    PROVE  LET s == Step(h, n, r)
               g == s.heap
           IN  /\ HeapOK(g) /\ Newest(h) <= Newest(g) /\ \A m \in Ids(h) : m \in Ids(g)
               /\ s.node \in Ids(g) /\ s.next \in Ids(g) /\ s.next \in NodesIn(Data(g, n))
               /\ Elsewhere(h, g, n)
<1> DEFINE c == Converted(h, n, TypeFor(r))
           f == IF r \in Keys THEN c.heap ELSE Filled(c.heap, c.node, r)
           s == Step(h, n, r)
<1>0. r \in Keys \/ (r \in Nat /\ r \notin Keys)
  BY KeysAreNotIndices
<1>1. s = Subscript(f, c.node, r)
  BY DEF Step
<1>2. /\ HeapOK(c.heap) /\ Newest(h) <= Newest(c.heap) /\ Elsewhere(h, c.heap, n)
      /\ n \in Ids(c.heap) /\ c.node \in Ids(c.heap) /\ c.heap.ptr[c.node] = c.heap.ptr[n]
      /\ Data(c.heap, n).t = TypeFor(r)
  <2>1. TypeFor(r) \in {"list", "map"}
    BY DEF TypeFor
  <2> QED BY <2>1, ConvertedOK
<1>3. Data(c.heap, c.node).t = TypeFor(r)
  BY <1>2 DEF Data
<1> HIDE DEF s
<1>4. HeapOK(f) /\ Edited(c.heap, f, c.node) /\ Data(f, c.node).t = TypeFor(r)
  <2>1. CASE r \in Keys
    <3>1. Edited(c.heap, c.heap, c.node)
      <4> HIDE DEF c
      <4> QED BY <1>2, NodesAre DEF Edited
    <3>2. f = c.heap
      BY <2>1
    <3> HIDE DEF c, f
    <3> QED BY <1>2, <1>3, <3>1, <3>2
  <2>2. CASE r \in Nat /\ r \notin Keys
    <3>1. TypeFor(r) = "list" /\ f = Filled(c.heap, c.node, r)
      BY <2>2 DEF TypeFor
    <3> HIDE DEF c, f
    <3> QED BY <1>2, <1>3, <2>2, <3>1, FilledOK
  <2> QED BY <1>0, <2>1, <2>2
<1> HIDE DEF c, f
<1>5. c.node \in Ids(f)
  BY <1>2, <1>4 DEF Edited, Ids
<1>6. IsSubscript(f, c.node, s)
  BY <1>1, <1>4, <1>5, SubscriptOK
<1>7. HeapOK(s.heap) /\ Edited(c.heap, s.heap, c.node) /\ s.node = c.node
      /\ s.next \in Ids(s.heap) /\ s.next \in NodesIn(Data(s.heap, c.node))
  BY <1>2, <1>4, <1>6, EditedTwice DEF IsSubscript
<1>8. /\ Elsewhere(h, s.heap, n) /\ Data(s.heap, c.node) = Data(s.heap, n)
      /\ Newest(h) <= Newest(s.heap) /\ \A m \in Ids(h) : m \in Ids(s.heap)
  BY <1>2, <1>7, EditedElsewhere
<1>9. c.node \in Ids(s.heap)
  BY <1>2, <1>7 DEF Edited, Ids
<1> QED BY <1>7, <1>8, <1>9 DEF s

-----------------------------------------------------------------------------
(***************************************************************************)
(* The document                                                            *)
(***************************************************************************)
\* Every set of numbers that is not empty has a least one.
LEMMA LeastNumber ==
    ASSUME NEW T, T \subseteq Nat, T # {}
    PROVE  \E x \in T : \A y \in T : x <= y
<1> DEFINE R == {ss \in Nat \X Nat : ss[1] < ss[2]}
<1>1. IsWellFoundedOn(R, Nat)
  BY NatLessThanWellFounded DEF OpToRel
<1>2. \E x \in T : \A y \in T : ~ (<<y, x>> \in R)
  <2> HIDE DEF R
  <2> QED BY <1>1, WFMin
<1>3. PICK x \in T : \A y \in T : ~ (<<y, x>> \in R)
  BY <1>2
<1>4. ASSUME NEW y \in T PROVE x <= y
  <2>1. <<y, x>> \in Nat \X Nat /\ x \in Nat /\ y \in Nat
    OBVIOUS
  <2>2. ~(y < x)
    BY <1>3, <2>1
  <2> QED BY <2>1, <2>2
<1> QED BY <1>4

\* The nodes that are reached are the root and those in a node that is reached.
Reaches(h, f, n) == n = Root \/ \E m \in Ids(h) : n \in NodesIn(Data(h, m)) /\ f[m]
IsReached(h, f)  == f = [n \in Ids(h) |-> Reaches(h, f, n)]

LEMMA ReachedExists ==
    ASSUME NEW h
    PROVE  \E f : IsReached(h, f)
<1> DEFINE Closed == {X \in SUBSET Ids(h) :
                         \A n \in Ids(h) : n = Root \/ (\E m \in X : n \in NodesIn(Data(h, m))) => n \in X}
           Y == {n \in Ids(h) : \A X \in Closed : n \in X}
           f == [n \in Ids(h) |-> n \in Y]
<1>1. ASSUME NEW n \in Ids(h), n = Root \/ \E m \in Y : n \in NodesIn(Data(h, m))
      PROVE  n \in Y
  BY <1>1
<1>2. ASSUME NEW n \in Y PROVE n = Root \/ \E m \in Y : n \in NodesIn(Data(h, m))
  <2> SUFFICES ASSUME ~(n = Root \/ \E m \in Y : n \in NodesIn(Data(h, m))) PROVE FALSE
    OBVIOUS
  <2> DEFINE Z == Y \ {n}
  <2>1. Z \in SUBSET Ids(h)
    OBVIOUS
  <2>2. ASSUME NEW x \in Ids(h), x = Root \/ \E m \in Z : x \in NodesIn(Data(h, m)) PROVE x \in Z
    <3> HIDE DEF Y
    <3> QED BY <1>1, <2>2
  <2>3. Z \in Closed
    <3> HIDE DEF Z
    <3> QED BY <2>1, <2>2
  <2>4. n \in Z
    <3> HIDE DEF Z, Closed
    <3> QED BY <2>3
  <2> QED BY <2>4
<1>3. Y \subseteq Ids(h)
  OBVIOUS
<1> HIDE DEF Y
<1>4. \A m \in Ids(h) : f[m] <=> m \in Y
  OBVIOUS
<1>5. \A n \in Ids(h) : f[n] = Reaches(h, f, n)
  <2> SUFFICES ASSUME NEW n \in Ids(h) PROVE f[n] = Reaches(h, f, n)
    OBVIOUS
  <2>1. (\E m \in Ids(h) : n \in NodesIn(Data(h, m)) /\ f[m]) <=> \E m \in Y : n \in NodesIn(Data(h, m))
    BY <1>3, <1>4
  <2>2. f[n] = (n \in Y)
    OBVIOUS
  <2> HIDE DEF f
  <2> QED BY <1>1, <1>2, <2>1, <2>2 DEF Reaches
<1>6. IsReached(h, f)
  <2>1. f = [n \in Ids(h) |-> f[n]]
    OBVIOUS
  <2> HIDE DEF f
  <2> QED BY <1>5, <2>1, Zenon DEF IsReached
<1> QED BY <1>6

IsDocument(h, D) ==
    /\ Root \in D /\ D \subseteq Ids(h)
    /\ \A m \in D : NodesIn(Data(h, m)) \subseteq D
    /\ \A n \in D \ {Root} : \E m \in D : n \in NodesIn(Data(h, m))

LEMMA DocumentIs ==
    ASSUME NEW h, HeapOK(h)
    PROVE  IsDocument(h, Document(h))
<1> DEFINE f == CHOOSE g : IsReached(h, g)
           D == {n \in Ids(h) : f[n]}
<1>1. Document(h) = D
  BY DEF Document, IsReached, Reaches, Ids
<1>2. IsReached(h, f)
  BY ReachedExists
<1> HIDE DEF f
<1>3. \A n \in Ids(h) : f[n] <=> n = Root \/ \E m \in Ids(h) : n \in NodesIn(Data(h, m)) /\ f[m]
  <2>1. \A n \in Ids(h) : f[n] = Reaches(h, f, n)
    BY <1>2 DEF IsReached
  <2> QED BY <2>1 DEF Reaches
<1>4. Root \in Ids(h) /\ \A m \in Ids(h) : NodesIn(Data(h, m)) \subseteq Ids(h)
  <2>1. ASSUME NEW m \in Ids(h), NEW n \in NodesIn(Data(h, m)) PROVE n \in Ids(h)
    <3>1. PICK r \in DOMAIN Within(Data(h, m)) : n = Within(Data(h, m))[r]
      BY <2>1 DEF NodesIn
    <3> QED BY <3>1, NodesAre
  <2> QED BY <2>1 DEF HeapOK, Typed
<1> QED BY <1>1, <1>3, <1>4 DEF IsDocument

\* A node is in a node with the data it is placed in.
LEMMA InIsPlaced ==
    ASSUME NEW h, HeapOK(h), NEW m \in Ids(h), NEW n
    PROVE  n \in NodesIn(Data(h, m)) <=> \E r : Placed(h, h.ptr[m], r, n)
<1>1. h.ptr[m] \in 1..Len(h.data) /\ Data(h, m) = h.data[h.ptr[m]]
  BY NodesAre DEF Data
<1> QED BY <1>1 DEF NodesIn, Placed

\* Nothing that has the root and what is in what it has is less than the document.
LEMMA DocumentIsLeast ==
    ASSUME NEW h, HeapOK(h), NEW S, Root \in S,
           \A m \in S \cap Document(h) : NodesIn(Data(h, m)) \subseteq S
    PROVE  Document(h) \subseteq S
<1> DEFINE D == Document(h)
<1>1. IsDocument(h, D)
  BY DocumentIs
<1> HIDE DEF D
<1> SUFFICES ASSUME D \ S # {} PROVE FALSE
  BY DEF D
<1>2. D \ S \subseteq Nat
  <2>1. \A n \in D : n \in Ids(h)
    BY <1>1 DEF IsDocument
  <2> QED BY <2>1, NodesAre
<1>3. PICK n \in D \ S : \A k \in D \ S : n <= k
  BY <1>2, LeastNumber
<1>4. PICK m \in D : n \in NodesIn(Data(h, m))
  BY <1>1, <1>3 DEF IsDocument
<1>5. m \in Ids(h) /\ n \in Ids(h) /\ m < n
  BY <1>1, <1>4, InIsPlaced DEF IsDocument, HeapOK
<1>6. m \notin S
  BY <1>4 DEF D
<1> QED BY <1>3, <1>5, <1>6 DEF Ids

\* Nodes of the document are in one place.
LEMMA DocumentIsPlaced ==
    ASSUME NEW h, HeapOK(h), NEW n \in Document(h)
    PROVE  n \in Ids(h) /\ IsPlaced(h, n)
<1>1. IsDocument(h, Document(h))
  BY DocumentIs
<1>2. \A m \in Document(h) : m \in Ids(h)
  BY <1>1 DEF IsDocument
<1> QED BY <1>1, <1>2, InIsPlaced DEF IsDocument, IsPlaced

\* What a step changes of a document is below where it was taken.
LEMMA StepStays ==
    ASSUME NEW h, HeapOK(h), NEW n \in Document(h), NEW g, HeapOK(g), Elsewhere(h, g, n),
           \A m \in Ids(h) : m \in Ids(g)
    PROVE  n \in Document(g)
<1> SUFFICES ASSUME n \notin Document(g) PROVE FALSE
  OBVIOUS
<1>1. IsDocument(g, Document(g)) /\ IsDocument(h, Document(h))
  BY DocumentIs
<1>2. ASSUME NEW m \in Document(g) \cap Document(h)
      PROVE  NodesIn(Data(h, m)) \subseteq Document(g)
  <2>1. m # n /\ m \in Ids(h) /\ n \in Ids(h) /\ IsPlaced(h, m) /\ IsPlaced(h, n)
    BY DocumentIsPlaced
  <2>2. h.ptr[m] # h.ptr[n]
    BY <2>1 DEF HeapOK
  <2>3. Data(g, m) = Data(h, m)
    BY <2>1, <2>2 DEF Elsewhere
  <2> QED BY <1>1, <2>3 DEF IsDocument
<1>3. Root \in Document(g)
  BY <1>1 DEF IsDocument
<1>4. Document(h) \subseteq Document(g)
  BY <1>2, <1>3, DocumentIsLeast
<1> QED BY <1>4

-----------------------------------------------------------------------------
(***************************************************************************)
(* The program                                                             *)
(***************************************************************************)
LoopsIn(h) ==
    {l \in [by: Handles \cup {NoSource}, node: Ids(h), value: Saves, left: SUBSET (Keys \cup Nat)] :
        l.left \subseteq RefsOf(l.value)}

\* Handles have nodes of the heap, and so do the loops of a call that saves.
IInv ==
    /\ HeapOK(heap)
    /\ held \in [Handles -> Ids(heap) \cup {NoSource}]
    /\ saving \in [at: Nat, value: Saves \cup {Null}, loops: Seq(LoopsIn(heap))]

LEMMA SavesAre ==
    ASSUME NEW v \in Saves
    PROVE  /\ RefsOf(v) \subseteq Keys \cup Nat
           /\ \A r \in RefsOf(v) : At(v, r) \in Saves
           /\ v.t = "scalar" => v \in Datum /\ Within(v) = <<>>
<1>1. CASE \E x \in Scalars : v = Scalar(x)
  <2>1. PICK x \in Scalars : v = Scalar(x)
    BY <1>1
  <2>2. v.t = "scalar"
    BY <2>1 DEF Scalar
  <2> QED BY <2>1, <2>2, DataAre DEF RefsOf
<1>2. CASE v = List(v.of) /\ v.of \in Seq(Saves)
  <2>1. v.t = "list"
    BY <1>2 DEF List
  <2>2. RefsOf(v) = 0..Len(v.of) - 1 /\ \A r \in RefsOf(v) : At(v, r) = v.of[r + 1]
    BY <2>1 DEF RefsOf, At
  <2> DEFINE of == v.of
  <2>3. of \in Seq(Saves)
    BY <1>2
  <2> HIDE DEF of
  <2>4. \A r \in 0..Len(of) - 1 : r \in Nat /\ of[r + 1] \in Saves
    BY <2>3
  <2> QED BY <2>1, <2>2, <2>4 DEF of
<1>3. CASE v = Map(v.of) /\ DOMAIN v.of \subseteq Keys /\ v.of \in [DOMAIN v.of -> Saves]
  <2>1. v.t = "map"
    BY <1>3 DEF Map
  <2>2. RefsOf(v) = DOMAIN v.of /\ \A r \in RefsOf(v) : At(v, r) = v.of[r]
    BY <2>1 DEF RefsOf, At
  <2> QED BY <1>3, <2>1, <2>2
<1> QED BY <1>1, <1>2, <1>3, SavesAreWhole

LEMMA LoadedOK ==
    ASSUME NEW data \in Seq(Datum), Len(data) \in {1, 2}, Within(data[Len(data)]) = <<>>,
           Len(data) = 2 => \E r : DOMAIN Within(data[1]) = {r} /\ Within(data[1])[r] = 2
    PROVE  HeapOK(Loaded(data)) /\ Ids(Loaded(data)) = 1..Len(data)
<1> DEFINE h == Loaded(data)
           P == [i \in DOMAIN data |-> i]
<1>1. P \in Seq(Nat) /\ Len(P) = Len(data) /\ (\A i \in 1..Len(data) : P[i] = i) /\ DOMAIN data = 1..Len(data)
  OBVIOUS
<1> HIDE DEF P
<1>2. h = [ptr |-> P, data |-> data]
  BY DEF Loaded, P
<1>3. h.ptr = P /\ h.data = data /\ h \in [ptr: Seq(Nat), data: Seq(Datum)]
  BY <1>1, <1>2
<1> HIDE DEF h
<1>4. Ids(h) = 1..Len(data) /\ Typed(h)
  BY <1>1, <1>3 DEF Ids, Newest, Typed
<1> DEFINE IsOne(i, r, n) == i = 1 /\ n = 2 /\ Len(data) = 2 /\ DOMAIN Within(data[1]) = {r}
<1>5. ASSUME NEW i, NEW r, NEW n, Placed(h, i, r, n)
      PROVE  IsOne(i, r, n)
  <2>1. i \in 1..Len(data) /\ r \in DOMAIN Within(data[i]) /\ Within(data[i])[r] = n
    BY <1>3, <1>5 DEF Placed
  <2>2. i # Len(data)
    BY <2>1
  <2>3. Len(data) = 2 /\ i = 1
    BY <2>1, <2>2
  <2> QED BY <2>1, <2>3
<1>6. HeapOK(h)
  <2>1. \A m \in Ids(h) : h.ptr[m] = m
    BY <1>1, <1>3, <1>4
  <2>2. \A i, r, n : IsOne(i, r, n) => n \in Ids(h) /\ n # Root
    BY <1>4
  <2>3. \A i, r, j, q, n : IsOne(i, r, n) /\ IsOne(j, q, n) => i = j /\ r = q
    <3>1. \A r, q : {r} = {q} => r = q
      BY Zenon
    <3> QED BY <3>1
  <2>4. \A m, r, n : IsOne(m, r, n) => m < n
    OBVIOUS
  <2> HIDE DEF IsOne
  <2>5. \A i, r, n : Placed(h, i, r, n) => IsOne(i, r, n)
    BY <1>5
  <2> QED BY <1>4, <2>1, <2>2, <2>3, <2>4, <2>5 DEF HeapOK
<1> QED BY <1>4, <1>6 DEF h

LEMMA InitOK == Init => IInv
<1> SUFFICES ASSUME Init PROVE IInv
  OBVIOUS
<1>1. HeapOK(heap) /\ Root \in Ids(heap)
  <2>1. CASE \E d \in {Null} \cup {Scalar(v) : v \in Scalars} : heap = Loaded(<<d>>)
    <3>1. PICK d : d \in Datum /\ Within(d) = <<>> /\ heap = Loaded(<<d>>)
      BY <2>1, DataAre
    <3> DEFINE data == <<d>>
    <3>2. data \in Seq(Datum) /\ Len(data) = 1 /\ data[1] = d
      BY <3>1
    <3> HIDE DEF data
    <3>3. HeapOK(Loaded(data)) /\ Ids(Loaded(data)) = 1..1
      BY <3>1, <3>2, LoadedOK
    <3> QED BY <3>1, <3>3 DEF data
  <2>2. CASE \E v \in Scalars, r \in Keys \cup {0} :
                heap = Loaded(<<IF r = 0 THEN List(<<2>>) ELSE Map([k \in {r} |-> 2]), Scalar(v)>>)
    <3>1. PICK v \in Scalars, r \in Keys \cup {0} :
             heap = Loaded(<<IF r = 0 THEN List(<<2>>) ELSE Map([k \in {r} |-> 2]), Scalar(v)>>)
      BY <2>2
    <3> DEFINE d == IF r = 0 THEN List(<<2>>) ELSE Map([k \in {r} |-> 2])
               data == <<d, Scalar(v)>>
    <3>2. d \in Datum /\ \E q : DOMAIN Within(d) = {q} /\ Within(d)[q] = 2
      <4>1. CASE r = 0
        <5>1. <<2>> \in Seq(Nat) /\ DOMAIN <<2>> = {1} /\ <<2>>[1] = 2
          OBVIOUS
        <5>2. List(<<2>>) \in Datum /\ Within(List(<<2>>)) = <<2>>
          BY <5>1, DataAre
        <5>3. d = List(<<2>>)
          BY <4>1
        <5> HIDE DEF d
        <5> QED BY <5>1, <5>2, <5>3
      <4>2. CASE r # 0
        <5> DEFINE f == [k \in {r} |-> 2]
        <5>1. f \in [{r} -> Nat] /\ {r} \in SUBSET (Keys \cup Nat) /\ DOMAIN f = {r} /\ f[r] = 2
          OBVIOUS
        <5>2. d = Map(f)
          BY <4>2
        <5> HIDE DEF d, f
        <5>3. f \in Maps
          BY <5>1 DEF Maps
        <5>4. Map(f) \in Datum /\ Within(Map(f)) = f
          BY <5>3, DataAre
        <5> QED BY <5>1, <5>2, <5>4
      <4> QED BY <4>1, <4>2
    <3> HIDE DEF d
    <3>3. data \in Seq(Datum) /\ Len(data) = 2 /\ data[1] = d /\ Within(data[2]) = <<>>
      BY <3>2, DataAre
    <3> HIDE DEF data
    <3>4. HeapOK(Loaded(data)) /\ Ids(Loaded(data)) = 1..2
      BY <3>2, <3>3, LoadedOK
    <3> QED BY <3>1, <3>4 DEF data, d
  <2> QED BY <2>1, <2>2 DEF Init
<1>2. held \in [Handles -> Ids(heap) \cup {NoSource}]
  BY <1>1 DEF Init
<1>3. saving \in [at: Nat, value: Saves \cup {Null}, loops: Seq(LoopsIn(heap))]
  <2>1. <<>> \in Seq(LoopsIn(heap))
    OBVIOUS
  <2> QED BY <2>1 DEF Init, Idle
<1> QED BY <1>1, <1>2, <1>3 DEF IInv

LEMMA ScalarAssignedOK ==
    ASSUME NEW h, HeapOK(h), NEW n \in Ids(h), NEW d \in Datum, Within(d) = <<>>
    PROVE  HeapOK(AssignData(h, n, d)) /\ Ids(AssignData(h, n, d)) = Ids(h)
<1>1. Assignable(h, n, d)
  BY DEF Assignable
<1>2. AssignData(h, n, d).ptr = h.ptr
  BY AssignDataIs DEF HeapOK
<1> QED BY <1>1, <1>2, AssignDataOK DEF Ids, Newest

\* A step in the heap of the program.
LEMMA SteppedOK ==
    ASSUME IInv, NEW n \in Ids(heap), NEW r \in Keys \cup Nat
    PROVE  LET to == Step(heap, n, r)
           IN  /\ HeapOK(to.heap) /\ Ids(heap) \subseteq Ids(to.heap)
               /\ to.node \in Ids(to.heap) /\ to.next \in Ids(to.heap)
<1>1. HeapOK(heap)
  BY DEF IInv
<1> DEFINE to == Step(heap, n, r)
<1>2. /\ HeapOK(to.heap) /\ \A m \in Ids(heap) : m \in Ids(to.heap)
      /\ to.node \in Ids(to.heap) /\ to.next \in Ids(to.heap)
  BY <1>1, StepOK
<1> HIDE DEF to
<1> QED BY <1>2 DEF to

LEMMA RefsAre == Refs \subseteq Keys \cup Nat
BY KeysAreNotIndices DEF Refs, Indices

LEMMA IdleIs == Idle.loops = <<>>
BY DEF Idle

LEMMA HeldIs ==
    ASSUME IInv, NEW s \in Handles, held[s] # NoSource
    PROVE  held[s] \in Ids(heap)
BY DEF IInv

LEMMA NextOK ==
    ASSUME IInv, NEW s \in Handles, NEW d \in Handles, NEW r \in Refs, Next_(s, r, d)
    PROVE  IInv'
<1> DEFINE to == Step(heap, held[s], r)
<1>1. /\ heap' = to.heap /\ held' = [held EXCEPT ![s] = to.node, ![d] = to.next]
      /\ saving' = saving /\ saving = Idle /\ held[s] # NoSource
  BY DEF Next_
<1>2. /\ HeapOK(to.heap) /\ Ids(heap) \subseteq Ids(to.heap)
      /\ to.node \in Ids(to.heap) /\ to.next \in Ids(to.heap)
  BY <1>1, SteppedOK, HeldIs, RefsAre
<1> HIDE DEF to
<1>3. held' \in [Handles -> Ids(heap') \cup {NoSource}]
  BY <1>1, <1>2 DEF IInv
<1>4. saving' \in [at: Nat, value: Saves \cup {Null}, loops: Seq(LoopsIn(heap'))]
  <2>1. <<>> \in Seq(LoopsIn(heap'))
    OBVIOUS
  <2> QED BY <1>1, <2>1, IdleIs DEF IInv
<1> QED BY <1>1, <1>2, <1>3, <1>4 DEF IInv

LEMMA ConstNextOK ==
    ASSUME IInv, NEW s \in Handles, NEW d \in Handles, NEW r \in Refs, ConstNext(s, r, d)
    PROVE  IInv'
<1> DEFINE found == Find(heap, held[s], r)
           x     == IF found = {} THEN NoSource ELSE CHOOSE y \in found : TRUE
<1>1. /\ held' = [held EXCEPT ![d] = x] /\ heap' = heap /\ saving' = saving /\ held[s] # NoSource
  BY DEF ConstNext
<1>2. found \subseteq Ids(heap)
  <2> DEFINE n == held[s]
  <2>1. n \in Ids(heap) /\ HeapOK(heap)
    BY <1>1, HeldIs DEF IInv
  <2> HIDE DEF n
  <2>2. CASE Data(heap, n).t = "list" /\ r \notin Keys /\ r < Size(heap, n)
    <3> DEFINE of == Data(heap, n).of
    <3>1. Find(heap, n, r) = {of[r + 1]}
      BY <2>2 DEF Find
    <3>2. of \in Seq(Nat) /\ Within(Data(heap, n)) = of /\ Size(heap, n) \in Nat /\ Size(heap, n) <= Len(of)
      BY <2>1, <2>2, SizeIs
    <3>3. r + 1 \in DOMAIN of
      <4>1. r \in Nat
        BY <2>2, RefsAre
      <4> HIDE DEF of
      <4> QED BY <2>2, <3>2, <4>1
    <3>4. of[r + 1] \in Ids(heap)
      BY <2>1, <3>2, <3>3, NodesAre
    <3> QED BY <3>1, <3>4 DEF n
  <2>3. CASE ~(Data(heap, n).t = "list" /\ r \notin Keys /\ r < Size(heap, n))
             /\ Data(heap, n).t = "map" /\ r \in Keys \cap DOMAIN Data(heap, n).of
    <3> DEFINE of == Data(heap, n).of
    <3>1. Find(heap, n, r) \subseteq {of[r]}
      BY <2>3 DEF Find
    <3>2. Within(Data(heap, n)) = of
      BY <2>1, <2>3, NodesAre, DatumIs
    <3>3. of[r] \in Ids(heap)
      BY <2>1, <2>3, <3>2, NodesAre
    <3> HIDE DEF of
    <3> QED BY <3>1, <3>3 DEF n
  <2>4. CASE ~(Data(heap, n).t = "list" /\ r \notin Keys /\ r < Size(heap, n))
             /\ ~(Data(heap, n).t = "map" /\ r \in Keys \cap DOMAIN Data(heap, n).of)
    <3>1. Find(heap, n, r) = {}
      BY <2>4 DEF Find
    <3> QED BY <3>1 DEF n
  <2> QED BY <2>2, <2>3, <2>4
<1> HIDE DEF found
<1>3. x \in Ids(heap) \cup {NoSource}
  BY <1>2
<1> HIDE DEF x
<1> QED BY <1>1, <1>3 DEF IInv

LEMMA SetOK ==
    ASSUME IInv, NEW s \in Handles, NEW v \in Scalars, Set(s, v)
    PROVE  IInv'
<1>1. /\ heap' = AssignData(heap, held[s], Scalar(v)) /\ held' = held /\ saving' = saving
      /\ saving = Idle /\ held[s] # NoSource
  BY DEF Set
<1>2. HeapOK(heap') /\ Ids(heap') = Ids(heap)
  BY <1>1, HeldIs, DataAre, ScalarAssignedOK DEF IInv
<1>3. saving' \in [at: Nat, value: Saves \cup {Null}, loops: Seq(LoopsIn(heap'))]
  <2>1. <<>> \in Seq(LoopsIn(heap'))
    OBVIOUS
  <2> QED BY <1>1, <2>1, IdleIs DEF IInv
<1> QED BY <1>1, <1>2, <1>3 DEF IInv

LEMMA LoopsAre ==
    ASSUME NEW h, NEW by \in Handles \cup {NoSource}, NEW n \in Ids(h), NEW v \in Saves,
           NEW left \in SUBSET RefsOf(v)
    PROVE  Loops(by, n, v, left) \in Seq(LoopsIn(h))
<1> DEFINE l == [by |-> by, node |-> n, value |-> v, left |-> left]
<1>1. left \in SUBSET (Keys \cup Nat)
  BY SavesAre
<1>2. l \in LoopsIn(h)
  BY <1>1 DEF LoopsIn
<1>3. Loops(by, n, v, left) = IF left = {} THEN <<>> ELSE <<l>>
  BY DEF Loops
<1> HIDE DEF l
<1> QED BY <1>2, <1>3

LEMMA SaveOK ==
    ASSUME IInv, NEW s \in Handles, NEW v \in Saves, Save(s, v)
    PROVE  IInv'
<1> DEFINE loops == Loops(s, held[s], v, RefsOf(v))
<1>1. /\ saving' = [at |-> held[s], value |-> v, loops |-> loops]
      /\ heap' = heap /\ held' = held /\ held[s] # NoSource
  BY DEF Save
<1>2. held[s] \in Ids(heap) /\ held[s] \in Nat
  BY <1>1, HeldIs, NodesAre DEF IInv
<1>3. loops \in Seq(LoopsIn(heap))
  BY <1>2, LoopsAre
<1> HIDE DEF loops
<1> QED BY <1>1, <1>2, <1>3 DEF IInv

LEMMA SaveElementOK ==
    ASSUME IInv, SaveElement
    PROVE  IInv'
<1> DEFINE loop == Head(saving.loops)
<1>1. PICK r \in loop.left :
         LET x     == At(loop.value, r)
             to    == Step(heap, loop.node, r)
             loops == Loops(NoSource, to.next, x, RefsOf(x))
                        \o Loops(loop.by, to.node, loop.value, loop.left \ {r})
                        \o Tail(saving.loops)
         IN  /\ heap' = IF x.t = "scalar" THEN AssignData(to.heap, to.next, x) ELSE to.heap
             /\ held' = IF loop.by = NoSource THEN held ELSE [held EXCEPT ![loop.by] = to.node]
             /\ saving' = IF loops = <<>> THEN Idle ELSE [saving EXCEPT !.loops = loops]
  BY DEF SaveElement
<1> DEFINE x     == At(loop.value, r)
           to    == Step(heap, loop.node, r)
           a     == Loops(NoSource, to.next, x, RefsOf(x))
           b     == Loops(loop.by, to.node, loop.value, loop.left \ {r})
           c     == Tail(saving.loops)
           loops == a \o b \o c
<1>2. /\ heap' = IF x.t = "scalar" THEN AssignData(to.heap, to.next, x) ELSE to.heap
      /\ held' = IF loop.by = NoSource THEN held ELSE [held EXCEPT ![loop.by] = to.node]
      /\ saving' = IF loops = <<>> THEN Idle ELSE [saving EXCEPT !.loops = loops]
  BY <1>1
<1>3. loop \in LoopsIn(heap) /\ c \in Seq(LoopsIn(heap))
  <2>1. saving.loops \in Seq(LoopsIn(heap)) /\ saving.loops # <<>>
    BY DEF IInv, SaveElement
  <2> QED BY <2>1
<1>4. /\ loop.by \in Handles \cup {NoSource} /\ loop.node \in Ids(heap) /\ loop.value \in Saves
      /\ r \in RefsOf(loop.value) /\ r \in Keys \cup Nat /\ loop.left \ {r} \in SUBSET RefsOf(loop.value)
  BY <1>3 DEF LoopsIn
<1>5. x \in Saves /\ (x.t = "scalar" => x \in Datum /\ Within(x) = <<>>)
  BY <1>4, SavesAre
<1>6. /\ HeapOK(to.heap) /\ Ids(heap) \subseteq Ids(to.heap)
      /\ to.node \in Ids(to.heap) /\ to.next \in Ids(to.heap)
  BY <1>4, SteppedOK
<1>7. a \in Seq(LoopsIn(to.heap)) /\ b \in Seq(LoopsIn(to.heap))
  BY <1>4, <1>5, <1>6, LoopsAre
<1>8. c \in Seq(LoopsIn(to.heap))
  <2>1. LoopsIn(heap) \subseteq LoopsIn(to.heap)
    BY <1>6 DEF LoopsIn
  <2> HIDE DEF c, to
  <2> QED BY <1>3, <2>1
<1> HIDE DEF x, to, a, b, c
<1>9. loops \in Seq(LoopsIn(to.heap))
  BY <1>7, <1>8
<1> HIDE DEF loop, loops
<1>10. HeapOK(heap') /\ Ids(heap') = Ids(to.heap)
  BY <1>2, <1>5, <1>6, ScalarAssignedOK
<1>11. LoopsIn(heap') = LoopsIn(to.heap)
  BY <1>10 DEF LoopsIn
<1>12. held' \in [Handles -> Ids(heap') \cup {NoSource}]
  BY <1>2, <1>4, <1>6, <1>10 DEF IInv
<1>13. saving' \in [at: Nat, value: Saves \cup {Null}, loops: Seq(LoopsIn(heap'))]
  <2>1. Idle \in [at: Nat, value: Saves \cup {Null}, loops: Seq(LoopsIn(heap'))]
    <3>1. <<>> \in Seq(LoopsIn(heap'))
      OBVIOUS
    <3> QED BY <3>1 DEF Idle
  <2>2. saving \in [at: Nat, value: Saves \cup {Null}, loops: Seq(LoopsIn(heap))]
    BY DEF IInv
  <2> QED BY <1>2, <1>9, <1>11, <2>1, <2>2
<1> QED BY <1>10, <1>12, <1>13 DEF IInv

LEMMA NextIsOK == IInv /\ [Next]_vars => IInv'
<1> SUFFICES ASSUME IInv, [Next]_vars PROVE IInv'
  OBVIOUS
<1>1. CASE UNCHANGED vars
  BY <1>1 DEF vars, IInv
<1>2. CASE Next
  BY <1>2, NextOK, ConstNextOK, SetOK, SaveOK, SaveElementOK DEF Next
<1> QED BY <1>1, <1>2

-----------------------------------------------------------------------------
(***************************************************************************)
(* What the runs check                                                     *)
(***************************************************************************)
LEMMA Invariance == Spec => []IInv
<1>1. Init => IInv
  BY InitOK
<1>2. IInv /\ [Next]_vars => IInv'
  BY NextIsOK
<1> QED BY <1>1, <1>2, PTL DEF Spec

LEMMA PlacesAre ==
    ASSUME NEW h, HeapOK(h), NEW n, NEW p
    PROVE  p \in PlacesOf(h, n, Document(h)) <=>
              \E m \in Document(h) : \E r : p = <<m, r>> /\ Placed(h, h.ptr[m], r, n)
<1> DEFINE D == Document(h)
<1>1. \A m \in D : m \in Ids(h)
  BY DocumentIsPlaced
<1>2. \A m \in D : \A r : Placed(h, h.ptr[m], r, n) <=>
         r \in DOMAIN Within(Data(h, m)) /\ Within(Data(h, m))[r] = n
  BY <1>1, NodesAre DEF Placed, Data
<1> HIDE DEF D
<1>3. p \in PlacesOf(h, n, D) <=>
         \E m \in D : \E r : p = <<m, r>> /\ r \in DOMAIN Within(Data(h, m)) /\ Within(Data(h, m))[r] = n
  <2>1. p \in PlacesOf(h, n, D) <=>
           /\ \E m \in D : p \in {m} \X DOMAIN Within(Data(h, m))
           /\ Within(Data(h, p[1]))[p[2]] = n
    BY DEF PlacesOf
  <2>2. ASSUME NEW m \in D
        PROVE  p \in {m} \X DOMAIN Within(Data(h, m)) <=>
                  \E r : p = <<m, r>> /\ r \in DOMAIN Within(Data(h, m))
    OBVIOUS
  <2>3. \A m, r : p = <<m, r>> => p[1] = m /\ p[2] = r
    OBVIOUS
  <2> QED BY <2>1, <2>2, <2>3
<1> QED BY <1>2, <1>3 DEF D

LEMMA TreeShapeOK == IInv => TreeShape
<1> SUFFICES ASSUME IInv PROVE TreeShape
  OBVIOUS
<1> DEFINE D == Document(heap)
<1>1. HeapOK(heap) /\ IsDocument(heap, D)
  BY DocumentIs DEF IInv
<1>2. \A n \in D : n \in Ids(heap) /\ IsPlaced(heap, n)
  BY <1>1, DocumentIsPlaced
<1>3. \A n, p : p \in PlacesOf(heap, n, D) <=>
         \E m \in D : \E r : p = <<m, r>> /\ Placed(heap, heap.ptr[m], r, n)
  BY <1>1, PlacesAre
<1> HIDE DEF D
<1>4. \A n, m \in D : heap.ptr[n] = heap.ptr[m] => n = m
  BY <1>1, <1>2 DEF HeapOK
<1>5. PlacesOf(heap, Root, D) = {}
  BY <1>1, <1>3 DEF HeapOK
<1>6. ASSUME NEW n \in D \ {Root} PROVE \E p \in PlacesOf(heap, n, D) : PlacesOf(heap, n, D) = {p}
  <2>1. PICK m \in D : n \in NodesIn(Data(heap, m))
    BY <1>1 DEF IsDocument
  <2>2. PICK r : Placed(heap, heap.ptr[m], r, n)
    BY <1>1, <1>2, <2>1, InIsPlaced
  <2>3. ASSUME NEW k \in D, NEW q, Placed(heap, heap.ptr[k], q, n) PROVE k = m /\ q = r
    <3>1. heap.ptr[k] = heap.ptr[m] /\ q = r
      BY <1>1, <2>2, <2>3 DEF HeapOK
    <3> QED BY <1>4, <3>1
  <2>4. <<m, r>> \in PlacesOf(heap, n, D)
    BY <1>3, <2>2
  <2>5. \A p \in PlacesOf(heap, n, D) : p = <<m, r>>
    BY <1>3, <2>3
  <2> QED BY <2>4, <2>5
<1> QED BY <1>4, <1>5, <1>6 DEF TreeShape, D

\* Assigning a Node, as the non-const next and encodeInto of a source do, never
\* makes a part of a document show twice or within itself (YamlSource::next).
THEOREM DocumentsAreTrees == Spec => []TreeShape
BY Invariance, TreeShapeOK, PTL

LEMMA StepInDocument ==
    ASSUME IInv, NEW s \in Handles, NEW d \in Handles, NEW r \in Refs, Next_(s, r, d),
           held[s] \in Document(heap)
    PROVE  held'[d] \in Document(heap')
<1> DEFINE n  == held[s]
           to == Step(heap, n, r)
<1>1. HeapOK(heap) /\ n \in Ids(heap)
  BY DocumentIsPlaced DEF IInv
<1>2. heap' = to.heap /\ held' = [held EXCEPT ![s] = to.node, ![d] = to.next]
  BY DEF Next_
<1>3. held'[d] = to.next
  <2>1. held \in [Handles -> Ids(heap) \cup {NoSource}]
    BY DEF IInv
  <2> HIDE DEF to
  <2> QED BY <1>2, <2>1
<1>4. /\ HeapOK(to.heap) /\ \A m \in Ids(heap) : m \in Ids(to.heap)
      /\ to.next \in NodesIn(Data(to.heap, n)) /\ Elsewhere(heap, to.heap, n)
  BY <1>1, StepOK, RefsAre
<1> HIDE DEF to
<1>5. n \in Document(to.heap)
  <2> HIDE DEF n
  <2> QED BY <1>1, <1>4, StepStays DEF n
<1>6. IsDocument(to.heap, Document(to.heap))
  BY <1>4, DocumentIs
<1>7. to.next \in Document(to.heap)
  BY <1>4, <1>5, <1>6 DEF IsDocument
<1> QED BY <1>2, <1>3, <1>7

\* What the non-const next steps to is in the document that it stepped from,
\* whatever the node was and was converted to (YamlSource::next).
THEOREM SourcesStayInTheDocument == Spec => StepsStayInTheDocument
<1>1. IInv /\ [Next]_vars =>
         [\A s, d \in Handles, r \in Refs :
             Next_(s, r, d) /\ held[s] \in Document(heap) => held'[d] \in Document(heap')]_vars
  BY StepInDocument
<1> QED BY <1>1, Invariance, PTL DEF Spec, StepsStayInTheDocument

LEMMA JumpKeepsList ==
    ASSUME IInv, NEW s \in Handles, NEW d \in Handles, NEW i \in Indices,
           held[s] # NoSource, Data(heap, held[s]).t = "list",
           Size(heap, held[s]) = Len(Data(heap, held[s]).of), Next_(s, i, d)
    PROVE  LET was == Data(heap, held[s])
               is  == Data(heap', held[s])
           IN  is.t = "list" /\ (\A j \in DOMAIN was.of : is.of[j] = was.of[j]) /\ is.of[i + 1] = held'[d]
<1> DEFINE n   == held[s]
           of  == Data(heap, n).of
           c   == Converted(heap, n, "list")
           f   == Filled(heap, n, i)
           got == Data(f, n).of
           to  == Step(heap, n, i)
<1>1. HeapOK(heap) /\ n \in Ids(heap) /\ i \in Nat /\ i \notin Keys
  BY HeldIs, KeysAreNotIndices DEF IInv, Indices
<1>2. heap' = to.heap /\ held' = [held EXCEPT ![s] = to.node, ![d] = to.next]
  BY DEF Next_
<1>3. held'[d] = to.next
  <2>1. held \in [Handles -> Ids(heap) \cup {NoSource}]
    BY DEF IInv
  <2> HIDE DEF to
  <2> QED BY <1>2, <2>1
<1>4. to = Subscript(f, n, i)
  <2>1. TypeFor(i) = "list"
    BY <1>1 DEF TypeFor
  <2>2. c = [heap |-> heap, node |-> n, next |-> n]
    BY DEF Converted, Stepped
  <2>3. c.heap = heap /\ c.node = n
    BY <2>2
  <2>4. to = LET g == IF i \in Keys THEN c.heap ELSE Filled(c.heap, c.node, i) IN Subscript(g, c.node, i)
    BY <2>1 DEF Step
  <2> HIDE DEF c
  <2> QED BY <1>1, <2>3, <2>4
<1>5. /\ HeapOK(f) /\ Edited(heap, f, n) /\ Data(f, n).t = "list" /\ got \in Seq(Nat)
      /\ \A j \in DOMAIN of : j \in DOMAIN got /\ got[j] = of[j]
      /\ i <= Len(got) /\ (i # 0 => IsDefined(f, got[i]))
  <2> HIDE DEF n
  <2> QED BY <1>1, FilledOK DEF n
<1>6. n \in Ids(f)
  BY <1>1, <1>5 DEF Edited, Ids
<1>7. to = AtIndex(f, n, i)
  <2> HIDE DEF f, n, to
  <2> QED BY <1>1, <1>4, <1>5 DEF Subscript
<1>8. /\ Data(to.heap, n).t = "list" /\ \A j \in DOMAIN got : Data(to.heap, n).of[j] = got[j]
      /\ Data(to.heap, n).of[i + 1] = to.next
  <2> HIDE DEF f, n, to
  <2> QED BY <1>1, <1>5, <1>6, <1>7, AtIndexOK
<1> HIDE DEF to, f
<1> QED BY <1>2, <1>3, <1>5, <1>8

\* An index past the end of a list is stepped to after the list was filled, so
\* that yaml-cpp does not make a map of it (the loop in YamlSource::next).
THEOREM ListsAreKept == Spec => JumpsKeepLists
<1>1. IInv /\ [Next]_vars =>
         [\A s, d \in Handles, i \in Indices :
             /\ held[s] # NoSource /\ Data(heap, held[s]).t = "list"
             /\ Size(heap, held[s]) = Len(Data(heap, held[s]).of)
             /\ Next_(s, i, d)
             => LET was == Data(heap, held[s])
                    is  == Data(heap', held[s])
                IN  is.t = "list" /\ (\A j \in DOMAIN was.of : is.of[j] = was.of[j]) /\ is.of[i + 1] = held'[d]]_vars
  BY JumpKeepsList
<1> QED BY <1>1, Invariance, PTL DEF Spec, JumpsKeepLists

-----------------------------------------------------------------------------
(***************************************************************************)
(* What is saved                                                           *)
(***************************************************************************)
\* Where in the container it is for r a node is.
Slot(r) == IF r \in Keys THEN r ELSE r + 1

LEMMA SizeAtLeast ==
    ASSUME NEW h, HeapOK(h), NEW n \in Ids(h), Data(h, n).t = "list",
           NEW k \in Nat, k <= Len(Data(h, n).of), \A j \in 1..k : IsDefined(h, Data(h, n).of[j])
    PROVE  k <= Size(h, n)
<1> DEFINE of == Data(h, n).of
           C  == {i \in DOMAIN of : \A j \in 1..i : IsDefined(h, of[j])}
<1>1. of \in Seq(Nat)
  BY SizeIs
<1>2. Size(h, n) = Cardinality(C)
  BY DEF Size
<1>3. k <= Len(of) /\ \A j \in 1..k : IsDefined(h, of[j])
  OBVIOUS
<1> HIDE DEF of
<1>4. Len(of) \in Nat /\ DOMAIN of = 1..Len(of)
  BY <1>1
<1>5. C \subseteq DOMAIN of /\ 1..k \subseteq C
  BY <1>3, <1>4
<1> HIDE DEF C
<1>6. IsFiniteSet(C)
  <2>1. IsFiniteSet(1..Len(of))
    BY <1>4, FS_Interval
  <2> QED BY <1>4, <1>5, <2>1, FS_Subset
<1>7. Cardinality(1..k) = k
  <2>1. Cardinality(1..k) = IF 1 > k THEN 0 ELSE k - 1 + 1
    <3>1. 1 \in Int /\ k \in Int
      OBVIOUS
    <3> QED BY <3>1, FS_Interval
  <2>2. k = 0 \/ ~(1 > k)
    OBVIOUS
  <2> QED BY <2>1, <2>2
<1>8. Cardinality(1..k) <= Cardinality(C)
  BY <1>5, <1>6, FS_Subset
<1> QED BY <1>2, <1>7, <1>8

\* A step to r appends at most: r is a key, an index up to the end of a list, all
\* that is before it being defined, or the first index of what is no list yet.
Ready(h, n, r) ==
    r \notin Keys =>
       IF Data(h, n).t = "list"
       THEN r <= Len(Data(h, n).of) /\ \A j \in 1..r : IsDefined(h, Data(h, n).of[j])
       ELSE r = 0

\* Such a step leads to the slot there. The source it is taken from is left with
\* a node of the same data.
LEMMA StepTakesSlot ==
    ASSUME NEW h, HeapOK(h), NEW n \in Ids(h), NEW r \in Keys \cup Nat, Ready(h, n, r)
    PROVE  LET s   == Step(h, n, r)
               g   == s.heap
               was == Data(h, n).of
               is  == Data(g, n).of
           IN  /\ Data(g, n).t = TypeFor(r)
               /\ Slot(r) \in DOMAIN is /\ is[Slot(r)] = s.next
               /\ g.ptr[s.node] = g.ptr[n]
               /\ \A m \in Ids(h) : m # n => g.ptr[m] = h.ptr[m]
               /\ Data(h, n).t = TypeFor(r) =>
                     g.ptr[n] = h.ptr[n] /\ \A j \in DOMAIN was : j \in DOMAIN is /\ is[j] = was[j]
<1> DEFINE t == TypeFor(r)
           k == Converted(h, n, t)
           c == k.heap
           x == k.node
           s == Step(h, n, r)
<1>0. t \in {"list", "map"} /\ (r \in Keys => t = "map") /\ (r \notin Keys => t = "list" /\ r \in Nat)
  BY DEF TypeFor
<1> HIDE DEF t
<1>1. /\ HeapOK(c) /\ Newest(h) <= Newest(c) /\ n \in Ids(c) /\ x \in Ids(c)
      /\ c.ptr[x] = c.ptr[n] /\ Data(c, n).t = t
  BY <1>0, ConvertedOK
<1>2. /\ Data(h, n).t = t => c = h /\ x = n
      /\ Data(h, n).t # t => Data(c, n) = Empty(t)
      /\ \A m \in Ids(h) : m # n => c.ptr[m] = h.ptr[m]
  BY <1>0, ConvertedIs
<1>3. s = Subscript(IF r \in Keys THEN c ELSE Filled(c, x, r), x, r)
  BY DEF Step, t
<1> HIDE DEF s, k
<1> DEFINE in == Data(c, x).of
<1>4. Data(c, x) = Data(c, n)
  BY <1>1 DEF Data
<1>5. /\ IsSubscript(c, x, s) /\ Data(s.heap, x).t = t
      /\ \A j \in DOMAIN in : j \in DOMAIN Data(s.heap, x).of /\ Data(s.heap, x).of[j] = in[j]
      /\ Slot(r) \in DOMAIN Data(s.heap, x).of /\ Data(s.heap, x).of[Slot(r)] = s.next
  <2>1. CASE r \in Keys
    <3>1. s = AtKey(c, x, r)
      BY <1>0, <1>1, <1>3, <1>4, <2>1 DEF Subscript
    <3>2. Slot(r) = r
      BY <2>1 DEF Slot
    <3> QED BY <1>0, <1>1, <1>4, <2>1, <3>1, <3>2, AtKeyOK
  <2>2. CASE r \notin Keys
    <3>1. Data(c, x).t = "list" /\ r \in Nat /\ Slot(r) = r + 1
      BY <1>0, <1>1, <1>4, <2>2 DEF Slot
    <3>2. r <= Len(in) /\ \A j \in 1..r : IsDefined(c, in[j])
      <4>1. CASE Data(h, n).t = t
        BY <1>0, <1>2, <2>2, <4>1 DEF Ready
      <4>2. CASE Data(h, n).t # t
        <5>1. r = 0
          BY <1>0, <2>2, <4>2 DEF Ready
        <5>2. in \in Seq(Nat)
          BY <1>1, <3>1, SizeIs
        <5> HIDE DEF in
        <5> QED BY <5>1, <5>2
      <4> QED BY <4>1, <4>2
    <3>3. Size(c, x) >= r /\ Len(in) \in Nat
      <4>1. r <= Size(c, x) /\ Size(c, x) \in Nat /\ in \in Seq(Nat)
        BY <1>1, <3>1, <3>2, SizeAtLeast, SizeIs
      <4> HIDE DEF in
      <4> QED BY <3>1, <4>1
    <3>4. Filled(c, x, r) = c
      BY <3>3 DEF Filled
    <3>5. s = AtIndex(c, x, r)
      <4>1. r = 0 \/ (r <= Len(in) /\ IsDefined(c, in[r]))
        BY <3>1, <3>2
      <4> QED BY <1>3, <2>2, <3>1, <3>4, <4>1 DEF Subscript
    <3> QED BY <1>0, <1>1, <2>2, <3>1, <3>2, <3>5, AtIndexOK
  <2> QED BY <2>1, <2>2
<1>6. s.node = x /\ \A m \in Ids(c) : s.heap.ptr[m] = c.ptr[m]
  BY <1>5 DEF IsSubscript, Edited
<1>7. Data(s.heap, x) = Data(s.heap, n)
  BY <1>1, <1>6 DEF Data
<1>8. \A m \in Ids(h) : m \in Ids(c)
  BY <1>1, NodesAre DEF Ids
<1>9. \A m \in Ids(h) : m # n => s.heap.ptr[m] = h.ptr[m]
  BY <1>2, <1>6, <1>8
<1>10. Data(h, n).t = t =>
          /\ s.heap.ptr[n] = h.ptr[n]
          /\ \A j \in DOMAIN Data(h, n).of : j \in DOMAIN Data(s.heap, n).of /\ Data(s.heap, n).of[j] = Data(h, n).of[j]
  BY <1>1, <1>2, <1>4, <1>5, <1>6, <1>7
<1>11. s.heap.ptr[s.node] = s.heap.ptr[n]
  BY <1>1, <1>6
<1> QED BY <1>5, <1>7, <1>9, <1>10, <1>11 DEF s, t

\* A value is full if what is in it is.
FullDef(f, w) == w.t = "scalar" \/ (RefsOf(w) # {} /\ \A r \in RefsOf(w) : f[At(w, r)])
RFull == INSTANCE RankRecursion WITH S <- Saves, Rank <- Depth, Def <- FullDef

LEMMA FullIs ==
    \A v \in Saves : IsFull(v) <=> v.t = "scalar" \/ (RefsOf(v) # {} /\ \A r \in RefsOf(v) : IsFull(At(v, r)))
<1> DEFINE full == CHOOSE f : f = [w \in Saves |-> FullDef(f, w)]
<1>1. RFull!Ranked
  BY SavesAreFinite DEF RFull!Ranked
<1>2. RFull!Local
  <2> SUFFICES ASSUME NEW f, NEW g, NEW w \in Saves,
                      \A q \in Saves : Depth[q] < Depth[w] => f[q] = g[q]
               PROVE  FullDef(f, w) = FullDef(g, w)
    BY DEF RFull!Local
  <2>1. \A r \in RefsOf(w) : f[At(w, r)] = g[At(w, r)]
    BY SavesAre, SavesAreFinite
  <2> QED BY <2>1 DEF FullDef
<1>3. RFull!HasSolution
  BY <1>1, <1>2, RFull!RankRecursion
<1>4. full = [w \in Saves |-> FullDef(full, w)]
  BY <1>3 DEF RFull!HasSolution, RFull!Solves
<1>5. \A v : IsFull(v) = full[v]
  BY DEF IsFull, FullDef
<1> HIDE DEF full
<1>6. \A v \in Saves : full[v] = FullDef(full, v)
  BY <1>4
<1> QED BY <1>5, <1>6 DEF FullDef

LEMMA SavesInduction ==
    \A T : (\A v \in Saves : (\A r \in RefsOf(v) : At(v, r) \in T) => v \in T) => Saves \subseteq T
<1>1. RFull!Ranked
  BY SavesAreFinite DEF RFull!Ranked
<1>2. RFull!Induction
  BY <1>1, RFull!RankInduction
<1>3. \A T : (\A v \in Saves : (\A w \in Saves : Depth[w] < Depth[v] => w \in T) => v \in T) => Saves \subseteq T
  BY <1>2 DEF RFull!Induction
<1> QED BY <1>3, SavesAre, SavesAreFinite

\* The nodes where each value shows.
ShownAt(h, f, w) ==
    IF w.t = "scalar" THEN {m \in 1..Newest(h) : Data(h, m) = w}
    ELSE {m \in 1..Newest(h) : \A r \in RefsOf(w) : \E y \in Find(h, m, r) : y \in f[At(w, r)]}
IsShown(h, f) == f = [w \in Saves |-> ShownAt(h, f, w)]

\* Everywhere in X a value shows as far as those in it do.
ShowsWithin(h, X) ==
    \A n, v : <<n, v>> \in X =>
        /\ n \in Ids(h) /\ v \in Saves
        /\ v.t = "scalar" => Data(h, n) = v
        /\ v.t # "scalar" => \A r \in RefsOf(v) : \E y \in Find(h, n, r) : <<y, At(v, r)>> \in X

LEMMA ShownExists ==
    ASSUME NEW h
    PROVE  \E f : IsShown(h, f)
<1> DEFINE P == Ids(h) \X Saves
           Y == {p \in P : \E X \in SUBSET P : p \in X /\ ShowsWithin(h, X)}
           f == [w \in Saves |-> {m \in Ids(h) : <<m, w>> \in Y}]
<1>1. ShowsWithin(h, Y)
  <2> SUFFICES ASSUME NEW n, NEW v, <<n, v>> \in Y
               PROVE  /\ n \in Ids(h) /\ v \in Saves
                      /\ v.t = "scalar" => Data(h, n) = v
                      /\ v.t # "scalar" => \A r \in RefsOf(v) : \E y \in Find(h, n, r) : <<y, At(v, r)>> \in Y
    BY DEF ShowsWithin
  <2>1. PICK X \in SUBSET P : <<n, v>> \in X /\ ShowsWithin(h, X)
    OBVIOUS
  <2>2. X \subseteq Y
    BY <2>1
  <2> HIDE DEF Y
  <2> QED BY <2>1, <2>2 DEF ShowsWithin
<1>2. ASSUME NEW n \in Ids(h), NEW v \in Saves,
             v.t = "scalar" => Data(h, n) = v,
             v.t # "scalar" => \A r \in RefsOf(v) : \E y \in Find(h, n, r) : <<y, At(v, r)>> \in Y
      PROVE  <<n, v>> \in Y
  <2> DEFINE X == Y \cup {<<n, v>>}
  <2>1. ShowsWithin(h, X)
    <3> HIDE DEF Y
    <3> QED BY <1>1, <1>2 DEF ShowsWithin
  <2>2. X \in SUBSET P /\ <<n, v>> \in X
    OBVIOUS
  <2> HIDE DEF X
  <2> QED BY <2>1, <2>2
<1> HIDE DEF Y
<1>3. \A w \in Saves, m \in Ids(h) : m \in f[w] <=> <<m, w>> \in Y
  OBVIOUS
<1>4. \A m, w : <<m, w>> \in Y => m \in Ids(h) /\ w \in Saves
  BY <1>1 DEF ShowsWithin
<1>5. \A w \in Saves : f[w] = ShownAt(h, f, w)
  <2> SUFFICES ASSUME NEW w \in Saves PROVE f[w] = ShownAt(h, f, w)
    OBVIOUS
  <2>1. f[w] = {m \in Ids(h) : <<m, w>> \in Y}
    OBVIOUS
  <2>2. \A r \in RefsOf(w) : \A y : y \in f[At(w, r)] <=> <<y, At(w, r)>> \in Y
    BY <1>4, SavesAre
  <2> HIDE DEF f
  <2>3. CASE w.t = "scalar"
    <3>1. \A m \in Ids(h) : <<m, w>> \in Y <=> Data(h, m) = w
      BY <1>1, <1>2, <2>3 DEF ShowsWithin
    <3> QED BY <2>1, <2>3, <3>1 DEF ShownAt, Ids
  <2>4. CASE w.t # "scalar"
    <3>1. \A m \in Ids(h) : <<m, w>> \in Y <=> \A r \in RefsOf(w) : \E y \in Find(h, m, r) : <<y, At(w, r)>> \in Y
      BY <1>1, <1>2, <2>4 DEF ShowsWithin
    <3> QED BY <2>1, <2>2, <2>4, <3>1 DEF ShownAt, Ids
  <2> QED BY <2>3, <2>4
<1>6. IsShown(h, f)
  <2>1. f = [w \in Saves |-> f[w]]
    OBVIOUS
  <2> HIDE DEF f
  <2> QED BY <1>5, <2>1, Zenon DEF IsShown
<1> QED BY <1>6

\* What shows as far as what is in it does shows.
LEMMA ShowsIs ==
    ASSUME NEW h, NEW X, ShowsWithin(h, X), NEW n, NEW v, <<n, v>> \in X
    PROVE  Shows(h, n, v)
<1> DEFINE f == CHOOSE g : IsShown(h, g)
           T == {w \in Saves : \A m : <<m, w>> \in X => m \in f[w]}
<1>1. IsShown(h, f)
  BY ShownExists
<1>2. Shows(h, n, v) = (n \in f[v])
  BY DEF Shows, IsShown, ShownAt
<1> HIDE DEF f
<1>3. \A w \in Saves : f[w] = ShownAt(h, f, w)
  BY <1>1 DEF IsShown
<1>4. ASSUME NEW w \in Saves, \A r \in RefsOf(w) : At(w, r) \in T
      PROVE  w \in T
  <2> SUFFICES ASSUME NEW m, <<m, w>> \in X PROVE m \in ShownAt(h, f, w)
    BY <1>3
  <2>1. m \in Ids(h) /\ (w.t = "scalar" => Data(h, m) = w)
    BY DEF ShowsWithin
  <2>2. CASE w.t # "scalar"
    <3>1. \A r \in RefsOf(w) : \E y \in Find(h, m, r) : <<y, At(w, r)>> \in X
      BY <2>2 DEF ShowsWithin
    <3>2. \A r \in RefsOf(w) : \E y \in Find(h, m, r) : y \in f[At(w, r)]
      BY <1>4, <3>1
    <3> QED BY <2>1, <2>2, <3>2 DEF ShownAt, Ids
  <2> QED BY <2>1, <2>2 DEF ShownAt, Ids
<1>5. Saves \subseteq T
  <2> HIDE DEF T
  <2> QED BY <1>4, SavesInduction
<1>6. v \in Saves
  BY DEF ShowsWithin
<1> QED BY <1>2, <1>5, <1>6

\* Node y is at r in what node e is.
Sits(h, e, r, y) ==
    /\ Data(h, e).t = TypeFor(r)
    /\ Slot(r) \in DOMAIN Data(h, e).of /\ Data(h, e).of[Slot(r)] = y

LEMMA SitsIsPlaced ==
    ASSUME NEW h, HeapOK(h), NEW e \in Ids(h), NEW r \in Keys \cup Nat, NEW y, Sits(h, e, r, y)
    PROVE  /\ Placed(h, h.ptr[e], Slot(r), y) /\ y \in Ids(h) /\ y # Root /\ y \in Nat
           /\ \A m \in Ids(h) : h.ptr[m] = h.ptr[e] => m < y
<1>1. Within(Data(h, e)) = Data(h, e).of
  BY NodesAre, DatumIs DEF Sits, TypeFor
<1>2. Placed(h, h.ptr[e], Slot(r), y)
  BY <1>1, NodesAre DEF Sits
<1>3. y \in Ids(h) /\ y # Root
  BY <1>2 DEF HeapOK
<1>4. ASSUME NEW m \in Ids(h), h.ptr[m] = h.ptr[e] PROVE m < y
  <2>1. Placed(h, h.ptr[m], Slot(r), y)
    BY <1>2, <1>4
  <2> QED BY <2>1 DEF HeapOK
<1> QED BY <1>2, <1>3, <1>4, NodesAre

LEMMA SlotsDiffer ==
    ASSUME NEW r \in Keys \cup Nat, NEW q \in Keys \cup Nat, TypeFor(r) = TypeFor(q), Slot(r) = Slot(q)
    PROVE  r = q
BY KeysAreNotIndices DEF TypeFor, Slot

LEMMA RefsOfSaves ==
    ASSUME NEW v \in Saves, NEW r \in RefsOf(v)
    PROVE  /\ v.t = TypeFor(r) /\ r \in Keys \cup Nat /\ At(v, r) \in Saves /\ v.t # "scalar"
           /\ v.t = "list" => r \in Nat /\ r \notin Keys
<1>1. r \in Keys \cup Nat /\ At(v, r) \in Saves
  BY SavesAre
<1>2. CASE v.t = "list"
  <2>1. v.of \in Seq(Saves)
    BY <1>2, SavesAreWhole DEF Scalar, Map
  <2>2. r \in 0..Len(v.of) - 1
    BY <1>2 DEF RefsOf
  <2>3. r \in Nat
    <3> DEFINE k == Len(v.of)
    <3>1. k \in Nat /\ r \in 0..k - 1
      BY <2>1, <2>2
    <3> HIDE DEF k
    <3> QED BY <3>1
  <2> QED BY <1>1, <1>2, <2>3, KeysAreNotIndices DEF TypeFor
<1>3. CASE v.t = "map"
  <2>1. DOMAIN v.of \subseteq Keys
    BY <1>3, SavesAreWhole DEF Scalar, List
  <2>2. r \in Keys
    BY <1>3, <2>1 DEF RefsOf
  <2> QED BY <1>1, <1>3, <2>2 DEF TypeFor
<1> QED BY <1>2, <1>3 DEF RefsOf

\* Node y came to be at r in what node e is, where everything else remains.
Grown(h, g, e, r, y) ==
    /\ HeapOK(g) /\ \A m \in Ids(h) : m \in Ids(g)
    /\ Sits(g, e, r, y)
    /\ \A q, z : TypeFor(q) = TypeFor(r) /\ Sits(h, e, q, z) => Sits(g, e, q, z)
    /\ \A m \in Ids(h) : h.ptr[m] # h.ptr[e] =>
          g.ptr[m] = h.ptr[m] /\ Data(g, m) = Data(h, m) /\ g.ptr[m] # g.ptr[e]

\* A step from any node of the data a place has grows what is at that place, if it
\* need not be converted; from the place itself also if it need.
LEMMA StepGrows ==
    ASSUME NEW h, HeapOK(h), NEW n \in Ids(h), NEW e \in Ids(h), h.ptr[n] = h.ptr[e],
           NEW r \in Keys \cup Nat,
           Ready(h, e, r),
           Data(h, e).t = TypeFor(r) \/ n = e
    PROVE  LET s == Step(h, n, r)
           IN  /\ Grown(h, s.heap, e, r, s.next) /\ s.heap.ptr[s.node] = s.heap.ptr[e]
               /\ s.node \in Ids(s.heap) /\ s.next \in Ids(s.heap)
<1> DEFINE s == Step(h, n, r)
           g == s.heap
<1>1. Data(h, n) = Data(h, e) /\ Ready(h, n, r)
  BY DEF Data, Ready
<1>2. /\ HeapOK(g) /\ \A m \in Ids(h) : m \in Ids(g)
      /\ s.node \in Ids(g) /\ s.next \in Ids(g) /\ Elsewhere(h, g, n)
  BY StepOK
<1>3. /\ Data(g, n).t = TypeFor(r)
      /\ Slot(r) \in DOMAIN Data(g, n).of /\ Data(g, n).of[Slot(r)] = s.next
      /\ g.ptr[s.node] = g.ptr[n]
      /\ \A m \in Ids(h) : m # n => g.ptr[m] = h.ptr[m]
      /\ Data(h, n).t = TypeFor(r) =>
            /\ g.ptr[n] = h.ptr[n]
            /\ \A j \in DOMAIN Data(h, n).of : j \in DOMAIN Data(g, n).of /\ Data(g, n).of[j] = Data(h, n).of[j]
  BY <1>1, StepTakesSlot
<1> HIDE DEF s
<1>4. g.ptr[e] = g.ptr[n]
  BY <1>1, <1>3
<1>5. Data(g, e) = Data(g, n)
  BY <1>4 DEF Data
<1>6. Sits(g, e, r, s.next)
  BY <1>3, <1>5 DEF Sits
<1>7. ASSUME NEW q, NEW z, TypeFor(q) = TypeFor(r), Sits(h, e, q, z) PROVE Sits(g, e, q, z)
  BY <1>1, <1>3, <1>5, <1>7 DEF Sits
<1>8. ASSUME NEW m \in Ids(h), h.ptr[m] # h.ptr[e]
      PROVE  g.ptr[m] = h.ptr[m] /\ Data(g, m) = Data(h, m) /\ g.ptr[m] # g.ptr[e]
  BY <1>2, <1>3, <1>4, <1>8 DEF Elsewhere
<1>9. Grown(h, g, e, r, s.next)
  BY <1>2, <1>6, <1>7, <1>8 DEF Grown
<1> QED BY <1>2, <1>3, <1>4, <1>9 DEF s

-----------------------------------------------------------------------------
(***************************************************************************)
(* While a value is being saved: X has the nodes that are to be parts of   *)
(* it, each with that part, and Y where what is to be there still comes.   *)
(***************************************************************************)
Savable(X, h) == X \subseteq Ids(h) \X Saves /\ \A p \in X : IsFull(p[2])

\* No two of the nodes are of the same data.
Apart(X, h) == \A p, q \in X : h.ptr[p[1]] = h.ptr[q[1]] => p = q

\* What does not come any more is there.
IsThere(h, X, Y, p) ==
    /\ p[2].t = "scalar" => Data(h, p[1]) = p[2]
    /\ \A r \in RefsOf(p[2]) :
          <<p[1], r>> \in Y \/ \E y : Sits(h, p[1], r, y) /\ <<y, At(p[2], r)>> \in X

\* Beside the node the call began with, they are in each other, and after what
\* came first in that one.
Below(h, X, Y, at, p) ==
    /\ \E q \in X : \E r \in RefsOf(q[2]) : <<q[1], r>> \notin Y /\ Sits(h, q[1], r, p[1])
    /\ \E q \in X : \E r \in RefsOf(q[2]) : \E y :
          q[1] = at /\ <<at, r>> \notin Y /\ Sits(h, at, r, y) /\ y <= p[1]

Shape(h, X, Y, at) ==
    /\ HeapOK(h) /\ Savable(X, h) /\ Apart(X, h)
    /\ \A o \in Y : \E p \in X : o[1] = p[1]
    /\ \A p \in X : IsThere(h, X, Y, p)
    /\ \A p \in X : p[1] # at => Below(h, X, Y, at, p)

\* The node of what comes next is none of those.
LEMMA NextIsApart ==
    ASSUME NEW h, NEW X, NEW Y, NEW at, Shape(h, X, Y, at),
           NEW p \in X, NEW r \in RefsOf(p[2]), <<p[1], r>> \in Y,
           NEW g, NEW y, Grown(h, g, p[1], r, y), NEW q \in X
    PROVE  g.ptr[q[1]] # g.ptr[y]
<1> SUFFICES ASSUME g.ptr[q[1]] = g.ptr[y] PROVE FALSE
  OBVIOUS
<1>1. /\ HeapOK(h) /\ HeapOK(g)
      /\ \A x \in X : /\ x[1] \in Ids(h) /\ x[2] \in Saves /\ x[1] \in Ids(g)
                      /\ h.ptr[x[1]] = h.ptr[p[1]] => x = p
  BY DEF Shape, Savable, Apart, Grown
<1>2. r \in Keys \cup Nat /\ p[2].t = TypeFor(r)
  BY <1>1, RefsOfSaves
<1>3. /\ Placed(g, g.ptr[p[1]], Slot(r), y) /\ y \in Ids(g) /\ y \in Nat
      /\ \A m \in Ids(g) : g.ptr[m] = g.ptr[p[1]] => m < y
  BY <1>1, <1>2, SitsIsPlaced DEF Grown
\* What sat somewhere still sits there.
<1>4. ASSUME NEW x \in X, NEW k \in RefsOf(x[2]), NEW z, Sits(h, x[1], k, z)
      PROVE  Sits(g, x[1], k, z)
  <2>1. CASE x = p
    <3>1. TypeFor(k) = TypeFor(r)
      BY <1>1, <1>2, <2>1, RefsOfSaves
    <3> QED BY <1>4, <2>1, <3>1 DEF Grown
  <2>2. CASE x # p
    <3>1. Data(g, x[1]) = Data(h, x[1])
      BY <1>1, <2>2 DEF Grown
    <3> QED BY <1>4, <3>1 DEF Sits
  <2> QED BY <2>1, <2>2
<1>5. CASE q[1] = at
  <2>1. CASE p[1] = at
    BY <1>1, <1>3, <1>5, <2>1
  <2>2. CASE p[1] # at
    <3>1. PICK x \in X : \E k \in RefsOf(x[2]) : \E z : x[1] = at /\ Sits(h, at, k, z) /\ z <= p[1]
      BY <2>2 DEF Shape, Below
    <3>k. PICK k \in RefsOf(x[2]) : \E z : x[1] = at /\ Sits(h, at, k, z) /\ z <= p[1]
      BY <3>1
    <3>2. PICK z : x[1] = at /\ Sits(h, at, k, z) /\ z <= p[1]
      BY <3>k
    <3>3. Sits(g, at, k, z) /\ k \in Keys \cup Nat
      BY <1>1, <1>4, <3>2, RefsOfSaves
    <3>4. z \in Nat /\ \A m \in Ids(g) : g.ptr[m] = g.ptr[at] => m < z
      BY <1>1, <3>2, <3>3, SitsIsPlaced
    <3>5. y < z /\ p[1] < y /\ p[1] \in Nat
      <4>1. p[1] \in Ids(g)
        BY <1>1
      <4> QED BY <1>1, <1>3, <1>5, <3>4, <4>1, NodesAre
    <3> QED BY <1>3, <3>2, <3>4, <3>5
  <2> QED BY <2>1, <2>2
<1>6. CASE q[1] # at
  <2>1. PICK x \in X : \E k \in RefsOf(x[2]) : <<x[1], k>> \notin Y /\ Sits(h, x[1], k, q[1])
    BY <1>6 DEF Shape, Below
  <2>2. PICK k \in RefsOf(x[2]) : <<x[1], k>> \notin Y /\ Sits(h, x[1], k, q[1])
    BY <2>1
  <2>3. Sits(g, x[1], k, q[1]) /\ k \in Keys \cup Nat /\ x[2].t = TypeFor(k)
    BY <1>1, <1>4, <2>2, RefsOfSaves
  <2>4. Placed(g, g.ptr[x[1]], Slot(k), q[1])
    BY <1>1, <2>3, SitsIsPlaced
  <2>5. q[1] = y
    <3>1. q[1] \in Ids(g) /\ IsPlaced(g, q[1]) /\ IsPlaced(g, y)
      BY <1>1, <1>3, <2>4 DEF IsPlaced
    <3> QED BY <1>1, <1>3, <3>1 DEF HeapOK
  <2>6. g.ptr[x[1]] = g.ptr[p[1]] /\ Slot(k) = Slot(r)
    BY <1>1, <1>3, <2>4, <2>5 DEF HeapOK
  <2>7. x = p
    BY <1>1, <2>6 DEF Grown
  <2>8. k = r
    BY <1>2, <2>3, <2>6, <2>7, SlotsDiffer
  <2> QED BY <2>2, <2>7, <2>8
<1> QED BY <1>5, <1>6

\* What sat in one of the nodes still sits there.
LEMMA SitsStays ==
    ASSUME NEW h, NEW X, NEW Y, NEW at, Shape(h, X, Y, at),
           NEW p \in X, NEW r \in RefsOf(p[2]), NEW g, NEW y, Grown(h, g, p[1], r, y),
           NEW q \in X, NEW k \in RefsOf(q[2]), NEW z, Sits(h, q[1], k, z)
    PROVE  Sits(g, q[1], k, z)
<1>1. p[2] \in Saves /\ q[2] \in Saves /\ q[1] \in Ids(h) /\ (h.ptr[q[1]] = h.ptr[p[1]] => q = p)
  BY DEF Shape, Savable, Apart
<1>2. CASE q = p
  <2>1. TypeFor(k) = TypeFor(r)
    BY <1>1, <1>2, RefsOfSaves
  <2> QED BY <1>2, <2>1 DEF Grown
<1>3. CASE q # p
  <2>1. Data(g, q[1]) = Data(h, q[1])
    BY <1>1, <1>3 DEF Grown
  <2> QED BY <2>1 DEF Sits
<1> QED BY <1>2, <1>3

\* The element that comes is set, if it is a scalar.
Put(g, y, x) == IF x.t = "scalar" THEN AssignData(g, y, x) ELSE g

LEMMA PutIs ==
    ASSUME NEW g, HeapOK(g), NEW y \in Ids(g), NEW x \in Saves
    PROVE  LET f == Put(g, y, x)
           IN  /\ HeapOK(f) /\ Ids(f) = Ids(g) /\ f.ptr = g.ptr
               /\ x.t = "scalar" => Data(f, y) = x
               /\ \A m \in Ids(g) : g.ptr[m] # g.ptr[y] => Data(f, m) = Data(g, m)
<1>1. CASE x.t = "scalar"
  <2> DEFINE f == AssignData(g, y, x)
  <2>1. x \in Datum /\ Within(x) = <<>> /\ Typed(g)
    BY <1>1, SavesAre DEF HeapOK
  <2>2. HeapOK(f) /\ Ids(f) = Ids(g)
    BY <2>1, ScalarAssignedOK
  <2>3. /\ f.ptr = g.ptr /\ Data(f, y) = x
        /\ \A i \in 1..Len(g.data) : f.data[i] = IF i = g.ptr[y] THEN x ELSE g.data[i]
    BY <2>1, AssignDataIs
  <2> HIDE DEF f
  <2>4. \A m \in Ids(g) : g.ptr[m] # g.ptr[y] => Data(f, m) = Data(g, m)
    BY <2>1, <2>3 DEF Typed, Data
  <2>5. Put(g, y, x) = f
    BY <1>1 DEF Put, f
  <2> QED BY <2>2, <2>3, <2>4, <2>5
<1>2. CASE x.t # "scalar"
  BY <1>2 DEF Put
<1> QED BY <1>1, <1>2

\* When an element comes, its node is one more, and what is in it is to come.
LEMMA ShapeGrows ==
    ASSUME NEW h, NEW X, NEW Y, NEW at, Shape(h, X, Y, at),
           NEW p \in X, NEW r \in RefsOf(p[2]), <<p[1], r>> \in Y,
           NEW g, NEW y, Grown(h, g, p[1], r, y)
    PROVE  LET x == At(p[2], r)
               f == Put(g, y, x)
           IN  /\ Shape(f, X \cup {<<y, x>>}, (Y \ {<<p[1], r>>}) \cup {<<y, k>> : k \in RefsOf(x)}, at)
               /\ \A q \in X : q[1] # y /\ f.ptr[q[1]] # f.ptr[y]
<1> DEFINE x == At(p[2], r)
           f == Put(g, y, x)
           e == <<y, x>>
           X1 == X \cup {e}
           Y1 == (Y \ {<<p[1], r>>}) \cup {<<y, k>> : k \in RefsOf(x)}
<1>1. /\ HeapOK(h) /\ HeapOK(g)
      /\ \A q \in X : /\ q[1] \in Ids(h) /\ q[2] \in Saves /\ q[1] \in Ids(g) /\ IsFull(q[2])
                      /\ h.ptr[q[1]] = h.ptr[p[1]] => q = p
  BY DEF Shape, Savable, Apart, Grown
<1>2. r \in Keys \cup Nat /\ p[2].t = TypeFor(r) /\ x \in Saves /\ p[2].t # "scalar" /\ p[2].t \in {"list", "map"}
  BY <1>1, RefsOfSaves DEF TypeFor
<1>3. /\ y \in Ids(g) /\ y \in Nat /\ p[1] < y
  BY <1>1, <1>2, SitsIsPlaced DEF Grown
<1>4. /\ HeapOK(f) /\ Ids(f) = Ids(g) /\ f.ptr = g.ptr
      /\ x.t = "scalar" => Data(f, y) = x
      /\ \A m \in Ids(g) : g.ptr[m] # g.ptr[y] => Data(f, m) = Data(g, m)
  BY <1>1, <1>2, <1>3, PutIs
<1>5. \A q \in X : g.ptr[q[1]] # g.ptr[y] /\ q[1] # y
  BY NextIsApart
<1>6. IsFull(x)
  BY <1>1, <1>2, FullIs
<1>7. e[1] = y /\ e[2] = x
  OBVIOUS
<1>8. \A o : o \in Y1 <=> (o \in Y /\ o # <<p[1], r>>) \/ \E k \in RefsOf(x) : o = <<y, k>>
  OBVIOUS
<1>9. \A q : q \in X1 <=> q \in X \/ q = e
  OBVIOUS
<1> HIDE DEF x, f, e, X1, Y1
<1>10. \A q \in X : Data(f, q[1]) = Data(g, q[1])
  BY <1>1, <1>4, <1>5
<1>11. ASSUME NEW q \in X, NEW k \in RefsOf(q[2]), NEW z, Sits(h, q[1], k, z) PROVE Sits(f, q[1], k, z)
  <2>1. Sits(g, q[1], k, z)
    BY <1>11, SitsStays
  <2> QED BY <1>10, <2>1 DEF Sits
<1>12. Sits(f, p[1], r, y)
  BY <1>10 DEF Sits, Grown
<1>13. Savable(X1, f)
  <2>1. e \in Ids(f) \X Saves
    BY <1>2, <1>3, <1>4 DEF e
  <2>2. \A q \in X : q \in Ids(f) \X Saves
    <3>1. \A q \in X : q \in Ids(h) \X Saves
      BY DEF Shape, Savable
    <3> QED BY <1>1, <1>4, <3>1
  <2> QED BY <1>1, <1>6, <1>7, <1>9, <2>1, <2>2 DEF Savable
<1>14. Apart(X1, f)
  <2>1. ASSUME NEW q \in X, NEW o \in X, g.ptr[q[1]] = g.ptr[o[1]] PROVE q = o
    <3>1. CASE q = p \/ o = p
      BY <1>1, <2>1, <3>1 DEF Grown
    <3>2. CASE q # p /\ o # p
      <4>1. h.ptr[q[1]] = h.ptr[o[1]]
        BY <1>1, <2>1, <3>2 DEF Grown
      <4> QED BY <4>1 DEF Shape, Apart
    <3> QED BY <3>1, <3>2
  <2> QED BY <1>4, <1>5, <1>7, <1>9, <2>1 DEF Apart
<1>15. \A o \in Y1 : \E q \in X1 : o[1] = q[1]
  BY <1>7, <1>8, <1>9 DEF Shape
<1>16. ASSUME NEW q \in X1 PROVE IsThere(f, X1, Y1, q)
  <2>1. CASE q = e
    BY <1>4, <1>7, <1>8, <2>1 DEF IsThere
  <2>2. CASE q \in X
    <3>1. q[2].t = "scalar" => Data(f, q[1]) = q[2]
      <4> SUFFICES ASSUME q[2].t = "scalar" PROVE Data(f, q[1]) = q[2]
        OBVIOUS
      <4>1. q # p
        BY <1>2
      <4>2. Data(h, q[1]) = q[2]
        BY <2>2 DEF Shape, IsThere
      <4> QED BY <1>1, <1>10, <2>2, <4>1, <4>2 DEF Grown
    <3>2. ASSUME NEW k \in RefsOf(q[2])
          PROVE  <<q[1], k>> \in Y1 \/ \E z : Sits(f, q[1], k, z) /\ <<z, At(q[2], k)>> \in X1
      <4>1. CASE <<q[1], k>> \notin Y
        <5>1. PICK z : Sits(h, q[1], k, z) /\ <<z, At(q[2], k)>> \in X
          BY <2>2, <4>1 DEF Shape, IsThere
        <5> QED BY <1>9, <1>11, <2>2, <5>1
      <4>2. CASE <<q[1], k>> = <<p[1], r>>
        <5>1. q = p /\ k = r
          BY <1>1, <2>2, <4>2
        <5> QED BY <1>9, <1>12, <5>1 DEF e, x
      <4>3. CASE <<q[1], k>> \in Y /\ <<q[1], k>> # <<p[1], r>>
        BY <1>8, <4>3
      <4> QED BY <4>1, <4>2, <4>3
    <3> QED BY <3>1, <3>2 DEF IsThere
  <2> QED BY <1>9, <2>1, <2>2
<1>17. \A q \in X : \A k : <<q[1], k>> \notin Y => <<q[1], k>> \notin Y1
  BY <1>5, <1>8
<1>18. ASSUME NEW q \in X, q[1] # at
       PROVE  \E o \in X : \E k \in RefsOf(o[2]) : \E z :
                 o[1] = at /\ <<at, k>> \notin Y1 /\ Sits(f, at, k, z) /\ z <= q[1]
  <2>1. PICK o \in X : \E k \in RefsOf(o[2]) : \E z :
                 o[1] = at /\ <<at, k>> \notin Y /\ Sits(h, at, k, z) /\ z <= q[1]
    BY <1>18 DEF Shape, Below
  <2>2. PICK k \in RefsOf(o[2]) : \E z :
                 o[1] = at /\ <<at, k>> \notin Y /\ Sits(h, at, k, z) /\ z <= q[1]
    BY <2>1
  <2> QED BY <1>11, <1>17, <2>2
<1>19. <<p[1], r>> \notin Y1
  BY <1>5, <1>8
<1>20. ASSUME NEW q \in X1, q[1] # at PROVE Below(f, X1, Y1, at, q)
  <2>1. CASE q \in X
    <3>1. PICK o \in X : \E k \in RefsOf(o[2]) : <<o[1], k>> \notin Y /\ Sits(h, o[1], k, q[1])
      BY <1>20, <2>1 DEF Shape, Below
    <3>2. \E k \in RefsOf(o[2]) : <<o[1], k>> \notin Y1 /\ Sits(f, o[1], k, q[1])
      BY <1>11, <1>17, <3>1
    <3>3. \E z \in X1 : \E k \in RefsOf(z[2]) : <<z[1], k>> \notin Y1 /\ Sits(f, z[1], k, q[1])
      BY <1>9, <3>2
    <3>4. \E o1 \in X1 : \E k \in RefsOf(o1[2]) : \E z :
                 o1[1] = at /\ <<at, k>> \notin Y1 /\ Sits(f, at, k, z) /\ z <= q[1]
      BY <1>9, <1>18, <1>20, <2>1
    <3> QED BY <3>3, <3>4 DEF Below
  <2>2. CASE q = e
    <3>1. \E o \in X1 : \E k \in RefsOf(o[2]) : <<o[1], k>> \notin Y1 /\ Sits(f, o[1], k, q[1])
      BY <1>7, <1>9, <1>12, <1>19, <2>2
    <3>2. \E o \in X1 : \E k \in RefsOf(o[2]) : \E z :
                 o[1] = at /\ <<at, k>> \notin Y1 /\ Sits(f, at, k, z) /\ z <= q[1]
      <4>1. CASE p[1] = at
        <5>1. y <= q[1]
          BY <1>3, <1>7, <2>2
        <5> QED BY <1>9, <1>12, <1>19, <4>1, <5>1
      <4>2. CASE p[1] # at
        <5>1. PICK o \in X : \E k \in RefsOf(o[2]) : \E z :
                 o[1] = at /\ <<at, k>> \notin Y1 /\ Sits(f, at, k, z) /\ z <= p[1]
          BY <1>18, <4>2
        <5>2. PICK k \in RefsOf(o[2]) : \E z :
                 o[1] = at /\ <<at, k>> \notin Y1 /\ Sits(f, at, k, z) /\ z <= p[1]
          BY <5>1
        <5>3. PICK z : o[1] = at /\ <<at, k>> \notin Y1 /\ Sits(f, at, k, z) /\ z <= p[1]
          BY <5>2
        <5>4. z \in Nat
          <6>1. k \in Keys \cup Nat /\ at \in Ids(f)
            BY <1>1, <1>4, <5>3, RefsOfSaves
          <6> QED BY <1>4, <5>3, <6>1, SitsIsPlaced
        <5>5. p[1] \in Nat
          BY <1>1, NodesAre
        <5>6. z <= q[1]
          BY <1>3, <1>7, <2>2, <5>3, <5>4, <5>5
        <5> QED BY <1>9, <5>3, <5>6
      <4> QED BY <4>1, <4>2
    <3> QED BY <3>1, <3>2 DEF Below
  <2> QED BY <1>9, <2>1, <2>2
<1>21. Shape(f, X1, Y1, at)
  BY <1>4, <1>13, <1>14, <1>15, <1>16, <1>20 DEF Shape
<1> QED BY <1>4, <1>5, <1>21 DEF x, f, e, X1, Y1

\* Of a list, what comes is all that is after what came.
InOrder(v, left) == v.t = "list" => \A q \in left, r \in RefsOf(v) : q <= r => r \in left

\* The loop l is over what the node of p is to be, which it is, but for the loop
\* that comes next: that one may be at its beginning, and is at the node itself then.
Anchors(h, l, isNext, p) ==
    /\ l.value = p[2] /\ h.ptr[l.node] = h.ptr[p[1]] /\ l.left # {} /\ InOrder(l.value, l.left)
    /\ Data(h, p[1]).t = p[2].t \/ (isNext /\ l.node = p[1])

\* What comes is what is left in the loops, which are over different nodes.
Stack(h, X, Y, ls) ==
    /\ ls \in Seq(LoopsIn(h))
    /\ \A i \in DOMAIN ls : \E p \in X : Anchors(h, ls[i], i = 1, p)
    /\ \A i, j \in DOMAIN ls : h.ptr[ls[i].node] = h.ptr[ls[j].node] => i = j
    /\ \A p \in X : \A r : <<p[1], r>> \in Y <=>
          \E i \in DOMAIN ls : h.ptr[ls[i].node] = h.ptr[p[1]] /\ r \in ls[i].left

\* What is there is defined, unless the loop that comes next is over it.
LEMMA ThereIsDefined ==
    ASSUME NEW h, NEW X, NEW Y, NEW at, Shape(h, X, Y, at), NEW ls, Stack(h, X, Y, ls),
           NEW q \in X, ls # <<>> => h.ptr[ls[1].node] # h.ptr[q[1]]
    PROVE  IsDefined(h, q[1])
<1>1. q[2] \in Saves /\ IsFull(q[2]) /\ IsThere(h, X, Y, q)
  BY DEF Shape, Savable
<1>2. CASE q[2].t = "scalar"
  BY <1>1, <1>2 DEF IsThere, IsDefined, Undefined
<1>3. CASE q[2].t # "scalar"
  <2>1. PICK r \in RefsOf(q[2]) : TRUE
    BY <1>1, <1>3, FullIs
  <2>2. q[2].t = TypeFor(r) /\ TypeFor(r) # "undefined"
    BY <1>1, RefsOfSaves DEF TypeFor
  <2>3. Data(h, q[1]).t = TypeFor(r)
    <3>1. CASE <<q[1], r>> \in Y
      <4>1. PICK i \in DOMAIN ls : h.ptr[ls[i].node] = h.ptr[q[1]]
        BY <3>1 DEF Stack
      <4>2. i # 1
        <5>1. ls # <<>>
          BY <4>1
        <5> QED BY <4>1, <5>1
      <4>3. PICK p \in X : Anchors(h, ls[i], i = 1, p)
        BY DEF Stack
      <4>4. p = q
        BY <4>1, <4>3 DEF Anchors, Shape, Apart
      <4> QED BY <2>2, <4>2, <4>3, <4>4 DEF Anchors
    <3>2. CASE <<q[1], r>> \notin Y
      BY <1>1, <3>2 DEF IsThere, Sits
    <3> QED BY <3>1, <3>2
  <2> QED BY <2>2, <2>3 DEF IsDefined, Undefined
<1> QED BY <1>2, <1>3

\* The next loop takes its step where everything before it is there.
LEMMA NextIsReady ==
    ASSUME NEW h, NEW X, NEW Y, NEW at, Shape(h, X, Y, at), NEW ls, Stack(h, X, Y, ls), ls # <<>>,
           NEW p \in X, Anchors(h, ls[1], TRUE, p),
           NEW r \in ls[1].left, Comes(p[2], r, ls[1].left), ls[1].left \subseteq RefsOf(p[2])
    PROVE  <<p[1], r>> \in Y /\ Ready(h, p[1], r)
<1> DEFINE of == Data(h, p[1]).of
<1>0. 1 \in DOMAIN ls /\ HeapOK(h) /\ p[1] \in Ids(h) /\ p[2] \in Saves /\ IsThere(h, X, Y, p)
  <2>1. 1 \in DOMAIN ls
    BY DEF Stack
  <2> QED BY <2>1 DEF Shape, Savable
<1>1. <<p[1], r>> \in Y
  BY <1>0 DEF Stack, Anchors
<1> SUFFICES ASSUME r \notin Keys
             PROVE  IF Data(h, p[1]).t = "list"
                    THEN r <= Len(of) /\ \A j \in 1..r : IsDefined(h, of[j])
                    ELSE r = 0
  BY <1>1 DEF Ready
<1>2. p[2].t = "list" /\ r \in Nat /\ p[2].of \in Seq(Saves) /\ RefsOf(p[2]) = 0..Len(p[2].of) - 1
  <2>1. p[2].t = TypeFor(r) /\ (p[2].t = "list" => r \in Nat)
    BY <1>0, RefsOfSaves
  <2>2. p[2].t = "list"
    BY <2>1 DEF TypeFor
  <2>3. p[2].of \in Seq(Saves)
    BY <1>0, <2>2, SavesAreWhole DEF Scalar, Map
  <2> QED BY <2>1, <2>2, <2>3 DEF RefsOf
<1>3. ASSUME NEW k \in Nat, k < r
      PROVE  Data(h, p[1]).t = "list" /\ k + 1 \in DOMAIN of /\ IsDefined(h, of[k + 1])
  <2>1. k \in RefsOf(p[2]) /\ k \in Nat /\ k \notin Keys
    <3> DEFINE m == Len(p[2].of)
    <3>1. m \in Nat /\ r \in 0..m - 1
      BY <1>2
    <3> HIDE DEF m
    <3>2. k \in 0..m - 1
      BY <1>2, <1>3, <3>1
    <3> QED BY <1>2, <3>2, KeysAreNotIndices DEF m
  <2>2. k \notin ls[1].left
    <3>1. \A q \in ls[1].left : r <= q
      BY <1>2 DEF Comes
    <3> QED BY <1>2, <1>3, <3>1
  <2>3. <<p[1], k>> \notin Y
    <3> SUFFICES ASSUME <<p[1], k>> \in Y PROVE FALSE
      OBVIOUS
    <3>1. PICK i \in DOMAIN ls : h.ptr[ls[i].node] = h.ptr[p[1]] /\ k \in ls[i].left
      BY DEF Stack
    <3>2. i = 1
      BY <1>0, <3>1 DEF Stack, Anchors
    <3> QED BY <2>2, <3>1, <3>2
  <2>4. PICK y : Sits(h, p[1], k, y) /\ <<y, At(p[2], k)>> \in X
    BY <1>0, <2>1, <2>3 DEF IsThere
  <2>5. Data(h, p[1]).t = "list" /\ k + 1 \in DOMAIN of /\ of[k + 1] = y
    BY <2>1, <2>4 DEF Sits, TypeFor, Slot
  <2>6. h.ptr[p[1]] # h.ptr[y]
    <3>1. y \in Ids(h) /\ y \in Nat /\ \A m \in Ids(h) : h.ptr[m] = h.ptr[p[1]] => m < y
      BY <1>0, <2>1, <2>4, SitsIsPlaced
    <3> QED BY <3>1
  <2> DEFINE q == <<y, At(p[2], k)>>
  <2>7. q \in X /\ q[1] = y
    BY <2>4
  <2> HIDE DEF q
  <2>8. IsDefined(h, q[1])
    BY <2>6, <2>7, ThereIsDefined DEF Anchors
  <2> QED BY <2>5, <2>7, <2>8
<1>4. CASE r = 0
  <2>1. Data(h, p[1]).t = "list" => of \in Seq(Nat)
    BY <1>0, SizeIs
  <2> HIDE DEF of
  <2> QED BY <1>4, <2>1
<1>5. CASE r # 0
  <2>1. r - 1 \in Nat /\ r - 1 < r /\ r = (r - 1) + 1
    BY <1>2, <1>5
  <2>2. Data(h, p[1]).t = "list" /\ r \in DOMAIN of
    <3>1. Data(h, p[1]).t = "list" /\ (r - 1) + 1 \in DOMAIN of
      BY <1>3, <2>1
    <3> HIDE DEF of
    <3> QED BY <2>1, <3>1
  <2>3. of \in Seq(Nat)
    BY <1>0, <2>2, SizeIs
  <2>4. ASSUME NEW j \in 1..r PROVE IsDefined(h, of[j])
    <3>1. j - 1 \in Nat /\ j - 1 < r /\ j = (j - 1) + 1
      BY <1>2
    <3>2. IsDefined(h, of[(j - 1) + 1])
      BY <1>3, <3>1
    <3> HIDE DEF of
    <3> QED BY <3>1, <3>2
  <2> HIDE DEF of
  <2> QED BY <2>2, <2>3, <2>4
<1> QED BY <1>4, <1>5

One(is, l) == IF is THEN <<l>> ELSE <<>>

\* Where the i-th of the loops a, b and those after the first of ls comes from.
From(ls, a, b, i) == IF i = 0 THEN a ELSE IF i = 1 THEN b ELSE ls[i]

IsStacked(ls, hasA, a, hasB, b, new, src) ==
    /\ \A i \in DOMAIN new : /\ src[i] \in 0..Len(ls) /\ new[i] = From(ls, a, b, src[i])
                             /\ src[i] = 0 => hasA /\ i = 1
                             /\ src[i] = 1 => hasB
    /\ \A i, j \in DOMAIN new : src[i] = src[j] => i = j
    /\ hasA => \E i \in DOMAIN new : src[i] = 0
    /\ hasB => \E i \in DOMAIN new : src[i] = 1
    /\ \A k \in 2..Len(ls) : \E i \in DOMAIN new : src[i] = k

LEMMA Joined ==
    ASSUME NEW W, NEW u \in Seq(W), NEW s \in Seq(W)
    PROVE  /\ u \o s \in Seq(W) /\ Len(u \o s) = Len(u) + Len(s)
           /\ \A i \in 1..Len(u) : (u \o s)[i] = u[i]
           /\ \A i \in 1..Len(s) : (u \o s)[Len(u) + i] = s[i]
<1>1. u \o s \in Seq(W)
  OBVIOUS
<1>2. Len(u \o s) = Len(u) + Len(s)
  OBVIOUS
<1>3. ASSUME NEW i \in 1..Len(u) PROVE (u \o s)[i] = u[i]
  OBVIOUS
<1>4. ASSUME NEW i \in 1..Len(s) PROVE (u \o s)[Len(u) + i] = s[i]
  OBVIOUS
<1> QED BY <1>1, <1>2, <1>3, <1>4

LEMMA StackedOne ==
    ASSUME NEW T, NEW s \in Seq(T), NEW a
    PROVE  LET c == <<a>> \o s
           IN  /\ c \in Seq(T \cup {a}) /\ Len(c) = Len(s) + 1 /\ c[1] = a
               /\ \A i \in 1..Len(s) : c[i + 1] = s[i]
<1> DEFINE W == T \cup {a}
           u == <<a>>
<1>1. u \in Seq(W) /\ s \in Seq(W) /\ Len(u) = 1 /\ u[1] = a /\ Len(s) \in Nat
  OBVIOUS
<1> HIDE DEF u, W
<1>2. /\ u \o s \in Seq(W) /\ Len(u \o s) = Len(u) + Len(s)
      /\ \A i \in 1..Len(u) : (u \o s)[i] = u[i]
      /\ \A i \in 1..Len(s) : (u \o s)[Len(u) + i] = s[i]
  BY <1>1, Joined
<1>3. 1 \in 1..Len(u) /\ (\A i \in 1..Len(s) : Len(u) + i = i + 1) /\ Len(u) + Len(s) = Len(s) + 1
  BY <1>1
<1> QED BY <1>1, <1>2, <1>3 DEF u, W

LEMMA Stacked ==
    ASSUME NEW T, NEW ls \in Seq(T), ls # <<>>, NEW hasA \in BOOLEAN, NEW hasB \in BOOLEAN,
           NEW a, NEW b
    PROVE  \E src : IsStacked(ls, hasA, a, hasB, b, One(hasA, a) \o One(hasB, b) \o Tail(ls), src)
<1> DEFINE s == Tail(ls)
           K == Len(ls)
           new == One(hasA, a) \o One(hasB, b) \o s
<1>1. s \in Seq(T) /\ Len(s) = K - 1 /\ K \in Nat /\ K # 0 /\ \A i \in 1..K - 1 : s[i] = ls[i + 1]
  OBVIOUS
<1>2. DOMAIN ls = 1..K
  OBVIOUS
<1>3. \A u : u \in Seq(T) => <<>> \o u = u
  OBVIOUS
<1> HIDE DEF s, K
<1>4. \A i \in 2..K : i - 1 \in 1..K - 1 /\ s[i - 1] = ls[i]
  BY <1>1
<1>5. CASE ~hasA /\ ~hasB
  <2>1. new = s
    <3>1. <<>> \o <<>> = <<>>
      OBVIOUS
    <3>2. new = (<<>> \o <<>>) \o s
      BY <1>5 DEF One
    <3> QED BY <1>1, <1>3, <3>1, <3>2
  <2> DEFINE src == [i \in 1..K - 1 |-> i + 1]
  <2>2. DOMAIN new = 1..K - 1
    BY <1>1, <2>1
  <2>3. \A i \in 1..K - 1 : src[i] = i + 1 /\ i + 1 \in 2..K
    BY <1>1
  <2> HIDE DEF src, new
  <2>4. \A i \in DOMAIN new : src[i] \in 0..K /\ new[i] = From(ls, a, b, src[i]) /\ src[i] # 0 /\ src[i] # 1
    BY <1>1, <2>1, <2>2, <2>3 DEF From
  <2>5. \A i, j \in DOMAIN new : src[i] = src[j] => i = j
    BY <1>1, <2>2, <2>3
  <2>6. ASSUME NEW k \in 2..K PROVE \E i \in DOMAIN new : src[i] = k
    <3>1. k - 1 \in 1..K - 1 /\ (k - 1) + 1 = k
      BY <1>1
    <3> QED BY <2>2, <2>3, <3>1
  <2>7. IsStacked(ls, hasA, a, hasB, b, new, src)
    BY <1>5, <2>4, <2>5, <2>6 DEF IsStacked, K
  <2> QED BY <2>7 DEF new, s
<1>6. CASE hasA /\ ~hasB
  <2>1. new = <<a>> \o s
    <3>1. <<a>> \o <<>> = <<a>>
      OBVIOUS
    <3>2. new = (<<a>> \o <<>>) \o s
      BY <1>6 DEF One
    <3> QED BY <3>1, <3>2
  <2>0. Len(new) = K /\ DOMAIN new = 1..K /\ new[1] = a /\ \A i \in 1..K - 1 : new[i + 1] = s[i]
    <3> DEFINE c == <<a>> \o s
    <3>1. c \in Seq(T \cup {a}) /\ Len(c) = Len(s) + 1 /\ c[1] = a /\ \A i \in 1..Len(s) : c[i + 1] = s[i]
      BY <1>1, StackedOne
    <3> HIDE DEF c
    <3>2. DOMAIN c = 1..Len(c)
      BY <3>1
    <3> QED BY <1>1, <2>1, <3>1, <3>2 DEF c
  <2> DEFINE src == [i \in 1..K |-> IF i = 1 THEN 0 ELSE i]
  <2>3. \A i \in 1..K : src[i] = IF i = 1 THEN 0 ELSE i
    OBVIOUS
  <2> HIDE DEF src, new
  <2>4. ASSUME NEW i \in DOMAIN new
        PROVE  src[i] \in 0..K /\ new[i] = From(ls, a, b, src[i]) /\ (src[i] = 0 => i = 1) /\ src[i] # 1
    <3>1. CASE i = 1
      BY <1>1, <2>0, <2>3, <3>1 DEF From
    <3>2. CASE i # 1
      <4>1. i \in 2..K /\ i - 1 \in 1..K - 1 /\ (i - 1) + 1 = i /\ src[i] = i
        BY <1>1, <2>0, <2>3, <3>2
      <4>2. new[(i - 1) + 1] = s[i - 1] /\ s[i - 1] = ls[i]
        BY <1>4, <2>0, <4>1
      <4> QED BY <1>1, <4>1, <4>2 DEF From
    <3> QED BY <3>1, <3>2
  <2>5. \A i, j \in DOMAIN new : src[i] = src[j] => i = j
    BY <1>1, <2>0, <2>3
  <2>6. ASSUME NEW k \in 2..K PROVE \E i \in DOMAIN new : src[i] = k
    <3>1. k \in 1..K /\ k # 1
      BY <1>1
    <3> QED BY <2>0, <2>3, <3>1
  <2>7. 1 \in DOMAIN new /\ src[1] = 0
    BY <1>1, <2>0, <2>3
  <2>8. IsStacked(ls, hasA, a, hasB, b, new, src)
    BY <1>6, <2>4, <2>5, <2>6, <2>7 DEF IsStacked, K
  <2> QED BY <2>8 DEF new, s
<1>7. CASE ~hasA /\ hasB
  <2>1. new = <<b>> \o s
    <3>1. <<>> \o <<b>> = <<b>>
      OBVIOUS
    <3>2. new = (<<>> \o <<b>>) \o s
      BY <1>7 DEF One
    <3> QED BY <3>1, <3>2
  <2>0. Len(new) = K /\ DOMAIN new = 1..K /\ new[1] = b /\ \A i \in 1..K - 1 : new[i + 1] = s[i]
    <3> DEFINE c == <<b>> \o s
    <3>1. c \in Seq(T \cup {b}) /\ Len(c) = Len(s) + 1 /\ c[1] = b /\ \A i \in 1..Len(s) : c[i + 1] = s[i]
      BY <1>1, StackedOne
    <3> HIDE DEF c
    <3>2. DOMAIN c = 1..Len(c)
      BY <3>1
    <3> QED BY <1>1, <2>1, <3>1, <3>2 DEF c
  <2> DEFINE src == [i \in 1..K |-> i]
  <2>3. \A i \in 1..K : src[i] = i
    OBVIOUS
  <2> HIDE DEF src, new
  <2>4. ASSUME NEW i \in DOMAIN new
        PROVE  src[i] \in 0..K /\ new[i] = From(ls, a, b, src[i]) /\ src[i] # 0
    <3>1. CASE i = 1
      BY <1>1, <2>0, <2>3, <3>1 DEF From
    <3>2. CASE i # 1
      <4>1. i \in 2..K /\ i - 1 \in 1..K - 1 /\ (i - 1) + 1 = i /\ src[i] = i
        BY <1>1, <2>0, <2>3, <3>2
      <4>2. new[(i - 1) + 1] = s[i - 1] /\ s[i - 1] = ls[i]
        BY <1>4, <2>0, <4>1
      <4> QED BY <1>1, <4>1, <4>2 DEF From
    <3> QED BY <3>1, <3>2
  <2>5. \A i, j \in DOMAIN new : src[i] = src[j] => i = j
    BY <1>1, <2>0, <2>3
  <2>6. ASSUME NEW k \in 2..K PROVE \E i \in DOMAIN new : src[i] = k
    <3>1. k \in 1..K /\ k # 1
      BY <1>1
    <3> QED BY <2>0, <2>3, <3>1
  <2>7. 1 \in DOMAIN new /\ src[1] = 1
    BY <1>1, <2>0, <2>3
  <2>8. IsStacked(ls, hasA, a, hasB, b, new, src)
    BY <1>7, <2>4, <2>5, <2>6, <2>7 DEF IsStacked, K
  <2> QED BY <2>8 DEF new, s
<1>8. CASE hasA /\ hasB
  <2> DEFINE c == <<b>> \o s
             d == <<a>> \o c
  <2>1. new = d
    <3>1. new = (<<a>> \o <<b>>) \o s
      BY <1>8 DEF One
    <3>2. <<a>> \in Seq({a, b}) /\ <<b>> \in Seq({a, b})
      OBVIOUS
    <3> QED BY <1>1, <3>1, <3>2
  <2>2. /\ c \in Seq(T \cup {b}) /\ Len(c) = Len(s) + 1 /\ c[1] = b
        /\ \A i \in 1..Len(s) : c[i + 1] = s[i]
    BY <1>1, StackedOne
  <2> HIDE DEF c
  <2>3. /\ d \in Seq((T \cup {b}) \cup {a}) /\ Len(d) = Len(c) + 1 /\ d[1] = a
        /\ \A i \in 1..Len(c) : d[i + 1] = c[i]
    BY <2>2, StackedOne
  <2> HIDE DEF d, new
  <2>4. DOMAIN new = 1..K + 1
    BY <1>1, <2>1, <2>2, <2>3
  <2> DEFINE src == [i \in 1..K + 1 |-> i - 1]
  <2>5. \A i \in 1..K + 1 : src[i] = i - 1
    OBVIOUS
  <2> HIDE DEF src
  <2>6. ASSUME NEW i \in DOMAIN new
        PROVE  src[i] \in 0..K /\ new[i] = From(ls, a, b, src[i]) /\ (src[i] = 0 => i = 1)
    <3>1. i \in 1..K + 1 /\ src[i] = i - 1 /\ src[i] \in 0..K /\ (src[i] = 0 => i = 1)
      BY <1>1, <2>4, <2>5
    <3>2. CASE i = 1
      BY <2>1, <2>3, <3>1, <3>2 DEF From
    <3>3. CASE i = 2
      <4>1. 1 \in 1..Len(c)
        BY <1>1, <2>2
      <4>2. d[1 + 1] = c[1]
        BY <2>3, <4>1
      <4> QED BY <2>1, <2>2, <3>1, <3>3, <4>2 DEF From
    <3>4. CASE i # 1 /\ i # 2
      <4>1. /\ i - 1 \in 2..K /\ i - 1 \in 1..Len(c) /\ (i - 1) + 1 = i
            /\ i - 2 \in 1..Len(s) /\ (i - 2) + 1 = i - 1 /\ (i - 1) - 1 = i - 2
        BY <1>1, <2>2, <3>1, <3>4
      <4>2. d[(i - 1) + 1] = c[i - 1] /\ c[(i - 2) + 1] = s[i - 2] /\ s[(i - 1) - 1] = ls[i - 1]
        BY <1>4, <2>2, <2>3, <4>1
      <4>3. d[i] = ls[i - 1]
        BY <4>1, <4>2
      <4> QED BY <2>1, <3>1, <4>1, <4>3 DEF From
    <3> QED BY <3>2, <3>3, <3>4
  <2>7. \A i, j \in DOMAIN new : src[i] = src[j] => i = j
    BY <1>1, <2>4, <2>5
  <2>8. ASSUME NEW k \in 0..K PROVE \E i \in DOMAIN new : src[i] = k
    <3>1. k + 1 \in 1..K + 1 /\ (k + 1) - 1 = k
      BY <1>1
    <3> QED BY <2>4, <2>5, <3>1
  <2>9. /\ \E i \in DOMAIN new : src[i] = 0
        /\ \E i \in DOMAIN new : src[i] = 1
        /\ \A k \in 2..K : \E i \in DOMAIN new : src[i] = k
    <3>1. 0 \in 0..K /\ 1 \in 0..K /\ \A k \in 2..K : k \in 0..K
      BY <1>1
    <3> QED BY <2>8, <3>1
  <2>10. IsStacked(ls, hasA, a, hasB, b, new, src)
    BY <1>8, <2>6, <2>7, <2>9 DEF IsStacked, K
  <2> QED BY <2>10 DEF new, s
<1> QED BY <1>5, <1>6, <1>7, <1>8

\* One element more, and the loops are over what comes then.
LEMMA StackGrows ==
    ASSUME NEW h, NEW X, NEW Y, NEW at, Shape(h, X, Y, at), NEW ls, Stack(h, X, Y, ls), ls # <<>>,
           NEW r \in ls[1].left, Comes(ls[1].value, r, ls[1].left)
    PROVE  LET l   == ls[1]
               x   == At(l.value, r)
               to  == Step(h, l.node, r)
               f   == Put(to.heap, to.next, x)
               new == Loops(NoSource, to.next, x, RefsOf(x))
                         \o Loops(l.by, to.node, l.value, l.left \ {r}) \o Tail(ls)
           IN  new \in Seq(LoopsIn(f)) =>
                  \E X1, Y1 : X \subseteq X1 /\ Shape(f, X1, Y1, at) /\ Stack(f, X1, Y1, new)
<1> DEFINE l   == ls[1]
           x   == At(l.value, r)
           to  == Step(h, l.node, r)
           g   == to.heap
           y   == to.next
           f   == Put(g, y, x)
           a   == [by |-> NoSource, node |-> y, value |-> x, left |-> RefsOf(x)]
           b   == [by |-> l.by, node |-> to.node, value |-> l.value, left |-> l.left \ {r}]
           hasA == RefsOf(x) # {}
           hasB == l.left \ {r} # {}
           new == One(hasA, a) \o One(hasB, b) \o Tail(ls)
<1>1. new = Loops(NoSource, to.next, x, RefsOf(x)) \o Loops(l.by, to.node, l.value, l.left \ {r}) \o Tail(ls)
  BY DEF Loops, One
<1>2. /\ ls \in Seq(LoopsIn(h)) /\ 1 \in DOMAIN ls /\ l \in LoopsIn(h) /\ Len(ls) \in Nat
      /\ \A i : i \in DOMAIN ls <=> i \in 1..Len(ls)
  <2>1. ls \in Seq(LoopsIn(h))
    BY DEF Stack
  <2> QED BY <2>1
<1>3. l.node \in Ids(h) /\ l.value \in Saves /\ l.left \subseteq RefsOf(l.value)
  BY <1>2 DEF LoopsIn
<1>4. PICK p \in X : Anchors(h, l, TRUE, p)
  BY <1>2 DEF Stack
<1>5. p[1] \in Ids(h) /\ p[2] = l.value /\ h.ptr[l.node] = h.ptr[p[1]] /\ HeapOK(h)
  BY <1>4 DEF Anchors, Shape, Savable
<1>6. r \in RefsOf(p[2]) /\ p[2].t = TypeFor(r) /\ r \in Keys \cup Nat /\ x \in Saves
  BY <1>3, <1>5, RefsOfSaves
<1>7. <<p[1], r>> \in Y /\ Ready(h, p[1], r)
  <2>1. Anchors(h, ls[1], TRUE, p) /\ ls[1].left \subseteq RefsOf(p[2]) /\ Comes(p[2], r, ls[1].left)
    BY <1>3, <1>4, <1>5
  <2> HIDE DEF l, x, to, g, y, f, a, b, hasA, hasB, new
  <2> QED BY <2>1, NextIsReady
<1>8. Data(h, p[1]).t = TypeFor(r) \/ l.node = p[1]
  BY <1>4, <1>6 DEF Anchors
<1>9. /\ Grown(h, g, p[1], r, y) /\ g.ptr[to.node] = g.ptr[p[1]]
      /\ to.node \in Ids(g) /\ y \in Ids(g)
  BY <1>3, <1>5, <1>6, <1>7, <1>8, StepGrows
<1> DEFINE X1 == X \cup {<<y, x>>}
           Y1 == (Y \ {<<p[1], r>>}) \cup {<<y, k>> : k \in RefsOf(x)}
<1>10. Shape(f, X1, Y1, at) /\ \A q \in X : q[1] # y /\ f.ptr[q[1]] # f.ptr[y]
  <2> DEFINE z == At(p[2], r)
  <2>1. /\ Shape(Put(g, y, z), X \cup {<<y, z>>}, (Y \ {<<p[1], r>>}) \cup {<<y, k>> : k \in RefsOf(z)}, at)
        /\ \A q \in X : q[1] # y /\ Put(g, y, z).ptr[q[1]] # Put(g, y, z).ptr[y]
    <3>1. r \in RefsOf(p[2]) /\ <<p[1], r>> \in Y /\ Grown(h, g, p[1], r, y)
      BY <1>6, <1>7, <1>9
    <3> HIDE DEF l, x, to, g, y, f, a, b, hasA, hasB, new, X1, Y1
    <3> QED BY <3>1, ShapeGrows
  <2>2. x = z
    BY <1>5
  <2> HIDE DEF to, x, l, z
  <2> QED BY <2>1, <2>2
<1>11. HeapOK(g) /\ \A m \in Ids(h) : m \in Ids(g)
  BY <1>9 DEF Grown
<1>12. /\ f.ptr = g.ptr
       /\ \A m \in Ids(g) : g.ptr[m] # g.ptr[y] => Data(f, m) = Data(g, m)
  <2> HIDE DEF to, x, l
  <2> QED BY <1>6, <1>9, <1>11, PutIs
<1>13. /\ a.node = y /\ a.value = x /\ a.left = RefsOf(x)
       /\ b.node = to.node /\ b.value = p[2] /\ b.left = l.left \ {r}
  BY <1>5
<1>14. \A q : q \in X1 <=> q \in X \/ q = <<y, x>>
  OBVIOUS
<1>15. \A o : o \in Y1 <=> (o \in Y /\ o # <<p[1], r>>) \/ \E k \in RefsOf(x) : o = <<y, k>>
  OBVIOUS
<1>16. PICK src : IsStacked(ls, hasA, a, hasB, b, new, src)
  <2>1. hasA \in BOOLEAN /\ hasB \in BOOLEAN
    OBVIOUS
  <2> HIDE DEF hasA, hasB, a, b
  <2> QED BY <1>2, <2>1, Stacked
<1> SUFFICES ASSUME new \in Seq(LoopsIn(f)) PROVE Stack(f, X1, Y1, new)
  <2>1. X \subseteq X1
    OBVIOUS
  <2> HIDE DEF X1, Y1, new, f
  <2> QED BY <1>1, <1>10, <2>1 DEF f
<1>17. hasA <=> RefsOf(x) # {}
  OBVIOUS
<1>18. hasB <=> l.left \ {r} # {}
  OBVIOUS
<1> HIDE DEF X1, Y1, new, f, a, b, hasA, hasB, to, x
\* Where the loops are now.
<1> DEFINE T(i) == From(ls, a, b, i)
<1>19. T(0) = a /\ T(1) = b /\ \A i \in 2..Len(ls) : T(i) = ls[i]
  BY DEF From
<1>20. f.ptr[a.node] = f.ptr[y] /\ f.ptr[b.node] = f.ptr[p[1]]
  BY <1>9, <1>12, <1>13
<1>21. Data(f, p[1]).t = p[2].t
  <2>1. Data(g, p[1]).t = p[2].t
    BY <1>6, <1>9 DEF Grown, Sits
  <2> QED BY <1>5, <1>10, <1>11, <1>12, <2>1
<1>22. \A q \in X : /\ q # p => f.ptr[q[1]] = h.ptr[q[1]] /\ Data(f, q[1]) = Data(h, q[1])
                    /\ q # p => f.ptr[q[1]] # f.ptr[p[1]] /\ h.ptr[q[1]] # h.ptr[p[1]]
  <2> SUFFICES ASSUME NEW q \in X, q # p
               PROVE  /\ f.ptr[q[1]] = h.ptr[q[1]] /\ Data(f, q[1]) = Data(h, q[1])
                      /\ f.ptr[q[1]] # f.ptr[p[1]] /\ h.ptr[q[1]] # h.ptr[p[1]]
    OBVIOUS
  <2>1. q[1] \in Ids(h) /\ h.ptr[q[1]] # h.ptr[p[1]]
    BY DEF Shape, Savable, Apart
  <2>2. g.ptr[q[1]] = h.ptr[q[1]] /\ Data(g, q[1]) = Data(h, q[1]) /\ g.ptr[q[1]] # g.ptr[p[1]]
    BY <1>9, <2>1 DEF Grown
  <2> QED BY <1>10, <1>11, <1>12, <2>1, <2>2
<1>23. ASSUME NEW i \in 2..Len(ls)
       PROVE  /\ f.ptr[ls[i].node] = h.ptr[ls[i].node] /\ f.ptr[ls[i].node] # f.ptr[p[1]]
              /\ \E q \in X : q # p /\ Anchors(f, ls[i], FALSE, q)
  <2>1. i \in DOMAIN ls /\ i # 1
    BY <1>2
  <2>2. PICK q \in X : Anchors(h, ls[i], i = 1, q)
    BY <2>1 DEF Stack
  <2>3. ls[i].node \in Ids(h)
    BY <1>2, <2>1 DEF LoopsIn
  <2>4. h.ptr[ls[i].node] # h.ptr[p[1]]
    BY <1>2, <1>5, <2>1 DEF Stack
  <2>5. q # p
    BY <2>2, <2>4 DEF Anchors
  <2>6. f.ptr[ls[i].node] = h.ptr[ls[i].node] /\ f.ptr[ls[i].node] # f.ptr[p[1]]
    BY <1>9, <1>12, <2>3, <2>4 DEF Grown
  <2>7. Anchors(f, ls[i], FALSE, q)
    BY <1>22, <2>1, <2>2, <2>5, <2>6 DEF Anchors
  <2> QED BY <2>5, <2>6, <2>7
<1>24. f.ptr[p[1]] # f.ptr[y]
  BY <1>10
<1>25. ASSUME NEW i \in 2..Len(ls) PROVE f.ptr[ls[i].node] # f.ptr[y]
  <2>1. PICK q \in X : Anchors(f, ls[i], FALSE, q)
    BY <1>23
  <2> QED BY <1>10, <2>1 DEF Anchors
<1>26. \A i, j \in 0..Len(ls) : f.ptr[T(i).node] = f.ptr[T(j).node] => i = j
  <2>1. \A i \in 0..Len(ls) : i = 0 \/ i = 1 \/ i \in 2..Len(ls)
    BY <1>2
  <2>2. ASSUME NEW i \in 2..Len(ls), NEW j \in 2..Len(ls), f.ptr[ls[i].node] = f.ptr[ls[j].node] PROVE i = j
    <3>1. i \in DOMAIN ls /\ j \in DOMAIN ls
      BY <1>2
    <3> QED BY <1>23, <2>2, <3>1 DEF Stack
  <2> HIDE DEF T
  <2>3. f.ptr[T(0).node] = f.ptr[y] /\ f.ptr[T(1).node] = f.ptr[p[1]]
    BY <1>19, <1>20
  <2>4. \A i \in 2..Len(ls) : /\ T(i).node = ls[i].node
                              /\ f.ptr[ls[i].node] # f.ptr[y] /\ f.ptr[ls[i].node] # f.ptr[p[1]]
    BY <1>19, <1>23, <1>25
  <2> QED BY <1>24, <2>1, <2>2, <2>3, <2>4
<1>27. /\ \A i \in DOMAIN new : /\ src[i] \in 0..Len(ls) /\ new[i] = T(src[i])
                                /\ src[i] = 0 => hasA /\ i = 1
                                /\ src[i] = 1 => hasB
       /\ \A i, j \in DOMAIN new : src[i] = src[j] => i = j
       /\ hasA => \E i \in DOMAIN new : src[i] = 0
       /\ hasB => \E i \in DOMAIN new : src[i] = 1
       /\ \A k \in 2..Len(ls) : \E i \in DOMAIN new : src[i] = k
  BY <1>16 DEF IsStacked
<1> HIDE DEF T
<1>28. ASSUME NEW i \in DOMAIN new PROVE \E q \in X1 : Anchors(f, new[i], i = 1, q)
  <2>1. CASE src[i] = 0
    <3>1. new[i] = a /\ i = 1 /\ hasA
      BY <1>19, <1>27, <2>1
    <3> DEFINE e == <<y, x>>
    <3>2. e[1] = y /\ e[2] = x /\ e \in X1
      BY <1>14
    <3> HIDE DEF e
    <3>3. InOrder(x, RefsOf(x))
      BY DEF InOrder
    <3>4. Anchors(f, a, TRUE, e)
      BY <1>13, <1>17, <3>1, <3>2, <3>3 DEF Anchors
    <3> QED BY <3>1, <3>2, <3>4
  <2>2. CASE src[i] = 1
    <3>1. new[i] = b /\ hasB
      BY <1>19, <1>27, <2>2
    <3>2. InOrder(p[2], b.left)
      <4> SUFFICES ASSUME p[2].t = "list", NEW q \in b.left, NEW k \in RefsOf(p[2]), q <= k
                   PROVE  k \in b.left
        BY DEF InOrder
      <4>1. InOrder(p[2], l.left) /\ Comes(p[2], r, l.left)
        BY <1>4, <1>5 DEF Anchors
      <4>2. q \in l.left /\ q # r /\ r <= q
        BY <1>13, <4>1 DEF Comes
      <4>3. q \in Nat /\ r \in Nat
        <5>1. p[2] \in Saves /\ q \in RefsOf(p[2])
          BY <1>3, <1>5, <4>2
        <5> QED BY <1>6, <5>1, RefsOfSaves
      <4>4. k \in l.left
        BY <4>1, <4>2 DEF InOrder
      <4>5. k # r
        BY <4>2, <4>3
      <4> QED BY <1>13, <4>4, <4>5
    <3>3. Anchors(f, b, i = 1, p)
      BY <1>13, <1>18, <1>20, <1>21, <3>1, <3>2 DEF Anchors
    <3> QED BY <1>14, <3>1, <3>3
  <2>3. CASE src[i] \in 2..Len(ls)
    <3>1. new[i] = ls[src[i]]
      BY <1>19, <1>27, <2>3
    <3>2. PICK q \in X : Anchors(f, ls[src[i]], FALSE, q)
      BY <1>23, <2>3
    <3>3. Anchors(f, new[i], i = 1, q)
      BY <3>1, <3>2 DEF Anchors
    <3> QED BY <1>14, <3>3
  <2>4. src[i] = 0 \/ src[i] = 1 \/ src[i] \in 2..Len(ls)
    <3>1. src[i] \in 0..Len(ls)
      BY <1>27
    <3> QED BY <1>2, <3>1
  <2> QED BY <2>1, <2>2, <2>3, <2>4
<1>29. \A i, j \in DOMAIN new : f.ptr[new[i].node] = f.ptr[new[j].node] => i = j
  <2> SUFFICES ASSUME NEW i \in DOMAIN new, NEW j \in DOMAIN new, f.ptr[new[i].node] = f.ptr[new[j].node]
               PROVE  i = j
    OBVIOUS
  <2>1. /\ src[i] \in 0..Len(ls) /\ new[i] = T(src[i])
        /\ src[j] \in 0..Len(ls) /\ new[j] = T(src[j])
    BY <1>27
  <2>2. src[i] = src[j]
    BY <1>26, <2>1
  <2> QED BY <1>27, <2>2
<1>30. ASSUME NEW q \in X1, NEW k
       PROVE  <<q[1], k>> \in Y1 <=> \E i \in DOMAIN new : f.ptr[new[i].node] = f.ptr[q[1]] /\ k \in new[i].left
  <2> DEFINE Comes1 == \E i \in DOMAIN new : f.ptr[new[i].node] = f.ptr[q[1]] /\ k \in new[i].left
  \* The loop that is over a node is the only one.
  <2>1. ASSUME NEW j \in 0..Len(ls), f.ptr[T(j).node] = f.ptr[q[1]]
        PROVE  Comes1 <=> k \in T(j).left /\ \E i \in DOMAIN new : src[i] = j
    <3>1. ASSUME NEW i \in DOMAIN new, f.ptr[new[i].node] = f.ptr[q[1]]
          PROVE  src[i] = j
      BY <1>26, <1>27, <2>1, <3>1
    <3> QED BY <1>27, <2>1, <3>1
  <2>2. CASE q = <<y, x>>
    <3>1. q[1] = y
      BY <2>2
    <3>2. Comes1 <=> k \in RefsOf(x) /\ hasA
      <4>1. f.ptr[T(0).node] = f.ptr[q[1]] /\ T(0).left = RefsOf(x) /\ 0 \in 0..Len(ls)
        BY <1>2, <1>13, <1>19, <1>20, <3>1
      <4>2. Comes1 <=> k \in T(0).left /\ \E i \in DOMAIN new : src[i] = 0
        BY <2>1, <4>1
      <4> HIDE DEF Comes1
      <4> QED BY <1>27, <4>1, <4>2
    <3>3. <<y, k>> \in Y1 <=> k \in RefsOf(x)
      <4>1. <<y, k>> \notin Y
        BY <1>10 DEF Shape
      <4> QED BY <1>15, <4>1
    <3> HIDE DEF Comes1
    <3>4. <<q[1], k>> \in Y1 <=> Comes1
      BY <1>17, <3>1, <3>2, <3>3
    <3> QED BY <3>4 DEF Comes1
  <2>3. CASE q = p
    <3>1. Comes1 <=> k \in l.left \ {r} /\ hasB
      <4>1. f.ptr[T(1).node] = f.ptr[q[1]] /\ T(1).left = l.left \ {r} /\ 1 \in 0..Len(ls)
        BY <1>2, <1>13, <1>19, <1>20, <2>3
      <4>2. Comes1 <=> k \in T(1).left /\ \E i \in DOMAIN new : src[i] = 1
        BY <2>1, <4>1
      <4> HIDE DEF Comes1
      <4> QED BY <1>27, <4>1, <4>2
    <3>2. <<p[1], k>> \in Y <=> k \in l.left
      BY <1>2, <1>5 DEF Stack
    <3>3. <<p[1], k>> \in Y1 <=> k \in l.left \ {r}
      BY <1>10, <1>15, <3>2
    <3> HIDE DEF Comes1
    <3>4. <<q[1], k>> \in Y1 <=> Comes1
      BY <1>18, <2>3, <3>1, <3>3
    <3> QED BY <3>4 DEF Comes1
  <2>4. CASE q \in X /\ q # p
    <3>1. <<q[1], k>> \in Y1 <=> <<q[1], k>> \in Y
      <4>1. q[1] # y /\ q[1] # p[1]
        BY <1>10, <1>22, <2>4
      <4> QED BY <1>15, <4>1
    <3>2. <<q[1], k>> \in Y <=> \E i \in DOMAIN ls : h.ptr[ls[i].node] = h.ptr[q[1]] /\ k \in ls[i].left
      BY <2>4 DEF Stack
    <3>3. \A i \in DOMAIN ls : h.ptr[ls[i].node] = h.ptr[q[1]] => i \in 2..Len(ls)
      BY <1>2, <1>5, <1>22, <2>4
    <3>4. \A i \in 2..Len(ls) : i \in DOMAIN ls /\ i \in 0..Len(ls)
      BY <1>2
    <3>5. \A i \in 2..Len(ls) : f.ptr[T(i).node] = f.ptr[q[1]] <=> h.ptr[ls[i].node] = h.ptr[q[1]]
      BY <1>19, <1>22, <1>23, <2>4
    <3>6. ASSUME Comes1 PROVE \E i \in 2..Len(ls) : h.ptr[ls[i].node] = h.ptr[q[1]] /\ k \in ls[i].left
      <4>1. PICK i \in DOMAIN new : f.ptr[new[i].node] = f.ptr[q[1]] /\ k \in new[i].left
        BY <3>6
      <4>2. src[i] \in 2..Len(ls)
        <5>1. src[i] # 0 /\ src[i] # 1
          BY <1>10, <1>19, <1>20, <1>22, <1>27, <2>4, <4>1
        <5>2. src[i] \in 0..Len(ls)
          BY <1>27
        <5> QED BY <1>2, <5>1, <5>2
      <4> QED BY <1>19, <1>27, <3>5, <4>1, <4>2
    <3>7. ASSUME NEW i \in 2..Len(ls), h.ptr[ls[i].node] = h.ptr[q[1]], k \in ls[i].left PROVE Comes1
      <4>1. f.ptr[T(i).node] = f.ptr[q[1]] /\ k \in T(i).left
        BY <1>19, <3>5, <3>7
      <4>2. \E j \in DOMAIN new : src[j] = i
        BY <1>27
      <4> QED BY <1>27, <4>1, <4>2
    <3> HIDE DEF Comes1
    <3>8. <<q[1], k>> \in Y1 <=> Comes1
      BY <3>1, <3>2, <3>3, <3>4, <3>6, <3>7
    <3> QED BY <3>8 DEF Comes1
  <2> QED BY <1>14, <2>2, <2>3, <2>4
<1>31. \A i \in DOMAIN new : \E q \in X1 : Anchors(f, new[i], i = 1, q)
  BY <1>28
<1>32. \A q \in X1 : \A k : <<q[1], k>> \in Y1 <=>
           \E i \in DOMAIN new : f.ptr[new[i].node] = f.ptr[q[1]] /\ k \in new[i].left
  BY <1>30, Zenon
<1> QED BY <1>29, <1>31, <1>32, Zenon DEF Stack

\* A call that saves begins with one loop, over the node it is given.
LEMMA SaveBegins ==
    ASSUME NEW h, HeapOK(h), NEW n \in Ids(h), NEW v \in Saves, IsFull(v), RefsOf(v) # {},
           NEW by \in Handles \cup {NoSource}
    PROVE  LET ls == Loops(by, n, v, RefsOf(v))
           IN  \E X, Y : <<n, v>> \in X /\ Shape(h, X, Y, n) /\ Stack(h, X, Y, ls)
<1> DEFINE e == <<n, v>>
           X == {e}
           Y == {<<n, r>> : r \in RefsOf(v)}
           l == [by |-> by, node |-> n, value |-> v, left |-> RefsOf(v)]
           ls == <<l>>
<1>1. ls = Loops(by, n, v, RefsOf(v)) /\ ls \in Seq(LoopsIn(h))
  <2>1. Loops(by, n, v, RefsOf(v)) \in Seq(LoopsIn(h))
    BY LoopsAre
  <2>2. ls = Loops(by, n, v, RefsOf(v))
    BY DEF Loops
  <2> QED BY <2>1, <2>2
<1>2. /\ e[1] = n /\ e[2] = v /\ (\A p : p \in X <=> p = e) /\ (\A k : <<n, k>> \in Y <=> k \in RefsOf(v))
      /\ \A o \in Y : o[1] = n
      /\ l.node = n /\ l.value = v /\ l.left = RefsOf(v) /\ DOMAIN ls = {1} /\ ls[1] = l
  OBVIOUS
<1>3. X \subseteq Ids(h) \X Saves
  OBVIOUS
<1>4. v.t # "scalar"
  <2>1. PICK r \in RefsOf(v) : TRUE
    OBVIOUS
  <2> QED BY <2>1, RefsOfSaves
<1> HIDE DEF e, X, Y, l, ls
<1>5. Shape(h, X, Y, n)
  <2>1. Savable(X, h) /\ Apart(X, h)
    BY <1>2, <1>3 DEF Savable, Apart
  <2>2. \A p \in X : IsThere(h, X, Y, p)
    BY <1>2, <1>4 DEF IsThere
  <2> QED BY <1>2, <2>1, <2>2 DEF Shape
<1>6. Stack(h, X, Y, ls)
  <2>1. InOrder(v, RefsOf(v))
    BY DEF InOrder
  <2>2. Anchors(h, l, TRUE, e)
    BY <1>2, <2>1 DEF Anchors
  <2>3. \A i \in DOMAIN ls : \E p \in X : Anchors(h, ls[i], i = 1, p)
    BY <1>2, <2>2
  <2>4. \A p \in X : \A r : <<p[1], r>> \in Y <=>
           \E i \in DOMAIN ls : h.ptr[ls[i].node] = h.ptr[p[1]] /\ r \in ls[i].left
    BY <1>2
  <2> QED BY <1>1, <1>2, <2>3, <2>4 DEF Stack
<1>7. <<n, v>> \in X
  BY <1>2 DEF e
<1> QED BY <1>1, <1>5, <1>6, <1>7

\* When no loop is left, what was saved shows.
LEMMA SaveEnds ==
    ASSUME NEW h, NEW X, NEW Y, NEW at, Shape(h, X, Y, at), Stack(h, X, Y, <<>>)
    PROVE  ShowsWithin(h, X)
<1> SUFFICES ASSUME NEW n, NEW v, <<n, v>> \in X
             PROVE  /\ n \in Ids(h) /\ v \in Saves
                    /\ v.t = "scalar" => Data(h, n) = v
                    /\ v.t # "scalar" => \A r \in RefsOf(v) : \E y \in Find(h, n, r) : <<y, At(v, r)>> \in X
  BY DEF ShowsWithin
<1> DEFINE p == <<n, v>>
<1>1. p[1] = n /\ p[2] = v /\ p \in X
  OBVIOUS
<1> HIDE DEF p
<1>2. /\ n \in Ids(h) /\ v \in Saves /\ HeapOK(h)
      /\ v.t = "scalar" => Data(h, n) = v
      /\ \A r \in RefsOf(v) : <<n, r>> \in Y \/ \E y : Sits(h, n, r, y) /\ <<y, At(v, r)>> \in X
  BY <1>1 DEF Shape, Savable, IsThere
<1>3. \A r : <<n, r>> \notin Y
  <2>1. DOMAIN <<>> = {}
    OBVIOUS
  <2> QED BY <1>1, <2>1 DEF Stack
<1>4. ASSUME NEW r \in RefsOf(v)
      PROVE  \E y : Sits(h, n, r, y) /\ <<y, At(v, r)>> \in X /\ IsDefined(h, y)
  <2>1. PICK y : Sits(h, n, r, y) /\ <<y, At(v, r)>> \in X
    BY <1>2, <1>3
  <2>2. \A q \in X : IsDefined(h, q[1])
    BY ThereIsDefined
  <2> QED BY <2>1, <2>2
<1>5. ASSUME NEW r \in RefsOf(v) PROVE \E y \in Find(h, n, r) : <<y, At(v, r)>> \in X
  <2> DEFINE of == Data(h, n).of
  <2>1. PICK y : Sits(h, n, r, y) /\ <<y, At(v, r)>> \in X /\ IsDefined(h, y)
    BY <1>4
  <2>2. v.t = TypeFor(r) /\ r \in Keys \cup Nat /\ (v.t = "list" => r \in Nat /\ r \notin Keys)
    BY <1>2, RefsOfSaves
  <2>3. CASE r \in Keys
    <3>1. Data(h, n).t = "map" /\ r \in DOMAIN of /\ of[r] = y
      BY <2>1, <2>3 DEF Sits, TypeFor, Slot
    <3>2. Find(h, n, r) = {x \in {y} : IsDefined(h, x)}
      BY <2>3, <3>1 DEF Find
    <3> QED BY <2>1, <3>2
  <2>4. CASE r \notin Keys
    <3>1. v.t = "list" /\ r \in Nat /\ Data(h, n).t = "list" /\ r + 1 \in DOMAIN of /\ of[r + 1] = y
      BY <2>1, <2>2, <2>4 DEF Sits, TypeFor, Slot
    <3>2. v.of \in Seq(Saves) /\ RefsOf(v) = 0..Len(v.of) - 1
      BY <1>2, <3>1, SavesAreWhole DEF Scalar, Map, RefsOf
    <3>3. ASSUME NEW j \in 1..r + 1 PROVE IsDefined(h, of[j])
      <4>1. j - 1 \in RefsOf(v) /\ j - 1 \in Nat
        <5> DEFINE m == Len(v.of)
        <5>1. m \in Nat /\ r \in 0..m - 1
          BY <3>2
        <5> HIDE DEF m
        <5>2. j - 1 \in 0..m - 1 /\ j - 1 \in Nat
          BY <3>1, <5>1
        <5> QED BY <3>2, <5>2 DEF m
      <4>2. PICK z : Sits(h, n, j - 1, z) /\ IsDefined(h, z)
        BY <1>4, <4>1
      <4>3. j - 1 \notin Keys /\ (j - 1) + 1 = j
        BY <3>1, <4>1, KeysAreNotIndices
      <4> QED BY <4>2, <4>3 DEF Sits, Slot
    <3>4. r + 1 <= Len(of) /\ r + 1 \in Nat
      <4>1. of \in Seq(Nat)
        BY <1>2, <3>1, SizeIs
      <4> QED BY <3>1, <4>1
    <3>5. r + 1 <= Size(h, n) /\ Size(h, n) \in Nat
      <4>1. r + 1 <= Size(h, n)
        BY <1>2, <3>1, <3>3, <3>4, SizeAtLeast
      <4> QED BY <1>2, <3>1, <4>1, SizeIs
    <3>6. r < Size(h, n)
      BY <3>1, <3>5
    <3>7. Find(h, n, r) = {y}
      BY <2>4, <3>1, <3>6 DEF Find
    <3> QED BY <2>1, <3>7
  <2> QED BY <2>3, <2>4
<1> QED BY <1>2, <1>5

-----------------------------------------------------------------------------
\* While a full value is being saved, its parts that came are there, and what is
\* left in the loops is what does not.
SaveIsUnderWay(h, at, v, ls) == \E X, Y : <<at, v>> \in X /\ Shape(h, X, Y, at) /\ Stack(h, X, Y, ls)

SaveInv == saving # Idle /\ IsFull(saving.value) => SaveIsUnderWay(heap, saving.at, saving.value, saving.loops)

\* One element, and the loops that are left then; without any, the call ends.
LEMMA SaveElementGoesOn ==
    ASSUME IInv, SaveElement, SaveInv, saving # Idle, IsFull(saving.value)
    PROVE  \E ls : /\ SaveIsUnderWay(heap', saving.at, saving.value, ls)
                   /\ saving' = IF ls = <<>> THEN Idle ELSE [saving EXCEPT !.loops = ls]
<1> DEFINE l == saving.loops[1]
<1>1. saving.loops # <<>> /\ Head(saving.loops) = l
  <2>1. saving.loops # <<>> /\ saving.loops \in Seq(LoopsIn(heap))
    BY DEF SaveElement, IInv
  <2> QED BY <2>1
<1>2. PICK r \in l.left :
         LET x  == At(l.value, r)
             to == Step(heap, l.node, r)
             ls == Loops(NoSource, to.next, x, RefsOf(x))
                        \o Loops(l.by, to.node, l.value, l.left \ {r})
                        \o Tail(saving.loops)
         IN  /\ Comes(l.value, r, l.left)
             /\ heap' = IF x.t = "scalar" THEN AssignData(to.heap, to.next, x) ELSE to.heap
             /\ saving' = IF ls = <<>> THEN Idle ELSE [saving EXCEPT !.loops = ls]
  BY <1>1 DEF SaveElement
<1> DEFINE x  == At(l.value, r)
           to == Step(heap, l.node, r)
           ls == Loops(NoSource, to.next, x, RefsOf(x))
                      \o Loops(l.by, to.node, l.value, l.left \ {r})
                      \o Tail(saving.loops)
           f  == Put(to.heap, to.next, x)
<1>3. /\ Comes(l.value, r, l.left) /\ heap' = f
      /\ saving' = IF ls = <<>> THEN Idle ELSE [saving EXCEPT !.loops = ls]
  BY <1>2 DEF Put
<1>4. PICK X, Y : /\ <<saving.at, saving.value>> \in X
                  /\ Shape(heap, X, Y, saving.at) /\ Stack(heap, X, Y, saving.loops)
  BY DEF SaveInv, SaveIsUnderWay
<1>5. ls \in Seq(LoopsIn(f)) =>
         \E X1, Y1 : X \subseteq X1 /\ Shape(f, X1, Y1, saving.at) /\ Stack(f, X1, Y1, ls)
  BY <1>1, <1>3, <1>4, StackGrows
<1> HIDE DEF l, x, to, ls, f
<1>6. ls \in Seq(LoopsIn(heap'))
  <2>1. saving' \in [at: Nat, value: Saves \cup {Null}, loops: Seq(LoopsIn(heap'))]
    BY SaveElementOK DEF IInv
  <2>2. CASE ls = <<>>
    BY <2>2
  <2>3. CASE ls # <<>>
    <3>1. saving'.loops = ls
      <4>1. saving \in [at: Nat, value: Saves \cup {Null}, loops: Seq(LoopsIn(heap))]
        BY DEF IInv
      <4> QED BY <1>3, <2>3, <4>1
    <3> QED BY <2>1, <3>1
  <2> QED BY <2>2, <2>3
<1>7. SaveIsUnderWay(heap', saving.at, saving.value, ls)
  BY <1>3, <1>4, <1>5, <1>6 DEF SaveIsUnderWay
<1> QED BY <1>3, <1>7

LEMMA SaveInvNext == IInv /\ SaveInv /\ [Next]_vars => SaveInv'
<1> SUFFICES ASSUME IInv, SaveInv, [Next]_vars, saving' # Idle, IsFull(saving'.value)
             PROVE  SaveIsUnderWay(heap', saving'.at, saving'.value, saving'.loops)
  BY DEF SaveInv, Idle
<1>1. CASE UNCHANGED vars
  BY <1>1 DEF vars, SaveInv
<1>2. CASE \E s, d \in Handles, r \in Refs : Next_(s, r, d) \/ ConstNext(s, r, d)
  BY <1>2 DEF Next_, ConstNext
<1>3. CASE \E s \in Handles, v \in Scalars : Set(s, v)
  BY <1>3 DEF Set
<1>4. ASSUME NEW s \in Handles, NEW v \in Saves, Save(s, v)
      PROVE  SaveIsUnderWay(heap', saving'.at, saving'.value, saving'.loops)
  <2> DEFINE ls == Loops(s, held[s], v, RefsOf(v))
  <2>1. /\ saving' = [at |-> held[s], value |-> v, loops |-> ls]
        /\ heap' = heap /\ held[s] # NoSource /\ RefsOf(v) # {}
    BY <1>4 DEF Save
  <2>2. held[s] \in Ids(heap) /\ HeapOK(heap)
    BY <2>1, HeldIs DEF IInv
  <2>3. IsFull(v)
    BY <2>1
  <2>4. SaveIsUnderWay(heap, held[s], v, ls)
    BY <2>1, <2>2, <2>3, SaveBegins DEF SaveIsUnderWay
  <2> HIDE DEF ls
  <2> QED BY <2>1, <2>4
<1>5. CASE SaveElement
  <2>1. saving \in [at: Nat, value: Saves \cup {Null}, loops: Seq(LoopsIn(heap))]
    BY DEF IInv
  <2>2. saving # Idle
    BY <1>5, IdleIs DEF SaveElement
  <2>3. saving'.at = saving.at /\ saving'.value = saving.value
    <3>1. PICK ls : saving' = [saving EXCEPT !.loops = ls]
      BY <1>5 DEF SaveElement
    <3> QED BY <2>1, <3>1
  <2>4. PICK ls : /\ SaveIsUnderWay(heap', saving.at, saving.value, ls)
                  /\ saving' = IF ls = <<>> THEN Idle ELSE [saving EXCEPT !.loops = ls]
    BY <1>5, <2>2, <2>3, SaveElementGoesOn
  <2>5. saving'.loops = ls
    BY <2>1, <2>4
  <2> QED BY <2>3, <2>4, <2>5
<1> QED BY <1>1, <1>2, <1>3, <1>4, <1>5 DEF Next

LEMMA SaveInvariance == Spec => []SaveInv
<1>1. Init => SaveInv
  BY DEF Init, SaveInv
<1>2. IInv /\ SaveInv /\ [Next]_vars => SaveInv'
  BY SaveInvNext
<1> QED BY <1>1, <1>2, Invariance, PTL DEF Spec

LEMMA SavedWhenIdle ==
    ASSUME IInv, SaveInv, Next, saving # Idle, saving' = Idle, IsFull(saving.value)
    PROVE  Shows(heap', saving.at, saving.value)
<1>1. SaveElement
  BY DEF Next, Next_, ConstNext, Set, Save
<1>2. PICK ls : /\ SaveIsUnderWay(heap', saving.at, saving.value, ls)
                /\ saving' = IF ls = <<>> THEN Idle ELSE [saving EXCEPT !.loops = ls]
  BY <1>1, SaveElementGoesOn
<1>3. ls = <<>>
  <2>1. saving \in [at: Nat, value: Saves \cup {Null}, loops: Seq(LoopsIn(heap))]
    BY DEF IInv
  <2>2. ls # <<>> => saving'.loops = ls
    BY <1>2, <2>1
  <2> QED BY <2>2, IdleIs
<1>4. PICK X, Y : /\ <<saving.at, saving.value>> \in X
                  /\ Shape(heap', X, Y, saving.at) /\ Stack(heap', X, Y, <<>>)
  BY <1>2, <1>3 DEF SaveIsUnderWay
<1>5. ShowsWithin(heap', X)
  BY <1>4, SaveEnds
<1> QED BY <1>4, <1>5, ShowsIs

\* A value none of whose lists and maps is empty is in the document when the call
\* that saves it ends, at the node it was called with, whatever was there before.
THEOREM WhatIsSavedIsThere == Spec => SavedIsThere
<1>1. IInv /\ SaveInv /\ [Next]_vars =>
         [saving # Idle /\ saving' = Idle /\ IsFull(saving.value)
          => Shows(heap', saving.at, saving.value)]_vars
  BY SavedWhenIdle
<1> QED BY <1>1, Invariance, SaveInvariance, PTL DEF Spec, SavedIsThere
=============================================================================
