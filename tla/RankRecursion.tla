--------------------------- MODULE RankRecursion ---------------------------
(***************************************************************************)
(* Recursion and induction over a set whose elements have a rank: what is  *)
(* defined of an element from what it is for those of a lower rank is      *)
(* defined. A module that recurses instantiates this one with its own      *)
(* definition, for each of them.                                           *)
(***************************************************************************)
EXTENDS Integers, TLAPS, WellFoundedInduction

CONSTANTS
    S,               \* what is recursed over
    Rank,            \* the rank of each element
    Def(_, _)        \* Def(f, x): what f is at x

Ranked == \A x \in S : Rank[x] \in Nat

\* What f is at x depends on what it is for those of a lower rank only.
Local ==
    \A f, g : \A x \in S :
        (\A y \in S : Rank[y] < Rank[x] => f[y] = g[y]) => Def(f, x) = Def(g, x)

Solves(f) == f = [x \in S |-> Def(f, x)]

\* There is a function with that definition.
HasSolution == \E f : Solves(f)

\* What holds of an element if it holds of those of a lower rank holds of all.
Induction ==
    \A T : (\A x \in S : (\A y \in S : Rank[y] < Rank[x] => y \in T) => x \in T) => S \subseteq T
-----------------------------------------------------------------------------

LEMMA LeastNumber ==
    ASSUME NEW N, N \subseteq Nat, N # {}
    PROVE  \E n \in N : \A m \in N : n <= m
<1> DEFINE R == {ss \in Nat \X Nat : ss[1] < ss[2]}
<1>1. IsWellFoundedOn(R, Nat)
  BY NatLessThanWellFounded DEF OpToRel
<1>2. \E n \in N : \A m \in N : ~ (<<m, n>> \in R)
  <2> HIDE DEF R
  <2> QED BY <1>1, WFMin
<1>3. PICK n \in N : \A m \in N : ~ (<<m, n>> \in R)
  BY <1>2
<1>4. ASSUME NEW m \in N PROVE n <= m
  <2>1. <<m, n>> \in Nat \X Nat /\ n \in Nat /\ m \in Nat
    OBVIOUS
  <2>2. ~(m < n)
    BY <1>3, <2>1
  <2> QED BY <2>1, <2>2
<1> QED BY <1>4

\* Of ranked elements, what is passed on from those of a lower rank holds of all.
THEOREM RankInduction == Ranked => Induction
<1> SUFFICES ASSUME Ranked, NEW T,
                    \A x \in S : (\A y \in S : Rank[y] < Rank[x] => y \in T) => x \in T,
                    NEW z \in S, z \notin T
             PROVE  FALSE
  BY DEF Induction
<1> DEFINE N == {Rank[x] : x \in S \ T}
<1>1. N \subseteq Nat /\ N # {}
  BY DEF Ranked
<1>2. PICK n \in N : \A m \in N : n <= m
  <2> HIDE DEF N
  <2> QED BY <1>1, LeastNumber
<1>3. PICK x \in S \ T : n = Rank[x]
  BY <1>2
<1>4. \A y \in S \ T : Rank[x] <= Rank[y]
  BY <1>2, <1>3
<1>5. \A y \in S : Rank[y] < Rank[x] => y \in T
  BY <1>4 DEF Ranked
<1> QED BY <1>3, <1>5

\* Two functions with the definition up to some rank agree there.
Below(x) == {y \in S : Rank[y] <= Rank[x]}
SolvesBelow(f, x) == f = [y \in Below(x) |-> Def(f, y)]

LEMMA OneBelow ==
    ASSUME Ranked, Local, NEW x \in S, NEW f, NEW g,
           \A y \in Below(x) : f[y] = Def(f, y),
           \A y \in Below(x) : g[y] = Def(g, y)
    PROVE  \A y \in Below(x) : f[y] = g[y]
<1> DEFINE T == {y \in S : y \in Below(x) => f[y] = g[y]}
<1>1. ASSUME NEW y \in S, \A w \in S : Rank[w] < Rank[y] => w \in T
      PROVE  y \in T
  <2> SUFFICES ASSUME y \in Below(x) PROVE f[y] = g[y]
    OBVIOUS
  <2>1. \A w \in S : Rank[w] < Rank[y] => w \in Below(x)
    BY DEF Below, Ranked
  <2>2. \A w \in S : Rank[w] < Rank[y] => f[w] = g[w]
    BY <1>1, <2>1
  <2>3. Def(f, y) = Def(g, y)
    BY <2>2 DEF Local
  <2> QED BY <2>3
<1>2. S \subseteq T
  <2> HIDE DEF T
  <2> QED BY <1>1, RankInduction DEF Induction
<1> QED BY <1>2 DEF Below

\* A definition that looks at what is of a lower rank only has a function.
THEOREM RankRecursion == Ranked /\ Local => HasSolution
<1> SUFFICES ASSUME Ranked, Local PROVE HasSolution
  OBVIOUS
<1> DEFINE F(x) == CHOOSE g : g = [y \in Below(x) |-> Def(g, y)]
           f == [x \in S |-> F(x)[x]]
           T == {x \in S : \A y \in Below(x) : f[y] = Def(f, y)}
<1>1. ASSUME NEW x \in S, \A y \in S : Rank[y] < Rank[x] => f[y] = Def(f, y)
      PROVE  f[x] = Def(f, x)
  <2> DEFINE g == [y \in Below(x) |-> Def(f, y)]
  <2>0. f = [y \in S |-> f[y]]
    OBVIOUS
  <2> HIDE DEF f
  <2>1. \A y \in S : Rank[y] < Rank[x] => y \in Below(x)
    BY DEF Below, Ranked
  <2>2. x \in Below(x)
    BY DEF Below, Ranked
  <2>3. \A y \in S : Rank[y] < Rank[x] => g[y] = f[y]
    BY <1>1, <2>1
  <2>4. ASSUME NEW y \in Below(x) PROVE Def(f, y) = Def(g, y)
    <3>1. y \in S /\ \A w \in S : Rank[w] < Rank[y] => Rank[w] < Rank[x]
      BY DEF Below, Ranked
    <3> HIDE DEF g
    <3>2. \A w \in S : Rank[w] < Rank[y] => f[w] = g[w]
      BY <2>3, <3>1
    <3> QED BY <3>1, <3>2 DEF Local
  <2>5. g = [y \in Below(x) |-> Def(g, y)]
    BY <2>4
  <2>6. F(x) = [y \in Below(x) |-> Def(F(x), y)]
    <3> HIDE DEF g
    <3> QED BY <2>5
  <2>7. g[x] = F(x)[x]
    <3>1. \A y \in Below(x) : g[y] = Def(g, y)
      BY <2>4
    <3> HIDE DEF g
    <3>2. \A y \in Below(x) : F(x)[y] = Def(F(x), y)
      <4> DEFINE h == F(x)
      <4>1. h = [y \in Below(x) |-> Def(h, y)]
        BY <2>6
      <4> HIDE DEF h
      <4>2. \A y \in Below(x) : h[y] = Def(h, y)
        BY <4>1
      <4> QED BY <4>2 DEF h
    <3> HIDE DEF F
    <3> QED BY <3>1, <3>2, <2>2, OneBelow
  <2>8. f[x] = F(x)[x]
    BY DEF f
  <2>9. g[x] = Def(f, x)
    BY <2>2
  <2> QED BY <2>7, <2>8, <2>9
<1>2. S \subseteq {x \in S : f[x] = Def(f, x)}
  <2> HIDE DEF f
  <2> DEFINE U == {x \in S : f[x] = Def(f, x)}
  <2>1. \A x \in S : (\A y \in S : Rank[y] < Rank[x] => y \in U) => x \in U
    BY <1>1
  <2> HIDE DEF U
  <2>2. S \subseteq U
    BY <2>1, RankInduction DEF Induction
  <2> QED BY <2>2 DEF U
<1>3. f = [x \in S |-> Def(f, x)]
  <2>1. f = [x \in S |-> f[x]]
    OBVIOUS
  <2> HIDE DEF f
  <2> QED BY <1>2, <2>1
<1> QED BY <1>3 DEF HasSolution, Solves

=============================================================================
