-------------------------- MODULE OrderedMapProofs --------------------------
(***************************************************************************)
(* OrderEnumeratesKeys, WalkMeetsKeysInOrder and KeysKeepTheirPlace hold   *)
(* of every OrderedMap. The invariants are inductive together: a key is    *)
(* appended only if the hash map, and so the order, does not have it.      *)
(***************************************************************************)
EXTENDS OrderedMap, TLAPS

IInv == TypeOK /\ OrderEnumeratesKeys /\ WalkMeetsKeysInOrder

LEMMA InitIInv == Init => IInv
  BY NewIsValue DEF Init, IInv, TypeOK, OrderEnumeratesKeys, WalkMeetsKeysInOrder, Idle, IsInjective, Range

\* What emplace_key_ leaves enumerates the keys with the one put in.
LEMMA EmplaceEnumerates ==
  ASSUME IInv, NEW k \in Keys
  PROVE  /\ EmplaceKey(k) \in Seq(Keys)
         /\ IsInjective(EmplaceKey(k))
         /\ Range(EmplaceKey(k)) = DOMAIN values_ \cup {k}
         /\ Len(order_) <= Len(EmplaceKey(k))
         /\ \A i \in 1..Len(order_) : EmplaceKey(k)[i] = order_[i]
<1> USE DEF IInv, TypeOK, OrderEnumeratesKeys
<1>1. CASE k \in DOMAIN values_
  BY <1>1 DEF EmplaceKey
<1>2. CASE k \notin DOMAIN values_
  <2> DEFINE o == Append(order_, k)
  <2>1. EmplaceKey(k) = o
    BY <1>2 DEF EmplaceKey
  <2>2. /\ o \in Seq(Keys) /\ Len(o) = Len(order_) + 1 /\ DOMAIN o = 1..Len(order_) + 1
        /\ \A i \in 1..Len(order_) : o[i] = order_[i]
        /\ o[Len(order_) + 1] = k
    OBVIOUS
  <2>3. \A i \in 1..Len(order_) : order_[i] # k
    BY <1>2 DEF Range
  <2>4. IsInjective(o)
    BY <2>2, <2>3 DEF IsInjective
  <2>5. Range(o) = DOMAIN values_ \cup {k}
    <3>1. ASSUME NEW x \in Range(o) PROVE x \in DOMAIN values_ \cup {k}
      BY <3>1, <2>2 DEF Range
    <3>2. ASSUME NEW x \in DOMAIN values_ PROVE x \in Range(o)
      BY <3>2, <2>2 DEF Range
    <3>3. k \in Range(o)
      <4>1. Len(order_) + 1 \in DOMAIN o
        BY <2>2
      <4> QED BY <4>1, <2>2 DEF Range
    <3> QED BY <3>1, <3>2, <3>3
  <2> QED BY <2>1, <2>2, <2>4, <2>5
<1> QED BY <1>1, <1>2

\* A step that puts a key in keeps the invariant, whatever value it leaves.
LEMMA PutKeepsIInv ==
  ASSUME IInv, NEW k \in Keys,
         order_' = EmplaceKey(k),
         DOMAIN values_' = DOMAIN values_ \cup {k}, values_' \in [DOMAIN values_' -> Values],
         held' \in {held, k}, UNCHANGED walk
  PROVE  IInv'
<1>1. TypeOK'
  BY EmplaceEnumerates DEF IInv, TypeOK
<1>2. OrderEnumeratesKeys'
  BY EmplaceEnumerates DEF IInv, OrderEnumeratesKeys
<1>3. WalkMeetsKeysInOrder'
  <2>1. /\ walk' = walk /\ walk.at \in Nat /\ walk.end \in Nat /\ walk.at <= walk.end /\ walk.end <= Len(order_)
        /\ order_ \in Seq(Keys) /\ order_' \in Seq(Keys) /\ Len(order_) <= Len(order_')
    BY EmplaceEnumerates DEF IInv, TypeOK, WalkMeetsKeysInOrder
  <2>2. ASSUME NEW i \in 1..walk.at PROVE walk.met[i] = order_'[i]
    <3>1. i \in 1..Len(order_)
      BY <2>1
    <3>2. walk.met[i] = order_[i]
      BY DEF IInv, WalkMeetsKeysInOrder
    <3>3. order_'[i] = order_[i]
      BY <3>1, EmplaceEnumerates
    <3> QED BY <3>2, <3>3
  <2> QED BY <2>1, <2>2 DEF IInv, WalkMeetsKeysInOrder
<1> QED BY <1>1, <1>2, <1>3 DEF IInv

LEMMA WithFits ==
  ASSUME IInv, NEW k \in Keys, NEW v \in Values
  PROVE  With(values_, k, v) \in [DOMAIN values_ \cup {k} -> Values]
  BY DEF With, IInv, TypeOK

\* What agrees with a sequence without repetitions as far as it goes has none.
LEMMA PrefixIsInjective ==
  ASSUME NEW o \in Seq(Keys), NEW m \in Seq(Keys), IsInjective(o), Len(m) <= Len(o),
         \A i \in 1..Len(m) : m[i] = o[i]
  PROVE  IsInjective(m)
<1>1. ASSUME NEW a \in DOMAIN m, NEW b \in DOMAIN m, m[a] = m[b] PROVE a = b
  <2>1. /\ a \in 1..Len(m) /\ b \in 1..Len(m)
        /\ a \in DOMAIN o /\ b \in DOMAIN o
    OBVIOUS
  <2>2. o[a] = o[b]
    BY <1>1, <2>1
  <2> QED BY <2>1, <2>2 DEF IsInjective
<1> QED BY <1>1 DEF IsInjective

LEMMA NextKeepsIInv == IInv /\ [Next]_vars => IInv'
<1> SUFFICES ASSUME IInv, [Next]_vars PROVE IInv'
  OBVIOUS
<1>1. ASSUME NEW k \in Keys, NEW v \in Values, Insert(k, v) PROVE IInv'
  <2>1. values_' \in [DOMAIN values_ \cup {k} -> Values]
    BY <1>1, WithFits DEF Insert, IInv, TypeOK
  <2> QED BY <1>1, <2>1, PutKeepsIInv DEF Insert
<1>2. ASSUME NEW k \in Keys, NEW v \in Values, InsertOrAssign(k, v) PROVE IInv'
  BY <1>2, WithFits, PutKeepsIInv DEF InsertOrAssign
<1>3. ASSUME NEW k \in Keys, Subscript(k) PROVE IInv'
  <2>1. values_' \in [DOMAIN values_ \cup {k} -> Values]
    BY <1>3, WithFits, NewIsValue DEF Subscript, IInv, TypeOK
  <2> QED BY <1>3, <2>1, PutKeepsIInv DEF Subscript
<1>4. ASSUME NEW v \in Values, Assign(v) PROVE IInv'
  BY <1>4 DEF Assign, IInv, TypeOK, OrderEnumeratesKeys, WalkMeetsKeysInOrder
<1>5. CASE Begin
  BY <1>5 DEF Begin, IInv, TypeOK, OrderEnumeratesKeys, WalkMeetsKeysInOrder, IsInjective
<1>6. CASE Step
  <2>a. /\ walk.at \in Nat /\ walk.end \in Nat /\ walk.at < walk.end /\ walk.end <= Len(order_)
        /\ order_ \in Seq(Keys) /\ walk.met \in Seq(Keys)
    BY <1>6 DEF Step, IInv, TypeOK, WalkMeetsKeysInOrder
  <2>b. order_[walk.at + 1] \in Keys
    BY <2>a
  <2>c. walk' \in [at : Nat, end : Nat, met : Seq(Keys)]
    <3>1. walk' = [walk EXCEPT !.at = walk.at + 1, !.met = Append(walk.met, order_[walk.at + 1])]
      BY <1>6 DEF Step
    <3>2. walk.at + 1 \in Nat /\ Append(walk.met, order_[walk.at + 1]) \in Seq(Keys)
      BY <2>a, <2>b
    <3>3. walk \in [at : Nat, end : Nat, met : Seq(Keys)]
      BY DEF IInv, TypeOK
    <3> QED BY <3>1, <3>2, <3>3
  <2>1. TypeOK' /\ OrderEnumeratesKeys'
    BY <1>6, <2>c DEF Step, IInv, TypeOK, OrderEnumeratesKeys
  <2>2. /\ walk'.at = walk.at + 1 /\ walk'.end = walk.end
        /\ walk'.met = Append(walk.met, order_[walk.at + 1]) /\ order_' = order_
    BY <1>6 DEF Step, IInv, TypeOK
  <2>3. /\ walk'.at <= walk'.end /\ walk'.end <= Len(order_')
        /\ Len(walk'.met) = walk'.at
        /\ \A i \in 1..walk'.at : walk'.met[i] = order_'[i]
    BY <1>6, <2>2 DEF Step, IInv, TypeOK, WalkMeetsKeysInOrder
  <2>4. IsInjective(walk'.met)
    <3>1. walk'.met \in Seq(Keys) /\ Len(walk'.met) <= Len(order_)
      BY <2>2, <2>3, <2>a, <2>b
    <3>2. \A i \in 1..Len(walk'.met) : walk'.met[i] = order_[i]
      BY <2>2, <2>3
    <3>3. IsInjective(order_)
      BY DEF IInv, OrderEnumeratesKeys
    <3> HIDE DEF IInv
    <3> QED BY <2>a, <3>1, <3>2, <3>3, PrefixIsInjective
  <2> QED BY <2>1, <2>3, <2>4 DEF IInv, WalkMeetsKeysInOrder
<1>7. CASE UNCHANGED vars
  BY <1>7 DEF vars, IInv, TypeOK, OrderEnumeratesKeys, WalkMeetsKeysInOrder
<1> QED BY <1>1, <1>2, <1>3, <1>4, <1>5, <1>6, <1>7 DEF Next

THEOREM AlwaysIInv == Spec => []IInv
  BY InitIInv, NextKeepsIInv, PTL DEF Spec

\* The order enumerates the keys of the hash map (ordered_map.hpp:113), for any
\* keys and values.
THEOREM OrderEnumerates == Spec => []OrderEnumeratesKeys
<1>1. IInv => OrderEnumeratesKeys
  BY DEF IInv
<1> QED BY <1>1, AlwaysIInv, PTL

\* A range for meets the keys in order and once, though keys are put in on the
\* way.
THEOREM WalksMeetKeys == Spec => []WalkMeetsKeysInOrder
<1>1. IInv => WalkMeetsKeysInOrder
  BY DEF IInv
<1> QED BY <1>1, AlwaysIInv, PTL

\* No step of an OrderedMap moves a key.
THEOREM KeysStay == Spec => KeysKeepTheirPlace
<1> DEFINE Stay == /\ Len(order_) <= Len(order_')
                   /\ \A i \in DOMAIN order_ : order_'[i] = order_[i]
<1>1. IInv /\ [Next]_vars => [Stay]_vars
  <2> SUFFICES ASSUME IInv, Next PROVE Stay
    OBVIOUS
  <2>0. order_ \in Seq(Keys)
    BY DEF IInv, TypeOK
  <2>1. ASSUME NEW k \in Keys, order_' = EmplaceKey(k) PROVE Stay
    <3>1. Len(order_) <= Len(order_') /\ \A i \in 1..Len(order_) : order_'[i] = order_[i]
      BY <2>1, EmplaceEnumerates
    <3> QED BY <2>0, <3>1
  <2>2. ASSUME order_' = order_ PROVE Stay
    BY <2>0, <2>2
  <2> QED BY <2>1, <2>2 DEF Next, Insert, InsertOrAssign, Subscript, Assign, Begin, Step
<1> QED BY <1>1, AlwaysIInv, PTL DEF Spec, KeysKeepTheirPlace
=============================================================================
