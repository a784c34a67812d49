----------------------------- MODULE QueueLemmas -----------------------------
(***************************************************************************)
(* What Append adds to a queue or a batch and what Tail takes away, as     *)
(* sets: the facts by which a parcel is followed from hand to hand.        *)
(***************************************************************************)
EXTENDS Naturals, Sequences, Functions, TLAPS

LEMMA AppendRange ==
    ASSUME NEW S, NEW q \in Seq(S), NEW x \in S
    PROVE  /\ Append(q, x) \in Seq(S)
           /\ Range(Append(q, x)) = Range(q) \cup {x}
           /\ IsInjective(q) /\ x \notin Range(q) => IsInjective(Append(q, x))
<1>1. Append(q, x) \in Seq(S)
  OBVIOUS
<1>2. DOMAIN Append(q, x) = 1 .. Len(q) + 1 /\ DOMAIN q = 1 .. Len(q) /\ Len(q) \in Nat
  OBVIOUS
<1>3. \A i \in 1 .. Len(q) : Append(q, x)[i] = q[i]
  OBVIOUS
<1>4. Append(q, x)[Len(q) + 1] = x
  OBVIOUS
<1>5. Range(Append(q, x)) = Range(q) \cup {x}
  <2>1. ASSUME NEW y \in Range(Append(q, x)) PROVE y \in Range(q) \cup {x}
    BY <1>2, <1>3, <1>4 DEF Range
  <2>2. Range(q) \subseteq Range(Append(q, x))
    BY <1>2, <1>3 DEF Range
  <2>3. x \in Range(Append(q, x))
    BY <1>2, <1>4 DEF Range
  <2>. QED BY <2>1, <2>2, <2>3
<1>6. ASSUME IsInjective(q), x \notin Range(q) PROVE IsInjective(Append(q, x))
  BY <1>2, <1>3, <1>4, <1>6 DEF Range, IsInjective
<1>. QED BY <1>1, <1>5, <1>6

LEMMA TailRange ==
    ASSUME NEW S, NEW q \in Seq(S), q # <<>>
    PROVE  /\ Head(q) \in S /\ Head(q) \in Range(q)
           /\ Tail(q) \in Seq(S)
           /\ IsInjective(q) => /\ Range(Tail(q)) = Range(q) \ {Head(q)}
                                /\ IsInjective(Tail(q))
<1>1. Len(q) \in Nat \ {0} /\ DOMAIN q = 1 .. Len(q)
  OBVIOUS
<1>2. Head(q) = q[1] /\ Head(q) \in S
  BY <1>1
<1>3. Tail(q) \in Seq(S) /\ DOMAIN Tail(q) = 1 .. Len(q) - 1
  BY <1>1
<1>4. \A i \in 1 .. Len(q) - 1 : Tail(q)[i] = q[i + 1]
  BY <1>1
<1>5. Head(q) \in Range(q)
  BY <1>1, <1>2 DEF Range
<1>6. ASSUME IsInjective(q)
      PROVE  Range(Tail(q)) = Range(q) \ {Head(q)} /\ IsInjective(Tail(q))
  <2>1. ASSUME NEW y \in Range(Tail(q)) PROVE y \in Range(q) \ {Head(q)}
    <3>1. PICK i \in 1 .. Len(q) - 1 : y = q[i + 1]
      BY <1>3, <1>4 DEF Range
    <3>2. i + 1 \in DOMAIN q /\ 1 \in DOMAIN q /\ i + 1 # 1
      BY <1>1
    <3>. QED BY <1>2, <1>6, <3>1, <3>2 DEF Range, IsInjective
  <2>2. ASSUME NEW y \in Range(q) \ {Head(q)} PROVE y \in Range(Tail(q))
    <3>1. PICK i \in 1 .. Len(q) : y = q[i]
      BY <1>1 DEF Range
    <3>2. i # 1 /\ i - 1 \in 1 .. Len(q) - 1
      BY <1>1, <1>2, <3>1
    <3>3. Tail(q)[i - 1] = y
      BY <1>4, <3>1, <3>2
    <3>. QED BY <1>3, <3>2, <3>3 DEF Range
  <2>3. IsInjective(Tail(q))
    <3>1. SUFFICES ASSUME NEW i \in 1 .. Len(q) - 1, NEW j \in 1 .. Len(q) - 1,
                          Tail(q)[i] = Tail(q)[j]
                   PROVE  i = j
      BY <1>3 DEF IsInjective
    <3>2. q[i + 1] = q[j + 1] /\ i + 1 \in DOMAIN q /\ j + 1 \in DOMAIN q
      BY <1>1, <1>4, <3>1
    <3>. QED BY <1>6, <3>2 DEF IsInjective
  <2>. QED BY <2>1, <2>2, <2>3
<1>. QED BY <1>2, <1>3, <1>5, <1>6

LEMMA HeadRange ==
    ASSUME NEW S, NEW q \in Seq(S), q # <<>>
    PROVE  Range(q) = {Head(q)} \cup Range(Tail(q))
<1>1. Len(q) \in Nat \ {0} /\ DOMAIN q = 1 .. Len(q)
  OBVIOUS
<1>2. Head(q) = q[1] /\ DOMAIN Tail(q) = 1 .. Len(q) - 1
  BY <1>1
<1>3. \A i \in 1 .. Len(q) - 1 : Tail(q)[i] = q[i + 1]
  BY <1>1
<1>4. ASSUME NEW x \in Range(q), x # Head(q) PROVE x \in Range(Tail(q))
  <2>1. PICK i \in 1 .. Len(q) : x = q[i]
    BY <1>1 DEF Range
  <2>2. i - 1 \in 1 .. Len(q) - 1
    BY <1>1, <1>2, <1>4, <2>1
  <2>3. Tail(q)[i - 1] = x
    BY <1>1, <1>3, <2>1, <2>2
  <2>. QED BY <1>2, <2>2, <2>3 DEF Range
<1>5. Head(q) \in Range(q)
  BY <1>1, <1>2 DEF Range
<1>6. ASSUME NEW x \in Range(Tail(q)) PROVE x \in Range(q)
  <2>1. PICK i \in 1 .. Len(q) - 1 : x = q[i + 1]
    BY <1>2, <1>3 DEF Range
  <2>. QED BY <1>1, <2>1 DEF Range
<1>. QED BY <1>4, <1>5, <1>6

(***************************************************************************)
(* A sequence keeps an order, given as a set of pairs, if an element       *)
(* stands before those it precedes.                                        *)
(***************************************************************************)
InOrder(q, R) == \A i, j \in DOMAIN q : i < j => <<q[i], q[j]>> \in R

LEMMA AppendInOrder ==
    ASSUME NEW S, NEW q \in Seq(S), NEW x \in S, NEW R, InOrder(q, R),
           \A y \in Range(q) : <<y, x>> \in R
    PROVE  InOrder(Append(q, x), R)
<1>1. DOMAIN Append(q, x) = 1 .. Len(q) + 1 /\ DOMAIN q = 1 .. Len(q) /\ Len(q) \in Nat
  OBVIOUS
<1>2. \A i \in 1 .. Len(q) : Append(q, x)[i] = q[i]
  OBVIOUS
<1>3. Append(q, x)[Len(q) + 1] = x
  OBVIOUS
<1>4. SUFFICES ASSUME NEW i \in 1 .. Len(q) + 1, NEW j \in 1 .. Len(q) + 1, i < j
               PROVE  <<Append(q, x)[i], Append(q, x)[j]>> \in R
  BY <1>1 DEF InOrder
<1>5. i \in 1 .. Len(q)
  BY <1>1, <1>4
<1>6. CASE j = Len(q) + 1
  BY <1>1, <1>2, <1>3, <1>5, <1>6 DEF Range
<1>7. CASE j \in 1 .. Len(q)
  BY <1>1, <1>2, <1>4, <1>5, <1>7 DEF InOrder
<1>. QED BY <1>1, <1>6, <1>7

LEMMA TailInOrder ==
    ASSUME NEW S, NEW q \in Seq(S), q # <<>>, NEW R, InOrder(q, R)
    PROVE  /\ InOrder(Tail(q), R)
           /\ \A y \in Range(Tail(q)) : <<Head(q), y>> \in R
<1>1. Len(q) \in Nat \ {0} /\ DOMAIN q = 1 .. Len(q) /\ Head(q) = q[1]
  OBVIOUS
<1>2. DOMAIN Tail(q) = 1 .. Len(q) - 1
  BY <1>1
<1>3. \A i \in 1 .. Len(q) - 1 : Tail(q)[i] = q[i + 1]
  BY <1>1
<1>4. InOrder(Tail(q), R)
  <2>1. SUFFICES ASSUME NEW i \in 1 .. Len(q) - 1, NEW j \in 1 .. Len(q) - 1, i < j
                 PROVE  <<Tail(q)[i], Tail(q)[j]>> \in R
    BY <1>2 DEF InOrder
  <2>2. i + 1 \in DOMAIN q /\ j + 1 \in DOMAIN q /\ i + 1 < j + 1
    BY <1>1, <2>1
  <2>3. <<q[i + 1], q[j + 1]>> \in R
    BY <2>2 DEF InOrder
  <2>. QED BY <1>3, <2>3
<1>5. ASSUME NEW y \in Range(Tail(q)) PROVE <<Head(q), y>> \in R
  <2>1. PICK i \in 1 .. Len(q) - 1 : y = q[i + 1]
    BY <1>2, <1>3 DEF Range
  <2>2. 1 \in DOMAIN q /\ i + 1 \in DOMAIN q /\ 1 < i + 1
    BY <1>1
  <2>3. <<q[1], q[i + 1]>> \in R
    BY <2>2 DEF InOrder
  <2>. QED BY <1>1, <2>1, <2>3
<1>. QED BY <1>4, <1>5

LEMMA EmptyRange == Range(<<>>) = {} /\ IsInjective(<<>>)
BY DEF Range, IsInjective
=============================================================================
