---------------------------- MODULE SequenceLemmas ----------------------------
(***************************************************************************)
(* What the proofs about lists of oracles and adapters need to know of       *)
(* sequences: their least places, and their elements when one is appended,   *)
(* is taken from the head, or is removed.                                    *)
(***************************************************************************)
EXTENDS SequencesExt, SequenceTheorems, WellFoundedInduction, TLAPS

(* A set of places that is not empty has a least one. *)
LEMMA MinOf ==
    ASSUME NEW S, S \subseteq Nat, S # {}
    PROVE  /\ Min(S) \in S
           /\ \A k \in S : Min(S) <= k
<1>. DEFINE Below == OpToRel(<, Nat)
<1>1. IsWellFoundedOn(Below, Nat)
  BY NatLessThanWellFounded
<1>2. PICK m \in S : \A k \in S : ~(<<k, m>> \in Below)
  <2>. HIDE DEF Below
  <2>. QED
    BY <1>1, WFMin
<1>3. \A k \in S : ~(k < m)
  BY <1>2 DEF OpToRel
<1>4. \A k \in S : m <= k
  BY <1>3
<1>. QED
  BY <1>4 DEF Min

(* And only one. *)
LEMMA MinIs ==
    ASSUME NEW S, S \subseteq Nat, NEW m \in S, \A k \in S : m <= k
    PROVE  Min(S) = m
<1>. DEFINE n == Min(S)
<1>1. n \in S /\ \A k \in S : n <= k
  BY MinOf
<1>. HIDE DEF n
<1>2. n = m
  BY <1>1
<1>. QED
  BY <1>2 DEF n

(* RemoveAt drops one place and keeps the others in their order. *)
LEMMA RemoveAtProperties ==
    ASSUME NEW S, NEW s \in Seq(S), NEW n \in DOMAIN s
    PROVE  /\ RemoveAt(s, n) \in Seq(S)
           /\ Len(RemoveAt(s, n)) = Len(s) - 1
           /\ \A k \in 1..Len(s) - 1 : RemoveAt(s, n)[k] = IF k < n THEN s[k] ELSE s[k + 1]
<1>. DEFINE before == SubSeq(s, 1, n - 1)
            after == SubSeq(s, n + 1, Len(s))
<1>1. n \in 1..Len(s) /\ Len(s) \in Nat
  OBVIOUS
<1>2. /\ before \in Seq(S)
      /\ Len(before) = n - 1
      /\ \A k \in 1..n - 1 : before[k] = s[k]
  <2>1. \A k \in 1..n - 1 : s[k] \in S
    BY <1>1
  <2>. QED
    BY <2>1, <1>1, SubSeqProperties
<1>3. /\ after \in Seq(S)
      /\ Len(after) = Len(s) - n
      /\ \A k \in 1..Len(s) - n : after[k] = s[n + k]
  <2>1. \A k \in n + 1..Len(s) : s[k] \in S
    BY <1>1
  <2>. QED
    BY <2>1, <1>1, SubSeqProperties
<1>4. RemoveAt(s, n) = before \o after
  BY DEF RemoveAt
<1>. HIDE DEF before, after
<1>5. /\ before \o after \in Seq(S)
      /\ Len(before \o after) = Len(before) + Len(after)
      /\ \A k \in 1..Len(before) + Len(after) :
            (before \o after)[k] = IF k <= Len(before) THEN before[k] ELSE after[k - Len(before)]
  BY <1>2, <1>3, ConcatProperties
<1>. DEFINE t == before \o after
<1>6. t \in Seq(S) /\ Len(t) = Len(s) - 1
  BY <1>1, <1>2, <1>3, <1>5
<1>7. ASSUME NEW k \in 1..Len(s) - 1
      PROVE  t[k] = IF k < n THEN s[k] ELSE s[k + 1]
  <2>1. CASE k < n
    <3>1. k \in 1..n - 1 /\ k \in 1..Len(before) + Len(after) /\ k <= Len(before)
      BY <1>1, <1>2, <1>3, <2>1
    <3>. QED
      BY <1>2, <1>5, <2>1, <3>1
  <2>2. CASE ~(k < n)
    <3>1. /\ k \in 1..Len(before) + Len(after)
          /\ ~(k <= Len(before))
          /\ k - Len(before) \in 1..Len(s) - n
          /\ n + (k - Len(before)) = k + 1
      BY <1>1, <1>2, <1>3, <2>2
    <3>2. t[k] = after[k - Len(before)]
      BY <1>5, <3>1
    <3>3. after[k - Len(before)] = s[n + (k - Len(before))]
      BY <1>3, <3>1
    <3>. QED
      BY <2>2, <3>1, <3>2, <3>3
  <2>. QED
    BY <2>1, <2>2
<1>. QED
  BY <1>4, <1>6, <1>7

LEMMA ElementsAfterRemoveAt ==
    ASSUME NEW S, NEW s \in Seq(S), NEW n \in DOMAIN s
    PROVE  /\ ToSet(RemoveAt(s, n)) \subseteq ToSet(s)
           /\ \A x \in ToSet(s) : x # s[n] => x \in ToSet(RemoveAt(s, n))
<1>. DEFINE t == RemoveAt(s, n)
<1>1. /\ t \in Seq(S) /\ Len(t) = Len(s) - 1 /\ n \in 1..Len(s) /\ Len(s) \in Nat
      /\ \A k \in 1..Len(s) - 1 : t[k] = IF k < n THEN s[k] ELSE s[k + 1]
  BY RemoveAtProperties
<1>. HIDE DEF t
<1>2. \A k \in DOMAIN t : \E j \in DOMAIN s : t[k] = s[j]
  BY <1>1
<1>3. ASSUME NEW k \in DOMAIN s, k # n
      PROVE  \E j \in DOMAIN t : t[j] = s[k]
  <2>1. CASE k < n
    BY <1>1, <2>1
  <2>2. CASE k > n
    <3>1. k - 1 \in 1..Len(s) - 1 /\ ~(k - 1 < n) /\ k - 1 + 1 = k /\ DOMAIN t = 1..Len(s) - 1
      BY <1>1, <2>2
    <3>. QED
      BY <1>1, <3>1
  <2>. QED
    BY <1>1, <1>3, <2>1, <2>2
<1>4. /\ ToSet(t) \subseteq ToSet(s)
      /\ \A x \in ToSet(s) : x # s[n] => x \in ToSet(t)
  BY <1>2, <1>3 DEF ToSet
<1>. QED
  BY <1>4 DEF t

LEMMA ElementsAfterAppend ==
    ASSUME NEW S, NEW s \in Seq(S), NEW x \in S
    PROVE  ToSet(Append(s, x)) = ToSet(s) \cup {x}
BY AppendProperties DEF ToSet

LEMMA ElementsOfTail ==
    ASSUME NEW S, NEW s \in Seq(S), s # <<>>
    PROVE  ToSet(s) = {Head(s)} \cup ToSet(Tail(s))
<1>. DEFINE t == Tail(s)
<1>1. /\ t \in Seq(S) /\ Len(t) = Len(s) - 1
      /\ \A k \in 1..Len(t) : t[k] = s[k + 1]
  BY HeadTailProperties
<1>2. Len(s) \in Nat /\ Head(s) = s[1] /\ 1 \in DOMAIN s /\ DOMAIN s = 1..Len(s)
  OBVIOUS
<1>. HIDE DEF t
<1>3. ASSUME NEW k \in DOMAIN s, k # 1
      PROVE  k - 1 \in DOMAIN t /\ t[k - 1] = s[k]
  <2>1. k - 1 \in 1..Len(t) /\ k - 1 + 1 = k
    BY <1>1, <1>2, <1>3
  <2>. QED
    BY <1>1, <2>1
<1>4. \A k \in DOMAIN t : k + 1 \in DOMAIN s /\ t[k] = s[k + 1]
  BY <1>1, <1>2
<1>5. ToSet(s) = {Head(s)} \cup ToSet(t)
  BY <1>2, <1>3, <1>4 DEF ToSet
<1>. QED
  BY <1>5 DEF t

LEMMA EmptyHasNone == ToSet(<<>>) = {}
BY DEF ToSet

=============================================================================
