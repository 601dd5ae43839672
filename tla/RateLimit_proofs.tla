-------------------------- MODULE RateLimit_proofs --------------------------
(***************************************************************************)
(* How many requests a fixed window lets pass, for any limits, window,     *)
(* capacity and number of restarts.                                        *)
(***************************************************************************)
EXTENDS RateLimitProperties, FiniteSetTheorems, TLAPS

USE RateAssumption

RateTypeOK ==
    /\ kept \subseteq Buckets /\ restarts \in Nat
    /\ left \in [Buckets -> 0..Window] /\ count \in [Buckets -> Nat]
    /\ passed \in [Buckets -> [Ago -> Nat]]

\* Requests that passed after the tick the open window began at; it began Window - left
\* ticks ago.
Young(b) == {p \in Recent(b) : p[1] < Window - left[b]}

\* Of the requests counted in a window, those that passed.
Counted(b) == IF count[b] > LimitOf(b) THEN LimitOf(b) ELSE count[b]

\* What passed in a window is counted in it, and what passed before is at most the limit for
\* the window before and for each restart: once a window is over, what is older than it is
\* older than Window ticks.
WindowOK(b) ==
    /\ IsFiniteSet(Recent(b))
    /\ b \notin kept => left[b] = 0
    /\ left[b] = 0 => Lately(b) <= (1 + restarts) * LimitOf(b)
    /\ left[b] # 0 => /\ Lately(b) <= (1 + restarts) * LimitOf(b) + Counted(b)
                      /\ Cardinality(Young(b)) <= Counted(b)

RateInv == RateTypeOK /\ \A b \in Buckets : WindowOK(b)

-----------------------------------------------------------------------------
(* Counting.                                                               *)

LEMMA InRecent ==
  ASSUME RateTypeOK, NEW b \in Buckets
  PROVE  \A p : p \in Recent(b) <=> \E t \in Ago : \E n \in 1..passed[b][t] : p = <<t, n>>
BY DEF Recent

LEMMA LimitNat ==
  ASSUME NEW b \in Buckets
  PROVE  LimitOf(b) \in Nat \ {0} /\ Window \in Nat \ {0} /\ 0 \in Ago
BY DEF Buckets, LimitOf, RateAssumption, Ago

\* One more restart pays for one more limit.
LEMMA OneMore ==
  ASSUME NEW l \in Nat, NEW r \in Nat
  PROVE  /\ (1 + r) * l \in Nat /\ (2 + r) * l = (1 + r) * l + l
         /\ (1 + (r + 1)) * l = (1 + r) * l + l /\ l <= (1 + r) * l
<1>1. (1 + r) * l = l + r * l /\ (2 + r) * l = l + l + r * l /\ r * l \in Nat
  OBVIOUS
<1>2. 1 + (r + 1) = 2 + r
  OBVIOUS
<1> QED BY <1>1, <1>2

\* Passes that are one tick older than passes of A are no more than those.
LEMMA Older ==
  ASSUME NEW A, NEW B, IsFiniteSet(A), B \subseteq Nat \X Nat,
         \A p \in B : p[1] # 0 /\ <<p[1] - 1, p[2]>> \in A
  PROVE  IsFiniteSet(B) /\ Cardinality(B) <= Cardinality(A)
<1> DEFINE f == [p \in B |-> <<p[1] - 1, p[2]>>]
<1>1. f \in [B -> A]
  OBVIOUS
<1>2. ASSUME NEW p \in B, NEW q \in B, f[p] = f[q]
      PROVE  p = q
  <2>1. p[1] - 1 = q[1] - 1 /\ p[2] = q[2]
    BY <1>2
  <2>2. p \in Nat \X Nat /\ q \in Nat \X Nat /\ p[1] = q[1]
    BY <2>1
  <2>3. p = <<p[1], p[2]>> /\ q = <<q[1], q[2]>>
    BY <2>2
  <2> QED BY <2>1, <2>2, <2>3
<1>3. f \in Injection(B, A)
  BY <1>1, <1>2, Zenon DEF Injection, IsInjective
<1> QED BY <1>3, FS_Injection, Zenon

LEMMA FewerYoung ==
  ASSUME NEW b, IsFiniteSet(Recent(b))
  PROVE  /\ IsFiniteSet(Young(b)) /\ Cardinality(Young(b)) \in Nat
         /\ Lately(b) \in Nat
<1>1. Young(b) \subseteq Recent(b)
  BY DEF Young
<1> QED BY <1>1, FS_Subset, FS_CardinalityType DEF Lately

\* A request passes: one more of this tick.
LEMMA OneMorePasses ==
  ASSUME RateTypeOK, RateTypeOK', NEW b \in Buckets, Passes(b), IsFiniteSet(Recent(b))
  PROVE  /\ IsFiniteSet(Recent(b)') /\ Lately(b)' = Lately(b) + 1
         /\ Recent(b)' = Recent(b) \cup {<<0, passed[b][0] + 1>>}
<1> DEFINE new == <<0, passed[b][0] + 1>>
<1>1. 0 \in Ago /\ passed[b][0] \in Nat
  BY LimitNat DEF RateTypeOK
<1>2. \A t \in Ago : passed'[b][t] = IF t = 0 THEN passed[b][0] + 1 ELSE passed[b][t]
  BY DEF RateTypeOK, Passes
<1>3. \A p : p \in Recent(b)' <=> \E t \in Ago : \E n \in 1..passed'[b][t] : p = <<t, n>>
  BY InRecent DEF Recent
<1>4. \A p : p \in Recent(b) <=> \E t \in Ago : \E n \in 1..passed[b][t] : p = <<t, n>>
  BY InRecent
<1>5. ASSUME NEW p
      PROVE  p \in Recent(b)' <=> p \in Recent(b) \cup {new}
  BY <1>1, <1>2, <1>3, <1>4
<1>6. new \notin Recent(b)
  BY <1>1, <1>4
<1>7. Recent(b)' = Recent(b) \cup {new}
  BY <1>5
<1>8. IsFiniteSet(Recent(b) \cup {new}) /\ Cardinality(Recent(b) \cup {new}) = Lately(b) + 1
  <2> HIDE DEF new
  <2> QED BY <1>6, FS_AddElement DEF Lately
<1> QED BY <1>7, <1>8 DEF Lately

\* Another bucket's step.
LEMMA OtherBucket ==
  ASSUME NEW b \in Buckets, WindowOK(b), restarts' = restarts,
         left'[b] = left[b], count'[b] = count[b], passed'[b] = passed[b],
         b \notin kept' => b \notin kept \/ left[b] = 0
  PROVE  WindowOK(b)'
<1>1. Recent(b)' = Recent(b) /\ LimitOf(b)' = LimitOf(b) /\ Counted(b)' = Counted(b)
  BY DEF Recent, LimitOf, Counted
<1>2. Young(b)' = Young(b) /\ Lately(b)' = Lately(b)
  BY <1>1 DEF Young, Lately
<1> QED BY <1>1, <1>2 DEF WindowOK

-----------------------------------------------------------------------------
(* One step per action.                                                    *)

LEMMA OpenWindowStep ==
  ASSUME RateInv, NEW d \in Buckets, OpenWindow(d)
  PROVE  RateInv'
<1>1. RateTypeOK'
  BY LimitNat DEF RateInv, RateTypeOK, OpenWindow, Passes
<1>2. /\ left' = [left EXCEPT ![d] = Window] /\ count' = [count EXCEPT ![d] = 1] /\ Passes(d)
      /\ restarts' = restarts /\ left[d] = 0
      /\ \A b \in Buckets : b \notin kept' => b # d /\ (b \notin kept \/ left[b] = 0)
  BY DEF OpenWindow, Expired, RateInv, WindowOK
<1>3. ASSUME NEW b \in Buckets, b # d
      PROVE  WindowOK(b)'
  <2>1. left'[b] = left[b] /\ count'[b] = count[b] /\ passed'[b] = passed[b]
    BY <1>2, <1>3 DEF RateInv, RateTypeOK, Passes
  <2> QED BY <1>2, <2>1, OtherBucket DEF RateInv
<1>4. WindowOK(d)'
  <2>1. /\ IsFiniteSet(Recent(d)) /\ Lately(d) \in Nat
        /\ Lately(d) <= (1 + restarts) * LimitOf(d)
    BY <1>2, FewerYoung DEF RateInv, WindowOK
  <2>2. IsFiniteSet(Recent(d)') /\ Lately(d)' = Lately(d) + 1
    BY <1>1, <1>2, <2>1, OneMorePasses DEF RateInv
  <2>3. left'[d] = Window /\ count'[d] = 1 /\ LimitOf(d)' = LimitOf(d)
    BY <1>2 DEF RateInv, RateTypeOK, LimitOf
  <2>4. Counted(d)' = 1 /\ LimitOf(d) \in Nat \ {0}
    BY <2>3, LimitNat DEF Counted
  <2>5. Young(d)' = {}
    BY <1>1, <2>3, LimitNat, InRecent DEF Young, Recent, Ago
  <2>6. Cardinality(Young(d)') = 0
    BY <2>5, FS_EmptySet
  <2>7. (1 + restarts) * LimitOf(d) \in Nat
    BY <2>4, OneMore DEF RateInv, RateTypeOK
  <2>8. Lately(d)' <= (1 + restarts) * LimitOf(d) + 1
    BY <2>1, <2>2, <2>7
  <2>9. d \in kept' /\ Window # 0
    BY <1>2, LimitNat
  <2> QED BY <1>2, <2>2, <2>3, <2>4, <2>6, <2>8, <2>9 DEF WindowOK
<1> QED BY <1>1, <1>3, <1>4 DEF RateInv

LEMMA CountRequestStep ==
  ASSUME RateInv, NEW d \in Buckets, CountRequest(d)
  PROVE  RateInv'
<1>1. /\ d \in kept /\ left[d] # 0 /\ UNCHANGED <<kept, left, restarts>>
      /\ count' = [count EXCEPT ![d] = IF @ > LimitOf(d) THEN @ ELSE @ + 1]
      /\ IF count'[d] > LimitOf(d) THEN UNCHANGED passed ELSE Passes(d)
  BY DEF CountRequest, Expired
<1>2. RateTypeOK'
  BY <1>1, LimitNat DEF RateInv, RateTypeOK, Passes
<1>3. ASSUME NEW b \in Buckets, b # d
      PROVE  WindowOK(b)'
  <2>1. left'[b] = left[b] /\ count'[b] = count[b] /\ passed'[b] = passed[b]
    BY <1>1, <1>3 DEF RateInv, RateTypeOK, Passes
  <2> QED BY <1>1, <2>1, OtherBucket DEF RateInv
<1>4. WindowOK(d)'
  <2> DEFINE old == (1 + restarts) * LimitOf(d)
  <2>1. /\ IsFiniteSet(Recent(d)) /\ Lately(d) \in Nat /\ Lately(d) <= old + Counted(d)
        /\ IsFiniteSet(Young(d)) /\ Cardinality(Young(d)) \in Nat
        /\ Cardinality(Young(d)) <= Counted(d)
    BY <1>1, FewerYoung DEF RateInv, WindowOK
  <2>2. /\ LimitOf(d) \in Nat \ {0} /\ LimitOf(d)' = LimitOf(d) /\ count[d] \in Nat
        /\ count'[d] = IF count[d] > LimitOf(d) THEN count[d] ELSE count[d] + 1
    BY <1>1, LimitNat DEF RateInv, RateTypeOK, LimitOf
  <2>3. old \in Nat
    BY <2>2, OneMore DEF RateInv, RateTypeOK
  <2>4. left'[d] = left[d] /\ kept' = kept /\ restarts' = restarts /\ old' = old
    BY <1>1, <2>2
  <2>5. CASE count'[d] > LimitOf(d)
    <3>1. passed' = passed
      BY <1>1, <2>5
    <3>2. Recent(d)' = Recent(d)
      BY <3>1 DEF Recent
    <3>3. Young(d)' = Young(d) /\ Lately(d)' = Lately(d)
      BY <2>4, <3>2 DEF Young, Lately
    <3>4. Counted(d) \in Nat /\ Counted(d)' \in Nat /\ Counted(d) <= Counted(d)'
      BY <2>2 DEF Counted
    <3>5. Lately(d)' <= old + Counted(d)' /\ Cardinality(Young(d)') <= Counted(d)'
      <4> HIDE DEF old
      <4> QED BY <2>1, <2>3, <3>3, <3>4
    <3> QED BY <1>1, <2>1, <2>4, <3>2, <3>5 DEF WindowOK
  <2>6. CASE ~(count'[d] > LimitOf(d))
    <3>1. Passes(d)
      BY <1>1, <2>6
    <3> DEFINE new == <<0, passed[d][0] + 1>>
    <3>2. /\ IsFiniteSet(Recent(d)') /\ Lately(d)' = Lately(d) + 1
          /\ Recent(d)' = Recent(d) \cup {new}
      BY <1>2, <2>1, <3>1, OneMorePasses DEF RateInv
    <3>3. Counted(d)' = Counted(d) + 1 /\ Counted(d) \in Nat
      BY <2>2, <2>6 DEF Counted
    <3>4. Young(d)' \subseteq Young(d) \cup {new}
      BY <2>4, <3>2 DEF Young
    <3>5. /\ IsFiniteSet(Young(d) \cup {new})
          /\ Cardinality(Young(d) \cup {new}) \in {Cardinality(Young(d)), Cardinality(Young(d)) + 1}
      <4> HIDE DEF new
      <4> QED BY <2>1, FS_AddElement
    <3>6. Cardinality(Young(d)') <= Cardinality(Young(d) \cup {new})
      <4> HIDE DEF new
      <4> QED BY <3>4, <3>5, FS_Subset
    <3>7. IsFiniteSet(Young(d)') /\ Cardinality(Young(d)') \in Nat
      <4> HIDE DEF new
      <4> QED BY <3>4, <3>5, FS_Subset, FS_CardinalityType
    <3>8. Lately(d)' <= old + Counted(d)' /\ Cardinality(Young(d)') <= Counted(d)'
      <4> HIDE DEF old, new
      <4> QED BY <2>1, <2>3, <3>2, <3>3, <3>5, <3>6, <3>7
    <3> QED BY <1>1, <2>4, <3>2, <3>8 DEF WindowOK
  <2> QED BY <2>5, <2>6
<1> QED BY <1>2, <1>3, <1>4 DEF RateInv

LEMMA TickRateStep ==
  ASSUME RateInv, TickRate
  PROVE  RateInv'
<1>1. /\ left' = [b \in Buckets |-> IF left[b] = 0 THEN 0 ELSE left[b] - 1]
      /\ passed' = [b \in Buckets |-> [t \in Ago |-> IF t = 0 THEN 0 ELSE passed[b][t - 1]]]
      /\ UNCHANGED <<kept, count, restarts>>
  BY DEF TickRate
<1>2. \A t \in Ago : t \in Nat /\ (t # 0 => t - 1 \in Ago)
  BY LimitNat, RateAssumption DEF Ago
<1>3. RateTypeOK'
  <2>1. passed' \in [Buckets -> [Ago -> Nat]]
    BY <1>1, <1>2 DEF RateInv, RateTypeOK
  <2>2. left' \in [Buckets -> 0..Window]
    <3>1. \A b \in Buckets : left[b] \in 0..Window
      BY DEF RateInv, RateTypeOK
    <3>2. \A b \in Buckets : (IF left[b] = 0 THEN 0 ELSE left[b] - 1) \in 0..Window
      BY <3>1, LimitNat, RateAssumption
    <3> QED BY <1>1, <3>2
  <2> QED BY <1>1, <2>1, <2>2 DEF RateInv, RateTypeOK
<1>4. ASSUME NEW b \in Buckets
      PROVE  WindowOK(b)'
  <2>1. /\ IsFiniteSet(Recent(b)) /\ Lately(b) \in Nat
        /\ IsFiniteSet(Young(b)) /\ Cardinality(Young(b)) \in Nat
    BY FewerYoung DEF RateInv, WindowOK
  <2>2. \A p : p \in Recent(b)' <=> \E t \in Ago : \E n \in 1..passed'[b][t] : p = <<t, n>>
    BY <1>3, InRecent DEF Recent
  <2>3. \A t \in Ago : passed'[b][t] = IF t = 0 THEN 0 ELSE passed[b][t - 1]
    BY <1>1
  <2>4. \A t \in Ago : passed[b][t] \in Nat
    BY DEF RateInv, RateTypeOK
  <2>5. ASSUME NEW p \in Recent(b)'
        PROVE  p \in Nat \X Nat /\ p[1] # 0 /\ <<p[1] - 1, p[2]>> \in Recent(b)
    <3>1. PICK t \in Ago : \E n \in 1..passed'[b][t] : p = <<t, n>>
      BY <2>2
    <3>2. PICK n \in 1..passed'[b][t] : p = <<t, n>>
      BY <3>1
    <3>3. t # 0 /\ t \in Nat /\ t - 1 \in Ago /\ n \in 1..passed[b][t - 1] /\ n \in Nat
      BY <1>2, <2>3, <2>4, <3>2
    <3>4. p[1] = t /\ p[2] = n
      BY <3>2
    <3>5. <<t - 1, n>> \in Recent(b)
      BY <3>3, InRecent DEF RateInv
    <3> QED BY <3>2, <3>3, <3>4, <3>5
  <2>6. IsFiniteSet(Recent(b)') /\ Lately(b)' <= Lately(b)
    <3>1. Recent(b)' \subseteq Nat \X Nat
      BY <2>5
    <3> QED BY <2>1, <2>5, <3>1, Older DEF Lately
  <2>7. left[b] \in 0..Window /\ left'[b] = IF left[b] = 0 THEN 0 ELSE left[b] - 1
    BY <1>1 DEF RateInv, RateTypeOK
  <2>8. ASSUME NEW p \in Recent(b)', left[b] # 0, p[1] < Window - left'[b]
        PROVE  <<p[1] - 1, p[2]>> \in Young(b)
    <3>1. p[1] \in Nat
      BY <2>5
    <3>2. p[1] < Window - (left[b] - 1) /\ left[b] \in Nat
      BY <2>7, <2>8
    <3>3. p[1] - 1 < Window - left[b]
      BY <3>1, <3>2, LimitNat
    <3> QED BY <2>5, <3>3 DEF Young
  <2>9. left[b] # 0 => Cardinality(Young(b)') <= Cardinality(Young(b))
    <3> SUFFICES ASSUME left[b] # 0
                 PROVE  Cardinality(Young(b)') <= Cardinality(Young(b))
      OBVIOUS
    <3>1. /\ Young(b)' \subseteq Nat \X Nat
          /\ \A p \in Young(b)' : p[1] # 0 /\ <<p[1] - 1, p[2]>> \in Young(b)
      BY <2>5, <2>8 DEF Young
    <3> QED BY <2>1, <3>1, Older
  <2>10. /\ count'[b] = count[b] /\ LimitOf(b)' = LimitOf(b) /\ restarts' = restarts /\ kept' = kept
         /\ Counted(b)' = Counted(b)
    BY <1>1 DEF LimitOf, Counted
  <2>11. /\ LimitOf(b) \in Nat \ {0} /\ count[b] \in Nat /\ Counted(b) \in Nat
         /\ Counted(b) <= LimitOf(b)
    BY LimitNat DEF Counted, RateInv, RateTypeOK
  <2> DEFINE old == (1 + restarts) * LimitOf(b)
  <2>12. old \in Nat /\ LimitOf(b) <= old /\ old' = old
    BY <2>10, <2>11, OneMore DEF RateInv, RateTypeOK
  <2>13. Lately(b)' \in Nat /\ Cardinality(Young(b)') \in Nat
    <3>1. Young(b)' \subseteq Recent(b)'
      BY DEF Young
    <3> QED BY <2>6, <3>1, FS_Subset, FS_CardinalityType DEF Lately
  \* The window ends: what is young is all there is.
  <2>14. CASE left[b] = 1
    <3>1. left'[b] = 0
      BY <2>7, <2>14
    <3>2. Recent(b)' = Young(b)'
      BY <1>3, <2>5, <3>1, InRecent, LimitNat DEF Young, Recent, Ago
    <3>3. Lately(b)' = Cardinality(Young(b)')
      BY <3>2 DEF Lately
    <3>4. Cardinality(Young(b)) <= Counted(b)
      BY <2>14 DEF RateInv, WindowOK
    <3>5. Lately(b)' <= old
      <4> HIDE DEF old
      <4> QED BY <2>1, <2>9, <2>11, <2>12, <2>13, <2>14, <3>3, <3>4
    <3> QED BY <2>6, <2>10, <3>1, <3>5 DEF WindowOK
  <2>15. CASE left[b] = 0
    <3>1. left'[b] = 0 /\ Lately(b) <= old
      BY <2>7, <2>15 DEF RateInv, WindowOK
    <3>2. Lately(b)' <= old
      <4> HIDE DEF old
      <4> QED BY <2>1, <2>6, <2>12, <2>13, <3>1
    <3> QED BY <2>6, <2>10, <3>1, <3>2 DEF WindowOK
  <2>16. CASE left[b] \notin {0, 1}
    <3>1. left'[b] # 0 /\ Lately(b) <= old + Counted(b) /\ Cardinality(Young(b)) <= Counted(b)
          /\ (b \notin kept => left[b] = 0)
      BY <2>7, <2>16 DEF RateInv, WindowOK
    <3>2. Lately(b)' <= old + Counted(b) /\ Cardinality(Young(b)') <= Counted(b)
      <4> HIDE DEF old
      <4> QED BY <2>1, <2>6, <2>9, <2>11, <2>12, <2>13, <2>16, <3>1
    <3> QED BY <2>6, <2>10, <2>16, <3>1, <3>2 DEF WindowOK
  <2> QED BY <2>14, <2>15, <2>16
<1> QED BY <1>3, <1>4 DEF RateInv

LEMMA RestartRateStep ==
  ASSUME RateInv, RestartRate
  PROVE  RateInv'
<1>1. /\ kept' = {} /\ left' = [b \in Buckets |-> 0] /\ count' = [b \in Buckets |-> 0]
      /\ restarts' = restarts + 1 /\ passed' = passed
  BY DEF RestartRate
<1>2. RateTypeOK'
  BY <1>1, LimitNat, RateAssumption DEF RateInv, RateTypeOK
<1>3. ASSUME NEW b \in Buckets
      PROVE  WindowOK(b)'
  <2>1. IsFiniteSet(Recent(b)) /\ Lately(b) \in Nat /\ Recent(b)' = Recent(b) /\ Lately(b)' = Lately(b)
    BY <1>1, FewerYoung DEF RateInv, WindowOK, Recent, Lately
  <2>2. /\ LimitOf(b) \in Nat \ {0} /\ LimitOf(b)' = LimitOf(b) /\ restarts \in Nat
        /\ Counted(b) \in Nat /\ Counted(b) <= LimitOf(b)
    BY LimitNat DEF RateInv, RateTypeOK, LimitOf, Counted
  <2> DEFINE old == (1 + restarts) * LimitOf(b)
  <2>3. Lately(b) <= old + Counted(b) \/ Lately(b) <= old
    BY DEF RateInv, WindowOK
  <2>4. old \in Nat /\ (1 + (restarts + 1)) * LimitOf(b) = old + LimitOf(b)
    BY <2>2, OneMore
  <2>5. Lately(b) <= (1 + (restarts + 1)) * LimitOf(b)
    <3>1. Lately(b) <= old + LimitOf(b)
      <4> HIDE DEF old
      <4> QED BY <2>1, <2>2, <2>3, <2>4
    <3> QED BY <2>4, <3>1
  <2>6. left'[b] = 0
    BY <1>1
  <2> QED BY <1>1, <2>1, <2>2, <2>5, <2>6 DEF WindowOK
<1> QED BY <1>2, <1>3 DEF RateInv

-----------------------------------------------------------------------------
(* The theorems.                                                           *)

LEMMA RateStart ==
  ASSUME RateInit
  PROVE  RateInv
<1>1. RateTypeOK
  BY RateAssumption DEF RateInit, RateTypeOK
<1>2. ASSUME NEW b \in Buckets
      PROVE  WindowOK(b)
  <2>1. Recent(b) = {}
    BY <1>1, InRecent DEF RateInit
  <2>2. IsFiniteSet(Recent(b)) /\ Lately(b) = 0
    BY <2>1, FS_EmptySet DEF Lately
  <2>3. LimitOf(b) \in Nat /\ (1 + 0) * LimitOf(b) \in Nat
    BY LimitNat, OneMore
  <2> QED BY <2>2, <2>3 DEF RateInit, WindowOK
<1> QED BY <1>1, <1>2 DEF RateInv

\* What passes in an open window is counted in it, and what is older is at most the limit
\* and once more the limit for each restart.
THEOREM RateInvariance == RateSpec => []RateInv
<1>1. RateInv /\ [RateNext]_rateVars => RateInv'
  <2> SUFFICES ASSUME RateInv, [RateNext]_rateVars PROVE RateInv'
    OBVIOUS
  <2>1. CASE UNCHANGED rateVars
    <3>1. UNCHANGED <<kept, left, count, passed, restarts>>
      BY <2>1 DEF rateVars
    <3>2. RateTypeOK'
      BY <3>1 DEF RateInv, RateTypeOK
    <3>3. \A b \in Buckets : WindowOK(b)'
      BY <3>1, OtherBucket DEF RateInv
    <3> QED BY <3>2, <3>3 DEF RateInv
  <2> QED BY <2>1, OpenWindowStep, CountRequestStep, TickRateStep, RestartRateStep DEF RateNext
<1> QED BY <1>1, RateStart, PTL DEF RateSpec

\* In no interval of the length of a window do more than twice the limit pass, and the limit
\* once more for each restart, whatever the limits, the window and the map's capacity.
THEOREM RateIsBounded == RateSpec => []RateBound
<1>1. RateInv => RateBound
  <2> SUFFICES ASSUME RateInv, NEW b \in Buckets
               PROVE  Lately(b) <= (2 + restarts) * LimitOf(b)
    BY DEF RateBound
  <2> DEFINE old == (1 + restarts) * LimitOf(b)
  <2>1. /\ LimitOf(b) \in Nat \ {0} /\ restarts \in Nat
        /\ Counted(b) \in Nat /\ Counted(b) <= LimitOf(b)
    BY LimitNat DEF RateInv, RateTypeOK, Counted
  <2>2. old \in Nat /\ (2 + restarts) * LimitOf(b) = old + LimitOf(b)
    BY <2>1, OneMore
  <2>3. Lately(b) \in Nat /\ (Lately(b) <= old + Counted(b) \/ Lately(b) <= old)
    BY FewerYoung DEF RateInv, WindowOK
  <2>4. Lately(b) <= old + LimitOf(b)
    <3> HIDE DEF old
    <3> QED BY <2>1, <2>2, <2>3
  <2> QED BY <2>2, <2>4
<1> QED BY <1>1, RateInvariance, PTL
=============================================================================
