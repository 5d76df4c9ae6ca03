-------------------------- MODULE Throttle_proofs --------------------------
(* The bound on the secrets tried, for every threshold and every number of  *)
(* callers.                                                                 *)
(*                                                                          *)
(* Until the block is set, each secret tried has been counted in fails, or  *)
(* its caller is still on its way to the counter or to the block. Once it   *)
(* is set nobody enters, and each caller inside tries one secret at most.   *)
EXTENDS Throttle, FiniteSetTheorems, TLAPS

(* The callers whose secret the counter, up to Threshold - 1, does not show *)
(* yet. With a threshold of 1 the call that opens the window is on its way  *)
(* to the block.                                                            *)
OnTheWay ==
    {"trying", "block"} \cup (IF Threshold = 1 THEN {"window"} ELSE {})
Pending == {c \in Caller : at[c] \in OnTheWay}

(* The failures counted, up to the one before the block.                    *)
Shown == IF fails < Threshold THEN fails ELSE Threshold - 1

TypeOK ==
    /\ fails \in Nat
    /\ window \in BOOLEAN
    /\ blocked \in BOOLEAN
    /\ at \in [Caller -> Places]
    /\ tries \in Nat

Accounted ==
    IF blocked THEN tries <= Threshold - 1 + Cardinality(Caller \ Inside)
    ELSE tries <= Shown + Cardinality(Pending)

IInv == TypeOK /\ Accounted

-----------------------------------------------------------------------------
(* Sets of callers as one caller moves.                                     *)

(* A caller that joins a set makes it one larger.                           *)
LEMMA OneMore ==
    ASSUME NEW S, IsFiniteSet(S), NEW c, c \notin S
    PROVE  /\ IsFiniteSet(S \cup {c})
           /\ Cardinality(S \cup {c}) = Cardinality(S) + 1
           /\ Cardinality(S) \in Nat
  BY FS_AddElement, FS_CardinalityType

(* A caller that leaves a set makes it one smaller.                         *)
LEMMA OneLess ==
    ASSUME NEW S, IsFiniteSet(S), NEW c \in S
    PROVE  /\ Cardinality(S) = Cardinality(S \ {c}) + 1
           /\ Cardinality(S \ {c}) \in Nat
  <1>1. IsFiniteSet(S \ {c})
    BY FS_Subset, S \ {c} \subseteq S
  <1>2. (S \ {c}) \cup {c} = S
    OBVIOUS
  <1> QED BY <1>1, <1>2, OneMore

(* The sets of callers are finite.                                          *)
LEMMA Finite ==
    ASSUME IsFiniteSet(Caller)
    PROVE  /\ IsFiniteSet(Pending) /\ IsFiniteSet(Caller \ Inside)
           /\ Cardinality(Pending) \in Nat /\ Cardinality(Caller \ Inside) \in Nat
           /\ Cardinality(Caller) \in Nat
           /\ Cardinality(Pending) <= Cardinality(Caller)
           /\ Cardinality(Caller \ Inside) <= Cardinality(Caller)
  <1>1. Pending \subseteq Caller /\ Caller \ Inside \subseteq Caller
    BY DEF Pending
  <1> QED BY <1>1, FS_Subset, FS_CardinalityType

(* What a step of caller c does to the two sets.                            *)
LEMMA Moved ==
    ASSUME IsFiniteSet(Caller), at \in [Caller -> Places], NEW c \in Caller,
           NEW p \in Places, Move(c, p)
    PROVE  /\ at' \in [Caller -> Places]
           /\ Cardinality(Pending) \in Nat /\ Cardinality(Pending') \in Nat
           /\ Cardinality(Caller \ Inside) \in Nat
           /\ Cardinality(Caller \ Inside') \in Nat
           /\ at[c] \in OnTheWay /\ p \notin OnTheWay =>
                Cardinality(Pending) = Cardinality(Pending') + 1
           /\ at[c] \notin OnTheWay /\ p \in OnTheWay =>
                Cardinality(Pending') = Cardinality(Pending) + 1
           /\ (at[c] \in OnTheWay <=> p \in OnTheWay) =>
                Cardinality(Pending') = Cardinality(Pending)
           /\ at[c] = "in" /\ p # "in" =>
                Cardinality(Caller \ Inside') = Cardinality(Caller \ Inside) + 1
           /\ (at[c] = "in" <=> p = "in") =>
                Cardinality(Caller \ Inside') = Cardinality(Caller \ Inside)
  <1>1. /\ at' \in [Caller -> Places]
        /\ at' = [at EXCEPT ![c] = p]
    BY DEF Move
  <1>2. IsFiniteSet(Pending) /\ IsFiniteSet(Pending')
    <2>1. Pending \subseteq Caller /\ Pending' \subseteq Caller
      BY DEF Pending
    <2> QED BY <2>1, FS_Subset
  <1>3. IsFiniteSet(Caller \ Inside) /\ IsFiniteSet(Caller \ Inside')
    <2>1. Caller \ Inside \subseteq Caller /\ Caller \ Inside' \subseteq Caller
      OBVIOUS
    <2> QED BY <2>1, FS_Subset
  <1>4. /\ Cardinality(Pending) \in Nat /\ Cardinality(Pending') \in Nat
        /\ Cardinality(Caller \ Inside) \in Nat /\ Cardinality(Caller \ Inside') \in Nat
    BY <1>2, <1>3, FS_CardinalityType
  <1>5. ASSUME at[c] \in OnTheWay, p \notin OnTheWay
        PROVE  Cardinality(Pending) = Cardinality(Pending') + 1
    <2>1. c \in Pending /\ Pending' = Pending \ {c}
      BY <1>1, <1>5 DEF Pending, OnTheWay
    <2> QED BY <2>1, <1>2, OneLess
  <1>6. ASSUME at[c] \notin OnTheWay, p \in OnTheWay
        PROVE  Cardinality(Pending') = Cardinality(Pending) + 1
    <2>1. c \notin Pending /\ Pending' = Pending \cup {c}
      BY <1>1, <1>6 DEF Pending, OnTheWay
    <2> QED BY <2>1, <1>2, OneMore
  <1>7. ASSUME at[c] \in OnTheWay <=> p \in OnTheWay
        PROVE  Cardinality(Pending') = Cardinality(Pending)
    <2>1. Pending' = Pending
      BY <1>1, <1>7 DEF Pending, OnTheWay
    <2> QED BY <2>1
  <1>8. ASSUME at[c] = "in", p # "in"
        PROVE  Cardinality(Caller \ Inside') = Cardinality(Caller \ Inside) + 1
    <2>1. c \notin Caller \ Inside /\ Caller \ Inside' = (Caller \ Inside) \cup {c}
      BY <1>1, <1>8 DEF Inside
    <2> QED BY <2>1, <1>3, OneMore
  <1>9. ASSUME at[c] = "in" <=> p = "in"
        PROVE  Cardinality(Caller \ Inside') = Cardinality(Caller \ Inside)
    <2>1. Inside' = Inside
      BY <1>1, <1>9 DEF Inside
    <2> QED BY <2>1
  <1> QED BY <1>1, <1>4, <1>5, <1>6, <1>7, <1>8, <1>9

-----------------------------------------------------------------------------
(* The invariant holds at the start: nothing was tried.                     *)
LEMMA InitIInv ==
    ASSUME Threshold \in Nat \ {0}, IsFiniteSet(Caller), Init
    PROVE  IInv
  <1>1. TypeOK
    BY DEF Init, TypeOK, Places
  <1>2. Cardinality(Pending) \in Nat
    BY Finite
  <1> QED BY <1>1, <1>2 DEF Init, IInv, Accounted, Shown

(* A step of a caller keeps the invariant.                                  *)
LEMMA CallerStep ==
    ASSUME Threshold \in Nat \ {0}, IsFiniteSet(Caller), IInv, NEW c \in Caller,
           \/ Enter(c) \/ Leave(c) \/ Try(c) \/ Count(c) \/ Knock(c)
           \/ SetWindow(c) \/ Block(c) \/ Excuse(c) \/ Clear(c) \/ Lift(c)
    PROVE  IInv'
  <1> DEFINE pending == Cardinality(Pending)
             outside == Cardinality(Caller \ Inside)
  <1>1. TypeOK /\ Accounted
    BY DEF IInv
  <1>2. /\ pending \in Nat /\ outside \in Nat /\ pending <= Cardinality(Caller)
        /\ Threshold \in Nat /\ Threshold >= 1
    BY Finite
  <1>3. pending <= outside
    <2>1. Pending \subseteq Caller \ Inside
      BY DEF Pending, Inside, OnTheWay
    <2> QED BY <2>1, FS_Subset, Finite
  <1>4. Accounted <=> IF blocked THEN tries <= Threshold - 1 + outside
                      ELSE tries <= Shown + pending
    BY DEF Accounted
  <1>5. Accounted' <=> IF blocked' THEN tries' <= Threshold - 1 + outside'
                       ELSE tries' <= Shown' + pending'
    BY DEF Accounted
  <1>6. CASE Enter(c)
    <2>1. at[c] = "out" /\ ~blocked /\ Move(c, "in") /\ UNCHANGED <<fails, window, blocked, tries>>
      BY <1>6 DEF Enter
    <2>2. at' \in [Caller -> Places] /\ pending' = pending /\ pending' \in Nat
      BY <2>1, <1>1, Moved DEF TypeOK, Places, OnTheWay, pending
    <2> QED BY <2>1, <2>2, <1>1, <1>4, <1>5 DEF IInv, TypeOK, Shown
  <1>7. CASE Leave(c)
    <2>1. at[c] = "in" /\ Move(c, "out") /\ UNCHANGED <<fails, window, blocked, tries>>
      BY <1>7 DEF Leave
    <2>2. at' \in [Caller -> Places] /\ pending' = pending /\ outside' = outside + 1
      BY <2>1, <1>1, Moved DEF TypeOK, Places, OnTheWay, pending, outside
    <2> QED BY <2>1, <2>2, <1>1, <1>2, <1>4, <1>5 DEF IInv, TypeOK, Shown
  <1>8. CASE Try(c)
    <2>1. /\ at[c] = "in" /\ Move(c, "trying") /\ tries' = tries + 1
          /\ UNCHANGED <<fails, window, blocked>>
      BY <1>8 DEF Try
    <2>2. at' \in [Caller -> Places] /\ pending' = pending + 1 /\ outside' = outside + 1
      BY <2>1, <1>1, Moved DEF TypeOK, Places, OnTheWay, pending, outside
    <2> QED BY <2>1, <2>2, <1>1, <1>2, <1>4, <1>5 DEF IInv, TypeOK, Shown
  <1>9. CASE Count(c)
    <2>1. /\ at[c] \in {"trying", "knock"} /\ Move(c, Counted(fails + 1))
          /\ fails' = fails + 1 /\ UNCHANGED <<window, blocked, tries>>
      BY <1>9 DEF Count
    <2>2. fails + 1 \in Nat /\ fails \in Nat
      BY <1>1 DEF TypeOK
    <2>3. /\ Counted(fails + 1) \in Places \ {"in"}
          /\ Counted(fails + 1) \in OnTheWay <=> fails + 1 >= Threshold
      BY <2>2, <1>2 DEF Counted, Places, OnTheWay
    <2>4. at' \in [Caller -> Places] /\ outside' = outside
      BY <2>1, <2>3, <1>1, Moved DEF TypeOK, outside
    <2>5. CASE fails + 1 >= Threshold
      <3>1. pending' = pending \/ pending' = pending + 1
        BY <2>1, <2>3, <2>5, <1>1, Moved DEF TypeOK, OnTheWay, pending
      <3>2. Shown' >= Shown /\ Shown' \in Nat /\ Shown \in Nat
        BY <2>1, <2>2, <1>2 DEF Shown
      <3> QED BY <3>1, <3>2, <2>1, <2>2, <2>4, <1>1, <1>2, <1>4, <1>5 DEF IInv, TypeOK
    <2>6. CASE fails + 1 < Threshold
      <3>1. pending' = pending \/ pending = pending' + 1
        BY <2>1, <2>2, <2>3, <2>6, <1>1, <1>2, Moved DEF TypeOK, OnTheWay, pending
      <3>2. Shown' = Shown + 1 /\ Shown \in Nat
        BY <2>1, <2>2, <2>6, <1>2 DEF Shown
      <3>3. pending' \in Nat
        BY <2>1, <2>3, <1>1, Moved DEF TypeOK, pending
      <3>4. Shown' \in Nat /\ Shown' >= Shown + 1
        BY <3>2
      <3>5. pending' + 1 >= pending
        BY <3>1, <3>3, <1>2
      <3>6. Accounted'
        BY <2>1, <2>4, <3>2, <3>3, <3>4, <3>5, <1>1, <1>2, <1>4, <1>5 DEF TypeOK
      <3> QED BY <3>6, <2>1, <2>2, <2>4, <1>1 DEF IInv, TypeOK
    <2> QED BY <2>2, <1>2, <2>5, <2>6
  <1>10. CASE Knock(c)
    <2>1. at[c] = "out" /\ blocked /\ Move(c, "knock") /\ UNCHANGED <<fails, window, blocked, tries>>
      BY <1>10 DEF Knock
    <2>2. at' \in [Caller -> Places] /\ pending' = pending /\ outside' = outside
      BY <2>1, <1>1, Moved DEF TypeOK, Places, OnTheWay, pending, outside
    <2> QED BY <2>1, <2>2, <1>1, <1>4, <1>5 DEF IInv, TypeOK, Shown
  <1>11. CASE SetWindow(c)
    <2>1. /\ at[c] = "window" /\ window' \in BOOLEAN
          /\ Move(c, IF Threshold <= 1 THEN "block" ELSE "out")
          /\ UNCHANGED <<fails, blocked, tries>>
      BY <1>11 DEF SetWindow
    <2>2. at' \in [Caller -> Places] /\ pending' = pending /\ outside' = outside
      BY <2>1, <1>1, <1>2, Moved DEF TypeOK, Places, OnTheWay, pending, outside
    <2> QED BY <2>1, <2>2, <1>1, <1>4, <1>5 DEF IInv, TypeOK, Shown
  <1>12. CASE Block(c)
    <2>1. at[c] = "block" /\ blocked' = TRUE /\ Move(c, "out") /\ UNCHANGED <<fails, window, tries>>
      BY <1>12 DEF Block
    <2>2. at' \in [Caller -> Places] /\ outside' = outside
      BY <2>1, <1>1, Moved DEF TypeOK, Places, outside
    <2>3. Shown <= Threshold - 1 /\ Shown \in Nat
      BY <1>1, <1>2 DEF Shown, TypeOK
    <2> QED BY <2>1, <2>2, <2>3, <1>1, <1>2, <1>3, <1>4, <1>5 DEF IInv, TypeOK
  <1>13. CASE Excuse(c)
    <2>1. /\ at[c] = "trying" /\ Move(c, "out")
          /\ tries' = IF tries = 0 THEN 0 ELSE tries - 1
          /\ UNCHANGED <<fails, window, blocked>>
      BY <1>13 DEF Excuse
    <2>2. at' \in [Caller -> Places] /\ pending = pending' + 1 /\ outside' = outside /\ pending' \in Nat
      BY <2>1, <1>1, Moved DEF TypeOK, Places, OnTheWay, pending, outside
    <2>3. Shown' = Shown /\ Shown \in Nat
      BY <2>1, <1>1, <1>2 DEF Shown, TypeOK
    <2>4. tries \in Nat /\ tries' \in Nat /\ (tries' <= 0 \/ tries' <= tries - 1)
      BY <2>1, <1>1 DEF TypeOK
    <2>5. pending' \in Nat /\ pending <= pending' + 1 /\ blocked' = blocked
      BY <2>1, <2>2, <1>2
    <2>6. ASSUME blocked PROVE Accounted'
      <3>1. tries <= Threshold - 1 + outside
        BY <2>6, <1>1, <1>4
      <3>2. tries' <= Threshold - 1 + outside'
        BY <3>1, <2>2, <2>4, <1>2
      <3> QED BY <3>2, <2>5, <2>6, <1>5
    <2>7. ASSUME ~blocked PROVE Accounted'
      <3>1. tries <= Shown + pending
        BY <2>7, <1>1, <1>4
      <3>2. tries' <= Shown' + pending'
        BY <3>1, <2>3, <2>4, <2>5, <1>2
      <3> QED BY <3>2, <2>5, <2>7, <1>5
    <2>8. Accounted'
      BY <2>6, <2>7
    <2> QED BY <2>1, <2>2, <2>4, <2>8, <1>1 DEF IInv, TypeOK
  <1>14. CASE Clear(c) \/ Lift(c)
    <2>1. (Move(c, "lift") \/ Move(c, "out")) /\ tries' = 0 /\ fails' \in Nat
      BY <1>14, <1>1 DEF Clear, Lift, TypeOK
    <2>2. at' \in [Caller -> Places] /\ pending' \in Nat /\ outside' \in Nat
      BY <2>1, <1>1, Moved DEF TypeOK, Places, pending, outside
    <2>3. Shown' \in Nat
      BY <2>1, <1>2 DEF Shown
    <2>4. (window' = FALSE \/ window' = window) /\ (blocked' = FALSE \/ blocked' = blocked)
      BY <1>14 DEF Clear, Lift
    <2>5. tries' \in Nat /\ tries' <= 0
      BY <2>1
    <2>6. Accounted'
      BY <2>2, <2>3, <2>5, <1>2, <1>5
    <2>7. TypeOK'
      BY <2>1, <2>2, <2>4, <1>1 DEF TypeOK
    <2> QED BY <2>6, <2>7 DEF IInv
  <1> QED BY <1>6, <1>7, <1>8, <1>9, <1>10, <1>11, <1>12, <1>13, <1>14

(* The end of the window and that of the block start the count again.       *)
LEMMA TimeStep ==
    ASSUME Threshold \in Nat \ {0}, IsFiniteSet(Caller), IInv, WindowEnds \/ BlockEnds
    PROVE  IInv'
  <1>1. TypeOK
    BY DEF IInv
  <1>2. tries' = 0 /\ fails' \in Nat /\ at' = at
    BY <1>1 DEF WindowEnds, BlockEnds, TypeOK
  <1>3. (window' = FALSE \/ window' = window) /\ (blocked' = FALSE \/ blocked' = blocked)
    BY DEF WindowEnds, BlockEnds
  <1>4. TypeOK'
    BY <1>1, <1>2, <1>3 DEF TypeOK
  <1>5. Pending' = Pending /\ Inside' = Inside
    BY <1>2 DEF Pending, Inside
  <1>6. Shown' \in Nat
    BY <1>2 DEF Shown
  <1>7. Accounted'
    BY <1>2, <1>5, <1>6, Finite DEF Accounted
  <1> QED BY <1>4, <1>7 DEF IInv

(* Every step keeps the invariant.                                          *)
LEMMA NextIInv ==
    ASSUME Threshold \in Nat \ {0}, IsFiniteSet(Caller), IInv, [Next]_vars
    PROVE  IInv'
  <1>1. CASE UNCHANGED vars
    BY <1>1 DEF vars, IInv, TypeOK, Accounted, Shown, Pending, Inside
  <1>2. CASE Next
    BY <1>2, CallerStep, TimeStep DEF Next
  <1> QED BY <1>1, <1>2

(* The secrets tried between two resets are bounded, whatever the threshold *)
(* and the number of requests at once, and whatever the order of their      *)
(* calls (the counters of passwd.service.ts and auth.service.ts).           *)
THEOREM Bounded ==
    ASSUME Threshold \in Nat \ {0}, IsFiniteSet(Caller)
    PROVE  Spec => []TriesBounded
  <1>1. Init => IInv
    BY InitIInv
  <1>2. IInv /\ [Next]_vars => IInv'
    BY NextIInv
  <1>3. IInv => TriesBounded
    <2> SUFFICES ASSUME IInv PROVE TriesBounded
      OBVIOUS
    <2>1. TypeOK /\ Accounted
      BY DEF IInv
    <2>2. Shown \in Nat /\ Shown <= Threshold - 1
      BY <2>1 DEF Shown, TypeOK
    <2> QED BY <2>1, <2>2, Finite DEF Accounted, TriesBounded, TypeOK
  <1> QED BY <1>1, <1>2, <1>3, PTL DEF Spec
=============================================================================
