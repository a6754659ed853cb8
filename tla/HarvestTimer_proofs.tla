------------------------- MODULE HarvestTimer_proofs ------------------------
(***************************************************************************)
(* The throttle's bounds, for every factor, every width of the counter and *)
(* every value it holds when the timer first fires.                        *)
(***************************************************************************)
EXTENDS HarvestTimer, TLAPS

(* The counter is not behind the skips, but for the one that wrapped it;   *)
(* and after a skip it is below the factor, so that no other wraps it.     *)
CounterKeepsUp == skips > 0 => counter + 1 >= skips /\ counter < Factor

IInv == TypeOK /\ CounterKeepsUp

LEMMA LimitBounds ==
    ASSUME clock \in Hours
    PROVE
    /\ Limit \in 0 .. Factor
    /\ Saturday => Limit = (IF Hour \in 9 .. 14 THEN Factor \div 4 ELSE Factor \div 2)
<1>1. Factor \div 2 \in 0 .. Factor /\ Factor \div 4 \in 0 .. Factor
  BY FactorAssumption
<1>2. Limit \in 0 .. Factor
  BY <1>1, FactorAssumption DEF Limit
<1>3. ASSUME Saturday
      PROVE  Limit = (IF Hour \in 9 .. 14 THEN Factor \div 4 ELSE Factor \div 2)
  BY <1>3 DEF Limit, Hour, Hours, Saturday
<1> QED
  BY <1>2, <1>3

LEMMA InitIInv == Init => IInv
  BY FactorAssumption DEF Init, IInv, TypeOK, CounterKeepsUp

(* A skip counts one up, and wraps only if there was none before it.       *)
LEMMA SkipStep ==
    ASSUME IInv, Skip
    PROVE  /\ IInv'
           /\ counter' + 1 >= skips' /\ counter' < Limit
<1>1. clock \in Hours /\ counter \in 0 .. MaxCounter /\ skips \in Nat
  BY DEF IInv, TypeOK
<1>2. skips' = skips + 1 /\ counter' = Counted /\ counter' < Limit
  BY DEF Skip
<1>3. Counted = IF counter = MaxCounter THEN 0 ELSE counter + 1
  BY <1>1, FactorAssumption DEF Counted
<1>4. counter' \in 0 .. MaxCounter
  BY <1>1, <1>2, <1>3, FactorAssumption
<1>5. counter' + 1 >= skips'
  <2>1. CASE counter = MaxCounter
    <3>1. skips = 0
      BY <1>1, <2>1, FactorAssumption DEF IInv, CounterKeepsUp
    <3> QED
      BY <1>2, <1>3, <2>1, <3>1
  <2>2. CASE counter # MaxCounter
    BY <1>1, <1>2, <1>3, <2>2 DEF IInv, CounterKeepsUp
  <2> QED
    BY <2>1, <2>2
<1>6. counter' < Factor
  BY <1>1, <1>2, <1>4, LimitBounds, FactorAssumption
<1> QED
  BY <1>1, <1>2, <1>4, <1>5, <1>6 DEF IInv, TypeOK, CounterKeepsUp, Skip

LEMMA NextIInv == IInv /\ [Next]_vars => IInv'
<1> SUFFICES ASSUME IInv, [Next]_vars PROVE IInv'
  OBVIOUS
<1>1. CASE Tick
  <2>1. clock' \in Hours
    BY <1>1 DEF Tick, IInv, TypeOK, Hours
  <2> QED
    BY <1>1, <2>1 DEF Tick, IInv, TypeOK, CounterKeepsUp
<1>2. CASE Skip
  BY <1>2, SkipStep
<1>3. CASE Harvest
  BY <1>3, FactorAssumption DEF Harvest, IInv, TypeOK, CounterKeepsUp
<1>4. CASE HarvestEnds
  BY <1>4 DEF HarvestEnds, IInv, TypeOK, CounterKeepsUp
<1>5. CASE UNCHANGED vars
  BY <1>5 DEF vars, IInv, TypeOK, CounterKeepsUp
<1> QED
  BY <1>1, <1>2, <1>3, <1>4, <1>5 DEF Next

(* Every variable stays in its type.                                       *)
THEOREM TimerTypeCorrect == Spec => []TypeOK
<1>1. IInv => TypeOK
  BY DEF IInv
<1> QED
  BY <1>1, InitIInv, NextIInv, PTL DEF Spec

(* Of as many firings as the factor says, and one, one is a harvest: for   *)
(* any factor, and any value the counter starts from.                      *)
THEOREM SkipsAreBounded == Spec => []SkipsBounded
<1>1. IInv => SkipsBounded
  BY FactorAssumption DEF IInv, TypeOK, CounterKeepsUp, SkipsBounded
<1> QED
  BY <1>1, InitIInv, NextIInv, PTL DEF Spec

(* A Saturday's firing is skipped only if fewer than a half or a quarter   *)
(* of the factor were skipped before it.                                   *)
THEOREM SaturdaySkipsAreFewer == Spec => SaturdayIsFaster
<1>1. IInv /\ [Next]_vars =>
          [skips' > skips /\ Saturday =>
               skips' <= (IF Hour \in 9 .. 14 THEN Factor \div 4 ELSE Factor \div 2)]_vars
  <2> SUFFICES ASSUME IInv, Next, skips' > skips, Saturday
               PROVE  skips' <= (IF Hour \in 9 .. 14 THEN Factor \div 4 ELSE Factor \div 2)
    OBVIOUS
  <2>1. Skip
    BY DEF Next, Tick, Harvest, HarvestEnds, IInv, TypeOK
  <2>2. counter' + 1 >= skips' /\ counter' < Limit /\ IInv'
    BY <2>1, SkipStep
  <2>3. Limit = (IF Hour \in 9 .. 14 THEN Factor \div 4 ELSE Factor \div 2)
    BY LimitBounds DEF IInv, TypeOK
  <2>4. Limit \in 0 .. Factor
    BY LimitBounds DEF IInv, TypeOK
  <2>5. counter' \in Nat /\ skips' \in Nat
    BY <2>2 DEF IInv, TypeOK
  <2>6. ASSUME NEW l \in Nat, NEW c \in Nat, NEW s \in Nat, c + 1 >= s, c < l
        PROVE  s <= l
    BY <2>6
  <2>7. skips' <= Limit
    <3>1. Limit \in Nat
      BY <2>4, FactorAssumption
    <3>2. counter' + 1 >= skips' /\ counter' < Limit
      BY <2>2
    <3> QED
      BY <2>5, <2>6, <3>1, <3>2
  <2> QED
    BY <2>3, <2>7
<1> QED
  BY <1>1, InitIInv, NextIInv, PTL DEF Spec, SaturdayIsFaster
=============================================================================
