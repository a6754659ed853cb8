----------------------- MODULE AthleteReconcile_proofs ----------------------
(***************************************************************************)
(* What the harvests leave in ATHLETE, for any number of them, any pages   *)
(* and any order in which their transactions meet.                         *)
(***************************************************************************)
EXTENDS AthleteReconcile, TLAPS

(* What a transaction read of ATHLETE is still there.                      *)
KnownStays ==
    \A e \in Events, a \in Athletes :
        writing[e] # Idle /\ known[e][a] # NoRow => athlete[a] # NoRow

(* The runners that reconcile has passed have a row, if only for the       *)
(* transaction.                                                            *)
PassedHaveRow ==
    \A e \in Events : writing[e] # Idle =>
        \A i \in DOMAIN Pages[writing[e]] : i < at[e] =>
            \/ athlete[Pages[writing[e]][i].athlete] # NoRow
            \/ written[e][Pages[writing[e]][i].athlete] # NoRow

(* A transaction writes what its page says.                                *)
WritesAreOfPage ==
    \A e \in Events, a \in Athletes : written[e][a] # NoRow =>
        /\ writing[e] # Idle
        /\ [athlete |-> a, name |-> written[e][a]] \in Lines(writing[e])

(* Who waits, waits to write the row of the runner it is at.               *)
WaitersAtRunner ==
    \A e \in waiting : AtRunner(e) /\ (IsNew(e) \/ Differs(e))

RowInv == /\ TypeOK /\ WaitersAtRunner /\ KnownStays /\ PassedHaveRow /\ WritesAreOfPage
          /\ RunnersAreAthletes /\ NamesArePrinted

-----------------------------------------------------------------------------
LEMMA LineIsPrinted ==
    ASSUME NEW r \in Results, NEW i \in DOMAIN Pages[r]
    PROVE  /\ i \in Nat \ {0} /\ i <= Len(Pages[r])
           /\ Pages[r][i] \in Printed
           /\ Pages[r][i].athlete \in Athletes
<1>1. Pages[r] \in Seq(Printed)
  BY PagesAssumption
<1>2. i \in 1 .. Len(Pages[r])
  BY <1>1
<1>3. Pages[r][i] \in Printed
  BY <1>1, <1>2
<1> QED
  BY <1>1, <1>2, <1>3 DEF Printed

(* The runner reconcile is at is on the page.                              *)
LEMMA RunnerOnPage ==
    ASSUME TypeOK, NEW e \in Events, AtRunner(e)
    PROVE  /\ writing[e] \in Results
           /\ at[e] \in DOMAIN Pages[writing[e]]
           /\ Runner(e) \in Lines(writing[e])
           /\ Runner(e) \in Printed
<1>1. writing[e] \in Results
  BY DEF TypeOK, AtRunner
<1>2. Pages[writing[e]] \in Seq(Printed)
  BY <1>1, PagesAssumption
<1>3. at[e] \in 1 .. Len(Pages[writing[e]])
  BY <1>2 DEF TypeOK, AtRunner
<1>4. at[e] \in DOMAIN Pages[writing[e]]
  BY <1>2, <1>3
<1>5. Runner(e) \in Printed
  BY <1>2, <1>3 DEF Runner
<1> QED
  BY <1>1, <1>4, <1>5 DEF Runner, Lines

LEMMA RowInit == Init => RowInv
<1> SUFFICES ASSUME Init PROVE RowInv
  OBVIOUS
<1>1. NoRows \in [Athletes -> Names \cup {NoRow}]
  BY DEF NoRows
<1>2. TypeOK
  BY <1>1, ErrorsAssumption DEF Init, TypeOK
<1>3. WaitersAtRunner /\ KnownStays /\ PassedHaveRow /\ WritesAreOfPage
  BY DEF Init, WaitersAtRunner, KnownStays, PassedHaveRow, WritesAreOfPage, NoRows
<1>4. RunnersAreAthletes /\ NamesArePrinted
  BY DEF Init, RunnersAreAthletes, NamesArePrinted, NoRows
<1> QED
  BY <1>2, <1>3, <1>4 DEF RowInv

LEMMA BeginStep ==
    ASSUME RowInv, NEW e \in Events, NEW r \in Results, Begin(e, r)
    PROVE  RowInv'
<1> USE DEF RowInv
<1>1. TypeOK'
  BY DEF TypeOK, Begin
<1>2. KnownStays' /\ WaitersAtRunner'
  <2>1. KnownStays'
    BY DEF TypeOK, KnownStays, Begin
  <2>2. \A f \in waiting : f # e /\ f \in Events
    BY DEF TypeOK, Begin
  <2>3. WaitersAtRunner'
    BY <2>2 DEF Begin, TypeOK, WaitersAtRunner, AtRunner, Runner, IsNew, Differs
  <2> QED
    BY <2>1, <2>3
<1>3. PassedHaveRow'
  <2> SUFFICES ASSUME NEW f \in Events, writing'[f] # Idle,
                      NEW i \in DOMAIN Pages[writing'[f]], i < at'[f]
               PROVE  \/ athlete[Pages[writing'[f]][i].athlete] # NoRow
                      \/ written[f][Pages[writing'[f]][i].athlete] # NoRow
    BY DEF PassedHaveRow, Begin
  <2>1. CASE f = e
    <3>1. writing'[f] = r /\ at'[f] = 1
      BY <2>1 DEF Begin, TypeOK
    <3>2. Pages[r] \in Seq(Printed)
      BY PagesAssumption
    <3> QED
      BY <3>1, <3>2
  <2>2. CASE f # e
    BY <2>2 DEF PassedHaveRow, Begin, TypeOK
  <2> QED
    BY <2>1, <2>2
<1>4. WritesAreOfPage'
  BY DEF WritesAreOfPage, Begin, TypeOK
<1>5. RunnersAreAthletes' /\ NamesArePrinted'
  BY DEF RunnersAreAthletes, NamesArePrinted, Begin
<1> QED
  BY <1>1, <1>2, <1>3, <1>4, <1>5

(* An insert or update of the row of the runner it is at.                  *)
LEMMA WritesStep ==
    ASSUME RowInv, NEW e \in Events, AtRunner(e), Writes(e)
    PROVE  RowInv'
<1> USE DEF RowInv
<1> DEFINE a == Runner(e).athlete
           n == Runner(e).name
<1>1. /\ writing[e] \in Results /\ at[e] \in DOMAIN Pages[writing[e]]
      /\ Runner(e) \in Lines(writing[e]) /\ Runner(e) \in Printed
  BY RunnerOnPage
<1>2. a \in Athletes /\ n \in Names /\ Runner(e) = [athlete |-> a, name |-> n]
  BY <1>1 DEF Printed
<1>3. \A f \in Events, b \in Athletes :
          written'[f][b] = IF f = e /\ b = a THEN n ELSE written[f][b]
  BY <1>2 DEF Writes, TypeOK
<1>4. written' \in [Events -> [Athletes -> Names \cup {NoRow}]]
  BY <1>2 DEF Writes, TypeOK
<1>5. at' \in [Events -> Nat \ {0}] /\ writing[e] # Idle
  BY DEF Writes, TypeOK, AtRunner
<1>6. \A f \in Events : f # e => written'[f] = written[f]
  BY DEF Writes, TypeOK
<1>7. TypeOK'
  BY <1>4, <1>5, <1>6 DEF Writes, TypeOK
<1>8. KnownStays' /\ WaitersAtRunner'
  <2>1. KnownStays'
    BY DEF KnownStays, Writes
  <2>2. WaitersAtRunner'
    BY DEF Writes, TypeOK, WaitersAtRunner, AtRunner, Runner, IsNew, Differs
  <2> QED
    BY <2>1, <2>2
<1>9. PassedHaveRow'
  <2> SUFFICES ASSUME NEW f \in Events, writing[f] # Idle,
                      NEW i \in DOMAIN Pages[writing[f]], i < at'[f]
               PROVE  \/ athlete[Pages[writing[f]][i].athlete] # NoRow
                      \/ written'[f][Pages[writing[f]][i].athlete] # NoRow
    BY DEF PassedHaveRow, Writes
  <2>1. writing[f] \in Results
    BY DEF TypeOK
  <2>3. i \in Nat /\ Pages[writing[f]][i].athlete \in Athletes
    BY <2>1, LineIsPrinted
  <2>4. CASE f = e /\ i = at[e]
    BY <1>2, <1>3, <2>3, <2>4, NoRowAssumption DEF Runner
  <2>5. CASE ~(f = e /\ i = at[e])
    <3>1. i < at[f]
      <4>1. at[f] \in Nat /\ at'[f] = IF f = e THEN at[f] + 1 ELSE at[f]
        BY DEF Writes, TypeOK
      <4> QED
        BY <2>3, <2>5, <4>1
    <3> QED
      BY <1>2, <1>3, <2>3, <3>1, NoRowAssumption DEF PassedHaveRow
  <2> QED
    BY <2>4, <2>5
<1>10. WritesAreOfPage'
  BY <1>1, <1>2, <1>3, <1>5 DEF WritesAreOfPage, Writes
<1>11. RunnersAreAthletes' /\ NamesArePrinted'
  BY DEF RunnersAreAthletes, NamesArePrinted, Writes
<1> QED
  BY <1>7, <1>8, <1>9, <1>10, <1>11

LEMMA UnchangedStep ==
    ASSUME RowInv, NEW e \in Events, Unchanged(e)
    PROVE  RowInv'
<1> USE DEF RowInv
<1>1. TypeOK'
  BY DEF TypeOK, Unchanged
<1>2. KnownStays' /\ WritesAreOfPage' /\ WaitersAtRunner'
  <2>1. KnownStays' /\ WritesAreOfPage'
    BY DEF KnownStays, WritesAreOfPage, Unchanged
  <2>2. e \notin waiting
    BY DEF Unchanged, WaitersAtRunner
  <2>3. WaitersAtRunner'
    BY <2>2 DEF Unchanged, TypeOK, WaitersAtRunner, AtRunner, Runner, IsNew, Differs
  <2> QED
    BY <2>1, <2>3
<1>3. PassedHaveRow'
  <2> SUFFICES ASSUME NEW f \in Events, writing[f] # Idle,
                      NEW i \in DOMAIN Pages[writing[f]], i < at'[f]
               PROVE  \/ athlete[Pages[writing[f]][i].athlete] # NoRow
                      \/ written[f][Pages[writing[f]][i].athlete] # NoRow
    BY DEF PassedHaveRow, Unchanged
  <2>1. CASE f = e /\ i = at[e]
    <3>1. Runner(e) \in Printed
      BY RunnerOnPage DEF Unchanged
    <3>2. known[e][Runner(e).athlete] # NoRow
      BY DEF Unchanged, IsNew
    <3>3. athlete[Runner(e).athlete] # NoRow
      BY <2>1, <3>1, <3>2 DEF KnownStays, Printed
    <3> QED
      BY <2>1, <3>3 DEF Runner
  <2>2. CASE ~(f = e /\ i = at[e])
    <3>1. Pages[writing[f]] \in Seq(Printed)
      BY PagesAssumption DEF TypeOK
    <3>2. i < at[f]
      BY <2>2, <3>1 DEF Unchanged, TypeOK
    <3> QED
      BY <3>2 DEF PassedHaveRow
  <2> QED
    BY <2>1, <2>2
<1>4. RunnersAreAthletes' /\ NamesArePrinted'
  BY DEF RunnersAreAthletes, NamesArePrinted, Unchanged
<1> QED
  BY <1>1, <1>2, <1>3, <1>4

LEMMA RollbackStep ==
    ASSUME RowInv, NEW e \in Events, Rollback(e), errors' \in 0 .. MaxErrors
    PROVE  RowInv'
<1> USE DEF RowInv
<1>1. NoRows \in [Athletes -> Names \cup {NoRow}]
  BY DEF NoRows
<1>2. \A f \in Events : /\ writing'[f] = IF f = e THEN Idle ELSE writing[f]
                        /\ written'[f] = IF f = e THEN NoRows ELSE written[f]
  BY DEF Rollback, TypeOK
<1>3. TypeOK'
  BY <1>1, <1>2 DEF TypeOK, Rollback
<1>4. KnownStays' /\ PassedHaveRow' /\ WaitersAtRunner'
  <2>1. KnownStays' /\ PassedHaveRow'
    BY <1>2 DEF KnownStays, PassedHaveRow, Rollback
  <2>2. WaitersAtRunner'
    BY <1>2 DEF Rollback, TypeOK, WaitersAtRunner, AtRunner, Runner, IsNew, Differs
  <2> QED
    BY <2>1, <2>2
<1>5. WritesAreOfPage'
  BY <1>2 DEF WritesAreOfPage, Rollback, NoRows
<1>6. RunnersAreAthletes' /\ NamesArePrinted'
  BY DEF RunnersAreAthletes, NamesArePrinted, Rollback
<1> QED
  BY <1>3, <1>4, <1>5, <1>6

LEMMA CommitStep ==
    ASSUME RowInv, NEW e \in Events, Commit(e)
    PROVE  RowInv'
<1> USE DEF RowInv
<1> DEFINE r == writing[e]
<1>1. r \in Results /\ r # Idle /\ at[e] > Len(Pages[r]) /\ Pages[r] \in Seq(Printed)
  <2>1. r \in Results /\ r # Idle
    BY DEF Commit, TypeOK
  <2>2. Pages[r] \in Seq(Printed)
    BY <2>1, PagesAssumption
  <2>3. at[e] \in Nat /\ Len(Pages[r]) \in Nat /\ ~(at[e] <= Len(Pages[r]))
    BY <2>1, <2>2 DEF Commit, AtRunner, TypeOK
  <2> QED
    BY <2>1, <2>2, <2>3
<1>2. \A f \in Events : /\ writing'[f] = IF f = e THEN Idle ELSE writing[f]
                        /\ written'[f] = IF f = e THEN NoRows ELSE written[f]
  BY DEF Commit, TypeOK
<1>3. \A a \in Athletes :
          athlete'[a] = IF written[e][a] # NoRow THEN written[e][a] ELSE athlete[a]
  BY DEF Commit
<1>4. \A a \in Athletes : athlete[a] # NoRow \/ written[e][a] # NoRow => athlete'[a] # NoRow
  BY <1>3
<1>5. NoRows \in [Athletes -> Names \cup {NoRow}]
  BY DEF NoRows
<1>6. TypeOK'
  <2>1. athlete' \in [Athletes -> Names \cup {NoRow}]
    BY DEF TypeOK, Commit
  <2>2. e \notin waiting /\ waiting' = waiting
    BY DEF Commit, WaitersAtRunner
  <2> QED
    BY <1>1, <1>2, <1>5, <2>1, <2>2 DEF TypeOK, Commit
<1>7. KnownStays' /\ WaitersAtRunner'
  <2>1. KnownStays'
    BY <1>2, <1>4 DEF KnownStays, Commit
  <2>2. e \notin waiting
    BY DEF Commit, WaitersAtRunner
  <2>3. WaitersAtRunner'
    BY <1>2, <2>2 DEF Commit, TypeOK, WaitersAtRunner, AtRunner, Runner, IsNew, Differs
  <2> QED
    BY <2>1, <2>3
<1>8. PassedHaveRow'
  <2> SUFFICES ASSUME NEW f \in Events, writing'[f] # Idle,
                      NEW i \in DOMAIN Pages[writing'[f]], i < at[f]
               PROVE  \/ athlete'[Pages[writing'[f]][i].athlete] # NoRow
                      \/ written'[f][Pages[writing'[f]][i].athlete] # NoRow
    BY DEF PassedHaveRow, Commit
  <2>1. f # e /\ writing'[f] = writing[f] /\ written'[f] = written[f]
    BY <1>2
  <2>2. writing[f] \in Results
    BY <2>1 DEF TypeOK
  <2>3. Pages[writing[f]][i].athlete \in Athletes
    BY <2>1, <2>2, LineIsPrinted
  <2> QED
    BY <1>4, <2>1, <2>3 DEF PassedHaveRow
<1>9. WritesAreOfPage'
  BY <1>2 DEF WritesAreOfPage, NoRows
<1>10. RunnersAreAthletes'
  <2> SUFFICES ASSUME NEW s \in stored \cup {r}, NEW a \in Runners(s)
               PROVE  athlete'[a] # NoRow
    BY DEF RunnersAreAthletes, Commit
  <2>1. s \in Results
    BY <1>1 DEF TypeOK
  <2>2. PICK i \in DOMAIN Pages[s] : a = Pages[s][i].athlete
    BY DEF Runners, Lines
  <2>4. a \in Athletes
    BY <2>1, <2>2, LineIsPrinted
  <2>5. CASE s = r
    <3>1. i < at[e]
      BY <1>1, <2>2, <2>5 DEF TypeOK
    <3> QED
      BY <1>1, <1>4, <2>2, <2>4, <2>5, <3>1 DEF PassedHaveRow
  <2>6. CASE s \in stored
    BY <1>4, <2>4, <2>6 DEF RunnersAreAthletes
  <2> QED
    BY <2>5, <2>6
<1>11. NamesArePrinted'
  <2> SUFFICES ASSUME NEW a \in Athletes, athlete'[a] # NoRow
               PROVE  \E s \in stored' : [athlete |-> a, name |-> athlete'[a]] \in Lines(s)
    BY DEF NamesArePrinted
  <2>1. stored' = stored \cup {r}
    BY DEF Commit
  <2>2. CASE written[e][a] # NoRow
    BY <1>3, <2>1, <2>2 DEF WritesAreOfPage
  <2>3. CASE written[e][a] = NoRow
    BY <1>3, <2>1, <2>3 DEF NamesArePrinted
  <2> QED
    BY <2>2, <2>3
<1> QED
  BY <1>6, <1>7, <1>8, <1>9, <1>10, <1>11

LEMMA RowNext == RowInv /\ [Next]_rowVars => RowInv'
<1> SUFFICES ASSUME RowInv, [Next]_rowVars PROVE RowInv'
  OBVIOUS
<1>1. errors \in 0 .. MaxErrors
  BY DEF RowInv, TypeOK
<1>2. ASSUME NEW e \in Events, Step(e) \/ Fail(e)
      PROVE  RowInv'
  <2>1. CASE \E r \in Results : Begin(e, r)
    BY <2>1, BeginStep
  <2>2. CASE Wait(e)
    <3>1. TypeOK'
      BY <2>2 DEF RowInv, TypeOK, Wait, AtRunner
    <3>2. WaitersAtRunner'
      BY <2>2 DEF RowInv, TypeOK, Wait, WaitersAtRunner, AtRunner, Runner, IsNew, Differs
    <3> QED
      BY <2>2, <3>1, <3>2 DEF RowInv, KnownStays, PassedHaveRow, WritesAreOfPage,
                              RunnersAreAthletes, NamesArePrinted, Wait
  <2>3. CASE Insert(e) \/ Update(e)
    BY <2>3, WritesStep DEF Insert, Update
  <2>4. CASE Unchanged(e)
    BY <2>4, UnchangedStep
  <2>5. CASE DuplicateKey(e) \/ Deadlock(e)
    BY <1>1, <2>5, RollbackStep DEF DuplicateKey, Deadlock
  <2>6. CASE Fail(e)
    BY <1>1, <2>6, RollbackStep, ErrorsAssumption DEF Fail
  <2>7. CASE Commit(e)
    BY <2>7, CommitStep
  <2> QED
    BY <1>2, <2>1, <2>2, <2>3, <2>4, <2>5, <2>6, <2>7 DEF Step
<1>3. CASE UNCHANGED rowVars
  BY <1>3 DEF rowVars, RowInv, TypeOK, WaitersAtRunner, AtRunner, Runner, IsNew, Differs,
              KnownStays, PassedHaveRow, WritesAreOfPage, RunnersAreAthletes, NamesArePrinted
<1> QED
  BY <1>2, <1>3 DEF Next

LEMMA RowInvariant == Spec => []RowInv
  BY RowInit, RowNext, PTL DEF Spec

(* Every variable stays in its type, for any number of harvests.           *)
THEOREM RowsTypeCorrect == Spec => []TypeOK
<1>1. RowInv => TypeOK
  BY DEF RowInv
<1> QED
  BY <1>1, RowInvariant, PTL

(* Whichever harvest met a runner first, and whichever failed, a stored    *)
(* result's runners have their rows.                                       *)
THEOREM StoredRunnersHaveRows == Spec => []RunnersAreAthletes
<1>1. RowInv => RunnersAreAthletes
  BY DEF RowInv
<1> QED
  BY <1>1, RowInvariant, PTL

(* No name comes from a transaction that was rolled back.                  *)
THEOREM NamesAreOfStored == Spec => []NamesArePrinted
<1>1. RowInv => NamesArePrinted
  BY DEF RowInv
<1> QED
  BY <1>1, RowInvariant, PTL
=============================================================================
