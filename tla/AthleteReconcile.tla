-------------------------- MODULE AthleteReconcile --------------------------
(***************************************************************************)
(* The transaction that stores a result, from the side of the ATHLETE      *)
(* table: result and items are inserted, then AthleteDataModel::reconcile  *)
(* inserts the runners that are new and updates those whose name differs.  *)
(* Harvests of different events run it side by side: the row locks and the *)
(* primary key of ATHLETE are all there is between them.                   *)
(***************************************************************************)
EXTENDS Integers, FiniteSets, Sequences

CONSTANTS
    Events,       \* each harvested by one thread at a time
    Athletes,     \* athlete numbers
    Names,        \* what getNames makes of the names on the pages
    NoRow,        \* not in ATHLETE, or not written by a transaction
    Results,      \* <<event, number>>
    Pages,        \* each result's page: its known runners, in their order
    MaxErrors     \* bound: statements that fail

Printed == [athlete : Athletes, name : Names]

Idle == <<>>    \* no result

ASSUME NoRowAssumption   == NoRow \notin Names
ASSUME ResultsAssumption == Results \subseteq Events \X Nat /\ Idle \notin Results
ASSUME PagesAssumption   == Pages \in [Results -> Seq(Printed)]
ASSUME ErrorsAssumption  == MaxErrors \in Nat

EventOf(r) == r[1]
Lines(r)   == {Pages[r][i] : i \in DOMAIN Pages[r]}
Runners(r) == {line.athlete : line \in Lines(r)}

VARIABLES
    athlete,      \* ATHLETE as committed: the name by number
    stored,       \* results committed with their items
    writing,      \* the result whose transaction an event's harvest is in
    known,        \* existingDBathletesMap
    written,      \* the rows of ATHLETE the transaction has written
    at,           \* the runner reconcile is at
    waiting,      \* the events whose statement waits for a row lock
    errors        \* of MaxErrors

rowVars == <<athlete, stored, writing, known, written, at, waiting, errors>>

NoRows == [a \in Athletes |-> NoRow]

Init ==
    /\ athlete = NoRows
    /\ stored = {}
    /\ writing = [e \in Events |-> Idle]
    /\ known = [e \in Events |-> NoRows]
    /\ written = [e \in Events |-> NoRows]
    /\ at = [e \in Events |-> 1]
    /\ waiting = {}
    /\ errors = 0

-----------------------------------------------------------------------------
(* The transaction begins, inserts the result and its items, and reads     *)
(* ATHLETE as it was committed at its first read, that of the result.      *)
Begin(e, r) ==
    /\ writing[e] = Idle
    /\ EventOf(r) = e /\ r \notin stored
    /\ writing' = [writing EXCEPT ![e] = r]
    /\ known' = [known EXCEPT ![e] = athlete]
    /\ at' = [at EXCEPT ![e] = 1]
    /\ UNCHANGED <<athlete, stored, written, waiting, errors>>

AtRunner(e) == writing[e] # Idle /\ at[e] <= Len(Pages[writing[e]])
Runner(e)   == Pages[writing[e]][at[e]]

IsNew(e)   == known[e][Runner(e).athlete] = NoRow
Differs(e) == ~IsNew(e) /\ known[e][Runner(e).athlete] # Runner(e).name

(* Another transaction's uncommitted write of the runner's row.            *)
LockedBy(e) == {f \in Events \ {e} : written[f][Runner(e).athlete] # NoRow}

Wait(e) ==
    /\ AtRunner(e) /\ (IsNew(e) \/ Differs(e))
    /\ e \notin waiting /\ LockedBy(e) # {}
    /\ waiting' = waiting \cup {e}
    /\ UNCHANGED <<athlete, stored, writing, known, written, at, errors>>

(* A lock that is given back goes to who waits for it.                     *)
HasLock(e) ==
    /\ LockedBy(e) = {}
    /\ \/ e \in waiting
       \/ \A f \in waiting : Runner(f).athlete # Runner(e).athlete

Writes(e) ==
    /\ HasLock(e)
    /\ written' = [written EXCEPT ![e][Runner(e).athlete] = Runner(e).name]
    /\ at' = [at EXCEPT ![e] = @ + 1]
    /\ waiting' = waiting \ {e}
    /\ UNCHANGED <<athlete, stored, writing, known, errors>>

(* The row is in the table, since the transaction's first read or by the   *)
(* transaction itself.                                                     *)
HasKey(e, a) == athlete[a] # NoRow \/ written[e][a] # NoRow

Insert(e) ==
    /\ AtRunner(e) /\ IsNew(e)
    /\ ~HasKey(e, Runner(e).athlete)
    /\ Writes(e)

(* Mutant: the update is left to another transaction.                      *)
UpdateUnlocked(e) ==
    /\ AtRunner(e) /\ Differs(e)
    /\ athlete' = [athlete EXCEPT ![Runner(e).athlete] = Runner(e).name]
    /\ at' = [at EXCEPT ![e] = @ + 1]
    /\ UNCHANGED <<stored, writing, known, written, waiting, errors>>

Update(e) ==
    /\ AtRunner(e) /\ Differs(e)
    /\ Writes(e)

Unchanged(e) ==
    /\ AtRunner(e) /\ ~IsNew(e) /\ ~Differs(e)
    /\ at' = [at EXCEPT ![e] = @ + 1]
    /\ UNCHANGED <<athlete, stored, writing, known, written, waiting, errors>>

(* Mutant: a rolled back transaction keeps its locks.                      *)
RollbackKeepsLocks(e) ==
    /\ writing' = [writing EXCEPT ![e] = Idle]
    /\ waiting' = waiting \ {e}
    /\ UNCHANGED <<athlete, stored, known, written, at>>

(* An exception: the transaction is rolled back, the harvest given up.     *)
Rollback(e) ==
    /\ writing' = [writing EXCEPT ![e] = Idle]
    /\ written' = [written EXCEPT ![e] = NoRows]
    /\ waiting' = waiting \ {e}
    /\ UNCHANGED <<athlete, stored, known, at>>

DuplicateKey(e) ==
    /\ AtRunner(e) /\ IsNew(e)
    /\ HasLock(e)
    /\ HasKey(e, Runner(e).athlete)
    /\ Rollback(e)
    /\ UNCHANGED errors

(* The database gives up one transaction of a circle.                      *)
Deadlock(e) ==
    /\ \E S \in SUBSET waiting : e \in S /\ \A f \in S : LockedBy(f) \cap S # {}
    /\ Rollback(e)
    /\ UNCHANGED errors

(* Any statement, or a wait for a lock that takes too long.                *)
Fail(e) ==
    /\ writing[e] # Idle
    /\ errors < MaxErrors
    /\ errors' = errors + 1
    /\ Rollback(e)

(* Mutant: the transaction ends before the athletes are reconciled.        *)
CommitEarly(e) ==
    /\ writing[e] # Idle /\ writing[e] \notin stored
    /\ stored' = stored \cup {writing[e]}
    /\ UNCHANGED <<athlete, known, at, waiting, errors, writing, written>>

Commit(e) ==
    /\ writing[e] # Idle /\ ~AtRunner(e)
    /\ athlete' = [a \in Athletes |->
                      IF written[e][a] # NoRow THEN written[e][a] ELSE athlete[a]]
    /\ stored' = stored \cup {writing[e]}
    /\ writing' = [writing EXCEPT ![e] = Idle]
    /\ written' = [written EXCEPT ![e] = NoRows]
    /\ UNCHANGED <<known, at, waiting, errors>>

Step(e) ==
    \/ \E r \in Results : Begin(e, r)
    \/ Wait(e)
    \/ Insert(e)
    \/ Update(e)
    \/ Unchanged(e)
    \/ DuplicateKey(e)
    \/ Deadlock(e)
    \/ Commit(e)

Next == \E e \in Events : Step(e) \/ Fail(e)

Spec == Init /\ [][Next]_rowVars

(* A harvest whose transaction failed is begun again by the timer.         *)
Fairness == \A e \in Events : WF_rowVars(Step(e))

FairSpec == Spec /\ Fairness

-----------------------------------------------------------------------------
(* Properties.                                                             *)

(* Every variable stays in its type; rows are written, and waited for, in  *)
(* a transaction only.                                                     *)
TypeOK ==
    /\ athlete \in [Athletes -> Names \cup {NoRow}]
    /\ stored \subseteq Results
    /\ writing \in [Events -> Results \cup {Idle}]
    /\ \A e \in Events : writing[e] # Idle => EventOf(writing[e]) = e
    /\ known \in [Events -> [Athletes -> Names \cup {NoRow}]]
    /\ written \in [Events -> [Athletes -> Names \cup {NoRow}]]
    /\ \A e \in Events : writing[e] = Idle => written[e] = NoRows
    /\ at \in [Events -> Nat \ {0}]
    /\ waiting \subseteq {e \in Events : writing[e] # Idle}
    /\ errors \in 0 .. MaxErrors

(* Every runner of a stored result has a row in ATHLETE, whichever of the  *)
(* harvests that met the runner inserted it or failed to.                  *)
RunnersAreAthletes ==
    \A r \in stored : \A a \in Runners(r) : athlete[a] # NoRow

(* A name in ATHLETE is one that a stored page gives the athlete: nothing  *)
(* stays of a transaction that was rolled back.                            *)
NamesArePrinted ==
    \A a \in Athletes : athlete[a] # NoRow =>
        \E r \in stored : [athlete |-> a, name |-> athlete[a]] \in Lines(r)

(* Deadlocks, duplicate keys and failures notwithstanding, every result is *)
(* stored in the end.                                                      *)
ResultsGetStored == \A r \in Results : <>(r \in stored)

=============================================================================
