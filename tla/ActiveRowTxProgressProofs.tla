---------------------- MODULE ActiveRowTxProgressProofs ----------------------
(***************************************************************************)
(* Proofs about who waits in ActiveRowTx, for any finite number of         *)
(* requests, any keys, either table, any pool size and any number of       *)
(* faults: the calls never all wait, and no step moves a call back.        *)
(* Together they are what EveryCallReturns needs besides the fairness that *)
(* a ready call's statement is executed.                                   *)
(***************************************************************************)
EXTENDS ActiveRowTxProofs, WellFoundedInduction

(* Only a transaction past its UPDATE's start holds locks.                  *)
LocksInTx == \A r \in Request : locked[r] # {} => pc[r] \in InTx

(* The inductive invariant.                                                 *)
WaitInv == IInv /\ WinInv /\ LocksInTx

LEMMA InitWait == Init => WaitInv
  BY InitInvariant, InitWin DEF Init, WaitInv, LocksInTx

LEMMA NextWait ==
    ASSUME WaitInv, [Next]_vars
    PROVE  WaitInv'
<1>1. IInv /\ WinInv /\ LocksInTx /\ TypeOK
  BY DEF WaitInv, IInv
<1>2. IInv'
  BY <1>1, NextInvariant
<1>3. WinInv'
  BY <1>1, NextWin
<1>4. ASSUME NEW r \in Request, NEW answer \in Done, Finish(r, answer)
      PROVE  LocksInTx'
  BY <1>1, <1>4 DEF Finish, LocksInTx, TypeOK
<1>5. ASSUME NEW r \in Request,
             BeginTx(r) \/ StartUpdate(r) \/ InsertUnique(r) \/ InsertExclude(r) \/ CheckExclude(r)
      PROVE  LocksInTx'
  <2>1. locked' = locked /\ pc'[r] \in InTx /\ \A s \in Request \ {r} : pc'[s] = pc[s]
    BY <1>1, <1>5 DEF BeginTx, StartUpdate, InsertUnique, InsertExclude, CheckExclude, TypeOK, InTx
  <2> QED
    BY <1>1, <2>1 DEF LocksInTx
<1>6. ASSUME NEW r \in Request, NEW i \in DOMAIN rows, VisitRow(r, i)
      PROVE  LocksInTx'
  <2>1. pc' = pc /\ pc[r] \in InTx /\ \A s \in Request \ {r} : locked'[s] = locked[s]
    BY <1>1, <1>6 DEF VisitRow, TypeOK, InTx
  <2> QED
    BY <1>1, <2>1 DEF LocksInTx
<1>7. ASSUME NEW r \in Request,
             Commit(r) \/ CommitUnacked(r) \/ Refused(r) \/ DeadlockAbort(r) \/ Fail(r)
      PROVE  LocksInTx'
  BY <1>4, <1>7 DEF Commit, CommitUnacked, Refused, DeadlockAbort, Fail, RolledBack, Done
<1>8. ASSUME UNCHANGED vars
      PROVE  LocksInTx'
  BY <1>1, <1>8 DEF LocksInTx, vars
<1>9. LocksInTx'
  BY <1>5, <1>6, <1>7, <1>8 DEF Next, Step, Terminated
<1> QED
  BY <1>2, <1>3, <1>9 DEF WaitInv

(* Who waits, waits for open transactions.                                  *)
LEMMA WaitsForInTx ==
    ASSUME WaitInv, NEW r \in Request
    PROVE  WaitsFor(r) \subseteq {s \in Request : pc[s] \in InTx}
<1>1. LocksInTx
  BY DEF WaitInv
<1>2. CASE pc[r] = "updating" /\ todo[r] # <<>>
  <2>1. WaitsFor(r) = {s \in Request \ {r} : Head(todo[r]) \in locked[s]}
    BY <1>2 DEF WaitsFor, Inserting
  <2> QED
    BY <1>1, <2>1 DEF LocksInTx
<1>3. CASE Inserting(r) \/ pc[r] = "checking"
  <2>1. WaitsFor(r) = Rivals(r) \cup {s \in Request \ {r} : locked[s] \cap Conflicts(r) # {}}
    BY <1>3 DEF WaitsFor, Inserting
  <2> QED
    BY <1>1, <2>1 DEF LocksInTx, Rivals, InTx
<1> QED
  BY <1>2, <1>3 DEF WaitsFor

(* An open transaction that waits for none is ready.                        *)
LEMMA FreeIsReady ==
    ASSUME WaitInv, NEW r \in Request, pc[r] \in InTx, WaitsFor(r) = {}
    PROVE  Ready(r)
<1>1. CASE pc[r] \in {"update", "commit"}
  BY <1>1 DEF Ready
<1>2. CASE pc[r] = "updating" /\ todo[r] # <<>>
  <2>1. WaitsFor(r) = {s \in Request \ {r} : Head(todo[r]) \in locked[s]}
    BY <1>2 DEF WaitsFor, Inserting
  <2>2. ~LockedByOther(r, Head(todo[r]))
    BY <2>1 DEF LockedByOther
  <2> QED
    BY <1>2, <2>2 DEF Ready
<1>3. CASE Inserting(r) \/ pc[r] = "checking"
  <2>1. WaitsFor(r) = Rivals(r) \cup {s \in Request \ {r} : locked[s] \cap Conflicts(r) # {}}
    BY <1>3 DEF WaitsFor, Inserting
  <2>2. Rivals(r) = {} /\ \A s \in Request \ {r} : locked[s] \cap Conflicts(r) = {}
    BY <2>1
  <2>3. \A i \in Conflicts(r) : ~LockedByOther(r, i)
    BY <2>2 DEF LockedByOther
  <2>4. Conflicts(r) = {} \/ Violation(r)
    BY <2>3 DEF Violation
  <2> QED
    BY <1>3, <2>2, <2>4 DEF Ready, TxConn
<1> QED
  BY <1>1, <1>2, <1>3 DEF InTx, Inserting

(* A non-empty family of subsets of a finite set has a minimal member.      *)
LEMMA MinimalSet ==
    ASSUME NEW S, IsFiniteSet(S), NEW F, F \subseteq SUBSET S, F # {}
    PROVE  \E A \in F : \A B \in F : B \subseteq A => B = A
<1> DEFINE R == StrictSubsetOrdering(S)
<1>1. IsWellFoundedOn(R, SUBSET S)
  BY FS_StrictSubsetOrderingWellFounded, FS_FiniteSubsetsOfFinite
<1>2. \A A, B \in SUBSET S : B \subseteq A /\ B # A => <<B, A>> \in R
  BY DEF StrictSubsetOrdering
<1> HIDE DEF R
<1>3. PICK A \in F : \A B \in F : ~(<<B, A>> \in R)
  BY <1>1, WFMin
<1>4. \A B \in F : B \subseteq A => B = A
  BY <1>2, <1>3
<1> QED
  BY <1>4

(* If open transactions wait for none but open ones, and each of them waits,*)
(* then one of them waits for itself.                                       *)
LEMMA SomeoneDeadlocked ==
    ASSUME NEW Open, Open \subseteq Request, Open # {},
           \A r \in Request : WaitsFor(r) \subseteq Open,
           \A r \in Open : WaitsFor(r) # {}
    PROVE  \E r \in Open : Deadlocked(r)
<1> SUFFICES ASSUME \A r \in Open : ~Deadlocked(r)
             PROVE  FALSE
  OBVIOUS
<1> DEFINE Closed(S) == \A s \in S : WaitsFor(s) \subseteq S
           F == {S \in SUBSET Request : Closed(S) /\ S \cap Open # {}}
<1>1. Request \in F /\ F \subseteq SUBSET Request
  OBVIOUS
<1>2. PICK A \in F : \A B \in F : B \subseteq A => B = A
  <2> HIDE DEF F
  <2> QED
    BY <1>1, RequestAssumption, MinimalSet
<1>3. PICK r \in Open : r \in A
  BY <1>2
<1>4. PICK S \in SUBSET Request : WaitsFor(r) \subseteq S /\ Closed(S) /\ r \notin S
  BY <1>3 DEF Deadlocked
<1>5. Closed(A \cap S)
  BY <1>2, <1>4
<1>6. WaitsFor(r) \subseteq A \cap S
  BY <1>2, <1>3, <1>4
<1>7. (A \cap S) \cap Open # {}
  BY <1>3, <1>6
<1>8. A \cap S \in F
  BY <1>2, <1>5, <1>7
<1>9. A \cap S = A
  <2> HIDE DEF F
  <2> QED
    BY <1>2, <1>8
<1> QED
  BY <1>3, <1>4, <1>9

(* The calls of RegisterCredentialsForBuilder (or AddBuilderConfig) never   *)
(* all wait: while one has not returned, the next statement of one can be   *)
(* executed, or ends its transaction, without a fault.                      *)
THEOREM CallsNeverAllWait == Spec => []NoneStuck
<1>1. WaitInv => NoneStuck
  <2> SUFFICES ASSUME WaitInv, \A r \in Request : ~Ready(r),
                      NEW q \in Request, pc[q] \notin Done
               PROVE  FALSE
    BY DEF NoneStuck
  <2> DEFINE Open == {r \in Request : pc[r] \in InTx}
  <2>1. TypeOK
    BY DEF WaitInv, IInv
  <2>2. Open # {}
    <3>1. CASE pc[q] \in InTx
      BY <3>1
    <3>2. CASE pc[q] = "begin"
      <4>1. ~FreeConn
        BY <3>2 DEF Ready
      <4> SUFFICES ASSUME Open = {}
                   PROVE  FALSE
        OBVIOUS
      <4>2. Cardinality(Open) = 0
        BY FS_EmptySet
      <4> QED
        BY <4>1, <4>2, PoolAssumption DEF FreeConn
    <3> QED
      BY <2>1, <3>1, <3>2 DEF TypeOK
  <2>3. \A r \in Request : WaitsFor(r) \subseteq Open
    BY WaitsForInTx
  <2>4. \A r \in Open : WaitsFor(r) # {}
    BY FreeIsReady
  <2> HIDE DEF Open
  <2>5. Open \subseteq Request
    BY DEF Open
  <2>6. PICK r \in Open : Deadlocked(r)
    BY <2>2, <2>3, <2>4, <2>5, SomeoneDeadlocked
  <2> QED
    BY <2>5, <2>6 DEF Ready
<1> QED
  BY <1>1, InitWait, NextWait, PTL DEF Spec
-----------------------------------------------------------------------------
(* How far a call is: its next statement, then the rows left to its UPDATE. *)
Stage == [begin |-> 0, update |-> 1, updating |-> 2, checking |-> 3, commit |-> 4,
          ok |-> 5, err |-> 5]

Advances(r) ==
    \/ Stage[pc[r]] < Stage[pc'[r]]
    \/ pc'[r] = pc[r] /\ Len(todo'[r]) < Len(todo[r])

AdvancesAlone(r) ==
    Advances(r) /\ \A s \in Request \ {r} : pc'[s] = pc[s] /\ todo'[s] = todo[s]

LEMMA FinishAdvances ==
    ASSUME TypeOK, NEW r \in Request, NEW answer \in Done, Finish(r, answer), pc[r] \notin Done
    PROVE  AdvancesAlone(r)
<1>1. pc'[r] = answer /\ \A s \in Request \ {r} : pc'[s] = pc[s] /\ todo'[s] = todo[s]
  BY DEF Finish, TypeOK
<1>2. pc[r] \in {"begin", "update", "updating", "checking", "commit"}
  BY DEF TypeOK, InTx, Done
<1>3. Stage[pc[r]] < Stage[answer]
  BY <1>2 DEF Stage, Done
<1> QED
  BY <1>1, <1>3 DEF AdvancesAlone, Advances

LEMMA StatementAdvances ==
    ASSUME TypeOK, NEW r \in Request,
           BeginTx(r) \/ StartUpdate(r) \/ InsertUnique(r) \/ InsertExclude(r) \/ CheckExclude(r)
    PROVE  AdvancesAlone(r)
<1>1. \A s \in Request \ {r} : pc'[s] = pc[s] /\ todo'[s] = todo[s]
  BY DEF BeginTx, StartUpdate, InsertUnique, InsertExclude, CheckExclude, TypeOK
<1>2. <<pc[r], pc'[r]>> \in {<<"begin", "update">>, <<"update", "updating">>,
          <<"updating", "commit">>, <<"updating", "checking">>, <<"checking", "commit">>}
  BY DEF BeginTx, StartUpdate, InsertUnique, InsertExclude, CheckExclude, Inserting, TypeOK
<1>3. Stage[pc[r]] < Stage[pc'[r]]
  BY <1>2 DEF Stage
<1> QED
  BY <1>1, <1>3 DEF AdvancesAlone, Advances

(* Every step of a call of RegisterCredentialsForBuilder (or                *)
(* AddBuilderConfig), failed statements and lost answers included, brings   *)
(* that call nearer to its return, by a statement or by a row of its        *)
(* UPDATE, and leaves the other calls where they are: nothing is retried    *)
(* and no call sends another one back.                                      *)
THEOREM CallsOnlyAdvance == Spec => [][\E r \in Request : AdvancesAlone(r)]_vars
<1>1. ASSUME TypeOK, Next
      PROVE  (\E r \in Request : AdvancesAlone(r)) \/ UNCHANGED vars
  <2>1. ASSUME NEW r \in Request, NEW i \in DOMAIN rows, VisitRow(r, i)
        PROVE  AdvancesAlone(r)
    <3>1. pc' = pc /\ todo'[r] = Tail(todo[r]) /\ \A s \in Request \ {r} : todo'[s] = todo[s]
      BY <1>1, <2>1 DEF VisitRow, TypeOK
    <3>2. todo[r] \in Seq(Nat) /\ todo[r] # <<>>
      BY <1>1, <2>1 DEF VisitRow, TypeOK
    <3>3. Len(Tail(todo[r])) < Len(todo[r])
      BY <3>2
    <3> QED
      BY <3>1, <3>3 DEF AdvancesAlone, Advances
  <2>2. ASSUME NEW r \in Request, Commit(r) \/ CommitUnacked(r) \/ Refused(r) \/ DeadlockAbort(r) \/ Fail(r)
        PROVE  AdvancesAlone(r)
    <3>1. DeadlockAbort(r) => WaitsFor(r) # {}
      BY DeadlockedWaits DEF DeadlockAbort
    <3>2. pc[r] \notin Done
      BY <2>2, <3>1 DEF Commit, CommitUnacked, Refused, WaitsFor, Inserting, Fail, Done
    <3>3. \E answer \in Done : Finish(r, answer)
      BY <2>2 DEF Commit, CommitUnacked, Refused, DeadlockAbort, Fail, RolledBack, Done
    <3> QED
      BY <1>1, <3>2, <3>3, FinishAdvances
  <2> QED
    BY <1>1, <2>1, <2>2, StatementAdvances DEF Next, Step, Terminated
<1>2. WaitInv => TypeOK
  BY DEF WaitInv, IInv
<1> QED
  BY <1>1, <1>2, InitWait, NextWait, PTL DEF Spec
=============================================================================
