-------------------------- MODULE ActiveRowTxProofs --------------------------
(***************************************************************************)
(* Proofs about ActiveRowTx, for any number of requests and keys, either   *)
(* table, any pool size and any number of faults.                          *)
(***************************************************************************)
EXTENDS ActiveRowTx, FiniteSetTheorems, TLAPS

(* A transaction deactivates rows of its own key only.                      *)
LocksOwnKey == \A r \in Request : \A i \in locked[r] : rows[i].key = key[r]

(* Past its INSERT, a transaction has every active row of its key among the *)
(* rows it deactivates, and is the only one past its INSERT for that key.   *)
CommitReady ==
    \A r \in Request : pc[r] = "commit" =>
        /\ Conflicts(r) = {}
        /\ \A s \in Request : pc[s] = "commit" /\ key[s] = key[r] => s = r

(* The inductive invariant.                                                 *)
IInv == TypeOK /\ LatestIsActive /\ LocksOwnKey /\ CommitReady

(* What the rows are after a commit, index by index.                        *)
LEMMA CommittedRowsFacts ==
    ASSUME TypeOK, NEW r \in Request
    PROVE  /\ CommittedRows(r) \in Seq(Row)
           /\ Len(CommittedRows(r)) = Len(rows) + 1
           /\ \A i \in 1..Len(rows) :
                /\ CommittedRows(r)[i].key = rows[i].key
                /\ CommittedRows(r)[i].owner = rows[i].owner
                /\ CommittedRows(r)[i].isActive <=> rows[i].isActive /\ i \notin locked[r]
           /\ CommittedRows(r)[Len(rows) + 1] = [key |-> key[r], owner |-> r, isActive |-> TRUE]
<1> DEFINE old == [i \in DOMAIN rows |-> [rows[i] EXCEPT !.isActive = @ /\ i \notin locked[r]]]
           new == [key |-> key[r], owner |-> r, isActive |-> TRUE]
<1>1. rows \in Seq(Row) /\ key[r] \in Key
  BY DEF TypeOK
<1>2. DOMAIN rows = 1..Len(rows) /\ Len(rows) \in Nat
  BY <1>1
<1>3. \A i \in 1..Len(rows) : rows[i] \in Row
  BY <1>1
<1>4. ASSUME NEW i \in 1..Len(rows)
      PROVE  /\ old[i] \in Row
             /\ old[i].key = rows[i].key
             /\ old[i].owner = rows[i].owner
             /\ old[i].isActive <=> rows[i].isActive /\ i \notin locked[r]
  <2> DEFINE b == rows[i].isActive /\ i \notin locked[r]
  <2>1. rows[i] \in Row /\ b \in BOOLEAN
    BY <1>3 DEF Row
  <2>2. old[i] = [rows[i] EXCEPT !.isActive = b]
    BY <1>2
  <2> HIDE DEF b
  <2>3. old[i] \in Row /\ old[i].key = rows[i].key /\ old[i].owner = rows[i].owner
    BY <2>1, <2>2 DEF Row
  <2>4. old[i].isActive = b
    BY <2>1, <2>2 DEF Row
  <2> QED
    BY <2>3, <2>4 DEF b
<1>5. old \in [1..Len(rows) -> Row]
  BY <1>2, <1>4
<1>6. old \in Seq(Row) /\ Len(old) = Len(rows)
  BY <1>2, <1>5
<1>7. new \in Row
  BY <1>1 DEF Row
<1>8. CommittedRows(r) = Append(old, new)
  BY DEF CommittedRows
<1> HIDE DEF old, new
<1>9. /\ Append(old, new) \in Seq(Row)
      /\ Len(Append(old, new)) = Len(rows) + 1
      /\ \A i \in 1..Len(rows) : Append(old, new)[i] = old[i]
      /\ Append(old, new)[Len(rows) + 1] = new
  BY <1>6, <1>7
<1>10. ASSUME NEW i \in 1..Len(rows)
       PROVE  /\ CommittedRows(r)[i].key = rows[i].key
              /\ CommittedRows(r)[i].owner = rows[i].owner
              /\ CommittedRows(r)[i].isActive <=> rows[i].isActive /\ i \notin locked[r]
  <2>1. CommittedRows(r)[i] = old[i]
    BY <1>8, <1>9
  <2> QED
    BY <2>1, <1>4
<1> QED
  BY <1>8, <1>9, <1>10 DEF new

-----------------------------------------------------------------------------
LEMMA InitInvariant == Init => IInv
  BY FaultsAssumption DEF Init, IInv, TypeOK, LatestIsActive, LocksOwnKey, CommitReady,
     InTx, Done, Row

(* A step that neither commits nor reaches "commit", and whose locks grow   *)
(* by rows of the requester's key at most, keeps the invariant.             *)
LEMMA QuietStep ==
    ASSUME IInv, TypeOK', UNCHANGED <<rows, key>>,
           \A s \in Request : pc'[s] = "commit" => pc[s] = "commit" /\ locked'[s] = locked[s],
           \A s \in Request : \A i \in locked'[s] : rows[i].key = key[s]
    PROVE  IInv'
<1>1. LatestIsActive' /\ LocksOwnKey'
  BY DEF IInv, LatestIsActive, LocksOwnKey
<1>2. CommitReady'
  BY DEF IInv, CommitReady, Conflicts
<1> QED
  BY <1>1, <1>2 DEF IInv

(* A transaction whose INSERT finds no collision becomes ready to commit.   *)
LEMMA ReadyStep ==
    ASSUME IInv, TypeOK', NEW r \in Request,
           Conflicts(r) = {}, Rivals(r) = {},
           pc' = [pc EXCEPT ![r] = "commit"], UNCHANGED <<rows, key, locked>>
    PROVE  IInv'
<1>1. LatestIsActive' /\ LocksOwnKey'
  BY DEF IInv, LatestIsActive, LocksOwnKey
<1>2. \A s \in Request : pc'[s] = "commit" => s = r \/ pc[s] = "commit"
  BY DEF IInv, TypeOK
<1>3. \A s \in Request : pc'[s] = "commit" => Conflicts(s)' = {}
  BY <1>2 DEF IInv, CommitReady, Conflicts
<1>4. \A s \in Request : pc[s] = "commit" /\ key[s] = key[r] => s = r
  BY DEF Rivals
<1>5. CommitReady'
  BY <1>2, <1>3, <1>4 DEF IInv, CommitReady
<1> QED
  BY <1>1, <1>5 DEF IInv

(* A commit deactivates every active row of its key and appends the new one.*)
LEMMA CommitStep ==
    ASSUME IInv, TypeOK', NEW r \in Request, pc[r] = "commit",
           rows' = CommittedRows(r), NEW answer \in Done, Finish(r, answer)
    PROVE  IInv'
<1> DEFINE n == Len(rows)
<1>1. TypeOK /\ LatestIsActive /\ LocksOwnKey /\ CommitReady
  BY DEF IInv
<1>2. /\ n \in Nat
      /\ DOMAIN rows = 1..n
      /\ DOMAIN rows' = 1..(n + 1)
      /\ \A i \in 1..n : /\ rows'[i].key = rows[i].key
                         /\ rows'[i].isActive <=> rows[i].isActive /\ i \notin locked[r]
      /\ rows'[n + 1].key = key[r]
      /\ rows'[n + 1].isActive
  <2>1. rows \in Seq(Row)
    BY <1>1 DEF TypeOK
  <2>2. /\ rows' \in Seq(Row)
        /\ Len(rows') = n + 1
        /\ \A i \in 1..n : /\ rows'[i].key = rows[i].key
                           /\ rows'[i].isActive <=> rows[i].isActive /\ i \notin locked[r]
        /\ rows'[n + 1] = [key |-> key[r], owner |-> r, isActive |-> TRUE]
    BY <1>1, CommittedRowsFacts
  <2>3. rows'[n + 1].key = key[r] /\ rows'[n + 1].isActive
    BY <2>2
  <2> QED
    BY <2>1, <2>2, <2>3
<1>3. \A i \in 1..n : rows[i].key = key[r] => ~rows'[i].isActive
  BY <1>1, <1>2 DEF CommitReady, Conflicts
<1>4. \A i \in 1..n : rows[i].key # key[r] => (rows'[i].isActive <=> rows[i].isActive)
  BY <1>1, <1>2 DEF LocksOwnKey
<1>5. LatestIsActive'
  <2> SUFFICES ASSUME NEW i \in DOMAIN rows'
               PROVE  rows'[i].isActive
                        <=> \A j \in DOMAIN rows' : j > i => rows'[j].key # rows'[i].key
    BY DEF LatestIsActive
  <2>1. CASE i = n + 1
    BY <2>1, <1>2
  <2>2. CASE i \in 1..n /\ rows[i].key = key[r]
    BY <2>2, <1>2, <1>3
  <2>3. CASE i \in 1..n /\ rows[i].key # key[r]
    <3>1. rows'[i].isActive <=> \A j \in 1..n : j > i => rows[j].key # rows[i].key
      BY <2>3, <1>1, <1>2, <1>4 DEF LatestIsActive
    <3> QED
      BY <3>1, <2>3, <1>2
  <2> QED
    BY <2>1, <2>2, <2>3, <1>2
<1>6. \A s \in Request : s # r => pc'[s] = pc[s] /\ locked'[s] = locked[s]
  BY <1>1 DEF TypeOK, Finish
<1>7. pc'[r] # "commit" /\ locked'[r] = {} /\ key' = key
  BY <1>1 DEF TypeOK, Finish, Done
<1>8. LocksOwnKey'
  BY <1>1, <1>2, <1>6, <1>7 DEF LocksOwnKey, TypeOK
<1>9. CommitReady'
  <2> SUFFICES ASSUME NEW s \in Request, pc'[s] = "commit"
               PROVE  /\ Conflicts(s)' = {}
                      /\ \A t \in Request : pc'[t] = "commit" /\ key'[t] = key'[s] => t = s
    BY DEF CommitReady
  <2>1. s # r /\ pc[s] = "commit" /\ key[s] # key[r]
    BY <1>1, <1>6, <1>7 DEF CommitReady
  <2>2. Conflicts(s)' = {}
    BY <2>1, <1>1, <1>2, <1>6, <1>7 DEF CommitReady, Conflicts
  <2> QED
    BY <2>1, <2>2, <1>1, <1>6, <1>7 DEF CommitReady
<1> QED
  BY <1>5, <1>8, <1>9 DEF IInv

-----------------------------------------------------------------------------
(* Every step preserves the types.                                          *)
LEMMA TypeStep ==
    ASSUME TypeOK, Next
    PROVE  TypeOK'
<1> USE DEF TypeOK, InTx, Done
<1>1. ASSUME NEW r \in Request, BeginTx(r)
      PROVE  TypeOK'
  BY <1>1 DEF BeginTx
<1>2. ASSUME NEW r \in Request, StartUpdate(r)
      PROVE  TypeOK'
  <2> DEFINE S == {i \in DOMAIN rows : UpdateWhere(r, rows[i])}
  <2>1. PICK scan \in SetToSeqs(S) : todo' = [todo EXCEPT ![r] = scan]
    BY <1>2 DEF StartUpdate
  <2>2. scan \in Seq(Nat)
    <3>1. S \subseteq 1..Len(rows) /\ Len(rows) \in Nat
      OBVIOUS
    <3> HIDE DEF S
    <3>2. IsFiniteSet(1..Len(rows))
      BY <3>1, FS_Interval
    <3>3. IsFiniteSet(S)
      BY <3>1, <3>2, FS_Subset
    <3>4. Cardinality(S) \in Nat
      BY <3>3, FS_CardinalityType
    <3> DEFINE n == Cardinality(S)
    <3>5. scan \in [1..n -> S]
      BY <2>1 DEF SetToSeqs
    <3>6. n \in Nat
      BY <3>4
    <3>7. S \subseteq Nat
      BY <3>1
    <3> HIDE DEF n
    <3>8. scan \in [1..n -> Nat]
      BY <3>5, <3>7
    <3> QED
      BY <3>6, <3>8
  <2> QED
    BY <1>2, <2>1, <2>2 DEF StartUpdate
<1>3. ASSUME NEW r \in Request, NEW i \in DOMAIN rows, VisitRow(r, i)
      PROVE  TypeOK'
  <2>1. Tail(todo[r]) \in Seq(Nat)
    BY <1>3 DEF VisitRow
  <2>2. todo' \in [Request -> Seq(Nat)]
    BY <1>3, <2>1 DEF VisitRow
  <2>3. locked' \in [Request -> SUBSET (DOMAIN rows)]
    BY <1>3 DEF VisitRow
  <2> QED
    BY <1>3, <2>2, <2>3 DEF VisitRow
<1>4. ASSUME NEW r \in Request, InsertUnique(r) \/ InsertExclude(r) \/ CheckExclude(r)
      PROVE  TypeOK'
  BY <1>4 DEF InsertUnique, InsertExclude, CheckExclude
<1>5. ASSUME NEW r \in Request, NEW answer \in Done, Finish(r, answer), faults' \in 0..MaxFaults,
             rows' = rows \/ rows' = CommittedRows(r)
      PROVE  TypeOK'
  <2>1. rows' \in Seq(Row) /\ DOMAIN rows \subseteq DOMAIN rows'
    <3>1. CASE rows' = rows
      BY <3>1
    <3>2. CASE rows' = CommittedRows(r)
      <4>1. rows' \in Seq(Row) /\ Len(rows') = Len(rows) + 1
        BY <3>2, CommittedRowsFacts
      <4> QED
        BY <4>1
    <3> QED
      BY <1>5, <3>1, <3>2
  <2> QED
    BY <1>5, <2>1 DEF Finish
<1>6. ASSUME NEW r \in Request, Commit(r) \/ Refused(r) \/ DeadlockAbort(r)
      PROVE  TypeOK'
  BY <1>5, <1>6 DEF Commit, Refused, DeadlockAbort, RolledBack
<1>7. ASSUME NEW r \in Request, CommitUnacked(r) \/ Fail(r)
      PROVE  TypeOK'
  <2>1. faults' \in 0..MaxFaults
    BY <1>7, FaultsAssumption DEF CommitUnacked, Fail, Fault
  <2> QED
    BY <1>5, <1>7, <2>1 DEF CommitUnacked, Fail, RolledBack
<1>8. CASE Terminated
  BY <1>8 DEF Terminated, vars
<1> QED
  BY <1>1, <1>2, <1>3, <1>4, <1>6, <1>7, <1>8 DEF Next, Step

(* Every step preserves the inductive invariant.                            *)
LEMMA NextInvariant ==
    ASSUME IInv, [Next]_vars
    PROVE  IInv'
<1>1. CASE UNCHANGED vars
  BY <1>1 DEF vars, IInv, TypeOK, LatestIsActive, LocksOwnKey, CommitReady, Conflicts
<1>2. CASE Next
  <2>1. TypeOK' /\ TypeOK
    BY <1>2, TypeStep DEF IInv
  <2>2. ASSUME NEW r \in Request, BeginTx(r) \/ StartUpdate(r) \/ InsertExclude(r)
        PROVE  IInv'
    <3>1. UNCHANGED <<rows, key, locked>> /\ \A s \in Request : pc'[s] = "commit" => pc[s] = "commit"
      BY <2>1, <2>2 DEF BeginTx, StartUpdate, InsertExclude, TypeOK
    <3> QED
      BY <2>1, <3>1, QuietStep DEF IInv, LocksOwnKey
  <2>3. ASSUME NEW r \in Request, NEW i \in DOMAIN rows, VisitRow(r, i)
        PROVE  IInv'
    <3>1. UNCHANGED <<rows, key, pc>> /\ pc[r] # "commit"
      BY <2>3 DEF VisitRow
    <3>2. \A s \in Request : s # r => locked'[s] = locked[s]
      BY <2>1, <2>3 DEF VisitRow, TypeOK
    <3>3. \A j \in locked'[r] : rows[j].key = key[r]
      BY <2>1, <2>3 DEF VisitRow, TypeOK, UpdateWhere, IInv, LocksOwnKey
    <3>4. \A s \in Request : \A j \in locked'[s] : rows[j].key = key[s]
      BY <3>2, <3>3 DEF IInv, LocksOwnKey
    <3>5. \A s \in Request : pc'[s] = "commit" => pc[s] = "commit" /\ locked'[s] = locked[s]
      BY <3>1, <3>2
    <3> QED
      BY <2>1, <3>1, <3>4, <3>5, QuietStep
  <2>4. ASSUME NEW r \in Request, InsertUnique(r) \/ CheckExclude(r)
        PROVE  IInv'
    BY <2>1, <2>4, ReadyStep DEF InsertUnique, CheckExclude
  <2>5. ASSUME NEW r \in Request, Commit(r) \/ CommitUnacked(r)
        PROVE  IInv'
    BY <2>1, <2>5, CommitStep DEF Commit, CommitUnacked, Done
  <2>6. ASSUME NEW r \in Request, Refused(r) \/ DeadlockAbort(r) \/ Fail(r)
        PROVE  IInv'
    <3>1. RolledBack(r)
      BY <2>6 DEF Refused, DeadlockAbort, Fail
    <3>2. /\ UNCHANGED <<rows, key>>
          /\ pc'[r] # "commit" /\ locked'[r] = {}
          /\ \A s \in Request : s # r => pc'[s] = pc[s] /\ locked'[s] = locked[s]
      BY <2>1, <3>1 DEF RolledBack, Finish, TypeOK
    <3> QED
      BY <2>1, <3>2, QuietStep DEF IInv, LocksOwnKey
  <2>7. CASE Terminated
    BY <1>1, <2>7 DEF Terminated
  <2> QED
    BY <1>2, <2>2, <2>3, <2>4, <2>5, <2>6, <2>7 DEF Next, Step
<1> QED
  BY <1>1, <1>2

(* The variables keep their types.                                          *)
THEOREM TypeCorrect == Spec => []TypeOK
<1>1. IInv => TypeOK
  BY DEF IInv
<1> QED
  BY <1>1, InitInvariant, NextInvariant, PTL DEF Spec

(* Whatever the interleaving of the statements of                           *)
(* RegisterCredentialsForBuilder or AddBuilderConfig, each key has exactly  *)
(* one active row once it has a row, the one committed last.                *)
THEOREM OneActiveRow == Spec => []LatestIsActive
<1>1. IInv => LatestIsActive
  BY DEF IInv
<1> QED
  BY <1>1, InitInvariant, NextInvariant, PTL DEF Spec

-----------------------------------------------------------------------------
(* The refinement mapping: who owns the active row of a key.                *)
LEMMA OwnerIs ==
    ASSUME NEW tab, NEW i \in DOMAIN tab, tab[i].isActive,
           \A j \in DOMAIN tab : tab[j].key = tab[i].key /\ tab[j].isActive => j = i
    PROVE  ActiveOwner(tab, tab[i].key) = tab[i].owner
<1> DEFINE P(j) == tab[j].key = tab[i].key /\ tab[j].isActive
           c == CHOOSE j \in DOMAIN tab : P(j)
<1>1. c \in DOMAIN tab /\ P(c)
  OBVIOUS
<1>2. c = i
  BY <1>1
<1>3. ActiveOwner(tab, tab[i].key) = tab[c].owner
  BY DEF ActiveOwner
<1> QED
  BY <1>2, <1>3

LEMMA OwnerNone ==
    ASSUME NEW tab, NEW k, \A j \in DOMAIN tab : ~(tab[j].key = k /\ tab[j].isActive)
    PROVE  ActiveOwner(tab, k) = None
  BY DEF ActiveOwner

LEMMA OneActive ==
    ASSUME TypeOK, LatestIsActive
    PROVE  \A i, j \in DOMAIN rows :
               rows[i].isActive /\ rows[j].isActive /\ rows[i].key = rows[j].key => i = j
<1>1. DOMAIN rows = 1..Len(rows) /\ Len(rows) \in Nat
  BY DEF TypeOK
<1> QED
  BY <1>1 DEF LatestIsActive

(* A commit changes the owner of the committed key and no other.            *)
LEMMA CommitOwner ==
    ASSUME IInv, NEW r \in Request, pc[r] = "commit", rows' = CommittedRows(r), NEW k \in Key
    PROVE  ActiveOwner(rows', k) = IF k = key[r] THEN r ELSE ActiveOwner(rows, k)
<1> DEFINE n == Len(rows)
<1>1. TypeOK /\ LatestIsActive /\ LocksOwnKey /\ Conflicts(r) = {}
  BY DEF IInv, CommitReady
<1>2. rows \in Seq(Row)
  BY <1>1 DEF TypeOK
<1>3. /\ rows' \in Seq(Row)
      /\ Len(rows') = n + 1
      /\ \A i \in 1..n :
           /\ rows'[i].key = rows[i].key
           /\ rows'[i].owner = rows[i].owner
           /\ rows'[i].isActive <=> rows[i].isActive /\ i \notin locked[r]
      /\ rows'[n + 1] = [key |-> key[r], owner |-> r, isActive |-> TRUE]
  BY <1>1, CommittedRowsFacts
<1>4. /\ n \in Nat /\ DOMAIN rows = 1..n /\ DOMAIN rows' = 1..(n + 1)
      /\ rows'[n + 1].key = key[r] /\ rows'[n + 1].owner = r /\ rows'[n + 1].isActive
  BY <1>2, <1>3
<1>5. \A i \in 1..n : rows[i].key = key[r] => ~rows'[i].isActive
  BY <1>1, <1>3, <1>4 DEF Conflicts
<1>6. \A i \in 1..n : rows[i].key # key[r] => (rows'[i].isActive <=> rows[i].isActive)
  BY <1>1, <1>3, <1>4 DEF LocksOwnKey
<1>7. CASE k = key[r]
  <2>1. \A j \in DOMAIN rows' : rows'[j].key = k /\ rows'[j].isActive => j = n + 1
    BY <1>3, <1>4, <1>5, <1>7
  <2> QED
    BY <1>4, <1>7, <2>1, OwnerIs
<1>8. CASE k # key[r] /\ \E i \in 1..n : rows[i].key = k /\ rows[i].isActive
  <2>1. PICK i \in 1..n : rows[i].key = k /\ rows[i].isActive
    BY <1>8
  <2>2. \A j \in DOMAIN rows : rows[j].key = k /\ rows[j].isActive => j = i
    BY <1>1, <1>4, <2>1, OneActive
  <2>3. ActiveOwner(rows, k) = rows[i].owner
    BY <1>4, <2>1, <2>2, OwnerIs
  <2>4. i \in DOMAIN rows' /\ rows'[i].key = k /\ rows'[i].isActive /\ rows'[i].owner = rows[i].owner
    BY <1>3, <1>4, <1>6, <1>8, <2>1
  <2>5. \A j \in DOMAIN rows' : rows'[j].key = k /\ rows'[j].isActive => j = i
    BY <1>3, <1>4, <1>6, <1>8, <2>2
  <2> HIDE DEF n
  <2>6. ActiveOwner(rows', rows'[i].key) = rows'[i].owner
    BY <2>4, <2>5, OwnerIs
  <2> QED
    BY <1>8, <2>3, <2>4, <2>6
<1>9. CASE k # key[r] /\ ~\E i \in 1..n : rows[i].key = k /\ rows[i].isActive
  <2>1. ActiveOwner(rows, k) = None
    BY <1>4, <1>9, OwnerNone
  <2>2. \A j \in DOMAIN rows' : ~(rows'[j].key = k /\ rows'[j].isActive)
    BY <1>3, <1>4, <1>6, <1>9
  <2>3. ActiveOwner(rows', k) = None
    BY <2>2, OwnerNone
  <2> QED
    BY <1>9, <2>1, <2>3
<1> QED
  BY <1>7, <1>8, <1>9

(* A transaction that waits for itself waits.                               *)
LEMMA DeadlockedWaits ==
    ASSUME NEW r \in Request, Deadlocked(r)
    PROVE  WaitsFor(r) # {}
<1>1. {} \in SUBSET Request /\ \A s \in {} : WaitsFor(s) \subseteq {}
  OBVIOUS
<1> QED
  BY <1>1 DEF Deadlocked

LEMMA InitRefines == Init => Abs!Init
<1> SUFFICES ASSUME Init
             PROVE  Abs!Init
  OBVIOUS
<1>1. \A k \in Key : ActiveOwner(rows, k) = None
  BY OwnerNone DEF Init
<1>2. \A r \in Request : Outcome(r) = "pending"
  BY DEF Init, Outcome, Done
<1> QED
  BY <1>1, <1>2 DEF Init, Abs!Init

(* A commit is a step of the register, as is an error return before it; any *)
(* other step is invisible there.                                           *)
LEMMA NextRefines ==
    ASSUME IInv, [Next]_vars
    PROVE  [Abs!Next]_(Abs!vars)
<1> DEFINE active == [k \in Key |-> ActiveOwner(rows, k)]
           outcome == [r \in Request |-> Outcome(r)]
<1>1. ASSUME UNCHANGED <<rows, key>>, \A r \in Request : Outcome(r)' = Outcome(r)
      PROVE  UNCHANGED Abs!vars
  BY <1>1 DEF Abs!vars
<1>2. TypeOK
  BY DEF IInv
<1>3. ASSUME NEW r \in Request, NEW answer \in Done, Finish(r, answer), pc[r] \notin Done
      PROVE  /\ outcome[r] = "pending"
             /\ outcome' = [outcome EXCEPT ![r] = answer]
             /\ key' = key
  BY <1>2, <1>3 DEF TypeOK, Finish, Outcome, Done
<1>4. ASSUME NEW r \in Request, pc[r] \notin Done, RolledBack(r)
      PROVE  Abs!Refuse(r)
  BY <1>3, <1>4 DEF RolledBack, Abs!Refuse, Abs!Answer, Done
<1>5. ASSUME NEW r \in Request, Commit(r) \/ CommitUnacked(r)
      PROVE  Abs!Replace(r)
  <2>1. pc[r] = "commit" /\ rows' = CommittedRows(r)
    BY <1>5 DEF Commit, CommitUnacked
  <2>2. PICK answer \in Done : Finish(r, answer)
    BY <1>5 DEF Commit, CommitUnacked, Done
  <2>3. /\ outcome[r] = "pending" /\ outcome' = [outcome EXCEPT ![r] = answer]
        /\ key' = key
    BY <1>3, <2>1, <2>2 DEF Done
  <2>4. active' = [active EXCEPT ![key[r]] = r]
    <3>1. \A k \in Key : ActiveOwner(rows', k) = IF k = key[r] THEN r ELSE ActiveOwner(rows, k)
      BY <2>1, CommitOwner
    <3>2. key[r] \in Key
      BY <1>2 DEF TypeOK
    <3> QED
      BY <3>1, <3>2
  <2> QED
    BY <2>3, <2>4 DEF Abs!Replace, Abs!Answer, Done
<1>6. CASE UNCHANGED vars
  BY <1>1, <1>6 DEF vars, Outcome
<1>7. ASSUME NEW r \in Request,
             \/ BeginTx(r) \/ StartUpdate(r) \/ InsertUnique(r) \/ InsertExclude(r)
             \/ CheckExclude(r) \/ \E i \in DOMAIN rows : VisitRow(r, i)
      PROVE  UNCHANGED Abs!vars
  <2>1. /\ UNCHANGED <<rows, key>>
        /\ pc[r] \notin Done /\ \E s \in InTx : pc' = [pc EXCEPT ![r] = s]
    BY <1>2, <1>7 DEF BeginTx, StartUpdate, InsertUnique, InsertExclude, CheckExclude,
       VisitRow, Inserting, InTx, Done, TypeOK
  <2>2. \A s \in Request : Outcome(s)' = Outcome(s)
    BY <1>2, <2>1 DEF Outcome, InTx, Done, TypeOK
  <2> QED
    BY <1>1, <2>1, <2>2
<1>8. ASSUME NEW r \in Request, Refused(r) \/ DeadlockAbort(r) \/ Fail(r)
      PROVE  Abs!Refuse(r)
  <2>1. DeadlockAbort(r) => WaitsFor(r) # {}
    BY DeadlockedWaits DEF DeadlockAbort
  <2>2. pc[r] \notin Done
    BY <1>8, <2>1 DEF Refused, WaitsFor, Inserting, Fail, Done
  <2> QED
    BY <1>4, <1>8, <2>2 DEF Refused, DeadlockAbort, Fail
<1>9. CASE Next
  BY <1>5, <1>6, <1>7, <1>8, <1>9 DEF Next, Step, Terminated, Abs!Next
<1> QED
  BY <1>6, <1>9 DEF Abs!vars, vars

(* The interleaved SQL transactions implement the atomic register: every    *)
(* behaviour of the two writes is one in which each call replaces the       *)
(* active row of its key in one step or changes nothing.                    *)
THEOREM ReplacementIsAtomic == Spec => AtomicReplacement
  BY InitInvariant, NextInvariant, InitRefines, NextRefines, PTL
     DEF Spec, AtomicReplacement, Abs!Spec
-----------------------------------------------------------------------------
(* Who wins.  A call is refused on behalf of another one for the same key:  *)
(* a row it collides with was committed by a call that, without faults, got *)
(* its success; a transaction it waits for is still open.                   *)

(* The rows an UPDATE has still to visit are rows of its key.               *)
ScansOwnKey ==
    \A r \in Request : \A n \in DOMAIN todo[r] :
        todo[r][n] \in DOMAIN rows /\ rows[todo[r][n]].key = key[r]

(* Only an open transaction holds locks.                                    *)
LocksOpen == \A r \in Request : locked[r] # {} => pc[r] \notin Done

(* Without faults, a row was committed by a call for its key that succeeded.*)
OwnersWon ==
    faults = 0 => \A i \in DOMAIN rows :
        key[rows[i].owner] = rows[i].key /\ pc[rows[i].owner] = "ok"

(* Without faults, a refused call leaves one of its key that is not.        *)
Survivor ==
    faults = 0 => \A r \in Request : pc[r] = "err" =>
        \E s \in Request : key[s] = key[r] /\ pc[s] # "err"

WinInv == ScansOwnKey /\ LocksOpen /\ OwnersWon /\ Survivor

LEMMA OwnersAreCalls ==
    ASSUME TypeOK
    PROVE  \A i \in DOMAIN rows : rows[i].owner \in Request
<1>1. rows \in Seq(Row)
  BY DEF TypeOK
<1>2. \A i \in DOMAIN rows : rows[i] \in Row
  BY <1>1
<1> QED
  BY <1>2 DEF Row

LEMMA InitWin == Init => WinInv
  BY DEF Init, WinInv, ScansOwnKey, LocksOpen, OwnersWon, Survivor, Done

(* The transaction that makes r wait is open and writes the same key.       *)
LEMMA WaitsForOpen ==
    ASSUME IInv, WinInv, NEW r \in Request, WaitsFor(r) # {}
    PROVE  pc[r] \notin Done /\ \E s \in Request \ {r} : key[s] = key[r] /\ pc[s] \notin Done
<1>1. TypeOK /\ LocksOwnKey
  BY DEF IInv
<1>2. ScansOwnKey /\ LocksOpen
  BY DEF WinInv
<1>3. CASE pc[r] = "updating" /\ todo[r] # <<>>
  <2>1. WaitsFor(r) = {s \in Request \ {r} : Head(todo[r]) \in locked[s]}
    BY <1>3 DEF WaitsFor, Inserting
  <2>2. PICK s \in Request \ {r} : Head(todo[r]) \in locked[s]
    BY <2>1
  <2>3. todo[r] \in Seq(Nat)
    BY <1>1 DEF TypeOK
  <2>4. 1 \in DOMAIN todo[r] /\ Head(todo[r]) = todo[r][1]
    BY <1>3, <2>3
  <2>5. rows[Head(todo[r])].key = key[r]
    BY <1>2, <2>4 DEF ScansOwnKey
  <2>6. key[s] = key[r]
    BY <1>1, <2>2, <2>5 DEF LocksOwnKey
  <2>7. pc[s] \notin Done
    BY <1>2, <2>2 DEF LocksOpen
  <2> QED
    BY <1>3, <2>6, <2>7 DEF Done
<1>4. CASE Inserting(r) \/ pc[r] = "checking"
  <2>1. WaitsFor(r) = Rivals(r) \cup {s \in Request \ {r} : locked[s] \cap Conflicts(r) # {}}
    BY <1>4 DEF WaitsFor, Inserting
  <2>2. ASSUME NEW s \in Rivals(r)
        PROVE  s \in Request \ {r} /\ key[s] = key[r] /\ pc[s] \notin Done
    BY <2>2 DEF Rivals, Done
  <2>3. ASSUME NEW s \in Request \ {r}, NEW i \in locked[s], i \in Conflicts(r)
        PROVE  key[s] = key[r] /\ pc[s] \notin Done
    BY <1>1, <1>2, <2>3 DEF LocksOwnKey, LocksOpen, Conflicts
  <2>4. \E s \in Request \ {r} : key[s] = key[r] /\ pc[s] \notin Done
    BY <2>1, <2>2, <2>3
  <2> QED
    BY <1>4, <2>4 DEF Inserting, Done
<1> QED
  BY <1>3, <1>4 DEF WaitsFor

(* A step on the way: no call returns and no row is committed.              *)
LEMMA WinOnTheWay ==
    ASSUME IInv, WinInv, UNCHANGED <<rows, key, faults>>, ScansOwnKey',
           \A s \in Request : pc'[s] = pc[s] \/ (pc[s] \notin Done /\ pc'[s] \notin Done),
           \A s \in Request : locked'[s] = locked[s] \/ pc'[s] \notin Done
    PROVE  WinInv'
<1>1. TypeOK
  BY DEF IInv
<1>2. LocksOpen'
  BY DEF WinInv, LocksOpen
<1>3. OwnersWon'
  <2>1. \A i \in DOMAIN rows : rows[i].owner \in Request
    BY <1>1, OwnersAreCalls
  <2> QED
    BY <2>1 DEF WinInv, OwnersWon, Done
<1>4. Survivor'
  BY DEF WinInv, Survivor, Done
<1> QED
  BY <1>2, <1>3, <1>4 DEF WinInv

(* A call returns an error, its transaction rolled back, and another one of *)
(* the same key has succeeded or is still open; or a fault was counted.     *)
LEMMA WinRefused ==
    ASSUME IInv, WinInv, NEW r \in Request, RolledBack(r), pc[r] \notin Done,
           \/ faults' # 0
           \/ /\ faults' = faults
              /\ \E s \in Request \ {r} : key[s] = key[r] /\ pc[s] # "err"
    PROVE  WinInv'
<1>1. TypeOK
  BY DEF IInv
<1>2. /\ UNCHANGED <<rows, key>> /\ pc'[r] = "err" /\ locked'[r] = {} /\ todo'[r] = <<>>
      /\ \A s \in Request \ {r} : pc'[s] = pc[s] /\ locked'[s] = locked[s] /\ todo'[s] = todo[s]
  BY <1>1 DEF RolledBack, Finish, TypeOK
<1>3. ScansOwnKey' /\ LocksOpen'
  BY <1>2 DEF WinInv, ScansOwnKey, LocksOpen
<1>4. OwnersWon'
  <2>1. \A i \in DOMAIN rows : rows[i].owner \in Request
    BY <1>1, OwnersAreCalls
  <2> QED
    BY <1>2, <2>1 DEF WinInv, OwnersWon, Done
<1>5. Survivor'
  <2> SUFFICES ASSUME faults' = 0, NEW q \in Request, pc'[q] = "err"
               PROVE  \E s \in Request : key[s] = key[q] /\ pc'[s] # "err"
    BY <1>2 DEF Survivor
  <2>1. PICK s \in Request \ {r} : key[s] = key[r] /\ pc[s] # "err"
    OBVIOUS
  <2>2. CASE key[q] = key[r]
    BY <1>2, <2>1, <2>2
  <2>3. CASE key[q] # key[r]
    <3>1. PICK t \in Request : key[t] = key[q] /\ pc[t] # "err"
      BY <1>2, <2>3 DEF WinInv, Survivor
    <3> QED
      BY <1>2, <2>3, <3>1
  <2> QED
    BY <2>2, <2>3
<1> QED
  BY <1>3, <1>4, <1>5 DEF WinInv

(* A call commits: it is the one that wins, unless a fault was counted.     *)
LEMMA WinCommits ==
    ASSUME IInv, WinInv, NEW r \in Request, pc[r] = "commit", rows' = CommittedRows(r),
           NEW answer \in Done, Finish(r, answer),
           faults' # 0 \/ (faults' = faults /\ answer = "ok")
    PROVE  WinInv'
<1> DEFINE n == Len(rows)
<1>1. TypeOK
  BY DEF IInv
<1>2. /\ key' = key /\ pc'[r] = answer /\ locked'[r] = {} /\ todo'[r] = <<>>
      /\ \A s \in Request \ {r} : pc'[s] = pc[s] /\ locked'[s] = locked[s] /\ todo'[s] = todo[s]
  BY <1>1 DEF Finish, TypeOK
<1>3. /\ n \in Nat /\ DOMAIN rows = 1..n /\ DOMAIN rows' = 1..(n + 1)
      /\ \A i \in 1..n : rows'[i].key = rows[i].key /\ rows'[i].owner = rows[i].owner
      /\ rows'[n + 1].key = key[r] /\ rows'[n + 1].owner = r
      /\ \A i \in 1..n : rows[i].owner \in Request
  <2>1. rows \in Seq(Row)
    BY <1>1 DEF TypeOK
  <2>2. rows' \in Seq(Row) /\ Len(rows') = n + 1
    BY <1>1, CommittedRowsFacts
  <2>3. \A i \in 1..n : rows'[i].key = rows[i].key /\ rows'[i].owner = rows[i].owner
    BY <1>1, CommittedRowsFacts
  <2>4. rows'[n + 1] = [key |-> key[r], owner |-> r, isActive |-> TRUE]
    BY <1>1, CommittedRowsFacts
  <2>5. n \in Nat /\ DOMAIN rows = 1..n /\ DOMAIN rows' = 1..(n + 1)
    BY <2>1, <2>2
  <2>6. \A i \in 1..n : rows[i].owner \in Request
    BY <1>1, <2>5, OwnersAreCalls
  <2> QED
    BY <2>3, <2>4, <2>5, <2>6
<1> HIDE DEF n
<1>4. ScansOwnKey'
  BY <1>2, <1>3 DEF WinInv, ScansOwnKey
<1>5. LocksOpen'
  BY <1>2 DEF WinInv, LocksOpen
<1>6. OwnersWon'
  BY <1>2, <1>3 DEF WinInv, OwnersWon
<1>7. Survivor'
  BY <1>2 DEF WinInv, Survivor
<1> QED
  BY <1>4, <1>5, <1>6, <1>7 DEF WinInv

LEMMA NextWin ==
    ASSUME IInv, WinInv, [Next]_vars
    PROVE  WinInv'
<1>1. TypeOK
  BY DEF IInv
<1>2. CASE UNCHANGED vars
  BY <1>2 DEF vars, WinInv, ScansOwnKey, LocksOpen, OwnersWon, Survivor
<1>3. ASSUME NEW r \in Request, BeginTx(r) \/ InsertUnique(r) \/ InsertExclude(r) \/ CheckExclude(r)
      PROVE  WinInv'
  <2>1. /\ UNCHANGED <<rows, key, todo, locked, faults>>
        /\ \A s \in Request : pc'[s] = pc[s] \/ (pc[s] \notin Done /\ pc'[s] \notin Done)
    BY <1>1, <1>3 DEF BeginTx, InsertUnique, InsertExclude, CheckExclude, Inserting, TypeOK, Done
  <2>2. ScansOwnKey'
    BY <2>1 DEF WinInv, ScansOwnKey
  <2> QED
    BY <2>1, <2>2, WinOnTheWay
<1>4. ASSUME NEW r \in Request, StartUpdate(r)
      PROVE  WinInv'
  <2> DEFINE S == {i \in DOMAIN rows : UpdateWhere(r, rows[i])}
  <2>1. PICK scan \in SetToSeqs(S) : todo' = [todo EXCEPT ![r] = scan]
    BY <1>4 DEF StartUpdate
  <2>2. \A n \in DOMAIN scan : scan[n] \in S
    <3> HIDE DEF S
    <3>1. scan \in [1..Cardinality(S) -> S]
      BY <2>1 DEF SetToSeqs
    <3> QED
      BY <3>1
  <2>3. /\ UNCHANGED <<rows, key, locked, faults>>
        /\ \A s \in Request : pc'[s] = pc[s] \/ (pc[s] \notin Done /\ pc'[s] \notin Done)
    BY <1>1, <1>4 DEF StartUpdate, TypeOK, Done
  <2>4. ScansOwnKey'
    BY <1>1, <2>1, <2>2, <2>3 DEF WinInv, ScansOwnKey, UpdateWhere, TypeOK
  <2> QED
    BY <2>3, <2>4, WinOnTheWay
<1>5. ASSUME NEW r \in Request, NEW i \in DOMAIN rows, VisitRow(r, i)
      PROVE  WinInv'
  <2>1. /\ UNCHANGED <<rows, key, pc, faults>>
        /\ \A s \in Request : locked'[s] = locked[s] \/ pc'[s] \notin Done
    BY <1>1, <1>5 DEF VisitRow, TypeOK, Done
  <2>2. todo[r] \in Seq(Nat) /\ todo[r] # <<>> /\ todo' = [todo EXCEPT ![r] = Tail(todo[r])]
    BY <1>1, <1>5 DEF VisitRow, TypeOK
  <2>3. \A n \in DOMAIN Tail(todo[r]) : n + 1 \in DOMAIN todo[r] /\ Tail(todo[r])[n] = todo[r][n + 1]
    BY <2>2
  <2>4. ScansOwnKey'
    <3> SUFFICES ASSUME NEW s \in Request, NEW n \in DOMAIN todo'[s]
                 PROVE  todo'[s][n] \in DOMAIN rows /\ rows[todo'[s][n]].key = key[s]
      BY <2>1 DEF ScansOwnKey
    <3>1. CASE s = r
      <4>1. todo'[s] = Tail(todo[r])
        BY <1>1, <2>2, <3>1 DEF TypeOK
      <4> QED
        BY <2>3, <3>1, <4>1 DEF WinInv, ScansOwnKey
    <3>2. CASE s # r
      BY <1>1, <2>2, <3>2 DEF WinInv, ScansOwnKey, TypeOK
    <3> QED
      BY <3>1, <3>2
  <2> QED
    BY <2>1, <2>4, WinOnTheWay
<1>6. ASSUME NEW r \in Request, Commit(r) \/ CommitUnacked(r)
      PROVE  WinInv'
  <2>1. faults \in Nat
    BY <1>1 DEF TypeOK
  <2>2. CASE Commit(r)
    BY <2>2, WinCommits DEF Commit, Done
  <2>3. CASE CommitUnacked(r)
    <3>1. faults' # 0
      BY <2>1, <2>3 DEF CommitUnacked, Fault
    <3> QED
      BY <2>3, <3>1, WinCommits DEF CommitUnacked, Done
  <2> QED
    BY <1>6, <2>2, <2>3
<1>7. ASSUME NEW r \in Request, Refused(r)
      PROVE  WinInv'
  <2>1. pc[r] \notin Done
    BY <1>7 DEF Refused, Inserting, Done
  <2>2. CASE faults = 0
    <3>1. PICK i \in Conflicts(r) : TRUE
      BY <1>7 DEF Refused, Violation
    <3>2. i \in DOMAIN rows /\ rows[i].key = key[r]
      BY <3>1 DEF Conflicts
    <3>3. rows[i].owner \in Request
      BY <1>1, <3>2, OwnersAreCalls
    <3>4. key[rows[i].owner] = key[r] /\ pc[rows[i].owner] = "ok"
      BY <2>2, <3>2 DEF WinInv, OwnersWon
    <3>5. rows[i].owner # r /\ pc[rows[i].owner] # "err"
      BY <2>1, <3>4 DEF Done
    <3> QED
      BY <1>7, <2>1, <3>3, <3>4, <3>5, WinRefused DEF Refused
  <2>3. CASE faults # 0
    BY <1>7, <2>1, <2>3, WinRefused DEF Refused
  <2> QED
    BY <2>2, <2>3
<1>8. ASSUME NEW r \in Request, DeadlockAbort(r)
      PROVE  WinInv'
  <2>1. WaitsFor(r) # {}
    BY <1>8, DeadlockedWaits DEF DeadlockAbort
  <2>2. pc[r] \notin Done /\ \E s \in Request \ {r} : key[s] = key[r] /\ pc[s] \notin Done
    BY <2>1, WaitsForOpen
  <2>3. \E s \in Request \ {r} : key[s] = key[r] /\ pc[s] # "err"
    BY <2>2 DEF Done
  <2> QED
    BY <1>8, <2>2, <2>3, WinRefused DEF DeadlockAbort
<1>9. ASSUME NEW r \in Request, Fail(r)
      PROVE  WinInv'
  <2>1. faults \in Nat /\ faults' = faults + 1
    BY <1>1, <1>9 DEF TypeOK, Fail, Fault
  <2>2. faults' # 0
    BY <2>1
  <2> QED
    BY <1>9, <2>2, WinRefused DEF Fail
<1> QED
  BY <1>2, <1>3, <1>4, <1>5, <1>6, <1>7, <1>8, <1>9 DEF Next, Step, Terminated

(* Calls for a key may refuse each other, by a violated constraint or as    *)
(* the victim of a deadlock, but without faults never all of them: when     *)
(* all have returned, one of RegisterCredentialsForBuilder's (or            *)
(* AddBuilderConfig's) calls has succeeded.                                 *)
THEOREM OneCallWins == Spec => []SomeCallWins
<1>1. WinInv /\ IInv => SomeCallWins
  <2> SUFFICES ASSUME WinInv, faults = 0, NEW k \in Key, NEW r \in Request, key[r] = k,
                      \A s \in Request : key[s] = k => pc[s] \in Done
               PROVE  \E s \in Request : key[s] = k /\ pc[s] = "ok"
    BY DEF SomeCallWins
  <2> QED
    BY DEF WinInv, Survivor, Done
<1> QED
  BY <1>1, InitInvariant, NextInvariant, InitWin, NextWin, PTL DEF Spec
=============================================================================
