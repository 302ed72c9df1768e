----------------------------- MODULE ActiveRowTx -----------------------------
(***************************************************************************)
(* The transactions of RegisterCredentialsForBuilder and AddBuilderConfig  *)
(* (adapters/database/service.go), one step per SQL statement and, inside  *)
(* the UPDATE, per row.  Several requests run them at once under           *)
(* PostgreSQL's default isolation level, READ COMMITTED (BeginTx is given  *)
(* nil options): a statement sees what was committed when it started, a    *)
(* row another transaction has updated makes it wait, and once that        *)
(* transaction is over the row's newest version is tested again.           *)
(* "At most one active row per key" is enforced by a partial unique index  *)
(* on service_credential_registrations and by an exclusion constraint on   *)
(* builder_configs; they differ in when a waiting INSERT is already        *)
(* visible to the others.                                                  *)
(***************************************************************************)
EXTENDS Integers, Sequences, FiniteSets, SequencesExt

CONSTANTS
    Request,        \* the calls of the operation
    Key,            \* (builder, service) pairs, or builders
    MaxOpenConns,   \* size of the connection pool
    MaxFaults,      \* bound on failed statements and lost answers
    None            \* no row

Tables == {"service_credential_registrations", "builder_configs"}

ASSUME PoolAssumption == MaxOpenConns \in Nat \ {0}
ASSUME FaultsAssumption == MaxFaults \in Nat
ASSUME RequestAssumption == IsFiniteSet(Request)
ASSUME NoneAssumption == None \notin Request

VARIABLES
    table,   \* the table the calls write
    rows,    \* committed rows, in the order of their commits
    key,     \* key[r]: the key request r writes
    pc,      \* pc[r]: the next statement of r's transaction
    todo,    \* todo[r]: rows r's UPDATE has still to visit, in scan order
    locked,  \* locked[r]: rows r's transaction has deactivated, not yet committed
    faults   \* faults so far

vars == <<table, rows, key, pc, todo, locked, faults>>

Row == [key : Key, owner : Request, isActive : BOOLEAN]

\* Statements between BEGIN and the end of the transaction.
InTx == {"update", "updating", "checking", "commit"}
Done == {"ok", "err"}

TypeOK == /\ table \in Tables
          /\ rows \in Seq(Row)
          /\ key \in [Request -> Key]
          /\ pc \in [Request -> {"begin"} \cup InTx \cup Done]
          /\ todo \in [Request -> Seq(Nat)]
          /\ locked \in [Request -> SUBSET (DOMAIN rows)]
          /\ faults \in 0..MaxFaults

Init == /\ table \in Tables
        /\ rows = <<>>
        /\ key \in [Request -> Key]
        /\ pc = [r \in Request |-> "begin"]
        /\ todo = [r \in Request |-> <<>>]
        /\ locked = [r \in Request |-> {}]
        /\ faults = 0

-----------------------------------------------------------------------------
(* The connection pool of NewDatabaseService: a transaction keeps its       *)
(* connection from BEGIN to its end.                                        *)
\* Mutant: without the deferred Rollback a call that fails keeps its connection.
LeakedConn == Cardinality({r \in Request : pc[r] \in InTx \cup {"err"}}) < MaxOpenConns
FreeConn == Cardinality({r \in Request : pc[r] \in InTx}) < MaxOpenConns

\* A statement of an open transaction runs on the transaction's connection.
\* Mutant: it asks the pool for one of its own.
PoolConn(r) == FreeConn
TxConn(r) == TRUE

(* The WHERE clauses of the two UPDATE statements.                          *)
UpdateWhere(r, row) ==
    /\ row.key = key[r]
    /\ table = "builder_configs" => row.isActive

LockedByOther(r, i) == \E s \in Request \ {r} : i \in locked[s]

(* Active rows that the index entry of r's new row collides with: the ones  *)
(* r's own UPDATE has not deactivated.                                      *)
Conflicts(r) == {i \in DOMAIN rows : /\ rows[i].key = key[r]
                                     /\ rows[i].isActive
                                     /\ i \notin locked[r]}

(* Other transactions whose uncommitted row of the same key is in the index.*)
(* Mutant: there is no such index.                                          *)
NoRivals(r) == {}
Rivals(r) == {s \in Request \ {r} : key[s] = key[r] /\ pc[s] \in {"checking", "commit"}}

(* A committed active row nobody is about to deactivate: the statement      *)
(* fails.  Any other collision makes it wait for the transaction concerned. *)
Violation(r) == \E i \in Conflicts(r) : ~LockedByOther(r, i)

Inserting(r) == pc[r] = "updating" /\ todo[r] = <<>>

(* The transactions r's current statement waits for.                        *)
WaitsFor(r) ==
    CASE pc[r] = "updating" /\ todo[r] # <<>> ->
             {s \in Request \ {r} : Head(todo[r]) \in locked[s]}
      [] Inserting(r) \/ pc[r] = "checking" ->
             Rivals(r) \cup {s \in Request \ {r} : locked[s] \cap Conflicts(r) # {}}
      [] OTHER -> {}

(* r waits, directly or through others, for itself: it is in every set that *)
(* has the transactions r waits for and whoever its members wait for.       *)
Deadlocked(r) ==
    \A S \in SUBSET Request :
        (WaitsFor(r) \subseteq S /\ \A s \in S : WaitsFor(s) \subseteq S) => r \in S
-----------------------------------------------------------------------------
(* The statements of one call.                                              *)

BeginTx(r) ==
    /\ pc[r] = "begin"
    /\ FreeConn
    /\ pc' = [pc EXCEPT ![r] = "update"]
    /\ UNCHANGED <<table, rows, key, todo, locked, faults>>

\* The UPDATE takes its snapshot; SQL leaves the order of the scan open.
StartUpdate(r) ==
    /\ pc[r] = "update"
    /\ \E scan \in SetToSeqs({i \in DOMAIN rows : UpdateWhere(r, rows[i])}) :
           todo' = [todo EXCEPT ![r] = scan]
    /\ pc' = [pc EXCEPT ![r] = "updating"]
    /\ UNCHANGED <<table, rows, key, locked, faults>>

\* The UPDATE reaches row i: it waits for whoever holds it, then tests the
\* newest version and deactivates it if it still qualifies.
VisitRow(r, i) ==
    /\ pc[r] = "updating"
    /\ todo[r] # <<>>
    /\ i = Head(todo[r])
    /\ ~LockedByOther(r, i)
    /\ todo' = [todo EXCEPT ![r] = Tail(todo[r])]
    /\ locked' = IF UpdateWhere(r, rows[i])
                 THEN [locked EXCEPT ![r] = locked[r] \cup {i}]
                 ELSE locked
    /\ UNCHANGED <<table, rows, key, pc, faults>>

\* The INSERT under the unique index: the entry is placed when nothing collides.
InsertUnique(r) ==
    /\ table = "service_credential_registrations"
    /\ Inserting(r)
    /\ TxConn(r)
    /\ Conflicts(r) = {} /\ Rivals(r) = {}
    /\ pc' = [pc EXCEPT ![r] = "commit"]
    /\ UNCHANGED <<table, rows, key, todo, locked, faults>>

\* The INSERT under the exclusion constraint places the entry first ...
InsertExclude(r) ==
    /\ table = "builder_configs"
    /\ Inserting(r)
    /\ TxConn(r)
    /\ pc' = [pc EXCEPT ![r] = "checking"]
    /\ UNCHANGED <<table, rows, key, todo, locked, faults>>

\* ... and then looks for collisions.
CheckExclude(r) ==
    /\ pc[r] = "checking"
    /\ Conflicts(r) = {} /\ Rivals(r) = {}
    /\ pc' = [pc EXCEPT ![r] = "commit"]
    /\ UNCHANGED <<table, rows, key, todo, locked, faults>>

\* Mutant: the INSERT leaves builder_name, which may be NULL, out.
CommittedWithoutKey(r) == Append(rows, [key |-> None, owner |-> r, isActive |-> TRUE])
CommittedRows(r) ==
    Append([i \in DOMAIN rows |-> [rows[i] EXCEPT !.isActive = @ /\ i \notin locked[r]]],
           [key |-> key[r], owner |-> r, isActive |-> TRUE])

\* The transaction is over: its locks go and the caller gets its answer.
Finish(r, answer) ==
    /\ pc' = [pc EXCEPT ![r] = answer]
    /\ todo' = [todo EXCEPT ![r] = <<>>]
    /\ locked' = [locked EXCEPT ![r] = {}]
    /\ UNCHANGED <<table, key>>

\* Mutants: the function returns nil without a Commit, and the Rollback undoes it
\* all; the error of the deferred Rollback, ErrTxDone, replaces Commit's nil.
CommitForgotten(r) ==
    pc[r] = "commit" /\ Finish(r, "ok") /\ UNCHANGED <<rows, faults>>

CommitErrTxDone(r) ==
    pc[r] = "commit" /\ rows' = CommittedRows(r) /\ Finish(r, "err") /\ UNCHANGED faults
Commit(r) ==
    /\ pc[r] = "commit"
    /\ rows' = CommittedRows(r)
    /\ Finish(r, "ok")
    /\ UNCHANGED faults

Fault == faults < MaxFaults /\ faults' = faults + 1

\* COMMIT took effect, its acknowledgement was lost: Commit returns an error.
CommitUnacked(r) ==
    /\ pc[r] = "commit"
    /\ Fault
    /\ rows' = CommittedRows(r)
    /\ Finish(r, "err")

\* The deferred Rollback after an error return.
RolledBack(r) == Finish(r, "err") /\ UNCHANGED rows

\* A statement collides with a committed active row.
Refused(r) ==
    /\ Inserting(r) \/ pc[r] = "checking"
    /\ Violation(r)
    /\ RolledBack(r)
    /\ UNCHANGED faults

\* PostgreSQL picks a member of a cycle of waiting transactions as victim.
DeadlockAbort(r) == Deadlocked(r) /\ RolledBack(r) /\ UNCHANGED faults

\* BEGIN or a statement fails, or the client goes away and its context is
\* cancelled, which rolls the transaction back.
Fail(r) == pc[r] \notin Done /\ Fault /\ RolledBack(r)

\* Every call has returned.
Terminated == (\A r \in Request : pc[r] \in Done) /\ UNCHANGED vars

\* The steps of r that need no fault.
Step(r) == \/ BeginTx(r) \/ StartUpdate(r)
           \/ \E i \in DOMAIN rows : VisitRow(r, i)
           \/ InsertUnique(r) \/ InsertExclude(r) \/ CheckExclude(r)
           \/ Commit(r) \/ Refused(r) \/ DeadlockAbort(r)

Next == \/ \E r \in Request : Step(r) \/ CommitUnacked(r) \/ Fail(r)
        \/ Terminated

Spec == Init /\ [][Next]_vars

(* The database executes a statement that can proceed and looks for         *)
(* deadlocks; the handler goes on to the next statement.                    *)
FairSpec == Spec /\ \A r \in Request : WF_vars(Step(r))
-----------------------------------------------------------------------------
(* Properties.                                                              *)

(* The table never has two active rows for a key, nor none once a row was   *)
(* committed, and the active row is the one committed last: replacing the   *)
(* active row is atomic, whichever way the statements of                    *)
(* RegisterCredentialsForBuilder (or AddBuilderConfig) interleave.          *)
LatestIsActive ==
    \A i \in DOMAIN rows :
        rows[i].isActive <=> \A j \in DOMAIN rows : j > i => rows[j].key # rows[i].key

(* Concurrent calls for a key may refuse each other (unique violation or    *)
(* deadlock), but without faults they cannot all be refused: when every     *)
(* call for a key has returned, one of them got through.                    *)
SomeCallWins ==
    \A k \in Key :
        LET calls == {r \in Request : key[r] = k}
        IN  (calls # {} /\ faults = 0 /\ \A r \in calls : pc[r] \in Done)
                => \E r \in calls : pc[r] = "ok"

(* The guards of Step(r): r's next statement can go on, or it ends r's      *)
(* transaction, without waiting and without a fault.                        *)
Ready(r) ==
    \/ pc[r] = "begin" /\ FreeConn
    \/ pc[r] \in {"update", "commit"}
    \/ pc[r] = "updating" /\ todo[r] # <<>> /\ ~LockedByOther(r, Head(todo[r]))
    \/ Inserting(r) /\ TxConn(r) /\ table = "builder_configs"
    \/ /\ (Inserting(r) /\ TxConn(r)) \/ pc[r] = "checking"
       /\ Conflicts(r) = {} /\ Rivals(r) = {}
    \/ (Inserting(r) \/ pc[r] = "checking") /\ Violation(r)
    \/ Deadlocked(r)

(* The calls never all wait: row locks, index entries and the connections   *)
(* of the pool leave, as long as a call has not returned, a call whose next *)
(* statement can be executed now, even when no fault ends a transaction.    *)
NoneStuck == (\E r \in Request : pc[r] \notin Done) => \E r \in Request : Ready(r)

(* Every call returns: no cycle of row locks, index entries and pool        *)
(* connections leaves a handler waiting for ever.                           *)
EveryCallReturns == \A r \in Request : <>(pc[r] \in Done)

(* The transactions implement the atomic replacement of ActiveRegister: no  *)
(* call is answered with success unless its row became the active one, and  *)
(* a call that is refused changes nothing.                                  *)
ActiveOwner(tab, k) ==
    LET active(i) == tab[i].key = k /\ tab[i].isActive
    IN  IF \E i \in DOMAIN tab : active(i)
        THEN tab[CHOOSE i \in DOMAIN tab : active(i)].owner
        ELSE None

Outcome(r) == IF pc[r] \in Done THEN pc[r] ELSE "pending"

Abs == INSTANCE ActiveRegister WITH
           active <- [k \in Key |-> ActiveOwner(rows, k)],
           outcome <- [r \in Request |-> Outcome(r)]

AtomicReplacement == Abs!Spec
=============================================================================
