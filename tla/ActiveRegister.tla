--------------------------- MODULE ActiveRegister ---------------------------
(***************************************************************************)
(* What the two replacing writes of the database adapter promise,          *)
(* RegisterCredentialsForBuilder and AddBuilderConfig: a table with at     *)
(* most one active row per key, which each request either replaces in one  *)
(* step or leaves alone.  A request is answered "ok" only when its row     *)
(* became the active one.  The converse is not promised: an answer "err"   *)
(* may hide a replacement, when the answer to COMMIT was lost.             *)
(***************************************************************************)
CONSTANTS
    Key,        \* (builder, service) pairs, or builders
    Request,    \* calls of the operation
    None        \* no active row

VARIABLES
    key,        \* key[r]: the key request r writes
    active,     \* active[k]: the request that wrote the active row of k
    outcome     \* outcome[r]: what the caller of r was told

vars == <<key, active, outcome>>

Init == /\ key \in [Request -> Key]
        /\ active = [k \in Key |-> None]
        /\ outcome = [r \in Request |-> "pending"]

Answer(r, o) == outcome[r] = "pending" /\ outcome' = [outcome EXCEPT ![r] = o]

\* The row of r becomes the active one; the caller may or may not learn it.
Replace(r) == /\ \E o \in {"ok", "err"} : Answer(r, o)
              /\ active' = [active EXCEPT ![key[r]] = r]
              /\ UNCHANGED key

\* Nothing is written and the caller is told so.
Refuse(r) == Answer(r, "err") /\ UNCHANGED <<key, active>>

Next == \E r \in Request : Replace(r) \/ Refuse(r)

Spec == Init /\ [][Next]_vars
=============================================================================
