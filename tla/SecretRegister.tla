--------------------------- MODULE SecretRegister ---------------------------
(***************************************************************************)
(* What the hub expects of a secret store (application.SecretAccessor,     *)
(* ports.AdminSecretService): a value per builder that a call reads or     *)
(* replaces in one step, or leaves alone.  A call is answered "ok" only    *)
(* when it did what it was asked for; an answer "err" to a write may hide  *)
(* that it took effect.                                                    *)
(***************************************************************************)
CONSTANTS
    Builder,    \* builder names
    Content,    \* what a builder's secrets may be
    Empty,      \* no secrets
    Call        \* calls of GetSecretValues and SetSecretValues

VARIABLES
    call,       \* call[c]: operation, builder and content of c
    value,      \* value[b]: the secrets of builder b
    answer      \* answer[c]: what the caller of c was told

vars == <<call, value, answer>>

Pending == [status |-> "pending", content |-> Empty]
Ok(content) == [status |-> "ok", content |-> content]
Err == [status |-> "err", content |-> Empty]

Init == /\ call \in [Call -> [op : {"get", "set"}, builder : Builder, content : Content \cup {Empty}]]
        /\ value \in [Builder -> Content \cup {Empty}]
        /\ answer = [c \in Call |-> Pending]

Answer(c, a) == answer[c] = Pending /\ answer' = [answer EXCEPT ![c] = a]

Read(c) == /\ call[c].op = "get"
           /\ Answer(c, Ok(value[call[c].builder]))
           /\ UNCHANGED <<call, value>>

\* The caller may or may not learn of it.
Write(c) == /\ call[c].op = "set"
            /\ \E a \in {Ok(Empty), Err} : Answer(c, a)
            /\ value' = [value EXCEPT ![call[c].builder] = call[c].content]
            /\ UNCHANGED call

Refuse(c) == Answer(c, Err) /\ UNCHANGED <<call, value>>

Next == \E c \in Call : Read(c) \/ Write(c) \/ Refuse(c)

Spec == Init /\ [][Next]_vars
=============================================================================
