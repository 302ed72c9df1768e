----------------------------- MODULE SecretStore -----------------------------
(***************************************************************************)
(* The three implementations of the secret store: AWS Secrets Manager      *)
(* (adapters/secrets/service.go), which reads a document, modifies it and  *)
(* writes it back; HashiCorp Vault (adapters/secrets/hashicorp_vault.go);  *)
(* and the map in memory (domain/inmemory_secret.go).  The process uses    *)
(* one of them.  Calls of several handlers, or of several hubs on the same *)
(* store, interleave, one step per call to the service behind it.          *)
(***************************************************************************)
EXTENDS Naturals

CONSTANTS
    Builder,    \* builder names
    Object,     \* payloads that are JSON objects, none of them empty
    Scalar,     \* payloads that are JSON, but not objects
    Malformed,  \* payloads that are not JSON
    NullJson,   \* the payload "null"
    Empty,      \* "{}", or no body: what a builder without secrets gets
    OtherKey,   \* a key of an AWS document that is no builder's name
    Absent,     \* no such document, nothing at this path
    Opaque,     \* an AWS document that is no JSON object, or not a string at all
    Rounded(_), \* an object with its numbers as float64 holds them
    Call,       \* calls of GetSecretValues and SetSecretValues
    MaxFaults   \* bound on failed calls and lost answers

Backend == {"mock", "vault", "aws"}
Payload == Object \cup Scalar \cup Malformed \cup {NullJson}

ASSUME KeyAssumption == OtherKey \notin Builder
ASSUME PayloadAssumption == /\ Empty \notin Payload
                            /\ NullJson \notin Object \cup Scalar \cup Malformed
                            /\ Object \cap (Scalar \cup Malformed) = {}
ASSUME RoundedAssumption == \A o \in Object : Rounded(o) \in Object
ASSUME StoreFaultsAssumption == MaxFaults \in Nat

VARIABLES
    backend,    \* the implementation in use
    call,       \* call[c]: operation, builder and payload of c
    docs,       \* docs[n]: the AWS document with name n
    kv,         \* kv[b]: what Vault, or the map in memory, holds for b
    pc,         \* pc[c]: the next step of c
    seen,       \* seen[c]: the document SetSecretValues has read
    answer,     \* answer[c]: what the caller of c was told
    faults      \* faults so far

vars == <<backend, call, docs, kv, pc, seen, answer, faults>>

Key == Builder \cup {OtherKey}
Doc == UNION {[keys -> Payload] : keys \in SUBSET Key}
ASSUME AbsentAssumption == Absent \notin Doc \cup Payload \cup {Empty}
ASSUME OpaqueAssumption == Opaque \notin Doc \cup {Absent}

CallType == [op : {"get", "set"}, builder : Builder, payload : Payload \cup {Empty}]

Pending == [status |-> "pending", content |-> Empty]
Ok(content) == [status |-> "ok", content |-> content]
Err == [status |-> "err", content |-> Empty]

TypeOK ==
    /\ backend \in Backend
    /\ call \in [Call -> CallType]
    /\ docs \in [Builder -> Doc \cup {Absent, Opaque}]
    /\ kv \in [Builder -> Payload \cup {Empty, Absent}]
    /\ pc \in [Call -> {"start", "write", "done"}]
    /\ seen \in [Call -> Doc \cup {Absent}]
    /\ answer \in [Call -> [status : {"pending", "ok", "err"}, content : Payload \cup {Empty}]]
    /\ faults \in 0..MaxFaults

\* A document may have been made by hand, with other keys than the builder's or
\* with none, and what Vault holds may have been deleted by hand.
Init ==
    /\ backend \in Backend
    /\ call \in {f \in [Call -> CallType] : \A c \in Call : (f[c].op = "get") = (f[c].payload = Empty)}
    /\ docs \in [Builder -> {Absent} \cup IF backend = "aws" THEN {Opaque} \cup [{OtherKey} -> Object] ELSE {}]
    /\ kv \in [Builder -> {Absent} \cup IF backend = "vault" THEN {Empty} ELSE {}]
    /\ pc = [c \in Call |-> "start"]
    /\ seen = [c \in Call |-> Absent]
    /\ answer = [c \in Call |-> Pending]
    /\ faults = 0
-----------------------------------------------------------------------------
(* Steps of a call.                                                         *)

Starts(c, b, op) == backend = b /\ call[c].op = op /\ pc[c] = "start"

Return(c, a) ==
    /\ pc' = [pc EXCEPT ![c] = "done"]
    /\ seen' = [seen EXCEPT ![c] = Absent]
    /\ answer' = [answer EXCEPT ![c] = a]
    /\ UNCHANGED <<backend, call>>

\* A step that returns, with the store as it is.
Answered(c, a) == Return(c, a) /\ UNCHANGED <<docs, kv, faults>>

Fault == faults < MaxFaults /\ faults' = faults + 1

\* A write that took effect, its answer delivered or lost.
Written(c) == \/ Return(c, Ok(Empty)) /\ UNCHANGED faults
              \/ Return(c, Err) /\ Fault

\* A call of the service behind the store fails without effect.
Fail(c) ==
    /\ backend # "mock"
    /\ pc[c] # "done"
    /\ Fault
    /\ Return(c, Err)
    /\ UNCHANGED <<docs, kv>>
-----------------------------------------------------------------------------
(* AWS Secrets Manager.                                                     *)

\* The document of a builder.
\* Mutant: one document for all builders.
SharedDocument(b) == CHOOSE x \in Builder : TRUE
secretName(b) == b

DocOf(c) == docs[secretName(call[c].builder)]

\* Mutant: the whole document is returned.
WholeDocument(c) ==
    /\ Starts(c, "aws", "get")
    /\ Answered(c, IF DocOf(c) = Absent THEN Ok(Empty) ELSE Ok(DocOf(c)))
AwsGet(c) ==
    /\ Starts(c, "aws", "get")
    /\ Answered(c, IF DocOf(c) = Absent THEN Ok(Empty)
                   ELSE IF DocOf(c) = Opaque THEN Err
                   ELSE IF call[c].builder \in DOMAIN DocOf(c) THEN Ok(DocOf(c)[call[c].builder])
                   ELSE Err)                                     \* ErrMissingSecret

AwsRead(c) ==
    /\ Starts(c, "aws", "set")
    /\ DocOf(c) # Opaque
    /\ pc' = [pc EXCEPT ![c] = "write"]
    /\ seen' = [seen EXCEPT ![c] = DocOf(c)]
    /\ UNCHANGED <<backend, call, docs, kv, answer, faults>>

\* Not an object: json.Unmarshal returns an error, or the handler panics (a nil map
\* for "null", a nil SecretString), which the Recoverer middleware turns into a 500.
AwsUnmarshalFails(c) ==
    /\ Starts(c, "aws", "set")
    /\ DocOf(c) = Opaque
    /\ Answered(c, Err)

\* The values do not survive json.Marshal.
AwsMarshalFails(c) ==
    /\ pc[c] = "write"
    /\ call[c].payload \in Malformed
    /\ Answered(c, Err)

\* secretData[builderName] = values.
\* Mutant: the document is made anew.
NewDocument(doc, c) == [k \in {call[c].builder} |-> call[c].payload]
WithSecret(doc, c) ==
    [k \in DOMAIN doc \cup {call[c].builder} |->
        IF k = call[c].builder THEN call[c].payload ELSE doc[k]]

NoKeys == [k \in {} |-> NullJson]

WriteDoc(c, doc) ==
    /\ docs' = [docs EXCEPT ![secretName(call[c].builder)] = doc]
    /\ Written(c)
    /\ UNCHANGED kv

\* CreateSecret: of two calls that found no document the second is refused.
\* Mutant: PutSecretValue, which needs an existing secret.
PutInsteadOfCreate(c) ==
    /\ pc[c] = "write" /\ seen[c] = Absent
    /\ call[c].payload \notin Malformed
    /\ \/ DocOf(c) # Absent /\ WriteDoc(c, WithSecret(NoKeys, c))
       \/ DocOf(c) = Absent /\ Answered(c, Err)
AwsCreate(c) ==
    /\ pc[c] = "write" /\ seen[c] = Absent
    /\ call[c].payload \notin Malformed
    /\ \/ DocOf(c) = Absent /\ WriteDoc(c, WithSecret(NoKeys, c))
       \/ DocOf(c) # Absent /\ Answered(c, Err)                  \* ResourceExists

AwsPut(c) ==
    /\ pc[c] = "write" /\ seen[c] # Absent
    /\ call[c].payload \notin Malformed
    /\ WriteDoc(c, WithSecret(seen[c], c))
-----------------------------------------------------------------------------
(* HashiCorp Vault: a path per builder.                                     *)

\* A path that was never written is ErrSecretNotFound of the client, which is not the
\* 404 that isVault404 looks for; one whose version holds no data is "{}".
VaultGet(c) ==
    /\ Starts(c, "vault", "get")
    /\ Answered(c, IF kv[call[c].builder] = Absent THEN Err ELSE Ok(kv[call[c].builder]))

\* Only an object unmarshals into the map.
VaultUnmarshalFails(c) ==
    /\ Starts(c, "vault", "set")
    /\ call[c].payload \in Scalar \cup Malformed
    /\ Answered(c, Err)

\* Vault gets a map[string]any.  "null" is one without data: Vault may refuse it, or
\* hold no data.
Stored(c) ==
    CASE backend = "vault" /\ call[c].payload = NullJson -> Empty
      [] backend = "vault" /\ call[c].payload \in Object -> Rounded(call[c].payload)
      [] OTHER -> call[c].payload

SetKv(c) == kv' = [kv EXCEPT ![call[c].builder] = Stored(c)] /\ UNCHANGED docs

VaultPut(c) ==
    /\ Starts(c, "vault", "set")
    /\ call[c].payload \in Object \cup {NullJson}
    /\ \/ SetKv(c) /\ Written(c)
       \/ call[c].payload = NullJson /\ Answered(c, Err)
-----------------------------------------------------------------------------
(* The map in memory, under its lock: any bytes are accepted.               *)

\* A key that is not there gives no bytes.
InKv(b) == IF kv[b] = Absent THEN Empty ELSE kv[b]

MemGet(c) == Starts(c, "mock", "get") /\ Answered(c, Ok(InKv(call[c].builder)))

MemSet(c) ==
    /\ Starts(c, "mock", "set")
    /\ SetKv(c)
    /\ Return(c, Ok(Empty))
    /\ UNCHANGED faults
-----------------------------------------------------------------------------
Step(c) ==
    \/ AwsGet(c) \/ AwsRead(c) \/ AwsUnmarshalFails(c) \/ AwsMarshalFails(c) \/ AwsCreate(c) \/ AwsPut(c)
    \/ VaultGet(c) \/ VaultUnmarshalFails(c) \/ VaultPut(c)
    \/ MemGet(c) \/ MemSet(c)
    \/ Fail(c)

Terminated == (\A c \in Call : pc[c] = "done") /\ UNCHANGED vars

Next == (\E c \in Call : Step(c)) \/ Terminated

Spec == Init /\ [][Next]_vars
-----------------------------------------------------------------------------
(* Properties.                                                              *)

(* Whatever a document holds besides the builder's secrets stays as it is,  *)
(* although SetSecretValues of the AWS store writes whole documents it read *)
(* earlier, and a document it cannot read is never overwritten.             *)
OtherKeysKept ==
    [][\A n \in Builder :
          /\ docs[n] = Opaque => docs'[n] = Opaque
          /\ docs[n] \notin {Absent, Opaque} =>
                /\ docs'[n] \notin {Absent, Opaque}
                /\ \A k \in DOMAIN docs[n] \ {n} : k \in DOMAIN docs'[n] /\ docs'[n][k] = docs[n][k]]_vars

(* Writers of a new builder's secrets may refuse each other on CreateSecret *)
(* but not all of them: without faults, when every call is over, one whose  *)
(* payload the store can hold got through.                                  *)
Storable(c) ==
    /\ call[c].payload \in [mock |-> Payload, aws |-> Payload \ Malformed, vault |-> Object][backend]
    /\ DocOf(c) # Opaque

SomeSetWins ==
    faults = 0 /\ (\A c \in Call : pc[c] = "done") =>
        \A b \in Builder :
            LET sets == {c \in Call : call[c].op = "set" /\ call[c].builder = b}
            IN  (\E c \in sets : Storable(c)) => \E c \in sets : answer[c].status = "ok"

(* Each store is a register per builder: a call takes effect in one step or *)
(* not at all, reads return what was written last, and no write undoes the  *)
(* write for another builder.  This is the store BuilderHub assumes.        *)
ContentOf(b) ==
    IF backend # "aws" THEN InKv(b)
    ELSE IF docs[secretName(b)] \in {Absent, Opaque} THEN Empty
    ELSE IF b \in DOMAIN docs[secretName(b)] THEN docs[secretName(b)][b] ELSE Empty

Abs == INSTANCE SecretRegister WITH
           Content <- Payload,
           call <- [c \in Call |-> [op |-> call[c].op, builder |-> call[c].builder,
                                    content |-> Stored(c)]],
           value <- [b \in Builder |-> ContentOf(b)]

AtomicSecrets == Abs!Spec
=============================================================================
