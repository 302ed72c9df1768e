-------------------------- MODULE SecretStoreProofs --------------------------
(***************************************************************************)
(* Proofs about the secret stores, for any number of calls, builders,      *)
(* payloads and faults.                                                    *)
(***************************************************************************)
EXTENDS SecretStore, TLAPS

(* Documents.                                                               *)

LEMMA DocMade ==
    ASSUME NEW keys \in SUBSET Key, NEW doc, doc \in [keys -> Payload]
    PROVE  doc \in Doc
  BY DEF Doc

LEMMA DocIsFunction ==
    ASSUME NEW doc \in Doc
    PROVE  /\ DOMAIN doc \in SUBSET Key
           /\ doc \in [DOMAIN doc -> Payload]
  BY DEF Doc

LEMMA NoKeysIsDoc == NoKeys \in Doc /\ DOMAIN NoKeys = {}
  <1>1. NoKeys \in [{} -> Payload] /\ DOMAIN NoKeys = {}
    BY DEF NoKeys
  <1> QED
    BY <1>1, DocMade

(* Writing the builder's secrets into a document changes its key only.      *)
LEMMA SecretAdded ==
    ASSUME TypeOK, NEW c \in Call, NEW doc \in Doc, call[c].payload \in Payload
    PROVE  /\ WithSecret(doc, c) \in Doc
           /\ DOMAIN WithSecret(doc, c) = DOMAIN doc \cup {call[c].builder}
           /\ WithSecret(doc, c)[call[c].builder] = call[c].payload
           /\ \A k \in DOMAIN doc \ {call[c].builder} : WithSecret(doc, c)[k] = doc[k]
  <1>1. call[c].builder \in Builder
    BY DEF TypeOK, CallType
  <1> DEFINE b == call[c].builder
             keys == DOMAIN doc \cup {b}
  <1>2. keys \in SUBSET Key
    BY <1>1, DocIsFunction DEF Key
  <1>3. WithSecret(doc, c) \in [keys -> Payload]
    BY DocIsFunction DEF WithSecret
  <1>4. WithSecret(doc, c) \in Doc
    BY <1>2, <1>3, DocMade
  <1> QED
    BY <1>4 DEF WithSecret

-----------------------------------------------------------------------------
(* Type correctness.                                                        *)

AnswerType == [status : {"pending", "ok", "err"}, content : Payload \cup {Empty}]

LEMMA AnswersTyped ==
    /\ Pending \in AnswerType
    /\ Err \in AnswerType
    /\ \A v \in Payload \cup {Empty} : Ok(v) \in AnswerType
  BY DEF Pending, Err, Ok, AnswerType

LEMMA InitTyped == Init => TypeOK
  <1> SUFFICES ASSUME Init PROVE TypeOK
    OBVIOUS
  <1>1. [{OtherKey} -> Object] \subseteq Doc
    <2> SUFFICES ASSUME NEW d \in [{OtherKey} -> Object] PROVE d \in Doc
      OBVIOUS
    <2>1. {OtherKey} \in SUBSET Key
      BY DEF Key
    <2>2. d \in [{OtherKey} -> Payload]
      BY DEF Payload
    <2> QED
      BY <2>1, <2>2, DocMade
  <1>2. docs \in [Builder -> Doc \cup {Absent, Opaque}] /\ kv \in [Builder -> Payload \cup {Empty, Absent}]
    BY <1>1 DEF Init
  <1>3. answer \in [Call -> AnswerType]
    BY AnswersTyped DEF Init
  <1> QED
    BY <1>2, <1>3, StoreFaultsAssumption DEF Init, TypeOK, AnswerType

(* A call that returns: only its own program counter and answer change.     *)
LEMMA ReturnTyped ==
    ASSUME TypeOK, NEW c \in Call, NEW a \in AnswerType, Return(c, a)
    PROVE  /\ backend' \in Backend
           /\ call' \in [Call -> CallType]
           /\ pc' \in [Call -> {"start", "write", "done"}]
           /\ seen' \in [Call -> Doc \cup {Absent}]
           /\ answer' \in [Call -> AnswerType]
  <1> USE DEF TypeOK, Return, AnswerType
  <1>1. pc' \in [Call -> {"start", "write", "done"}] /\ backend' \in Backend /\ call' \in [Call -> CallType]
    OBVIOUS
  <1>2. seen' \in [Call -> Doc \cup {Absent}]
    OBVIOUS
  <1>3. answer' \in [Call -> AnswerType]
    OBVIOUS
  <1> QED
    BY <1>1, <1>2, <1>3

LEMMA AnsweredTyped ==
    ASSUME TypeOK, NEW c \in Call, NEW a \in AnswerType, Answered(c, a)
    PROVE  TypeOK'
  <1>1. Return(c, a) /\ UNCHANGED <<docs, kv, faults>>
    BY DEF Answered
  <1> QED
    BY <1>1, ReturnTyped DEF TypeOK, AnswerType

LEMMA FaultTyped == TypeOK /\ Fault => faults' \in 0..MaxFaults
  BY StoreFaultsAssumption DEF TypeOK, Fault

LEMMA WrittenTyped ==
    ASSUME TypeOK, NEW c \in Call, Written(c),
           docs' \in [Builder -> Doc \cup {Absent, Opaque}], kv' \in [Builder -> Payload \cup {Empty, Absent}]
    PROVE  TypeOK'
  <1>1. PICK a \in {Ok(Empty), Err} : Return(c, a) /\ (UNCHANGED faults \/ Fault)
    BY DEF Written
  <1>2. a \in AnswerType
    BY AnswersTyped
  <1>3. faults' \in 0..MaxFaults
    BY <1>1, FaultTyped DEF TypeOK
  <1> QED
    BY <1>1, <1>2, <1>3, ReturnTyped DEF TypeOK, AnswerType

LEMMA StoredTyped ==
    ASSUME TypeOK, NEW c \in Call
    PROVE  Stored(c) \in Payload \cup {Empty}
  BY RoundedAssumption DEF TypeOK, CallType, Stored, Payload

(* What is known of a call by its step.  A call that writes has a payload.  *)
SetsHavePayload == \A c \in Call : call[c].op = "set" => call[c].payload \in Payload

(* A call that has read a document is a write of the AWS store.             *)
ReadersWrite == \A c \in Call : pc[c] = "write" => backend = "aws" /\ call[c].op = "set"

(* Nobody is answered twice.                                                *)
AnsweredOnce == \A c \in Call : pc[c] # "done" => answer[c] = Pending

(* Two documents that differ in key b at most.                              *)
Agree(d, e, b) ==
    /\ DOMAIN d \ {b} = DOMAIN e \ {b}
    /\ \A k \in DOMAIN d \ {b} : d[k] = e[k]

(* What a call has read is stale in the builder's own key at most.          *)
ReadStillTrue ==
    \A c \in Call : pc[c] = "write" /\ seen[c] # Absent =>
        /\ docs[call[c].builder] \notin {Absent, Opaque}
        /\ Agree(seen[c], docs[call[c].builder], call[c].builder)

(* The inductive invariant.                                                 *)
StoreInv == TypeOK /\ SetsHavePayload /\ ReadersWrite /\ AnsweredOnce /\ ReadStillTrue

(* The actions by what they do to the store.                                *)

(* What a call that leaves the store alone may return.                      *)
QuietAnswer(c, a) == a = Err \/ (call[c].op = "get" /\ a = Ok(ContentOf(call[c].builder)))

Quiet(c) ==
    /\ pc[c] # "done"
    /\ \E a \in AnswerType : QuietAnswer(c, a) /\ Return(c, a)
    /\ UNCHANGED <<docs, kv>>
    /\ faults' \in 0..MaxFaults

(* A write of a document, or of a value.                                    *)
DocWritten(c, doc) ==
    /\ pc[c] = "write"
    /\ call[c].payload \notin Malformed
    /\ \/ seen[c] = Absent /\ docs[call[c].builder] = Absent /\ doc = NoKeys
       \/ seen[c] # Absent /\ doc = seen[c]
    /\ WriteDoc(c, WithSecret(doc, c))

KvWritten(c) ==
    /\ pc[c] = "start" /\ backend # "aws" /\ call[c].op = "set"
    /\ SetKv(c)
    /\ Written(c)

LEMMA AnsweredIsQuiet ==
    ASSUME TypeOK, NEW c \in Call, NEW a \in AnswerType, pc[c] # "done",
           QuietAnswer(c, a), Answered(c, a)
    PROVE  Quiet(c)
  BY DEF Answered, Quiet, TypeOK

LEMMA FailIsQuiet ==
    ASSUME TypeOK, NEW c \in Call, Fail(c)
    PROVE  Quiet(c)
  <1>1. pc[c] # "done" /\ Fault /\ Return(c, Err) /\ UNCHANGED <<docs, kv>>
    BY DEF Fail
  <1> QED
    BY <1>1, FaultTyped, AnswersTyped DEF Quiet, QuietAnswer

LEMMA AwsGetAnswer ==
    ASSUME TypeOK, NEW c \in Call, AwsGet(c)
    PROVE  /\ pc[c] = "start" /\ backend = "aws" /\ call[c].op = "get"
           /\ \/ Answered(c, Ok(ContentOf(call[c].builder))) /\ Ok(ContentOf(call[c].builder)) \in AnswerType
              \/ Answered(c, Err)
  <1> DEFINE b == call[c].builder
  <1>1. b \in Builder /\ DocOf(c) = docs[b] /\ secretName(b) = b
    BY DEF TypeOK, CallType, DocOf, secretName
  <1>2. pc[c] = "start" /\ backend = "aws" /\ call[c].op = "get"
    BY DEF AwsGet, Starts
  <1>3. CASE docs[b] = Absent
    <2>1. Answered(c, Ok(Empty)) /\ ContentOf(b) = Empty
      BY <1>1, <1>2, <1>3 DEF AwsGet, ContentOf
    <2> QED
      BY <1>2, <2>1, AnswersTyped
  <1>4. CASE docs[b] \notin {Absent, Opaque} /\ b \in DOMAIN docs[b]
    <2>1. Answered(c, Ok(docs[b][b])) /\ ContentOf(b) = docs[b][b]
      BY <1>1, <1>2, <1>4 DEF AwsGet, ContentOf
    <2>2. docs[b] \in Doc
      BY <1>1, <1>4 DEF TypeOK
    <2>3. docs[b][b] \in Payload
      BY <1>4, <2>2, DocIsFunction
    <2> QED
      BY <1>2, <2>1, <2>3, AnswersTyped
  <1>5. CASE docs[b] # Absent /\ (docs[b] = Opaque \/ b \notin DOMAIN docs[b])
    BY <1>1, <1>2, <1>5 DEF AwsGet
  <1> QED
    BY <1>3, <1>4, <1>5

(* Every step is one of four kinds.                                         *)
LEMMA StepKinds ==
    ASSUME StoreInv, NEW c \in Call, Step(c)
    PROVE  \/ Quiet(c)
           \/ AwsRead(c)
           \/ \E doc \in Doc : DocWritten(c, doc)
           \/ KvWritten(c)
  <1> USE DEF StoreInv, QuietAnswer
  <1>0. /\ call[c].builder \in Builder /\ DocOf(c) = docs[call[c].builder]
        /\ InKv(call[c].builder) \in Payload \cup {Empty}
        /\ backend # "aws" => ContentOf(call[c].builder) = InKv(call[c].builder)
    BY DEF TypeOK, CallType, DocOf, secretName, ContentOf, InKv
  <1>1. CASE AwsGet(c)
    BY <1>1, AwsGetAnswer, AnswersTyped, AnsweredIsQuiet
  <1>2. CASE AwsRead(c)
    BY <1>2
  <1>3. CASE AwsMarshalFails(c)
    BY <1>3, AnswersTyped, AnsweredIsQuiet DEF AwsMarshalFails
  <1>4. CASE AwsCreate(c)
    <2>1. CASE DocOf(c) = Absent
      BY <1>0, <1>4, <2>1, NoKeysIsDoc DEF AwsCreate, DocWritten
    <2>2. CASE DocOf(c) # Absent
      BY <1>4, <2>2, AnswersTyped, AnsweredIsQuiet DEF AwsCreate
    <2> QED
      BY <2>1, <2>2
  <1>5. CASE AwsPut(c)
    <2>1. seen[c] \in Doc
      BY <1>5 DEF AwsPut, TypeOK
    <2> QED
      BY <1>5, <2>1 DEF AwsPut, DocWritten
  <1>6. CASE VaultGet(c)
    <2>1. CASE kv[call[c].builder] = Absent
      BY <1>6, <2>1, AnswersTyped, AnsweredIsQuiet DEF VaultGet, Starts
    <2>2. CASE kv[call[c].builder] # Absent
      BY <1>0, <1>6, <2>2, AnswersTyped, AnsweredIsQuiet DEF VaultGet, Starts, InKv
    <2> QED
      BY <2>1, <2>2
  <1>7. CASE VaultUnmarshalFails(c)
    BY <1>7, AnswersTyped, AnsweredIsQuiet DEF VaultUnmarshalFails, Starts
  <1>8. CASE VaultPut(c)
    <2>1. CASE SetKv(c) /\ Written(c)
      BY <1>8, <2>1 DEF VaultPut, Starts, KvWritten
    <2>2. CASE Answered(c, Err)
      BY <1>8, <2>2, AnswersTyped, AnsweredIsQuiet DEF VaultPut, Starts
    <2> QED
      BY <1>8, <2>1, <2>2 DEF VaultPut
  <1>9. CASE MemGet(c)
    BY <1>0, <1>9, AnswersTyped, AnsweredIsQuiet DEF MemGet, Starts
  <1>10. CASE MemSet(c)
    BY <1>10 DEF MemSet, Starts, KvWritten, Written
  <1>11. CASE Fail(c)
    BY <1>11, FailIsQuiet
  <1>12. CASE AwsUnmarshalFails(c)
    BY <1>12, AnswersTyped, AnsweredIsQuiet DEF AwsUnmarshalFails, Starts
  <1> QED
    BY <1>1, <1>2, <1>3, <1>4, <1>5, <1>6, <1>7, <1>8, <1>9, <1>10, <1>11, <1>12 DEF Step

(* A step of a call leaves the other calls alone.                           *)
LEMMA ReturnAlone ==
    ASSUME TypeOK, NEW c \in Call, NEW a \in AnswerType, Return(c, a)
    PROVE  /\ pc'[c] = "done" /\ answer'[c] = a
           /\ \A d \in Call \ {c} : pc'[d] = pc[d] /\ seen'[d] = seen[d] /\ answer'[d] = answer[d]
           /\ UNCHANGED <<backend, call>>
  BY DEF TypeOK, Return

LEMMA WrittenReturns ==
    ASSUME TypeOK, NEW c \in Call, Written(c)
    PROVE  \E a \in {Ok(Empty), Err} : a \in AnswerType /\ Return(c, a)
  BY AnswersTyped DEF Written

(* The document after a write.                                              *)
LEMMA DocAfter ==
    ASSUME StoreInv, NEW c \in Call, NEW doc \in Doc, DocWritten(c, doc)
    PROVE  /\ backend = "aws" /\ call[c].op = "set"
           /\ call[c].builder \in Builder
           /\ docs[call[c].builder] # Opaque
           /\ WithSecret(doc, c) \in Doc /\ WithSecret(doc, c) \notin {Absent, Opaque}
           /\ docs' = [docs EXCEPT ![call[c].builder] = WithSecret(doc, c)]
           /\ docs' \in [Builder -> Doc \cup {Absent, Opaque}]
           /\ Written(c) /\ UNCHANGED kv
           /\ call[c].builder \in DOMAIN WithSecret(doc, c)
           /\ WithSecret(doc, c)[call[c].builder] = call[c].payload
           /\ docs[call[c].builder] # Absent =>
                  Agree(docs[call[c].builder], WithSecret(doc, c), call[c].builder)
  <1> DEFINE b == call[c].builder
             new == WithSecret(doc, c)
  <1>1. backend = "aws" /\ call[c].op = "set" /\ call[c].payload \in Payload /\ b \in Builder
    BY DEF StoreInv, TypeOK, CallType, DocWritten, ReadersWrite, SetsHavePayload
  <1>2. /\ new \in Doc
        /\ DOMAIN new = DOMAIN doc \cup {b}
        /\ new[b] = call[c].payload
        /\ \A k \in DOMAIN doc \ {b} : new[k] = doc[k]
    BY <1>1, SecretAdded DEF StoreInv
  <1>3. new \notin {Absent, Opaque}
    BY <1>2, AbsentAssumption, OpaqueAssumption
  <1>4. docs' = [docs EXCEPT ![b] = new] /\ Written(c) /\ UNCHANGED kv
    BY DEF DocWritten, WriteDoc, secretName
  <1>5. docs' \in [Builder -> Doc \cup {Absent, Opaque}]
    BY <1>2, <1>4 DEF StoreInv, TypeOK
  <1>6. ASSUME docs[b] # Absent PROVE Agree(docs[b], new, b)
    <2>1. doc = seen[c] /\ pc[c] = "write" /\ seen[c] # Absent
      BY <1>6 DEF DocWritten
    <2>2. Agree(doc, docs[b], b)
      BY <2>1 DEF StoreInv, ReadStillTrue
    <2> QED
      BY <1>2, <2>2 DEF Agree
  <1>7. docs[b] # Opaque
    BY OpaqueAssumption DEF DocWritten, StoreInv, ReadStillTrue
  <1> QED
    BY <1>1, <1>2, <1>3, <1>4, <1>5, <1>6, <1>7

LEMMA StoreInit == Init => StoreInv
  <1> SUFFICES ASSUME Init PROVE StoreInv
    OBVIOUS
  <1>1. TypeOK
    BY InitTyped
  <1>2. SetsHavePayload
    <2> SUFFICES ASSUME NEW c \in Call, call[c].op = "set" PROVE call[c].payload \in Payload
      BY DEF SetsHavePayload
    <2>1. call[c].payload \in Payload \cup {Empty}
      BY <1>1 DEF TypeOK, CallType
    <2>2. call[c].payload # Empty
      BY DEF Init
    <2> QED
      BY <2>1, <2>2
  <1> QED
    BY <1>1, <1>2 DEF Init, StoreInv, ReadersWrite, AnsweredOnce, ReadStillTrue

LEMMA StoreQuiet ==
    ASSUME StoreInv, NEW c \in Call, Quiet(c)
    PROVE  StoreInv'
  <1> USE DEF StoreInv
  <1>1. PICK a \in AnswerType : Return(c, a)
    BY DEF Quiet
  <1>2. TypeOK'
    BY <1>1, ReturnTyped DEF Quiet, TypeOK, AnswerType
  <1> QED
    BY <1>1, <1>2, ReturnAlone DEF Quiet, SetsHavePayload, ReadersWrite, AnsweredOnce, ReadStillTrue

LEMMA StoreRead ==
    ASSUME StoreInv, NEW c \in Call, AwsRead(c)
    PROVE  StoreInv'
  <1> USE DEF StoreInv
  <1> DEFINE b == call[c].builder
  <1>1. /\ b \in Builder /\ docs[b] \in Doc \cup {Absent} /\ docs[b] # Opaque
        /\ pc[c] = "start" /\ backend = "aws" /\ call[c].op = "set"
        /\ pc' = [pc EXCEPT ![c] = "write"] /\ seen' = [seen EXCEPT ![c] = docs[b]]
        /\ UNCHANGED <<backend, call, docs, kv, answer, faults>>
    BY DEF TypeOK, CallType, AwsRead, Starts, DocOf, secretName
  <1>2. TypeOK'
    BY <1>1 DEF TypeOK
  <1>3. /\ pc'[c] = "write" /\ seen'[c] = docs[b]
        /\ \A d \in Call \ {c} : pc'[d] = pc[d] /\ seen'[d] = seen[d]
    BY <1>1 DEF TypeOK
  <1>4. SetsHavePayload' /\ ReadersWrite' /\ AnsweredOnce'
    BY <1>1, <1>3 DEF SetsHavePayload, ReadersWrite, AnsweredOnce
  <1>5. ReadStillTrue'
    BY <1>1, <1>3 DEF ReadStillTrue, Agree
  <1> QED
    BY <1>2, <1>4, <1>5

LEMMA StoreDocWritten ==
    ASSUME StoreInv, NEW c \in Call, NEW doc \in Doc, DocWritten(c, doc)
    PROVE  StoreInv'
  <1> USE DEF StoreInv
  <1> DEFINE b == call[c].builder
             new == WithSecret(doc, c)
  <1>1. /\ b \in Builder
        /\ new \notin {Absent, Opaque}
        /\ docs' = [docs EXCEPT ![b] = new]
        /\ docs' \in [Builder -> Doc \cup {Absent, Opaque}]
        /\ Written(c) /\ UNCHANGED kv
        /\ docs[b] # Absent => Agree(docs[b], new, b)
    BY DocAfter
  <1>2. PICK a \in AnswerType : Return(c, a)
    BY <1>1, WrittenReturns
  <1>3. TypeOK'
    BY <1>1, WrittenTyped DEF TypeOK
  <1>4. SetsHavePayload' /\ ReadersWrite' /\ AnsweredOnce'
    BY <1>2, ReturnAlone DEF SetsHavePayload, ReadersWrite, AnsweredOnce
  <1>5. ReadStillTrue'
    <2> SUFFICES ASSUME NEW d \in Call, pc'[d] = "write", seen'[d] # Absent
                 PROVE  /\ docs'[call[d].builder] \notin {Absent, Opaque}
                        /\ Agree(seen'[d], docs'[call[d].builder], call[d].builder)
      BY <1>2, ReturnAlone DEF ReadStillTrue
    <2>1. d # c /\ pc[d] = "write" /\ seen'[d] = seen[d]
      BY <1>2, ReturnAlone
    <2>2. docs[call[d].builder] \notin {Absent, Opaque} /\ Agree(seen[d], docs[call[d].builder], call[d].builder)
      BY <2>1 DEF ReadStillTrue
    <2>3. call[d].builder \in Builder
      BY DEF TypeOK, CallType
    <2>4. CASE call[d].builder = b
      <3>1. docs'[b] = new
        BY <1>1 DEF TypeOK
      <3> QED
        BY <1>1, <2>1, <2>2, <2>4, <3>1 DEF Agree
    <2>5. CASE call[d].builder # b
      BY <1>1, <2>1, <2>2, <2>3, <2>5 DEF TypeOK
    <2> QED
      BY <2>4, <2>5
  <1> QED
    BY <1>3, <1>4, <1>5

LEMMA StoreKvWritten ==
    ASSUME StoreInv, NEW c \in Call, KvWritten(c)
    PROVE  StoreInv'
  <1> USE DEF StoreInv
  <1>1. PICK a \in AnswerType : Return(c, a)
    BY WrittenReturns DEF KvWritten
  <1>2. kv' \in [Builder -> Payload \cup {Empty, Absent}] /\ UNCHANGED docs
    BY StoredTyped DEF KvWritten, SetKv, TypeOK
  <1>3. TypeOK'
    BY <1>2, WrittenTyped DEF TypeOK, KvWritten
  <1> QED
    BY <1>1, <1>2, <1>3, ReturnAlone DEF SetsHavePayload, ReadersWrite, AnsweredOnce, ReadStillTrue

LEMMA StoreStep == StoreInv /\ [Next]_vars => StoreInv'
  <1> SUFFICES ASSUME StoreInv, [Next]_vars PROVE StoreInv'
    OBVIOUS
  <1>1. CASE UNCHANGED vars
    BY <1>1 DEF vars, StoreInv, TypeOK, SetsHavePayload, ReadersWrite, AnsweredOnce, ReadStillTrue
  <1>2. ASSUME NEW c \in Call, Step(c) PROVE StoreInv'
    BY <1>2, StepKinds, StoreQuiet, StoreRead, StoreDocWritten, StoreKvWritten
  <1> QED
    BY <1>1, <1>2 DEF Next, Terminated

LEMMA StoreInvariant == Spec => []StoreInv
  BY StoreInit, StoreStep, PTL DEF Spec

(* Every store keeps its types (GetSecretValues and SetSecretValues of the  *)
(* three adapters).                                                         *)
THEOREM StoreTypeCorrect == Spec => []TypeOK
  <1>1. StoreInv => TypeOK
    BY DEF StoreInv
  <1> QED
    BY <1>1, StoreInvariant, PTL

(* SetSecretValues of the AWS store writes back a document it read earlier; *)
(* still no key but the builder's ever changes, since the others were and   *)
(* are the same in what it read, and it does not write what it cannot read. *)
THEOREM NoOtherKeyLost == Spec => OtherKeysKept
  <1> DEFINE Kept(n) ==
               /\ docs[n] = Opaque => docs'[n] = Opaque
               /\ docs[n] \notin {Absent, Opaque} =>
                     /\ docs'[n] \notin {Absent, Opaque}
                     /\ \A k \in DOMAIN docs[n] \ {n} : k \in DOMAIN docs'[n] /\ docs'[n][k] = docs[n][k]
  <1>1. StoreInv /\ [Next]_vars => [\A n \in Builder : Kept(n)]_vars
    <2> SUFFICES ASSUME StoreInv, Next, NEW n \in Builder
                 PROVE  Kept(n)
      OBVIOUS
    <2>1. CASE UNCHANGED docs
      BY <2>1
    <2>2. ASSUME NEW c \in Call, NEW doc \in Doc, DocWritten(c, doc)
          PROVE  Kept(n)
      <3> DEFINE b == call[c].builder
                 new == WithSecret(doc, c)
      <3>1. /\ b \in Builder /\ new \notin {Absent, Opaque} /\ docs[b] # Opaque
            /\ docs' = [docs EXCEPT ![b] = new]
            /\ docs[b] # Absent => Agree(docs[b], new, b)
        BY <2>2, DocAfter
      <3>2. CASE n = b
        <4>1. docs'[n] = new
          BY <3>1, <3>2 DEF StoreInv, TypeOK
        <4> QED
          BY <3>1, <3>2, <4>1 DEF Agree
      <3>3. CASE n # b
        BY <3>1, <3>3 DEF StoreInv, TypeOK
      <3> QED
        BY <3>2, <3>3
    <2>3. ASSUME NEW c \in Call, Step(c) PROVE UNCHANGED docs \/ \E doc \in Doc : DocWritten(c, doc)
      BY <2>3, StepKinds DEF Quiet, AwsRead, KvWritten, SetKv
    <2> QED
      BY <2>1, <2>2, <2>3 DEF Next, Terminated, vars
  <1> QED
    BY <1>1, StoreInvariant, PTL DEF Spec, OtherKeysKept
-----------------------------------------------------------------------------
(* The stores implement the register.                                       *)

AbsCall == [c \in Call |-> [op |-> call[c].op, builder |-> call[c].builder, content |-> Stored(c)]]
AbsValue == [b \in Builder |-> ContentOf(b)]

LEMMA SameAnswers ==
    /\ Abs!Pending = Pending
    /\ Abs!Err = Err
    /\ \A v : Abs!Ok(v) = Ok(v)
  BY DEF Abs!Pending, Abs!Err, Abs!Ok, Pending, Err, Ok

LEMMA ContentTyped ==
    ASSUME TypeOK, NEW b \in Builder
    PROVE  ContentOf(b) \in Payload \cup {Empty}
  <1>1. CASE backend # "aws" \/ docs[b] \in {Absent, Opaque} \/ b \notin DOMAIN docs[b]
    BY <1>1 DEF ContentOf, TypeOK, secretName, InKv
  <1>2. CASE backend = "aws" /\ docs[b] \notin {Absent, Opaque} /\ b \in DOMAIN docs[b]
    <2>1. docs[b] \in Doc
      BY <1>2 DEF TypeOK
    <2>2. docs[b][b] \in Payload
      BY <1>2, <2>1, DocIsFunction
    <2> QED
      BY <1>2, <2>2 DEF ContentOf, secretName
  <1> QED
    BY <1>1, <1>2

LEMMA RefinesInit == Init => Abs!Init
  <1> SUFFICES ASSUME Init PROVE Abs!Init
    OBVIOUS
  <1>1. TypeOK
    BY InitTyped
  <1>2. AbsCall \in [Call -> [op : {"get", "set"}, builder : Builder, content : Payload \cup {Empty}]]
    <2> SUFFICES ASSUME NEW c \in Call
                 PROVE  [op |-> call[c].op, builder |-> call[c].builder, content |-> Stored(c)]
                            \in [op : {"get", "set"}, builder : Builder, content : Payload \cup {Empty}]
      BY DEF AbsCall
    <2>1. call[c].op \in {"get", "set"} /\ call[c].builder \in Builder
      BY <1>1 DEF TypeOK, CallType
    <2> QED
      BY <1>1, <2>1, StoredTyped
  <1>3. AbsValue \in [Builder -> Payload \cup {Empty}]
    BY <1>1, ContentTyped DEF AbsValue
  <1>4. answer = [c \in Call |-> Abs!Pending]
    BY SameAnswers DEF Init
  <1> QED
    BY <1>2, <1>3, <1>4 DEF Abs!Init, AbsCall, AbsValue

(* The steps of the register, in terms of the store.                        *)
LEMMA AbsSteps ==
    ASSUME TypeOK, NEW c \in Call, NEW a,
           answer[c] = Pending, answer' = [answer EXCEPT ![c] = a], UNCHANGED <<backend, call>>
    PROVE  /\ a = Err /\ UNCHANGED AbsValue => Abs!Next
           /\ call[c].op = "get" /\ a = Ok(ContentOf(call[c].builder)) /\ UNCHANGED AbsValue => Abs!Next
           /\ /\ call[c].op = "set"
              /\ a \in {Ok(Empty), Err}
              /\ AbsValue' = [AbsValue EXCEPT ![call[c].builder] = Stored(c)]
              => Abs!Next
  <1>1. call[c].builder \in Builder
    BY DEF TypeOK, CallType
  <1>2. AbsCall' = AbsCall
    BY DEF AbsCall, Stored
  <1>3. /\ AbsCall[c].op = call[c].op
        /\ AbsCall[c].builder = call[c].builder
        /\ AbsCall[c].content = Stored(c)
    BY DEF AbsCall
  <1>4. Abs!Answer(c, a)
    BY SameAnswers DEF Abs!Answer
  <1>5. a = Err /\ UNCHANGED AbsValue => Abs!Refuse(c)
    BY <1>2, <1>4, SameAnswers DEF Abs!Refuse, AbsCall, AbsValue
  <1>6. call[c].op = "get" /\ a = Ok(ContentOf(call[c].builder)) /\ UNCHANGED AbsValue => Abs!Read(c)
    <2>1. AbsValue[call[c].builder] = ContentOf(call[c].builder)
      BY <1>1 DEF AbsValue
    <2> QED
      BY <1>2, <1>3, <1>4, <2>1, SameAnswers DEF Abs!Read, AbsCall, AbsValue
  <1>7. /\ call[c].op = "set"
        /\ a \in {Ok(Empty), Err}
        /\ AbsValue' = [AbsValue EXCEPT ![call[c].builder] = Stored(c)]
        => Abs!Write(c)
    <2> SUFFICES ASSUME call[c].op = "set", a \in {Ok(Empty), Err},
                        AbsValue' = [AbsValue EXCEPT ![call[c].builder] = Stored(c)]
                 PROVE  Abs!Write(c)
      OBVIOUS
    <2>1. \E x \in {Abs!Ok(Empty), Abs!Err} : Abs!Answer(c, x)
      BY <1>4, SameAnswers
    <2>2. AbsValue' = [AbsValue EXCEPT ![AbsCall[c].builder] = AbsCall[c].content]
      BY <1>3
    <2> QED
      BY <1>2, <1>3, <2>1, <2>2 DEF Abs!Write, AbsCall, AbsValue
  <1> QED
    BY <1>5, <1>6, <1>7 DEF Abs!Next

LEMMA SameContent == UNCHANGED <<backend, docs, kv>> => UNCHANGED AbsValue
  BY DEF AbsValue, ContentOf, secretName, InKv

LEMMA RefinesStep ==
    ASSUME StoreInv, NEW c \in Call, Step(c)
    PROVE  Abs!Next \/ UNCHANGED <<AbsCall, AbsValue, answer>>
  <1>0. TypeOK /\ call[c].builder \in Builder /\ (pc[c] # "done" => answer[c] = Pending)
    BY DEF StoreInv, TypeOK, CallType, AnsweredOnce
  <1> DEFINE b == call[c].builder
  <1>1. CASE AwsRead(c)
    <2>1. UNCHANGED <<backend, call, docs, kv, answer>>
      BY <1>1 DEF AwsRead
    <2> QED
      BY <2>1, SameContent DEF AbsCall, Stored
  <1>2. ASSUME NEW doc \in Doc, DocWritten(c, doc)
        PROVE  Abs!Next
    <2> DEFINE new == WithSecret(doc, c)
    <2>1. /\ backend = "aws" /\ call[c].op = "set"
          /\ new \notin {Absent, Opaque}
          /\ docs' = [docs EXCEPT ![b] = new]
          /\ Written(c) /\ UNCHANGED kv
          /\ b \in DOMAIN new /\ new[b] = call[c].payload
      BY <1>2, DocAfter
    <2>2. PICK a \in {Ok(Empty), Err} : Return(c, a)
      BY <2>1, WrittenReturns, <1>0
    <2>3. /\ answer[c] = Pending /\ answer' = [answer EXCEPT ![c] = a]
          /\ UNCHANGED <<backend, call>>
      BY <1>0, <1>2, <2>2 DEF Return, DocWritten
    <2>4. Stored(c) = call[c].payload
      BY <2>1 DEF Stored
    <2>5. ASSUME NEW x \in Builder
          PROVE  ContentOf(x)' = IF x = b THEN Stored(c) ELSE ContentOf(x)
      <3>1. CASE x = b
        <4>1. docs'[x] = new
          BY <1>0, <2>1, <3>1 DEF TypeOK
        <4> QED
          BY <2>1, <2>3, <2>4, <3>1, <4>1 DEF ContentOf, secretName
      <3>2. CASE x # b
        <4>1. docs'[x] = docs[x]
          BY <1>0, <2>1, <3>2 DEF TypeOK
        <4> QED
          BY <2>1, <2>3, <3>2, <4>1 DEF ContentOf, secretName
      <3> QED
        BY <3>1, <3>2
    <2>6. AbsValue' = [AbsValue EXCEPT ![b] = Stored(c)]
      BY <2>5, <1>0 DEF AbsValue
    <2> QED
      BY <1>0, <2>1, <2>2, <2>3, <2>6, AbsSteps
  <1>3. CASE KvWritten(c)
    <2>1. /\ backend # "aws" /\ call[c].op = "set" /\ pc[c] # "done"
          /\ kv' = [kv EXCEPT ![b] = Stored(c)]
          /\ Written(c)
      BY <1>3 DEF KvWritten, SetKv
    <2>2. PICK a \in {Ok(Empty), Err} : Return(c, a)
      BY <2>1, WrittenReturns, <1>0
    <2>3. /\ answer[c] = Pending /\ answer' = [answer EXCEPT ![c] = a]
          /\ UNCHANGED <<backend, call>>
      BY <1>0, <2>1, <2>2 DEF Return
    <2>4. ASSUME NEW x \in Builder
          PROVE  ContentOf(x)' = IF x = b THEN Stored(c) ELSE ContentOf(x)
      <3>1. Stored(c) # Absent
        BY <1>0, StoredTyped, AbsentAssumption
      <3> QED
        BY <1>0, <2>1, <2>3, <3>1 DEF ContentOf, InKv, TypeOK
    <2>5. AbsValue' = [AbsValue EXCEPT ![b] = Stored(c)]
      BY <2>4, <1>0 DEF AbsValue
    <2> QED
      BY <1>0, <2>1, <2>2, <2>3, <2>5, AbsSteps
  <1>4. CASE Quiet(c)
    <2>1. PICK a \in AnswerType : QuietAnswer(c, a) /\ Return(c, a)
      BY <1>4 DEF Quiet
    <2>2. /\ answer[c] = Pending /\ answer' = [answer EXCEPT ![c] = a]
          /\ UNCHANGED <<backend, call>>
      BY <1>0, <1>4, <2>1 DEF Quiet, Return
    <2>3. UNCHANGED AbsValue
      BY <1>4, <2>2, SameContent DEF Quiet
    <2> QED
      BY <1>0, <2>1, <2>2, <2>3, AbsSteps DEF QuietAnswer
  <1> QED
    BY <1>1, <1>2, <1>3, <1>4, StepKinds

(* Each of the three stores is a register per builder: SetSecretValues of   *)
(* the AWS store takes effect when its document is written, in spite of the *)
(* read before it, and a call answered with an error may have taken effect  *)
(* but never in part.                                                       *)
THEOREM StoresAreRegisters == Spec => AtomicSecrets
  <1>1. Init => Abs!Init
    BY RefinesInit
  <1>2. StoreInv /\ [Next]_vars => [Abs!Next]_(Abs!vars)
    <2> SUFFICES ASSUME StoreInv, [Next]_vars PROVE Abs!Next \/ UNCHANGED Abs!vars
      OBVIOUS
    <2>1. UNCHANGED <<AbsCall, AbsValue, answer>> => UNCHANGED Abs!vars
      BY DEF Abs!vars, AbsCall, AbsValue
    <2>2. CASE UNCHANGED vars
      <3>1. UNCHANGED <<backend, call, docs, kv, answer>>
        BY <2>2 DEF vars
      <3> QED
        BY <2>1, <3>1, SameContent DEF AbsCall, Stored
    <2>3. ASSUME NEW c \in Call, Step(c) PROVE Abs!Next \/ UNCHANGED Abs!vars
      BY <2>1, <2>3, RefinesStep
    <2> QED
      BY <2>2, <2>3 DEF Next, Terminated
  <1> QED
    BY <1>1, <1>2, StoreInvariant, PTL DEF Spec, AtomicSecrets, Abs!Spec
-----------------------------------------------------------------------------
(* Competing writes.                                                        *)

(* Somebody's write for the same builder as c's was acknowledged.           *)
Rivalled(c) ==
    \E d \in Call : call[d].op = "set" /\ call[d].builder = call[c].builder /\ answer[d].status = "ok"

(* Without faults, a call is refused for somebody else's success only, and  *)
(* the document that a call has missed was made by such a success.          *)
WinInv ==
    faults = 0 =>
        /\ \A c \in Call : pc[c] = "done" /\ call[c].op = "set" /\ Storable(c) => Rivalled(c)
        /\ \A c \in Call : pc[c] = "write" /\ seen[c] = Absent /\ docs[call[c].builder] # Absent => Rivalled(c)

LEMMA StorableHow ==
    ASSUME TypeOK, NEW c \in Call, Storable(c)
    PROVE  /\ backend = "aws" => call[c].payload \notin Malformed
           /\ backend = "vault" => call[c].payload \in Object
           /\ DocOf(c) # Opaque
  <1>1. CASE backend = "aws"
    BY <1>1 DEF Storable
  <1>2. CASE backend = "vault"
    BY <1>2 DEF Storable
  <1>3. CASE backend = "mock"
    BY <1>3 DEF Storable
  <1> QED
    BY <1>1, <1>2, <1>3 DEF TypeOK, Backend

(* An acknowledgement is for ever, and the calls stay what they are.        *)
LEMMA RivalsStay ==
    ASSUME StoreInv, NEW c \in Call, Step(c), NEW d \in Call
    PROVE  /\ Rivalled(d) => Rivalled(d)'
           /\ Storable(d)' = Storable(d)
           /\ UNCHANGED <<backend, call>>
           /\ faults' = 0 => faults = 0
           /\ d # c => pc'[d] = pc[d] /\ seen'[d] = seen[d]
  <1>0. TypeOK /\ (pc[c] # "done" => answer[c] = Pending) /\ Pending.status # "ok"
    BY DEF StoreInv, AnsweredOnce, Pending
  <1>1. pc[c] # "done" /\ UNCHANGED <<backend, call>>
    <2>1. CASE Quiet(c)
      BY <2>1 DEF Quiet, Return
    <2>2. CASE AwsRead(c)
      BY <2>2 DEF AwsRead, Starts
    <2>3. ASSUME NEW doc \in Doc, DocWritten(c, doc) PROVE pc[c] # "done" /\ UNCHANGED <<backend, call>>
      BY <2>3, <1>0, WrittenReturns DEF DocWritten, WriteDoc, Return
    <2>4. CASE KvWritten(c)
      BY <2>4, <1>0, WrittenReturns DEF KvWritten, Return
    <2> QED
      BY <2>1, <2>2, <2>3, <2>4, StepKinds
  <1>2. \A e \in Call \ {c} : pc'[e] = pc[e] /\ seen'[e] = seen[e] /\ answer'[e] = answer[e]
    <2>1. CASE Quiet(c)
      BY <2>1, <1>0, ReturnAlone DEF Quiet
    <2>2. CASE AwsRead(c)
      BY <2>2, <1>0 DEF AwsRead, TypeOK
    <2>3. ASSUME NEW doc \in Doc, DocWritten(c, doc)
          PROVE  \A e \in Call \ {c} : pc'[e] = pc[e] /\ seen'[e] = seen[e] /\ answer'[e] = answer[e]
      BY <2>3, <1>0, WrittenReturns, ReturnAlone DEF DocWritten, WriteDoc
    <2>4. CASE KvWritten(c)
      BY <2>4, <1>0, WrittenReturns, ReturnAlone DEF KvWritten
    <2> QED
      BY <2>1, <2>2, <2>3, <2>4, StepKinds
  <1>3. Rivalled(d) => Rivalled(d)'
    <2> SUFFICES ASSUME NEW e \in Call, call[e].op = "set", call[e].builder = call[d].builder,
                        answer[e].status = "ok"
                 PROVE  Rivalled(d)'
      BY DEF Rivalled
    <2>1. e # c
      BY <1>0, <1>1
    <2> QED
      BY <1>1, <1>2, <2>1 DEF Rivalled
  <1>4. Storable(d)' = Storable(d)
    <2>1. call[d].builder \in Builder
      BY <1>0 DEF TypeOK, CallType
    <2>2. docs'[call[d].builder] = Opaque <=> docs[call[d].builder] = Opaque
      <3>1. CASE UNCHANGED docs
        BY <3>1
      <3>2. ASSUME NEW doc \in Doc, DocWritten(c, doc)
            PROVE  docs'[call[d].builder] = Opaque <=> docs[call[d].builder] = Opaque
        BY <1>0, <2>1, <3>2, DocAfter DEF TypeOK
      <3> QED
        BY <3>1, <3>2, StepKinds DEF Quiet, AwsRead, KvWritten, SetKv
    <2> QED
      BY <1>1, <2>2 DEF Storable, DocOf, secretName
  <1>5. UNCHANGED faults \/ Fault
    BY DEF Step, AwsGet, AwsRead, AwsUnmarshalFails, AwsMarshalFails, AwsCreate, AwsPut, VaultGet, VaultUnmarshalFails,
           VaultPut, MemGet, MemSet, Fail, Answered, WriteDoc, Written
  <1>6. faults' = 0 => faults = 0
    BY <1>0, <1>5 DEF TypeOK, Fault
  <1> QED
    BY <1>1, <1>2, <1>3, <1>4, <1>6

(* A write that was not disturbed is acknowledged.                          *)
LEMMA WrittenWins ==
    ASSUME TypeOK, NEW c \in Call, Written(c), faults' = 0, call[c].op = "set"
    PROVE  /\ UNCHANGED call
           /\ \A d \in Call : call[d].builder = call[c].builder => Rivalled(d)'
  <1>1. ~Fault
    BY DEF Fault, TypeOK
  <1>2. Return(c, Ok(Empty))
    BY <1>1 DEF Written
  <1>3. answer'[c].status = "ok"
    BY <1>2 DEF Return, TypeOK, Ok
  <1> QED
    BY <1>2, <1>3 DEF Return, Rivalled

LEMMA WinStep ==
    ASSUME StoreInv, WinInv, NEW c \in Call, Step(c)
    PROVE  WinInv'
  <1> SUFFICES ASSUME faults' = 0
               PROVE  /\ \A d \in Call : pc'[d] = "done" /\ call[d].op = "set" /\ Storable(d) => Rivalled(d)'
                      /\ \A d \in Call : pc'[d] = "write" /\ seen'[d] = Absent /\ docs'[call[d].builder] # Absent
                             => Rivalled(d)'
    BY RivalsStay DEF WinInv
  <1>0. TypeOK /\ faults = 0 /\ UNCHANGED call
    BY RivalsStay DEF StoreInv
  (* It is enough to look at c and at the document it writes.               *)
  <1>1. ASSUME pc'[c] = "done" /\ call[c].op = "set" /\ Storable(c) => Rivalled(c)',
               pc'[c] = "write" /\ seen'[c] = Absent /\ docs'[call[c].builder] # Absent => Rivalled(c)',
               \A d \in Call : docs'[call[d].builder] # Absent /\ docs[call[d].builder] = Absent => Rivalled(d)'
        PROVE  /\ \A d \in Call : pc'[d] = "done" /\ call[d].op = "set" /\ Storable(d) => Rivalled(d)'
               /\ \A d \in Call : pc'[d] = "write" /\ seen'[d] = Absent /\ docs'[call[d].builder] # Absent
                      => Rivalled(d)'
    BY <1>0, <1>1, RivalsStay DEF WinInv
  <1>2. ASSUME UNCHANGED docs, pc'[c] = "done", call[c].op = "set" /\ Storable(c) => Rivalled(c)'
        PROVE  /\ \A d \in Call : pc'[d] = "done" /\ call[d].op = "set" /\ Storable(d) => Rivalled(d)'
               /\ \A d \in Call : pc'[d] = "write" /\ seen'[d] = Absent /\ docs'[call[d].builder] # Absent
                      => Rivalled(d)'
    BY <1>1, <1>2
  <1>3. \A a : Answered(c, a) => pc'[c] = "done" /\ UNCHANGED docs
    BY <1>0 DEF Answered, Return, TypeOK
  <1>4. Written(c) => pc'[c] = "done"
    BY <1>0 DEF Written, Return, TypeOK
  <1>5. CASE AwsGet(c) \/ VaultGet(c) \/ MemGet(c)
    BY <1>2, <1>3, <1>5 DEF AwsGet, VaultGet, MemGet, Starts
  <1>6. CASE AwsRead(c)
    <2>1. /\ pc'[c] = "write" /\ seen'[c] = docs[call[c].builder] /\ UNCHANGED docs
      BY <1>0, <1>6 DEF AwsRead, DocOf, secretName, TypeOK
    <2> QED
      BY <1>1, <2>1
  <1>7. CASE AwsMarshalFails(c)
    <2>1. pc[c] = "write" /\ call[c].payload \in Malformed /\ Answered(c, Err)
      BY <1>7 DEF AwsMarshalFails
    <2>2. ~Storable(c)
      BY <1>0, <2>1, StorableHow DEF StoreInv, ReadersWrite
    <2> QED
      BY <1>2, <1>3, <2>1, <2>2
  <1>8. CASE AwsCreate(c) /\ DocOf(c) # Absent
    <2>1. pc[c] = "write" /\ seen[c] = Absent /\ Answered(c, Err)
      BY <1>8 DEF AwsCreate
    <2>2. Rivalled(c)
      BY <1>0, <1>8, <2>1 DEF WinInv, DocOf, secretName
    <2> QED
      BY <1>2, <1>3, <2>1, <2>2, RivalsStay
  <1>9. ASSUME NEW doc \in Doc, DocWritten(c, doc)
        PROVE  /\ \A d \in Call : pc'[d] = "done" /\ call[d].op = "set" /\ Storable(d) => Rivalled(d)'
               /\ \A d \in Call : pc'[d] = "write" /\ seen'[d] = Absent /\ docs'[call[d].builder] # Absent
                      => Rivalled(d)'
    <2>1. /\ call[c].op = "set" /\ call[c].builder \in Builder
          /\ docs' = [docs EXCEPT ![call[c].builder] = WithSecret(doc, c)]
          /\ Written(c)
      BY <1>9, DocAfter
    <2>2. \A d \in Call : call[d].builder = call[c].builder => Rivalled(d)'
      BY <1>0, <2>1, WrittenWins
    <2>3. \A d \in Call : call[d].builder # call[c].builder => docs'[call[d].builder] = docs[call[d].builder]
      BY <1>0, <2>1 DEF TypeOK, CallType
    <2> QED
      BY <1>1, <2>2, <2>3
  <1>10. CASE VaultUnmarshalFails(c)
    <2>1. backend = "vault" /\ call[c].payload \in Scalar \cup Malformed /\ Answered(c, Err)
      BY <1>10 DEF VaultUnmarshalFails, Starts
    <2>2. ~Storable(c)
      BY <1>0, <2>1, StorableHow, PayloadAssumption
    <2> QED
      BY <1>2, <1>3, <2>1, <2>2
  <1>11. CASE VaultPut(c) /\ Answered(c, Err) /\ call[c].payload = NullJson
    <2>1. backend = "vault"
      BY <1>11 DEF VaultPut, Starts
    <2>2. ~Storable(c)
      BY <1>0, <1>11, <2>1, StorableHow, PayloadAssumption
    <2> QED
      BY <1>2, <1>3, <1>11, <2>2
  <1>12. CASE KvWritten(c)
    <2>1. call[c].op = "set" /\ Written(c) /\ UNCHANGED docs
      BY <1>12 DEF KvWritten, SetKv
    <2>2. Rivalled(c)'
      BY <1>0, <2>1, WrittenWins
    <2> QED
      BY <1>2, <1>4, <2>1, <2>2
  <1>13. ~Fail(c)
    BY <1>0 DEF Fail, Fault
  <1>14. AwsCreate(c) => DocOf(c) # Absent \/ \E doc \in Doc : DocWritten(c, doc)
    BY NoKeysIsDoc DEF AwsCreate, DocWritten, DocOf, secretName
  <1>15. AwsPut(c) => \E doc \in Doc : DocWritten(c, doc)
    <2>1. AwsPut(c) => seen[c] \in Doc
      BY <1>0 DEF AwsPut, TypeOK
    <2> QED
      BY <2>1 DEF AwsPut, DocWritten
  <1>16. VaultPut(c) => KvWritten(c) \/ (Answered(c, Err) /\ call[c].payload = NullJson)
    BY DEF VaultPut, Starts, KvWritten
  <1>17. MemSet(c) => KvWritten(c)
    BY DEF MemSet, Starts, KvWritten, Written
  <1>18. CASE AwsUnmarshalFails(c)
    <2>1. DocOf(c) = Opaque /\ Answered(c, Err)
      BY <1>18 DEF AwsUnmarshalFails
    <2>2. ~Storable(c)
      BY <1>0, <2>1, StorableHow
    <2> QED
      BY <1>2, <1>3, <2>1, <2>2
  <1> QED
    BY <1>5, <1>6, <1>7, <1>8, <1>9, <1>10, <1>11, <1>12, <1>13, <1>14, <1>15, <1>16, <1>17, <1>18 DEF Step

(* Writers of a new builder's secrets may refuse each other on CreateSecret *)
(* but not all of them (SetSecretValues of the three adapters).             *)
THEOREM SomeSetGetsThrough == Spec => []SomeSetWins
  <1>1. Init => WinInv
    BY DEF Init, WinInv
  <1>2. StoreInv /\ WinInv /\ [Next]_vars => WinInv'
    <2> SUFFICES ASSUME StoreInv, WinInv, [Next]_vars PROVE WinInv'
      OBVIOUS
    <2>1. CASE UNCHANGED vars
      BY <2>1 DEF vars, WinInv, Rivalled, Storable, DocOf, secretName
    <2> QED
      BY <2>1, WinStep DEF Next, Terminated
  <1>3. WinInv => SomeSetWins
    BY DEF WinInv, SomeSetWins, Rivalled
  <1> QED
    BY <1>1, <1>2, <1>3, StoreInvariant, PTL DEF Spec
=============================================================================
