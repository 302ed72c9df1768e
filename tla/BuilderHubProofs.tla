-------------------------- MODULE BuilderHubProofs --------------------------
(***************************************************************************)
(* Proofs about BuilderHub, for any sets of builders, measurements and     *)
(* requests in flight.                                                     *)
(***************************************************************************)
EXTENDS BuilderHub, SequenceTheorems, TLAPS

(* What a handler holds at each of its steps: the result of the lookups it  *)
(* has made.                                                                *)
Located == {"config", "secrets", "log", "write", "peers", "register"}
Holds(q) ==
    /\ q.pc \in Located \cup {"activate", "fullSecrets"} => q.builder \in Builder
    /\ q.pc \in Located \cup {"builder"} => q.mname \in MName
    /\ q.pc \in Located \cup {"measurement", "builder"} <=> q.op \in AuthOps
    /\ q.op = "RegisterCredentials" => q.service \in Service
    /\ q.pc = "register" => q.op = "RegisterCredentials"
    /\ q.pc = "peers" => q.op = "GetActiveBuilders"
    /\ q.pc \in {"config", "secrets", "log", "write"} => q.op = "GetConfigSecrets"
RequestsHold == \A r \in Slot : Holds(req[r])

Types == TypeOK /\ RequestsHold

LEMMA InitTypes == Init => Types
  BY NullAssumption DEF Init, Types, TypeOK, RequestsHold, Holds, Located, Idle, Request, PC, Unseen,
     Seen, AuthOps

LEMMA IdleTypes == Idle \in Request /\ Holds(Idle)
  BY DEF Idle, Request, PC, Holds, Located, AuthOps

(* Replacing one request by another that holds what it should.              *)
LEMMA OneRequest ==
    ASSUME Types, NEW r \in Slot, NEW q \in Request, Holds(q), req' = [req EXCEPT ![r] = q]
    PROVE  req' \in [Slot -> Request] /\ RequestsHold'
  BY DEF Types, TypeOK, RequestsHold

LEMMA ReturnTypes ==
    ASSUME Types, NEW r \in Slot, NEW response, Return(r, response)
    PROVE  req' \in [Slot -> Request] /\ RequestsHold'
  BY IdleTypes, OneRequest DEF Return

(* TypeOK without the history of seen, which Observe extends in every step. *)
Tables ==
    /\ builders \in [Builder -> BuilderRow \cup {Null}]
    /\ measurements \in [MName -> MeasurementRow \cup {Null}]
    /\ credentials \in Seq(CredentialRow)
    /\ configs \in Seq(ConfigRow)
    /\ eventLog \in Seq(Event)
    /\ secrets \in [Builder -> Secret \cup {Null}]
    /\ released \in Seq(Event)
Typed == Tables /\ req \in [Slot -> Request] /\ RequestsHold

LEMMA TypesTyped == Types <=> Typed /\ seen \in [Slot -> Seen]
  BY DEF Types, Typed, TypeOK, Tables

(* A handler that goes on and writes nothing.                               *)
LEMMA ContinueTypes ==
    ASSUME Types, NEW r \in Slot, NEW q \in Request, Holds(q), Continue(r, q),
           UNCHANGED <<db, released>>
    PROVE  Typed'
<1>1. req' \in [Slot -> Request] /\ RequestsHold'
  BY OneRequest DEF Continue
<1> QED
  BY <1>1 DEF Types, TypeOK, Typed, Tables, db

(* A handler that returns and writes nothing.                               *)
LEMMA QuietReturn ==
    ASSUME Types, NEW r \in Slot, NEW response, Return(r, response), UNCHANGED <<db, released>>
    PROVE  Typed'
<1>1. req' \in [Slot -> Request] /\ RequestsHold'
  BY ReturnTypes
<1> QED
  BY <1>1 DEF Types, TypeOK, Typed, Tables, db

(* A handler of a single call that writes nothing.                          *)
LEMMA QuietReply ==
    ASSUME Types, NEW response, Reply(response), UNCHANGED <<db, released>>
    PROVE  Typed'
  BY DEF Types, TypeOK, Typed, Tables, db, Reply, RequestsHold

LEMMA EventTypes ==
    ASSUME Types, NEW r \in Slot, req[r].pc \in Located
    PROVE  EventOf(r) \in Event
  BY DEF Types, TypeOK, RequestsHold, Holds, EventOf, Event, MeasurementId

(* A handler of a single call leaves the requests in flight alone.          *)
LEMMA OneCallKeeps == OneCall => req' = req
  BY DEF OneCall, RejectAuthData, RejectCall, GetActiveBuildersNoAuthNetworked,
     GetActiveBuildersNoAuth, GetAllowedMeasurements, AddMeasurement,
     ChangeActiveStatusForMeasurement, AddBuilder, Deactivate, AddBuilderConfig,
     GetActiveConfigForBuilder, SetSecrets, Reply

(* What the UPDATE of RegisterCredentialsForBuilder leaves of each row.     *)
LEMMA DeprecateFacts ==
    ASSUME Types, NEW b \in Builder, NEW s \in Service
    PROVE  /\ Deprecate(b, s) \in Seq(CredentialRow)
           /\ Len(Deprecate(b, s)) = Len(credentials)
           /\ \A i \in 1..Len(credentials) :
                \E a \in BOOLEAN :
                  /\ a => credentials[i].isActive
                  /\ Deprecate(b, s)[i] = [credentials[i] EXCEPT !.isActive = a]
<1>1. credentials \in Seq(CredentialRow)
  BY DEF Types, TypeOK
<1>2. DOMAIN credentials = 1..Len(credentials) /\ Len(credentials) \in Nat
  BY <1>1
<1>3. ASSUME NEW i \in 1..Len(credentials)
      PROVE  /\ Deprecate(b, s)[i] \in CredentialRow
             /\ \E a \in BOOLEAN : /\ a => credentials[i].isActive
                                   /\ Deprecate(b, s)[i] = [credentials[i] EXCEPT !.isActive = a]
  <2> DEFINE c == credentials[i].isActive
                  /\ ~(credentials[i].builder = b /\ credentials[i].service = s)
  <2>1. credentials[i] \in CredentialRow
    BY <1>1
  <2>2. c \in BOOLEAN /\ (c => credentials[i].isActive)
    BY <2>1 DEF CredentialRow
  <2>3. Deprecate(b, s)[i] = [credentials[i] EXCEPT !.isActive = c]
    BY <1>2 DEF Deprecate
  <2> HIDE DEF c
  <2>4. Deprecate(b, s)[i] \in CredentialRow
    BY <2>1, <2>2, <2>3 DEF CredentialRow
  <2> QED
    BY <2>2, <2>3, <2>4
<1>4. DOMAIN Deprecate(b, s) = 1..Len(credentials)
  BY <1>2 DEF Deprecate
<1> DEFINE d == Deprecate(b, s)
<1>5. d = [i \in 1..Len(credentials) |-> d[i]]
  BY <1>2 DEF Deprecate
<1>6. d \in [1..Len(credentials) -> CredentialRow]
  <2>1. \A i \in 1..Len(credentials) : d[i] \in CredentialRow
    BY <1>3
  <2> HIDE DEF d
  <2> QED
    BY <1>5, <2>1
<1>7. d \in Seq(CredentialRow) /\ Len(d) = Len(credentials)
  <2> HIDE DEF d
  <2> QED
    BY <1>2, <1>6
<1> QED
  BY <1>3, <1>7

(* What the transaction of AddBuilderConfig leaves in builder_configs.      *)
LEMMA ConfigFacts ==
    ASSUME Types, NEW b \in Builder, AddBuilderConfig(b), configs' # configs
    PROVE  /\ configs' \in Seq(ConfigRow)
           /\ \A c \in Builder : HasActiveConfig(c) => HasActiveConfig(c)'
<1> DEFINE old == [i \in DOMAIN configs |->
                     [configs[i] EXCEPT !.isActive = @ /\ configs[i].builder # b]]
           new == [builder |-> b, isActive |-> TRUE]
<1>1. configs' = Append(old, new)
  BY DEF AddBuilderConfig
<1>2. configs \in Seq(ConfigRow)
  BY DEF Types, TypeOK
<1>3. DOMAIN configs = 1..Len(configs) /\ Len(configs) \in Nat
  BY <1>2
<1>4. ASSUME NEW i \in 1..Len(configs)
      PROVE  /\ old[i] \in ConfigRow
             /\ old[i].builder = configs[i].builder
             /\ old[i].isActive <=> configs[i].isActive /\ configs[i].builder # b
  <2> DEFINE a == configs[i].isActive /\ configs[i].builder # b
  <2>0. configs[i] \in ConfigRow
    BY <1>2
  <2>1. configs[i] \in ConfigRow /\ a \in BOOLEAN
    BY <2>0 DEF ConfigRow
  <2>2. old[i] = [configs[i] EXCEPT !.isActive = a]
    BY <1>3
  <2> HIDE DEF a
  <2>3. old[i] \in ConfigRow /\ old[i].builder = configs[i].builder
    BY <2>1, <2>2 DEF ConfigRow
  <2>4. old[i].isActive = a
    BY <2>1, <2>2 DEF ConfigRow
  <2> QED
    BY <2>3, <2>4 DEF a
<1>5. old \in [1..Len(configs) -> ConfigRow]
  BY <1>3, <1>4
<1>6. new \in ConfigRow /\ new.builder = b /\ new.isActive
  BY DEF ConfigRow
<1> HIDE DEF old, new
<1>7. old \in Seq(ConfigRow) /\ Len(old) = Len(configs)
  BY <1>3, <1>5
<1>8. /\ configs' \in Seq(ConfigRow)
      /\ DOMAIN configs' = 1..(Len(configs) + 1)
      /\ configs'[Len(configs) + 1] = new
      /\ \A i \in 1..Len(configs) : configs'[i] = old[i]
  BY <1>1, <1>6, <1>7, AppendProperties
<1>9. ASSUME NEW c \in Builder, HasActiveConfig(c)
      PROVE  HasActiveConfig(c)'
  <2>1. CASE c = b
    BY <1>3, <1>6, <1>8, <2>1 DEF HasActiveConfig
  <2>2. CASE c # b
    <3>1. PICK i \in 1..Len(configs) : configs[i].builder = c /\ configs[i].isActive
      BY <1>3, <1>9 DEF HasActiveConfig
    <3>2. configs'[i].builder = c /\ configs'[i].isActive /\ i \in DOMAIN configs'
      BY <1>3, <1>4, <1>8, <2>2, <3>1
    <3> QED
      BY <3>2 DEF HasActiveConfig
  <2> QED
    BY <2>1, <2>2
<1> QED
  BY <1>8, <1>9

-----------------------------------------------------------------------------
(* Type correctness, action by action.                                      *)

(* A request that has matched a measurement, and one that has found its     *)
(* builder.                                                                 *)
LEMMA MatchedRequest ==
    ASSUME NEW q \in Request, Holds(q), q.pc = "measurement", NEW m \in MName
    PROVE  /\ [q EXCEPT !.pc = "builder", !.mname = m] \in Request
           /\ Holds([q EXCEPT !.pc = "builder", !.mname = m])
<1> DEFINE n == [q EXCEPT !.pc = "builder", !.mname = m]
<1>1. /\ n \in Request
      /\ n.pc = "builder" /\ n.mname = m /\ n.op = q.op /\ n.service = q.service
  BY DEF Request, PC
<1> HIDE DEF n
<1>2. Holds(n)
  BY <1>1 DEF Holds, Located
<1> QED
  BY <1>1, <1>2 DEF n

LEMMA LocatedRequest ==
    ASSUME NEW q \in Request, Holds(q), q.op \in AuthOps, q.mname \in MName,
           NEW p \in Located \cap PC, NEW b \in Builder, NEW net \in Network,
           p = AfterAuth[q.op]
    PROVE  /\ [q EXCEPT !.pc = p, !.builder = b, !.network = net] \in Request
           /\ Holds([q EXCEPT !.pc = p, !.builder = b, !.network = net])
<1> DEFINE n == [q EXCEPT !.pc = p, !.builder = b, !.network = net]
<1>1. /\ n \in Request
      /\ n.pc = p /\ n.builder = b /\ n.mname = q.mname
      /\ n.op = q.op /\ n.service = q.service
  BY DEF Request
<1> HIDE DEF n
<1>2. Holds(n)
  BY <1>1 DEF Holds, AfterAuth, AuthOps
<1> QED
  BY <1>1, <1>2 DEF n

LEMMA InstanceTypes ==
    ASSUME Types, NEW r \in Slot, InstanceStep(r)
    PROVE  Typed'
<1>1. req[r] \in Request /\ Holds(req[r])
  BY DEF Types, TypeOK, RequestsHold
<1>2. CASE MatchMeasurement(r)
  <2>1. ASSUME NEW m \in MName, Continue(r, [req[r] EXCEPT !.pc = "builder", !.mname = m])
        PROVE  Typed'
    <3> DEFINE q == [req[r] EXCEPT !.pc = "builder", !.mname = m]
    <3>0. req[r].pc = "measurement"
      BY <1>2 DEF MatchMeasurement
    <3>1. q \in Request /\ Holds(q)
      BY <1>1, <3>0, MatchedRequest
    <3> QED
      BY <1>2, <2>1, <3>1, ContinueTypes DEF MatchMeasurement
  <2>2. validateMeasurement(req[r].claim.values,
                            GetActiveMeasurementsByType(req[r].claim.type)) \subseteq MName
    BY DEF validateMeasurement, GetActiveMeasurementsByType
  <2> QED
    BY <1>2, <2>1, <2>2, QuietReturn DEF MatchMeasurement
<1>3. CASE LookupBuilder(r)
  <2>1. ASSUME NEW b \in GetBuilderByIP(req[r].ip),
               Continue(r, [req[r] EXCEPT !.pc = AfterAuth[req[r].op], !.builder = b,
                                          !.network = builders[b].network])
        PROVE  Typed'
    <3> DEFINE q == [req[r] EXCEPT !.pc = AfterAuth[req[r].op], !.builder = b,
                                   !.network = builders[b].network]
    <3>1. b \in Builder /\ builders[b] \in BuilderRow
      BY <2>1 DEF GetBuilderByIP, IsActiveBuilder, Types, TypeOK
    <3>2. req[r].op \in AuthOps /\ req[r].mname \in MName
      BY <1>1, <1>3 DEF LookupBuilder, Holds
    <3>3. AfterAuth[req[r].op] \in Located \cap PC
      BY <3>2 DEF AfterAuth, AuthOps, Located, PC
    <3>4. builders[b].network \in Network
      BY <3>1 DEF BuilderRow
    <3>5. q \in Request /\ Holds(q)
      BY <1>1, <3>1, <3>2, <3>3, <3>4, LocatedRequest
    <3> QED
      BY <1>3, <2>1, <3>5, ContinueTypes DEF LookupBuilder
  <2> QED
    BY <1>3, <2>1, QuietReturn DEF LookupBuilder
<1>4. CASE FetchConfig(r)
  <2> DEFINE q == [req[r] EXCEPT !.pc = "secrets"]
  <2>1. q \in Request /\ Holds(q)
    BY <1>1, <1>4 DEF FetchConfig, Request, PC, Holds, Located
  <2> QED
    BY <1>4, <2>1, ContinueTypes, QuietReturn DEF FetchConfig
<1>5. CASE FetchSecrets(r)
  <2> DEFINE q == [req[r] EXCEPT !.pc = "log", !.secret = secrets[req[r].builder]]
  <2>1. q \in Request /\ Holds(q)
    BY <1>1, <1>5 DEF FetchSecrets, Request, PC, Holds, Located, Types, TypeOK
  <2> QED
    BY <1>5, <2>1, ContinueTypes DEF FetchSecrets
<1>6. CASE LogEvent(r)
  <2> DEFINE q == [req[r] EXCEPT !.pc = "write"]
  <2>1. q \in Request /\ Holds(q)
    BY <1>1, <1>6 DEF LogEvent, Request, PC, Holds, Located
  <2>2. req' \in [Slot -> Request] /\ RequestsHold'
    BY <1>6, <2>1, OneRequest, ReturnTypes DEF LogEvent, Continue
  <2>3. eventLog' \in Seq(Event)
    BY <1>6, EventTypes, AppendProperties DEF LogEvent, Located, Types, TypeOK
  <2> QED
    BY <1>6, <2>2, <2>3 DEF LogEvent, Types, TypeOK, Typed, Tables
<1>7. CASE WriteConfig(r)
  <2>1. req' \in [Slot -> Request] /\ RequestsHold'
    BY <1>7, ReturnTypes DEF WriteConfig
  <2>2. released' \in Seq(Event)
    BY <1>7, EventTypes, AppendProperties DEF WriteConfig, Located, Types, TypeOK
  <2> QED
    BY <1>7, <2>1, <2>2 DEF WriteConfig, Types, TypeOK, Typed, Tables, db
<1>8. CASE ListPeers(r)
  BY <1>8, QuietReturn DEF ListPeers
<1>9. CASE RejectCredentials(r)
  BY <1>9, QuietReturn DEF RejectCredentials
<1>10. CASE RegisterCredentials(r)
  <2> DEFINE row == [builder |-> req[r].builder, service |-> req[r].service,
                     measurement |-> MeasurementIdByType(req[r].mname, req[r].claim.type),
                     isActive |-> TRUE]
             old == Deprecate(req[r].builder, req[r].service)
  <2>1. req[r].builder \in Builder /\ req[r].service \in Service /\ req[r].mname \in MName
    BY <1>1, <1>10 DEF RegisterCredentials, Holds, Located
  <2>2. MeasurementIdByType(req[r].mname, req[r].claim.type) \in MName \cup {Null}
    BY <2>1 DEF MeasurementIdByType
  <2>3. row \in CredentialRow
    BY <2>1, <2>2 DEF CredentialRow
  <2>4. old \in Seq(CredentialRow)
    BY <2>1, DeprecateFacts
  <2>5. credentials' = Append(old, row)
    BY <1>10 DEF RegisterCredentials
  <2> HIDE DEF row, old
  <2>6. credentials' \in Seq(CredentialRow)
    BY <2>3, <2>4, <2>5, AppendProperties
  <2>7. req' \in [Slot -> Request] /\ RequestsHold'
    BY <1>10, ReturnTypes DEF RegisterCredentials
  <2> QED
    BY <1>10, <2>6, <2>7 DEF RegisterCredentials, Types, TypeOK, Typed, Tables
<1> QED
  BY <1>2, <1>3, <1>4, <1>5, <1>6, <1>7, <1>8, <1>9, <1>10 DEF InstanceStep

LEMMA SetActiveTypes ==
    ASSUME Types, NEW b \in Builder, NEW e \in BOOLEAN, SetActive(b, e)
    PROVE  builders' \in [Builder -> BuilderRow \cup {Null}]
<1>1. CASE builders[b] = Null
  BY <1>1 DEF SetActive, Types, TypeOK
<1>2. CASE builders[b] # Null
  <2> DEFINE row == [builders[b] EXCEPT !.isActive = e]
  <2>1. builders[b] \in BuilderRow
    BY <1>2 DEF Types, TypeOK
  <2>2. row \in BuilderRow
    BY <2>1 DEF BuilderRow
  <2>3. builders' = [builders EXCEPT ![b] = row]
    BY <1>2 DEF SetActive
  <2> HIDE DEF row
  <2> QED
    BY <2>2, <2>3 DEF Types, TypeOK
<1> QED
  BY <1>1, <1>2

LEMMA HandlerTypes ==
    ASSUME Types, NEW r \in Slot, HandlerStep(r)
    PROVE  Typed'
<1>1. CASE InstanceStep(r)
  BY <1>1, InstanceTypes
<1>2. CASE Activate(r)
  <2>1. req[r].builder \in Builder
    BY <1>2 DEF Activate, Types, RequestsHold, Holds
  <2>2. builders' \in [Builder -> BuilderRow \cup {Null}]
    BY <1>2, <2>1, SetActiveTypes DEF Activate
  <2>3. req' \in [Slot -> Request] /\ RequestsHold'
    BY <1>2, ReturnTypes DEF Activate
  <2> QED
    BY <1>2, <2>2, <2>3 DEF Activate, Types, TypeOK, Typed, Tables
<1>3. CASE FetchFullSecrets(r)
  BY <1>3, QuietReturn DEF FetchFullSecrets
<1>4. CASE FailStep(r)
  BY <1>4, QuietReturn DEF FailStep
<1> QED
  BY <1>1, <1>2, <1>3, <1>4 DEF HandlerStep

LEMMA ArriveTypes ==
    ASSUME Types, NEW r \in Slot, Arrive(r)
    PROVE  Typed'
<1>1. ASSUME NEW op \in AuthOps, NEW ip \in IP, NEW claim \in Claim,
             NEW service \in Service \cup {Null}, BeginAuth(r, op, ip, claim, service)
      PROVE  Typed'
  <2> DEFINE q == [Idle EXCEPT !.pc = "measurement", !.op = op, !.ip = ip,
                               !.claim = claim, !.service = service]
  <2>1. op = "RegisterCredentials" => service \in Service
    BY <1>1 DEF BeginAuth
  <2>2. q \in Request /\ Holds(q)
    BY <2>1 DEF Idle, Request, PC, Holds, Located, AuthOps
  <2> QED
    BY <1>1, <2>2, ContinueTypes DEF BeginAuth
<1>2. ASSUME NEW b \in Builder, CheckActivation(r, b)
      PROVE  Typed'
  <2> DEFINE q == [Idle EXCEPT !.pc = "activate", !.op = "Activate", !.builder = b]
  <2>1. q \in Request /\ Holds(q)
    BY DEF Idle, Request, PC, Holds, Located, AuthOps
  <2> QED
    BY <1>2, <2>1, ContinueTypes, QuietReply DEF CheckActivation
<1>3. ASSUME NEW b \in Builder, CheckFullConfig(r, b)
      PROVE  Typed'
  <2> DEFINE q == [Idle EXCEPT !.pc = "fullSecrets", !.op = "GetFullConfig", !.builder = b]
  <2>1. q \in Request /\ Holds(q)
    BY DEF Idle, Request, PC, Holds, Located, AuthOps
  <2> QED
    BY <1>3, <2>1, ContinueTypes, QuietReply DEF CheckFullConfig
<1> QED
  BY <1>1, <1>2, <1>3 DEF Arrive

LEMMA OneCallTypes ==
    ASSUME Types, OneCall
    PROVE  Typed'
<1>1. ASSUME NEW op \in AuthOps, RejectAuthData(op)
      PROVE  Typed'
  BY <1>1, QuietReply DEF RejectAuthData
<1>2. ASSUME NEW op \in AdminWrites \cup Reads, RejectCall(op)
      PROVE  Typed'
  BY <1>2, QuietReply DEF RejectCall
<1>3. ASSUME NEW network \in Network, GetActiveBuildersNoAuthNetworked(network)
      PROVE  Typed'
  BY <1>3, QuietReply DEF GetActiveBuildersNoAuthNetworked
<1>4. CASE GetActiveBuildersNoAuth
  BY <1>4, QuietReply DEF GetActiveBuildersNoAuth, GetActiveBuildersNoAuthNetworked
<1>5. CASE GetAllowedMeasurements
  BY <1>5, QuietReply DEF GetAllowedMeasurements
<1>6. ASSUME NEW m \in MName, NEW type \in AttType, NEW template \in Template,
             AddMeasurement(m, type, template)
      PROVE  Typed'
  <2> DEFINE row == [type |-> type, template |-> template, isActive |-> FALSE]
  <2>1. row \in MeasurementRow
    BY DEF MeasurementRow
  <2>2. measurements' = measurements \/ measurements' = [measurements EXCEPT ![m] = row]
    BY <1>6 DEF AddMeasurement
  <2> HIDE DEF row
  <2>3. measurements' \in [MName -> MeasurementRow \cup {Null}]
    BY <2>1, <2>2 DEF Types, TypeOK
  <2> QED
    BY <1>6, <2>3 DEF AddMeasurement, Reply, Types, TypeOK, Typed, Tables, RequestsHold
<1>7. ASSUME NEW m \in MName, NEW e \in BOOLEAN, ChangeActiveStatusForMeasurement(m, e)
      PROVE  Typed'
  <2>1. measurements' \in [MName -> MeasurementRow \cup {Null}]
    <3> DEFINE row == [measurements[m] EXCEPT !.isActive = e]
    <3>1. CASE measurements[m] = Null
      BY <1>7, <3>1 DEF ChangeActiveStatusForMeasurement, Types, TypeOK
    <3>2. CASE measurements[m] # Null
      <4>1. measurements[m] \in MeasurementRow
        BY <3>2 DEF Types, TypeOK
      <4>2. row \in MeasurementRow
        BY <4>1 DEF MeasurementRow
      <4>3. measurements' = [measurements EXCEPT ![m] = row]
        BY <1>7, <3>2 DEF ChangeActiveStatusForMeasurement
      <4> HIDE DEF row
      <4> QED
        BY <4>2, <4>3 DEF Types, TypeOK
    <3> QED
      BY <3>1, <3>2
  <2> QED
    BY <1>7, <2>1 DEF ChangeActiveStatusForMeasurement, Reply, Types, TypeOK, Typed, Tables,
       RequestsHold
<1>8. ASSUME NEW b \in Builder, NEW ip \in IP, NEW network \in Network \cup {Null},
             AddBuilder(b, ip, network)
      PROVE  Typed'
  <2> DEFINE row == [ip |-> ip, network |-> network, isActive |-> FALSE]
  <2>1. CASE network = Null
    <3>1. builders' = builders
      BY <1>8, <2>1 DEF AddBuilder
    <3> QED
      BY <1>8, <3>1 DEF AddBuilder, Reply, Types, TypeOK, Typed, Tables, RequestsHold
  <2>2. CASE network # Null
    <3>1. row \in BuilderRow
      BY <2>2 DEF BuilderRow
    <3>2. builders' = builders \/ builders' = [builders EXCEPT ![b] = row]
      BY <1>8 DEF AddBuilder
    <3> HIDE DEF row
    <3>3. builders' \in [Builder -> BuilderRow \cup {Null}]
      BY <3>1, <3>2 DEF Types, TypeOK
    <3> QED
      BY <1>8, <3>3 DEF AddBuilder, Reply, Types, TypeOK, Typed, Tables, RequestsHold
  <2> QED
    BY <2>1, <2>2
<1>9. ASSUME NEW b \in Builder, Deactivate(b)
      PROVE  Typed'
  <2>1. builders' \in [Builder -> BuilderRow \cup {Null}]
    BY <1>9, SetActiveTypes DEF Deactivate
  <2> QED
    BY <1>9, <2>1 DEF Deactivate, Reply, Types, TypeOK, Typed, Tables, RequestsHold
<1>10. ASSUME NEW b \in Builder, AddBuilderConfig(b)
       PROVE  Typed'
  <2>1. configs' \in Seq(ConfigRow)
    BY <1>10, ConfigFacts DEF Types, TypeOK
  <2> QED
    BY <1>10, <2>1 DEF AddBuilderConfig, Reply, Types, TypeOK, Typed, Tables, RequestsHold
<1>11. ASSUME NEW b \in Builder, GetActiveConfigForBuilder(b)
       PROVE  Typed'
  BY <1>11, QuietReply DEF GetActiveConfigForBuilder
<1>12. ASSUME NEW b \in Builder, NEW secret \in Secret, SetSecrets(b, secret)
       PROVE  Typed'
  BY <1>12 DEF SetSecrets, Reply, Types, TypeOK, Typed, Tables, RequestsHold
<1> QED
  BY <1>1, <1>2, <1>3, <1>4, <1>5, <1>6, <1>7, <1>8, <1>9, <1>10, <1>11, <1>12 DEF OneCall

(* The history of what a request has seen.                                  *)
LEMMA ObserveTypes ==
    ASSUME Types, Typed', Observe
    PROVE  seen' \in [Slot -> Seen]
<1> SUFFICES ASSUME NEW r \in Slot
             PROVE  seen'[r] \in Seen
  BY DEF Observe
<1>1. CASE req'[r].op \notin AuthOps
  BY <1>1 DEF Observe, Unseen, Seen
<1>2. CASE req'[r].op \in AuthOps
  <2> DEFINE bs == seen[r].builders \cup {b \in Builder : IsActiveBuilder(b)'}
             ms == seen[r].measurements \cup {m \in MName : IsActiveMeasurement(m)'}
             ss == seen[r].secrets \cup {<<b, secrets'[b]>> : b \in Builder}
  <2>1. seen[r] \in Seen
    BY DEF Types, TypeOK
  <2>2. bs \in SUBSET Builder /\ ms \in SUBSET MName
    BY <2>1 DEF Seen
  <2>3. ss \in SUBSET (Builder \X (Secret \cup {Null}))
    BY <2>1 DEF Seen, Typed, Tables
  <2>4. seen'[r] = [builders |-> bs, measurements |-> ms, secrets |-> ss]
    BY <1>2 DEF Observe
  <2> HIDE DEF bs, ms, ss
  <2> QED
    BY <2>2, <2>3, <2>4 DEF Seen
<1> QED
  BY <1>1, <1>2

LEMMA StutterTypes == Types /\ UNCHANGED vars => Types'
  BY DEF Types, TypeOK, RequestsHold, vars, db

LEMMA NextTypes == Types /\ [Next]_vars => Types'
<1> SUFFICES ASSUME Types, Next
             PROVE  Types'
  BY StutterTypes
<1>1. Typed'
  <2>1. CASE OneCall
    BY <2>1, OneCallTypes
  <2>2. CASE \E r \in Slot : Arrive(r) \/ HandlerStep(r)
    BY <2>2, ArriveTypes, HandlerTypes
  <2> QED
    BY <2>1, <2>2 DEF Next
<1>2. seen' \in [Slot -> Seen]
  BY <1>1, ObserveTypes DEF Next
<1> QED
  BY <1>1, <1>2, TypesTyped DEF Types, TypeOK, Typed, Tables

LEMMA AlwaysTypes == Spec => []Types
<1> QED
  BY InitTypes, NextTypes, PTL DEF Spec

(* Every table, every request in flight and the history keep their types,   *)
(* whatever handlers of the three APIs interleave: no builder row lacks a   *)
(* network (AddBuilder), no logged event lacks its builder.                 *)
THEOREM HubTypeCorrect == Spec => []TypeOK
<1>1. Types => TypeOK
  BY DEF Types
<1> QED
  BY <1>1, AlwaysTypes, PTL

-----------------------------------------------------------------------------
(* Active builders have a configuration.                                    *)

(* A builder that has an active configuration keeps having one: only        *)
(* AddBuilderConfig writes builder_configs, and it replaces.                *)
LEMMA ConfigsGrow ==
    ASSUME Types, Next
    PROVE  \A b \in Builder : HasActiveConfig(b) => HasActiveConfig(b)'
<1>1. CASE configs' = configs
  BY <1>1 DEF HasActiveConfig
<1>2. CASE configs' # configs
  <2>1. ASSUME NEW r \in Slot, Arrive(r) PROVE FALSE
    BY <1>2, <2>1 DEF Arrive, BeginAuth, CheckActivation, CheckFullConfig, db
  <2>2. ASSUME NEW r \in Slot, HandlerStep(r) PROVE FALSE
    BY <1>2, <2>2 DEF HandlerStep, InstanceStep, MatchMeasurement, LookupBuilder, FetchConfig,
       FetchSecrets, LogEvent, WriteConfig, ListPeers, RejectCredentials, RegisterCredentials,
       Activate, FetchFullSecrets, FailStep, db
  <2>3. \E b \in Builder : AddBuilderConfig(b)
    BY <1>2, <2>1, <2>2 DEF Next, OneCall, RejectAuthData, RejectCall,
       GetActiveBuildersNoAuthNetworked, GetActiveBuildersNoAuth, GetAllowedMeasurements,
       AddMeasurement, ChangeActiveStatusForMeasurement, AddBuilder, Deactivate,
       GetActiveConfigForBuilder, SetSecrets, db
  <2> QED
    BY <1>2, <2>3, ConfigFacts
<1> QED
  BY <1>1, <1>2

(* A builder becomes active only at the UPDATE of an activation request.    *)
LEMMA WhoActivates ==
    ASSUME Types, Next, NEW b \in Builder, IsActiveBuilder(b)', ~IsActiveBuilder(b)
    PROVE  \E r \in Slot : req[r].pc = "activate" /\ req[r].builder = b
<1>1. builders \in [Builder -> BuilderRow \cup {Null}]
  BY DEF Types, TypeOK
<1>2. builders' # builders
  BY DEF IsActiveBuilder
<1>3. ASSUME NEW r \in Slot, Arrive(r) PROVE FALSE
  BY <1>2, <1>3 DEF Arrive, BeginAuth, CheckActivation, CheckFullConfig, db
<1>4. ASSUME NEW r \in Slot, HandlerStep(r)
      PROVE  req[r].pc = "activate" /\ req[r].builder = b
  <2>1. Activate(r)
    BY <1>2, <1>4 DEF HandlerStep, InstanceStep, MatchMeasurement, LookupBuilder, FetchConfig,
       FetchSecrets, LogEvent, WriteConfig, ListPeers, RejectCredentials, RegisterCredentials,
       FetchFullSecrets, FailStep, db
  <2>2. builders' = [builders EXCEPT ![req[r].builder].isActive = TRUE]
    BY <1>2, <2>1 DEF Activate, SetActive
  <2>3. req[r].builder # b => builders'[b] = builders[b]
    BY <1>1, <2>2
  <2> QED
    BY <2>1, <2>3 DEF Activate, IsActiveBuilder
<1>5. CASE OneCall
  <2>1. ASSUME NEW c \in Builder, Deactivate(c) PROVE FALSE
    <3>1. builders' = [builders EXCEPT ![c].isActive = FALSE] /\ builders[c] # Null
      BY <1>2, <2>1 DEF Deactivate, SetActive
    <3>2. builders[c] \in BuilderRow
      BY <1>1, <3>1
    <3>3. CASE b = c
      <4>1. builders'[b] = [builders[c] EXCEPT !.isActive = FALSE]
        BY <1>1, <3>1, <3>3
      <4>2. builders'[b].isActive = FALSE
        BY <3>2, <4>1 DEF BuilderRow
      <4> QED
        BY <4>2 DEF IsActiveBuilder
    <3>4. CASE b # c
      BY <1>1, <3>1, <3>4 DEF IsActiveBuilder
    <3> QED
      BY <3>3, <3>4
  <2>2. ASSUME NEW c \in Builder, NEW ip \in IP, NEW network \in Network \cup {Null},
               AddBuilder(c, ip, network)
        PROVE  FALSE
    <3>1. builders' = [builders EXCEPT ![c] = [ip |-> ip, network |-> network, isActive |-> FALSE]]
      BY <1>2, <2>2 DEF AddBuilder
    <3> QED
      BY <1>1, <3>1 DEF IsActiveBuilder
  <2> QED
    BY <1>2, <1>5, <2>1, <2>2 DEF OneCall, RejectAuthData, RejectCall,
       GetActiveBuildersNoAuthNetworked, GetActiveBuildersNoAuth, GetAllowedMeasurements,
       AddMeasurement, ChangeActiveStatusForMeasurement, AddBuilderConfig,
       GetActiveConfigForBuilder, SetSecrets, db
<1> QED
  BY <1>3, <1>4, <1>5 DEF Next

(* A request reaches its configuration lookup, or its UPDATE, only with a   *)
(* builder that has an active configuration.                                *)
LEMMA WhoNeedsConfig ==
    ASSUME Types, ActiveBuilderConfigured, Next, NEW r \in Slot,
           req'[r].pc \in {"config", "activate"}
    PROVE  req'[r] = req[r] \/ HasActiveConfig(req'[r].builder)
<1>1. req \in [Slot -> Request]
  BY DEF Types, TypeOK
<1>2. CASE OneCall
  <2>1. req' = req
    BY <1>2, OneCallKeeps
  <2> QED
    BY <2>1
<1>3. ASSUME NEW s \in Slot, Arrive(s)
      PROVE  req'[r] = req[r] \/ HasActiveConfig(req'[r].builder)
  <2>1. ASSUME NEW b \in Builder, CheckActivation(s, b), req' # req
        PROVE  req'[r] = req[r] \/ HasActiveConfig(req'[r].builder)
    <3>1. HasActiveConfig(b)
      BY <2>1 DEF CheckActivation, Reply
    <3>2. req' = [req EXCEPT ![s] = [Idle EXCEPT !.pc = "activate", !.op = "Activate",
                                                 !.builder = b]]
      BY <2>1 DEF CheckActivation, Continue, Reply
    <3>3. r = s => req'[r].builder = b
      BY <1>1, <3>2 DEF Idle
    <3> QED
      BY <1>1, <3>1, <3>2, <3>3
  <2>2. ASSUME NEW b \in Builder, CheckFullConfig(s, b), req' # req
        PROVE  req'[r] = req[r]
    <3>1. req' = [req EXCEPT ![s] = [Idle EXCEPT !.pc = "fullSecrets", !.op = "GetFullConfig",
                                                 !.builder = b]]
      BY <2>2 DEF CheckFullConfig, Continue, Reply
    <3> QED
      BY <1>1, <3>1 DEF Idle
  <2>3. ASSUME NEW op \in AuthOps, NEW ip \in IP, NEW claim \in Claim,
               NEW service \in Service \cup {Null}, BeginAuth(s, op, ip, claim, service)
        PROVE  req'[r] = req[r]
    <3>1. req' = [req EXCEPT ![s] = [Idle EXCEPT !.pc = "measurement", !.op = op, !.ip = ip,
                                                 !.claim = claim, !.service = service]]
      BY <2>3 DEF BeginAuth, Continue
    <3> QED
      BY <1>1, <3>1 DEF Idle
  <2> QED
    BY <1>3, <2>1, <2>2, <2>3 DEF Arrive
<1>4. ASSUME NEW s \in Slot, HandlerStep(s)
      PROVE  req'[r] = req[r] \/ HasActiveConfig(req'[r].builder)
  <2>0. req[s] \in Request
    BY <1>1
  <2>1. ASSUME NEW response, Return(s, response)
        PROVE  req'[r] = req[r]
    BY <1>1, <2>1 DEF Return, Idle
  <2>2. CASE MatchMeasurement(s)
    <3>1. ASSUME NEW m, Continue(s, [req[s] EXCEPT !.pc = "builder", !.mname = m])
          PROVE  req'[r] = req[r]
      <4>1. s = r => req'[r].pc = "builder"
        BY <1>1, <2>0, <3>1 DEF Continue, Request
      <4> QED
        BY <1>1, <3>1, <4>1 DEF Continue
    <3> QED
      BY <2>1, <2>2, <3>1 DEF MatchMeasurement
  <2>3. CASE LookupBuilder(s)
    <3>1. ASSUME NEW b \in GetBuilderByIP(req[s].ip),
                 Continue(s, [req[s] EXCEPT !.pc = AfterAuth[req[s].op], !.builder = b,
                                            !.network = builders[b].network])
          PROVE  req'[r] = req[r] \/ HasActiveConfig(req'[r].builder)
      <4>1. HasActiveConfig(b)
        BY <3>1 DEF GetBuilderByIP, ActiveBuilderConfigured
      <4>2. s = r => req'[r].builder = b
        BY <1>1, <2>0, <3>1 DEF Continue, Request
      <4> QED
        BY <1>1, <3>1, <4>1, <4>2 DEF Continue
    <3> QED
      BY <2>1, <2>3, <3>1 DEF LookupBuilder
  <2>4. ASSUME NEW p \in PC \ {"config", "activate"}, Continue(s, [req[s] EXCEPT !.pc = p])
        PROVE  req'[r] = req[r]
    <3>1. s = r => req'[r].pc = p
      BY <1>1, <2>0, <2>4 DEF Continue, Request
    <3> QED
      BY <1>1, <2>4, <3>1 DEF Continue
  <2>5. CASE FetchConfig(s)
    BY <2>1, <2>4, <2>5 DEF FetchConfig, PC
  <2>6. CASE FetchSecrets(s)
    <3>1. Continue(s, [req[s] EXCEPT !.pc = "log", !.secret = secrets[req[s].builder]])
      BY <2>6 DEF FetchSecrets
    <3>2. s = r => req'[r].pc = "log"
      BY <1>1, <2>0, <3>1 DEF Continue, Request
    <3> QED
      BY <1>1, <3>1, <3>2 DEF Continue
  <2>7. CASE LogEvent(s)
    BY <2>1, <2>4, <2>7 DEF LogEvent, PC
  <2>8. CASE \/ WriteConfig(s) \/ ListPeers(s) \/ RejectCredentials(s) \/ RegisterCredentials(s)
             \/ Activate(s) \/ FetchFullSecrets(s) \/ FailStep(s)
    BY <2>1, <2>8 DEF WriteConfig, ListPeers, RejectCredentials, RegisterCredentials, Activate,
       FetchFullSecrets, FailStep
  <2> QED
    BY <1>4, <2>2, <2>3, <2>5, <2>6, <2>7, <2>8 DEF HandlerStep, InstanceStep
<1> QED
  BY <1>2, <1>3, <1>4 DEF Next

(* The check and the UPDATE of ChangeActiveStatusForBuilder are two calls   *)
(* to the database with no transaction around them, and an instance finds   *)
(* its builder and then its configuration in two more: however they         *)
(* interleave, an active builder has an active configuration, and so has    *)
(* the builder of every request that is about to rely on it.                *)
THEOREM ConfiguredWhenActive == Spec => []ActiveBuilderConfigured
<1>1. Init => ActiveBuilderConfigured
  BY DEF Init, ActiveBuilderConfigured, IsActiveBuilder, Idle
<1>2. ASSUME Types, ActiveBuilderConfigured, Next
      PROVE  ActiveBuilderConfigured'
  <2>1. ASSUME NEW b \in Builder, IsActiveBuilder(b)'
        PROVE  HasActiveConfig(b)'
    <3>1. HasActiveConfig(b)
      BY <1>2, <2>1, WhoActivates DEF ActiveBuilderConfigured
    <3> QED
      BY <1>2, <3>1, ConfigsGrow
  <2>2. ASSUME NEW r \in Slot, (req[r].pc \in {"config", "activate"})'
        PROVE  HasActiveConfig(req[r].builder)'
    <3>0. RequestsHold'
      BY <1>2, NextTypes DEF Types
    <3>1. PICK c \in Builder : c = (req[r].builder)'
      BY <2>2, <3>0 DEF RequestsHold, Holds, Located
    <3>2. HasActiveConfig(c)
      BY <1>2, <2>2, <3>1, WhoNeedsConfig DEF ActiveBuilderConfigured
    <3>3. HasActiveConfig(c)'
      BY <1>2, <3>2, ConfigsGrow
    <3> QED
      BY <3>1, <3>3 DEF HasActiveConfig
  <2> QED
    BY <2>1, <2>2 DEF ActiveBuilderConfigured
<1>3. ActiveBuilderConfigured /\ UNCHANGED vars => ActiveBuilderConfigured'
  BY DEF ActiveBuilderConfigured, IsActiveBuilder, HasActiveConfig, vars, db
<1> QED
  BY <1>1, <1>2, <1>3, AlwaysTypes, PTL DEF Spec

-----------------------------------------------------------------------------
(* Who writes registrations and events.                                     *)

(* Only RegisterCredentials writes service_credential_registrations.        *)
LEMMA WhoRegisters ==
    ASSUME Next, credentials' # credentials
    PROVE  \E r \in Slot : RegisterCredentials(r)
<1>1. ASSUME OneCall PROVE FALSE
  BY <1>1 DEF OneCall, RejectAuthData, RejectCall, GetActiveBuildersNoAuthNetworked,
     GetActiveBuildersNoAuth, GetAllowedMeasurements, AddMeasurement,
     ChangeActiveStatusForMeasurement, AddBuilder, Deactivate, AddBuilderConfig,
     GetActiveConfigForBuilder, SetSecrets, db
<1>2. ASSUME NEW r \in Slot, Arrive(r) PROVE FALSE
  BY <1>2 DEF Arrive, BeginAuth, CheckActivation, CheckFullConfig, db
<1>3. ASSUME NEW r \in Slot, HandlerStep(r) PROVE RegisterCredentials(r)
  BY <1>3 DEF HandlerStep, InstanceStep, MatchMeasurement, LookupBuilder, FetchConfig,
     FetchSecrets, LogEvent, WriteConfig, ListPeers, RejectCredentials, Activate,
     FetchFullSecrets, FailStep, db
<1> QED
  BY <1>1, <1>2, <1>3 DEF Next

(* Only LogEvent writes event_log.                                          *)
LEMMA WhoInsertsEvents ==
    ASSUME Next, eventLog' # eventLog
    PROVE  \E r \in Slot : LogEvent(r)
<1>1. ASSUME OneCall PROVE FALSE
  BY <1>1 DEF OneCall, RejectAuthData, RejectCall, GetActiveBuildersNoAuthNetworked,
     GetActiveBuildersNoAuth, GetAllowedMeasurements, AddMeasurement,
     ChangeActiveStatusForMeasurement, AddBuilder, Deactivate, AddBuilderConfig,
     GetActiveConfigForBuilder, SetSecrets, db
<1>2. ASSUME NEW r \in Slot, Arrive(r) PROVE FALSE
  BY <1>2 DEF Arrive, BeginAuth, CheckActivation, CheckFullConfig, db
<1>3. ASSUME NEW r \in Slot, HandlerStep(r) PROVE LogEvent(r)
  BY <1>3 DEF HandlerStep, InstanceStep, MatchMeasurement, LookupBuilder, FetchConfig,
     FetchSecrets, WriteConfig, ListPeers, RejectCredentials, RegisterCredentials, Activate,
     FetchFullSecrets, FailStep, db
<1> QED
  BY <1>1, <1>2, <1>3 DEF Next

(* The only row an INSERT adds is the one it names.                         *)
LEMMA AppendedRow ==
    ASSUME NEW S, NEW rows \in Seq(S), NEW kept \in Seq(S), Len(kept) = Len(rows), NEW row \in S,
           NEW i \in DOMAIN Append(kept, row) \ DOMAIN rows
    PROVE  Append(kept, row)[i] = row
<1>1. DOMAIN rows = 1..Len(rows) /\ Len(rows) \in Nat
  OBVIOUS
<1>2. DOMAIN Append(kept, row) = 1..(Len(rows) + 1) /\ Append(kept, row)[Len(rows) + 1] = row
  BY <1>1, AppendProperties
<1> QED
  BY <1>1, <1>2

-----------------------------------------------------------------------------
(* Authorisation.                                                           *)

(* Rows of builders and measurements_whitelist, once there, keep what       *)
(* authorisation is decided on: no statement deletes one or changes an      *)
(* address, a type or a template.                                           *)
RowsFixed ==
    /\ \A b \in Builder : builders[b] # Null =>
          builders'[b] # Null /\ builders'[b].ip = builders[b].ip
    /\ \A m \in MName : measurements[m] # Null =>
          /\ measurements'[m] # Null
          /\ measurements'[m].type = measurements[m].type
          /\ measurements'[m].template = measurements[m].template

LEMMA SetActiveFixes ==
    ASSUME Types, NEW c \in Builder, NEW e \in BOOLEAN, SetActive(c, e), NEW b \in Builder,
           builders[b] # Null
    PROVE  builders'[b] # Null /\ builders'[b].ip = builders[b].ip
<1>1. builders \in [Builder -> BuilderRow \cup {Null}]
  BY DEF Types, TypeOK
<1>2. CASE builders[c] = Null \/ b # c
  BY <1>1, <1>2 DEF SetActive
<1>3. CASE builders[c] # Null /\ b = c
  <2> DEFINE row == builders[b]
  <2>1. row \in BuilderRow
    BY <1>1
  <2>2. builders'[b] = [row EXCEPT !.isActive = e]
    BY <1>1, <1>3 DEF SetActive
  <2> HIDE DEF row
  <2>3. [row EXCEPT !.isActive = e] \in BuilderRow /\ [row EXCEPT !.isActive = e].ip = row.ip
    BY <2>1 DEF BuilderRow
  <2> QED
    BY <2>2, <2>3, NullRowAssumption DEF row
<1> QED
  BY <1>2, <1>3

LEMMA StatusFixes ==
    ASSUME Types, NEW n \in MName, NEW e \in BOOLEAN, ChangeActiveStatusForMeasurement(n, e),
           NEW m \in MName, measurements[m] # Null
    PROVE  /\ measurements'[m] # Null
           /\ measurements'[m].type = measurements[m].type
           /\ measurements'[m].template = measurements[m].template
<1>1. measurements \in [MName -> MeasurementRow \cup {Null}]
  BY DEF Types, TypeOK
<1>2. CASE measurements[n] = Null \/ m # n
  BY <1>1, <1>2 DEF ChangeActiveStatusForMeasurement
<1>3. CASE measurements[n] # Null /\ m = n
  <2> DEFINE row == measurements[m]
             new == [row EXCEPT !.isActive = e]
  <2>1. row \in MeasurementRow
    BY <1>1
  <2>2. measurements'[m] = new
    BY <1>1, <1>3 DEF ChangeActiveStatusForMeasurement
  <2> HIDE DEF row
  <2>3. new \in MeasurementRow /\ new.type = row.type /\ new.template = row.template
    BY <2>1 DEF MeasurementRow
  <2> HIDE DEF new
  <2> QED
    BY <2>2, <2>3, NullRowAssumption DEF row
<1> QED
  BY <1>2, <1>3

LEMMA NextFixes ==
    ASSUME Types, Next
    PROVE  RowsFixed
<1>1. ASSUME NEW r \in Slot, Arrive(r) \/ (HandlerStep(r) /\ ~Activate(r))
      PROVE  UNCHANGED <<builders, measurements>>
  BY <1>1 DEF Arrive, BeginAuth, CheckActivation, CheckFullConfig, HandlerStep, InstanceStep,
     MatchMeasurement, LookupBuilder, FetchConfig, FetchSecrets, LogEvent, WriteConfig, ListPeers,
     RejectCredentials, RegisterCredentials, FetchFullSecrets, FailStep, db
<1>2. ASSUME NEW r \in Slot, Activate(r)
      PROVE  RowsFixed
  <2>1. req[r].builder \in Builder /\ SetActive(req[r].builder, TRUE)
    BY <1>2 DEF Activate, Types, RequestsHold, Holds
  <2> QED
    BY <1>2, <2>1, SetActiveFixes DEF Activate, RowsFixed
<1>3. CASE OneCall
  <2>1. ASSUME NEW n \in MName, NEW type \in AttType, NEW template \in Template,
               AddMeasurement(n, type, template)
        PROVE  RowsFixed
    BY <2>1 DEF AddMeasurement, RowsFixed, Types, TypeOK
  <2>2. ASSUME NEW n \in MName, NEW e \in BOOLEAN, ChangeActiveStatusForMeasurement(n, e)
        PROVE  RowsFixed
    <3>1. builders' = builders
      BY <2>2 DEF ChangeActiveStatusForMeasurement
    <3> QED
      BY <2>2, <3>1, StatusFixes DEF RowsFixed
  <2>3. ASSUME NEW c \in Builder, NEW ip \in IP, NEW network \in Network \cup {Null},
               AddBuilder(c, ip, network)
        PROVE  RowsFixed
    BY <2>3 DEF AddBuilder, RowsFixed, Types, TypeOK
  <2>4. ASSUME NEW c \in Builder, Deactivate(c)
        PROVE  RowsFixed
    <3>1. measurements' = measurements /\ SetActive(c, FALSE)
      BY <2>4 DEF Deactivate
    <3> QED
      BY <3>1, SetActiveFixes DEF RowsFixed
  <2>5. CASE UNCHANGED <<builders, measurements>>
    BY <2>5 DEF RowsFixed
  <2> QED
    BY <1>3, <2>1, <2>2, <2>3, <2>4, <2>5 DEF OneCall, RejectAuthData, RejectCall,
       GetActiveBuildersNoAuthNetworked, GetActiveBuildersNoAuth, GetAllowedMeasurements,
       AddBuilderConfig, GetActiveConfigForBuilder, SetSecrets, db
<1>4. CASE UNCHANGED <<builders, measurements>>
  BY <1>4 DEF RowsFixed
<1> QED
  BY <1>1, <1>2, <1>3, <1>4 DEF Next

(* What a request has established: past the first lookup a measurement of   *)
(* its attestation type that matched while active, past the second one a    *)
(* builder of its address that was active.                                  *)
Matched(q, s) ==
    /\ q.mname \in s.measurements
    /\ measurements[q.mname] # Null
    /\ measurements[q.mname].type = q.claim.type
    /\ checkMeasurement(q.claim.values, measurements[q.mname].template)
Found(q, s) ==
    /\ q.builder \in s.builders
    /\ builders[q.builder] # Null
    /\ builders[q.builder].ip = q.ip
Authorised(q, s) ==
    /\ q.pc \in Located \cup {"builder"} => Matched(q, s)
    /\ q.pc \in Located => Found(q, s)
RequestsAuthorised == \A r \in Slot : Authorised(req[r], seen[r])

(* Two requests that differ in how far they have come and what they read.   *)
SameIdentity(q, p) ==
    /\ q.op = p.op /\ q.ip = p.ip /\ q.claim = p.claim
    /\ q.mname = p.mname /\ q.builder = p.builder

(* The history of a request of the instance API grows.                      *)
LEMMA SeenGrows ==
    ASSUME Types, Observe, NEW r \in Slot, req'[r].op \in AuthOps
    PROVE  /\ seen[r].builders \subseteq seen'[r].builders
           /\ seen[r].measurements \subseteq seen'[r].measurements
           /\ {b \in Builder : IsActiveBuilder(b)'} \subseteq seen'[r].builders
           /\ {m \in MName : IsActiveMeasurement(m)'} \subseteq seen'[r].measurements
  BY DEF Observe

LEMMA MatchedKept ==
    ASSUME Types, RowsFixed, Observe, NEW r \in Slot, Matched(req[r], seen[r]),
           req[r].mname \in MName, req'[r].op \in AuthOps,
           req'[r].mname = req[r].mname, req'[r].claim = req[r].claim
    PROVE  Matched(req[r], seen[r])'
  BY SeenGrows DEF Matched, RowsFixed

LEMMA FoundKept ==
    ASSUME Types, RowsFixed, Observe, NEW r \in Slot, Found(req[r], seen[r]),
           req[r].builder \in Builder, req'[r].op \in AuthOps,
           req'[r].builder = req[r].builder, req'[r].ip = req[r].ip
    PROVE  Found(req[r], seen[r])'
  BY SeenGrows DEF Found, RowsFixed

(* How a step changes the request in slot r.                                *)
Keeps(r) ==
    /\ SameIdentity(req'[r], req[r])
    /\ req'[r].pc \in Located => req[r].pc \in Located
    /\ req'[r].pc = "builder" => req[r].pc = "builder"
Matches(r) ==
    /\ MatchMeasurement(r)
    /\ \E m \in validateMeasurement(req[r].claim.values,
                                    GetActiveMeasurementsByType(req[r].claim.type)) :
          req'[r] = [req[r] EXCEPT !.pc = "builder", !.mname = m]
Finds(r) ==
    /\ LookupBuilder(r)
    /\ \E b \in GetBuilderByIP(req[r].ip) :
          req'[r] = [req[r] EXCEPT !.pc = AfterAuth[req[r].op], !.builder = b,
                                   !.network = builders[b].network]

\* A request that has no result of a lookup yet.
Fresh(q) ==
    /\ q.pc \notin Located \cup {"builder"}
    /\ q.mname = Null
    /\ q.op \in AuthOps => q.builder = Null

LEMMA HowRequestsChange ==
    ASSUME Types, Next, NEW r \in Slot
    PROVE  Fresh(req'[r]) \/ Keeps(r) \/ Matches(r) \/ Finds(r)
<1>1. req \in [Slot -> Request] /\ req[r] \in Request
  BY DEF Types, TypeOK
<1>2. CASE req'[r] = req[r]
  BY <1>2 DEF Keeps, SameIdentity
<1>3. CASE OneCall
  <2>1. req' = req
    BY <1>3, OneCallKeeps
  <2> QED
    BY <1>2, <2>1
<1>4. ASSUME NEW s \in Slot, NEW q, req' = [req EXCEPT ![s] = q], s # r
      PROVE  Keeps(r)
  BY <1>1, <1>4 DEF Keeps, SameIdentity
<1>5. ASSUME NEW s \in Slot, NEW q, req' = [req EXCEPT ![s] = q],
             Fresh(q)
      PROVE  Fresh(req'[r]) \/ Keeps(r)
  BY <1>1, <1>4, <1>5
<1>6. ASSUME NEW s \in Slot, Arrive(s)
      PROVE  Fresh(req'[r]) \/ Keeps(r)
  <2>1. ASSUME NEW op \in AuthOps, NEW ip \in IP, NEW claim \in Claim,
               NEW service \in Service \cup {Null}, BeginAuth(s, op, ip, claim, service)
        PROVE  Fresh(req'[r]) \/ Keeps(r)
    <3> DEFINE q == [Idle EXCEPT !.pc = "measurement", !.op = op, !.ip = ip,
                                 !.claim = claim, !.service = service]
    <3>1. Fresh(q)
      BY DEF Idle, Located, Fresh, AuthOps
    <3>2. req' = [req EXCEPT ![s] = q]
      BY <2>1 DEF BeginAuth, Continue
    <3> HIDE DEF q
    <3> QED
      BY <1>5, <3>1, <3>2
  <2>2. ASSUME NEW b \in Builder, CheckActivation(s, b)
        PROVE  Fresh(req'[r]) \/ Keeps(r)
    <3> DEFINE q == [Idle EXCEPT !.pc = "activate", !.op = "Activate", !.builder = b]
    <3>1. Fresh(q)
      BY DEF Idle, Located, Fresh, AuthOps
    <3>2. req' = [req EXCEPT ![s] = q] \/ req' = req
      BY <2>2 DEF CheckActivation, Continue, Reply
    <3> HIDE DEF q
    <3> QED
      BY <1>2, <1>5, <3>1, <3>2 DEF Keeps, SameIdentity
  <2>3. ASSUME NEW b \in Builder, CheckFullConfig(s, b)
        PROVE  Fresh(req'[r]) \/ Keeps(r)
    <3> DEFINE q == [Idle EXCEPT !.pc = "fullSecrets", !.op = "GetFullConfig", !.builder = b]
    <3>1. Fresh(q)
      BY DEF Idle, Located, Fresh, AuthOps
    <3>2. req' = [req EXCEPT ![s] = q] \/ req' = req
      BY <2>3 DEF CheckFullConfig, Continue, Reply
    <3> HIDE DEF q
    <3> QED
      BY <1>2, <1>5, <3>1, <3>2 DEF Keeps, SameIdentity
  <2> QED
    BY <1>6, <2>1, <2>2, <2>3 DEF Arrive
<1>7. ASSUME NEW s \in Slot, HandlerStep(s)
      PROVE  Fresh(req'[r]) \/ Keeps(r) \/ Matches(r) \/ Finds(r)
  <2>1. ASSUME NEW response, Return(s, response)
        PROVE  Fresh(req'[r]) \/ Keeps(r)
    <3>1. Fresh(Idle)
      BY DEF Idle, Located, Fresh, AuthOps
    <3> QED
      BY <1>5, <2>1, <3>1 DEF Return
  <2>2. CASE MatchMeasurement(s)
    <3>1. ASSUME NEW m, Continue(s, [req[s] EXCEPT !.pc = "builder", !.mname = m]), s = r
          PROVE  req'[r] = [req[r] EXCEPT !.pc = "builder", !.mname = m]
      BY <1>1, <3>1 DEF Continue
    <3> QED
      BY <1>4, <2>1, <2>2, <3>1 DEF MatchMeasurement, Matches, Continue
  <2>3. CASE LookupBuilder(s)
    <3>1. ASSUME NEW b, Continue(s, [req[s] EXCEPT !.pc = AfterAuth[req[s].op], !.builder = b,
                                                   !.network = builders[b].network]), s = r
          PROVE  req'[r] = [req[r] EXCEPT !.pc = AfterAuth[req[r].op], !.builder = b,
                                          !.network = builders[b].network]
      BY <1>1, <3>1 DEF Continue
    <3> QED
      BY <1>4, <2>1, <2>3, <3>1 DEF LookupBuilder, Finds, Continue
  <2>4. ASSUME NEW p \in Located, Continue(s, [req[s] EXCEPT !.pc = p]), req[s].pc \in Located
        PROVE  Keeps(r)
    <3>1. CASE s = r
      <4> DEFINE q == req[r]
      <4>1. req'[r] = [q EXCEPT !.pc = p] /\ q \in Request /\ q.pc \in Located
        BY <1>1, <2>4, <3>1 DEF Continue
      <4> HIDE DEF q
      <4>2. SameIdentity(req'[r], q) /\ req'[r].pc = p
        BY <4>1 DEF Request, SameIdentity
      <4> QED
        BY <4>1, <4>2 DEF Keeps, q, Located
    <3> QED
      BY <1>4, <2>4, <3>1 DEF Continue
  <2>5. CASE FetchConfig(s)
    BY <2>1, <2>4, <2>5 DEF FetchConfig, Located
  <2>6. CASE FetchSecrets(s)
    <3>1. Continue(s, [req[s] EXCEPT !.pc = "log", !.secret = secrets[req[s].builder]])
          /\ req[s].pc \in Located
      BY <2>6 DEF FetchSecrets, Located
    <3>2. CASE s = r
      <4> DEFINE q == req[r]
                 x == secrets[q.builder]
      <4>1. req'[r] = [q EXCEPT !.pc = "log", !.secret = x] /\ q \in Request /\ q.pc \in Located
        BY <1>1, <3>1, <3>2 DEF Continue
      <4> HIDE DEF q, x
      <4>2. SameIdentity(req'[r], q) /\ req'[r].pc = "log"
        BY <4>1 DEF Request, SameIdentity
      <4> QED
        BY <4>1, <4>2 DEF Keeps, q, Located
    <3> QED
      BY <1>4, <3>1, <3>2 DEF Continue
  <2>7. CASE LogEvent(s)
    BY <2>1, <2>4, <2>7 DEF LogEvent, Located
  <2>8. CASE \/ WriteConfig(s) \/ ListPeers(s) \/ RejectCredentials(s) \/ RegisterCredentials(s)
             \/ Activate(s) \/ FetchFullSecrets(s) \/ FailStep(s)
    BY <2>1, <2>8 DEF WriteConfig, ListPeers, RejectCredentials, RegisterCredentials, Activate,
       FetchFullSecrets, FailStep
  <2> QED
    BY <1>7, <2>2, <2>3, <2>5, <2>6, <2>7, <2>8 DEF HandlerStep, InstanceStep
<1> QED
  BY <1>3, <1>6, <1>7 DEF Next

LEMMA AuthorisedStep ==
    ASSUME Types, RequestsAuthorised, Next
    PROVE  RequestsAuthorised'
<1> SUFFICES ASSUME NEW r \in Slot
             PROVE  Authorised(req[r], seen[r])'
  BY DEF RequestsAuthorised
<1>1. RowsFixed /\ Observe
  BY NextFixes DEF Next
<1>2. Types'
  BY NextTypes
<1>3. req[r] \in Request /\ Holds(req[r]) /\ Authorised(req[r], seen[r])
  BY DEF Types, TypeOK, RequestsHold, RequestsAuthorised
<1>4. req'[r].pc \in Located \cup {"builder"} => req'[r].op \in AuthOps
  BY <1>2 DEF Types, RequestsHold, Holds
<1>5. CASE Fresh(req'[r])
  BY <1>5 DEF Authorised, Fresh
<1>6. CASE Keeps(r)
  <2>1. ASSUME req'[r].pc \in Located \cup {"builder"}
        PROVE  Matched(req[r], seen[r])'
    <3>1. req[r].pc \in Located \cup {"builder"}
      BY <1>6, <2>1 DEF Keeps
    <3>2. Matched(req[r], seen[r]) /\ req[r].mname \in MName
      BY <1>3, <3>1 DEF Authorised, Holds
    <3> QED
      BY <1>1, <1>4, <1>6, <2>1, <3>2, MatchedKept DEF Keeps, SameIdentity
  <2>2. ASSUME req'[r].pc \in Located
        PROVE  Found(req[r], seen[r])'
    <3>1. Found(req[r], seen[r]) /\ req[r].builder \in Builder
      BY <1>3, <1>6, <2>2 DEF Keeps, Authorised, Holds
    <3> QED
      BY <1>1, <1>4, <1>6, <2>2, <3>1, FoundKept DEF Keeps, SameIdentity
  <2> QED
    BY <2>1, <2>2 DEF Authorised
<1>7. CASE Matches(r)
  <2> DEFINE templates == GetActiveMeasurementsByType(req[r].claim.type)
             q == req[r]
  <2>1. PICK m \in validateMeasurement(req[r].claim.values, templates) :
                req'[r] = [req[r] EXCEPT !.pc = "builder", !.mname = m]
    BY <1>7 DEF Matches
  <2>2. /\ m \in MName /\ IsActiveMeasurement(m)
        /\ measurements[m].type = req[r].claim.type
        /\ checkMeasurement(req[r].claim.values, measurements[m].template)
    BY <2>1 DEF validateMeasurement, GetActiveMeasurementsByType
  <2>3. measurements' = measurements
    BY <1>7 DEF Matches, MatchMeasurement, db
  <2>4. req'[r].pc = "builder" /\ req'[r].mname = m /\ req'[r].claim = req[r].claim
    <3>1. req'[r] = [q EXCEPT !.pc = "builder", !.mname = m] /\ q \in Request
      BY <1>3, <2>1
    <3> HIDE DEF q
    <3>2. req'[r].pc = "builder" /\ req'[r].mname = m /\ req'[r].claim = q.claim
      BY <3>1 DEF Request
    <3> QED
      BY <3>2 DEF q
  <2>5. m \in seen'[r].measurements
    BY <1>1, <1>4, <2>2, <2>3, <2>4, SeenGrows DEF IsActiveMeasurement
  <2>6. Matched(req[r], seen[r])'
    BY <2>2, <2>3, <2>4, <2>5 DEF Matched, IsActiveMeasurement
  <2>7. req'[r].pc \notin Located
    BY <2>4 DEF Located
  <2> QED
    BY <2>6, <2>7 DEF Authorised
<1>8. CASE Finds(r)
  <2> DEFINE q == req[r]
             p == AfterAuth[req[r].op]
  <2>1. PICK b \in GetBuilderByIP(req[r].ip) :
                req'[r] = [req[r] EXCEPT !.pc = AfterAuth[req[r].op], !.builder = b,
                                         !.network = builders[b].network]
    BY <1>8 DEF Finds
  <2>2. b \in Builder /\ IsActiveBuilder(b) /\ builders[b].ip = req[r].ip
    BY <2>1 DEF GetBuilderByIP
  <2>3. builders' = builders /\ req[r].pc = "builder"
    BY <1>8 DEF Finds, LookupBuilder, db
  <2>4. /\ req'[r].builder = b /\ req'[r].mname = req[r].mname /\ req'[r].op = req[r].op
        /\ req'[r].claim = req[r].claim /\ req'[r].ip = req[r].ip
    <3> DEFINE n == builders[b].network
    <3>1. req'[r] = [q EXCEPT !.pc = p, !.builder = b, !.network = n] /\ q \in Request
      BY <1>3, <2>1
    <3> HIDE DEF q, p, n
    <3>2. /\ req'[r].builder = b /\ req'[r].mname = q.mname /\ req'[r].op = q.op
          /\ req'[r].claim = q.claim /\ req'[r].ip = q.ip
      BY <3>1 DEF Request
    <3> QED
      BY <3>2 DEF q
  <2>5. req'[r].op \in AuthOps /\ req[r].mname \in MName
    BY <1>3, <2>3, <2>4 DEF Holds
  <2>6. Matched(req[r], seen[r])
    BY <1>3, <2>3 DEF Authorised
  <2>7. Matched(req[r], seen[r])'
    BY <1>1, <2>4, <2>5, <2>6, MatchedKept
  <2>8. b \in seen'[r].builders
    BY <1>1, <2>2, <2>3, <2>5, SeenGrows DEF IsActiveBuilder
  <2>9. Found(req[r], seen[r])'
    BY <2>2, <2>3, <2>4, <2>8 DEF Found, IsActiveBuilder
  <2> QED
    BY <2>7, <2>9 DEF Authorised
<1> QED
  BY <1>5, <1>6, <1>7, <1>8, HowRequestsChange

(* Once a builder, or a measurement, is inactive, the requests that act for *)
(* it only get fewer: VerifyIPAndMeasurements lets no new one pass.         *)
THEOREM RevokedDrains == Spec => RevokedOnlyDrains
<1> DEFINE Drains == /\ \A b \in Builder : ~IsActiveBuilder(b) => ActingFor(b)' \subseteq ActingFor(b)
                     /\ \A m \in MName : ~IsActiveMeasurement(m) => ActingOn(m)' \subseteq ActingOn(m)
<1>1. ASSUME Types, Next
      PROVE  Drains
  <2>1. ASSUME NEW r \in Slot
        PROVE  /\ \A b \in Builder : ~IsActiveBuilder(b) /\ req'[r].op \in AuthOps /\ req'[r].builder = b
                     => req[r].op \in AuthOps /\ req[r].builder = b
               /\ \A m \in MName : ~IsActiveMeasurement(m) /\ req'[r].mname = m => req[r].mname = m
    <3>1. req[r] \in Request
      BY <1>1 DEF Types, TypeOK
    <3>2. CASE Fresh(req'[r])
      BY <3>2, NullNameAssumption DEF Fresh
    <3>3. CASE Keeps(r)
      BY <3>3 DEF Keeps, SameIdentity
    <3>4. CASE Matches(r)
      <4> DEFINE q == req[r]
      <4>1. PICK m \in validateMeasurement(req[r].claim.values,
                                           GetActiveMeasurementsByType(req[r].claim.type)) :
                    req'[r] = [req[r] EXCEPT !.pc = "builder", !.mname = m]
        BY <3>4 DEF Matches
      <4>2. IsActiveMeasurement(m)
        BY <4>1 DEF validateMeasurement, GetActiveMeasurementsByType
      <4>3. req'[r] = [q EXCEPT !.pc = "builder", !.mname = m] /\ q \in Request
        BY <3>1, <4>1
      <4> HIDE DEF q
      <4>4. req'[r].mname = m /\ req'[r].op = q.op /\ req'[r].builder = q.builder
        BY <4>3 DEF Request
      <4> QED
        BY <4>2, <4>4 DEF q
    <3>5. CASE Finds(r)
      <4> DEFINE q == req[r]
                 p == AfterAuth[req[r].op]
      <4>1. PICK b \in GetBuilderByIP(req[r].ip) :
                    req'[r] = [req[r] EXCEPT !.pc = AfterAuth[req[r].op], !.builder = b,
                                             !.network = builders[b].network]
        BY <3>5 DEF Finds
      <4>2. IsActiveBuilder(b)
        BY <4>1 DEF GetBuilderByIP
      <4> DEFINE n == builders[b].network
      <4>3. req'[r] = [q EXCEPT !.pc = p, !.builder = b, !.network = n] /\ q \in Request
        BY <3>1, <4>1
      <4> HIDE DEF q, p, n
      <4>4. req'[r].builder = b /\ req'[r].mname = q.mname
        BY <4>3 DEF Request
      <4> QED
        BY <4>2, <4>4 DEF q
    <3> QED
      BY <1>1, <3>2, <3>3, <3>4, <3>5, HowRequestsChange
  <2> QED
    BY <2>1 DEF ActingFor, ActingOn
<1>2. UNCHANGED vars => Drains
  BY DEF vars, ActingFor, ActingOn
<1> QED
  BY <1>1, <1>2, AlwaysTypes, PTL DEF Spec, RevokedOnlyDrains

\* The steps a handler has at most ahead of it.
StepsAhead == [idle |-> 0, write |-> 1, log |-> 2, secrets |-> 3, config |-> 4, peers |-> 1,
               register |-> 1, builder |-> 5, measurement |-> 6, activate |-> 1, fullSecrets |-> 1]

Nearer(r) == StepsAhead[req'[r].pc] < StepsAhead[req[r].pc]

LEMMA HandlerNearer ==
    ASSUME Types, NEW r \in Slot, HandlerStep(r)
    PROVE  Nearer(r) /\ \A s \in Slot \ {r} : req'[s] = req[s]
<1> DEFINE q == req[r]
<1>1. req \in [Slot -> Request] /\ q \in Request /\ Holds(q)
  BY DEF Types, TypeOK, RequestsHold
<1>2. ASSUME NEW response, Return(r, response), q.pc # "idle"
      PROVE  Nearer(r) /\ \A s \in Slot \ {r} : req'[s] = req[s]
  <2>1. req'[r].pc = "idle" /\ \A s \in Slot \ {r} : req'[s] = req[s]
    BY <1>1, <1>2 DEF Return, Idle
  <2>2. q.pc \in PC
    BY <1>1 DEF Request
  <2>3. StepsAhead["idle"] < StepsAhead[q.pc]
    BY <1>2, <2>2 DEF StepsAhead, PC
  <2> QED
    BY <2>1, <2>3 DEF Nearer
<1>3. ASSUME NEW x, Continue(r, x), StepsAhead[x.pc] < StepsAhead[q.pc]
      PROVE  Nearer(r) /\ \A s \in Slot \ {r} : req'[s] = req[s]
  BY <1>1, <1>3 DEF Continue, Nearer
<1>4. CASE MatchMeasurement(r)
  <2>1. ASSUME NEW m, Continue(r, [req[r] EXCEPT !.pc = "builder", !.mname = m])
        PROVE  Nearer(r) /\ \A s \in Slot \ {r} : req'[s] = req[s]
    <3> DEFINE x == [q EXCEPT !.pc = "builder", !.mname = m]
    <3>1. q.pc = "measurement" /\ Continue(r, x)
      BY <1>4, <2>1 DEF MatchMeasurement
    <3>2. x.pc = "builder"
      <4> HIDE DEF q
      <4> QED
        BY <1>1 DEF Request
    <3> HIDE DEF x
    <3>3. StepsAhead[x.pc] < StepsAhead[q.pc]
      BY <3>1, <3>2 DEF StepsAhead
    <3> QED
      BY <1>3, <3>1, <3>3
  <2> QED
    BY <1>2, <1>4, <2>1 DEF MatchMeasurement
<1>5. CASE LookupBuilder(r)
  <2>1. ASSUME NEW b, Continue(r, [req[r] EXCEPT !.pc = AfterAuth[req[r].op], !.builder = b,
                                                 !.network = builders[b].network])
        PROVE  Nearer(r) /\ \A s \in Slot \ {r} : req'[s] = req[s]
    <3> DEFINE n == builders[b].network
               p == AfterAuth[q.op]
               x == [q EXCEPT !.pc = p, !.builder = b, !.network = n]
    <3>1. q.pc = "builder" /\ Continue(r, x)
      BY <1>5, <2>1 DEF LookupBuilder
    <3>2. q.op \in AuthOps
      BY <1>1, <3>1 DEF Holds
    <3>3. StepsAhead[p] < StepsAhead["builder"]
      BY <3>2 DEF AfterAuth, AuthOps, StepsAhead
    <3>4. x.pc = p
      <4> HIDE DEF q, p, n
      <4> QED
        BY <1>1 DEF Request
    <3> HIDE DEF x, p
    <3>5. StepsAhead[x.pc] < StepsAhead[q.pc]
      BY <3>1, <3>3, <3>4
    <3> QED
      BY <1>3, <3>1, <3>5
  <2> QED
    BY <1>2, <1>5, <2>1 DEF LookupBuilder
<1>6. ASSUME NEW p \in {"secrets", "write"}, q.pc = IF p = "secrets" THEN "config" ELSE "log",
             Continue(r, [req[r] EXCEPT !.pc = p])
      PROVE  Nearer(r) /\ \A s \in Slot \ {r} : req'[s] = req[s]
  <2> DEFINE x == [q EXCEPT !.pc = p]
  <2>1. x.pc = p
    <3> HIDE DEF q
    <3> QED
      BY <1>1 DEF Request
  <2>2. Continue(r, x)
    BY <1>6
  <2> HIDE DEF x
  <2>3. StepsAhead[x.pc] < StepsAhead[q.pc]
    BY <1>6, <2>1 DEF StepsAhead
  <2> QED
    BY <1>3, <2>2, <2>3
<1>7. CASE FetchSecrets(r)
  <2> DEFINE y == secrets[q.builder]
             x == [q EXCEPT !.pc = "log", !.secret = y]
  <2>1. q.pc = "secrets" /\ Continue(r, x)
    BY <1>7 DEF FetchSecrets
  <2>2. x.pc = "log"
    <3> HIDE DEF q, y
    <3> QED
      BY <1>1 DEF Request
  <2> HIDE DEF x
  <2>3. StepsAhead[x.pc] < StepsAhead[q.pc]
    BY <2>1, <2>2 DEF StepsAhead
  <2> QED
    BY <1>3, <2>1, <2>3
<1>8. CASE FetchConfig(r) \/ LogEvent(r)
  BY <1>2, <1>6, <1>8 DEF FetchConfig, LogEvent
<1>9. CASE \/ WriteConfig(r) \/ ListPeers(r) \/ RejectCredentials(r) \/ RegisterCredentials(r)
           \/ Activate(r) \/ FetchFullSecrets(r) \/ FailStep(r)
  BY <1>2, <1>9 DEF WriteConfig, ListPeers, RejectCredentials, RegisterCredentials, Activate,
     FetchFullSecrets, FailStep
<1> QED
  BY <1>4, <1>5, <1>7, <1>8, <1>9 DEF HandlerStep, InstanceStep

(* Every step of a handler of the instance or the admin API brings that     *)
(* request nearer to its answer, of which it is at most six steps away, and *)
(* no step of another request or of the admin API sends it back: a request  *)
(* found for a revoked builder is over after its own next few steps.        *)
THEOREM HandlersOnlyAdvance ==
    Spec => [][\A r \in Slot : req'[r] = req[r] \/ Nearer(r) \/ req[r].pc = "idle"]_vars
<1> DEFINE Advance == \A r \in Slot : req'[r] = req[r] \/ Nearer(r) \/ req[r].pc = "idle"
<1>1. ASSUME Types, Next
      PROVE  Advance
  <2>1. CASE OneCall
    BY <2>1, OneCallKeeps
  <2>2. ASSUME NEW s \in Slot, Arrive(s)
        PROVE  Advance
    <3>1. req[s].pc = "idle"
      BY <2>2 DEF Arrive, BeginAuth, CheckActivation, CheckFullConfig
    <3>2. \E q : req' = [req EXCEPT ![s] = q] \/ req' = req
      BY <2>2 DEF Arrive, BeginAuth, CheckActivation, CheckFullConfig, Continue, Reply
    <3> QED
      BY <1>1, <3>1, <3>2 DEF Types, TypeOK
  <2>3. ASSUME NEW s \in Slot, HandlerStep(s)
        PROVE  Advance
    BY <1>1, <2>3, HandlerNearer
  <2> QED
    BY <1>1, <2>1, <2>2, <2>3 DEF Next
<1>2. UNCHANGED vars => Advance
  BY DEF vars
<1> QED
  BY <1>1, <1>2, AlwaysTypes, PTL DEF Spec

(* Only a request past both lookups takes effect.                           *)
LEMMA EffectIsLocated ==
    ASSUME Types, Next, NEW r \in Slot, TakesEffect(r)
    PROVE  req[r].pc \in Located
<1>1. req \in [Slot -> Request] /\ Holds(req[r])
  BY DEF Types, TypeOK, RequestsHold
<1>2. req[r].pc # "idle" /\ req'[r].pc = "idle" /\ req[r].op \in AuthOps
  BY <1>1 DEF TakesEffect, Holds, Located
<1>3. req[r].pc \in Located \cup {"measurement", "builder"}
  BY <1>1, <1>2 DEF Holds
<1>4. ASSUME OneCall PROVE FALSE
  <2>1. req' = req
    BY <1>4, OneCallKeeps
  <2> QED
    BY <1>2, <2>1
<1>5. ASSUME NEW s \in Slot, NEW q, req' = [req EXCEPT ![s] = q] \/ req' = req
      PROVE  s = r
  BY <1>1, <1>2, <1>5
<1>6. ASSUME NEW s \in Slot, Arrive(s) PROVE FALSE
  <2>1. req[s].pc = "idle"
    BY <1>6 DEF Arrive, BeginAuth, CheckActivation, CheckFullConfig
  <2>2. \E q : req' = [req EXCEPT ![s] = q] \/ req' = req
    BY <1>6 DEF Arrive, BeginAuth, CheckActivation, CheckFullConfig, Continue, Reply
  <2> QED
    BY <1>2, <1>5, <2>1, <2>2
<1>7. ASSUME NEW s \in Slot, HandlerStep(s) PROVE req[r].pc \in Located
  <2>1. \E q : req' = [req EXCEPT ![s] = q] \/ req' = req
    BY <1>7 DEF HandlerStep, InstanceStep, MatchMeasurement, LookupBuilder, FetchConfig,
       FetchSecrets, LogEvent, WriteConfig, ListPeers, RejectCredentials, RegisterCredentials,
       Activate, FetchFullSecrets, FailStep, Continue, Return
  <2>2. s = r
    BY <1>5, <2>1
  <2>3. ASSUME NEW code \in {403, 500}, Return(r, Status(code)), credentials' = credentials
        PROVE  FALSE
    BY <2>3 DEF TakesEffect, Return, Status
  <2>4. ASSUME MatchMeasurement(r) PROVE FALSE
    <3> DEFINE q == req[r]
    <3>1. ASSUME NEW m, Continue(r, [req[r] EXCEPT !.pc = "builder", !.mname = m])
          PROVE  FALSE
      <4>1. req'[r] = [q EXCEPT !.pc = "builder", !.mname = m] /\ q \in Request
        BY <1>1, <3>1 DEF Continue
      <4> HIDE DEF q
      <4>2. req'[r].pc = "builder"
        BY <4>1 DEF Request
      <4> QED
        BY <1>2, <4>2
    <3> QED
      BY <2>3, <2>4, <3>1 DEF MatchMeasurement, db
  <2>5. ASSUME LookupBuilder(r) PROVE FALSE
    <3> DEFINE q == req[r]
               p == AfterAuth[req[r].op]
    <3>1. ASSUME NEW b, Continue(r, [req[r] EXCEPT !.pc = AfterAuth[req[r].op], !.builder = b,
                                                   !.network = builders[b].network])
          PROVE  FALSE
      <4> DEFINE n == builders[b].network
      <4>1. req'[r] = [q EXCEPT !.pc = p, !.builder = b, !.network = n] /\ q \in Request
        BY <1>1, <3>1 DEF Continue
      <4>2. p # "idle"
        BY <1>2 DEF AfterAuth, AuthOps
      <4> HIDE DEF q, p, n
      <4>3. req'[r].pc = p
        BY <4>1 DEF Request
      <4> QED
        BY <1>2, <4>2, <4>3
    <3> QED
      BY <2>3, <2>5, <3>1 DEF LookupBuilder, db
  <2>6. ASSUME FailStep(r) PROVE FALSE
    BY <2>3, <2>6 DEF FailStep, db
  <2>7. CASE \/ FetchConfig(r) \/ FetchSecrets(r) \/ LogEvent(r) \/ WriteConfig(r)
             \/ ListPeers(r) \/ RejectCredentials(r) \/ RegisterCredentials(r)
    BY <2>7 DEF FetchConfig, FetchSecrets, LogEvent, WriteConfig, ListPeers, RejectCredentials,
       RegisterCredentials, Located
  <2>8. ASSUME Activate(r) \/ FetchFullSecrets(r) PROVE FALSE
    BY <1>3, <2>8 DEF Activate, FetchFullSecrets, Located
  <2> QED
    BY <1>7, <2>2, <2>4, <2>5, <2>6, <2>7, <2>8 DEF HandlerStep, InstanceStep
<1> QED
  BY <1>4, <1>6, <1>7 DEF Next

LEMMA AlwaysAuthorised == Spec => []RequestsAuthorised
<1>1. Init => RequestsAuthorised
  BY DEF Init, RequestsAuthorised, Authorised, Idle, Located
<1>2. Types /\ RequestsAuthorised /\ [Next]_vars => RequestsAuthorised'
  <2>1. RequestsAuthorised /\ UNCHANGED vars => RequestsAuthorised'
    BY DEF RequestsAuthorised, Authorised, Matched, Found, vars, db
  <2> QED
    BY <2>1, AuthorisedStep
<1> QED
  BY <1>1, <1>2, AlwaysTypes, PTL DEF Spec

(* VerifyIPAndMeasurements decides on two reads of the database that no     *)
(* transaction joins, and the handlers act on the decision later still: all *)
(* the same, whoever gets secrets or peers, or registers credentials, was   *)
(* authorised by rows that were in force during the request.                *)
THEOREM OnlyAuthorisedTakeEffect == Spec => AuthorisedDuringRequest
<1> DEFINE Allowed ==
      \A r \in Slot : TakesEffect(r) =>
          LET b == req[r].builder
              m == req[r].mname
          IN  /\ b \in seen[r].builders /\ builders[b].ip = req[r].ip
              /\ m \in seen[r].measurements
              /\ measurements[m].type = req[r].claim.type
              /\ checkMeasurement(req[r].claim.values, measurements[m].template)
<1>1. ASSUME Types, RequestsAuthorised, [Next]_vars
      PROVE  [Allowed]_vars
  <2> SUFFICES ASSUME Next, NEW r \in Slot, TakesEffect(r)
               PROVE  Matched(req[r], seen[r]) /\ Found(req[r], seen[r])
    BY <1>1 DEF Matched, Found
  <2> QED
    BY <1>1, EffectIsLocated DEF RequestsAuthorised, Authorised
<1> QED
  BY <1>1, AlwaysAuthorised, AlwaysTypes, PTL DEF Spec, AuthorisedDuringRequest

(* A row that names what its request was authorised by.                     *)
LEMMA AttestedRow ==
    ASSUME Types, RequestsAuthorised, NEW r \in Slot, req[r].pc \in Located, NEW row,
           row.builder = req[r].builder, row.measurement = req[r].mname, req'[r].pc # req[r].pc
    PROVE  Attested(r, row)
<1>1. Matched(req[r], seen[r]) /\ Found(req[r], seen[r])
  BY DEF RequestsAuthorised, Authorised
<1> QED
  BY <1>1 DEF Attested, Matched, Found

(* The measurement_id of a registration or an event is looked up by name in *)
(* the INSERT, after measurements_whitelist may have changed: it is still   *)
(* that of the measurement the request was authorised by, since rows are    *)
(* never deleted and never change their type or template.                   *)
THEOREM AuditRowsAttested == Spec => WrittenAsAttested
<1> DEFINE Written1 == \A i \in DOMAIN credentials' \ DOMAIN credentials :
                          \E r \in Slot : Attested(r, credentials'[i])
           Written2 == \A i \in DOMAIN eventLog' \ DOMAIN eventLog :
                          \E r \in Slot : Attested(r, eventLog'[i])
<1>1. ASSUME Types, RequestsAuthorised, NEW r \in Slot, RegisterCredentials(r)
      PROVE  Written1
  <2> DEFINE row == [builder |-> req[r].builder, service |-> req[r].service,
                     measurement |-> MeasurementIdByType(req[r].mname, req[r].claim.type),
                     isActive |-> TRUE]
             kept == Deprecate(req[r].builder, req[r].service)
  <2>1. /\ req[r].pc \in Located
        /\ req[r].builder \in Builder /\ req[r].service \in Service /\ req[r].mname \in MName
    BY <1>1 DEF RegisterCredentials, Types, RequestsHold, Holds, Located
  <2>2. MeasurementIdByType(req[r].mname, req[r].claim.type) = req[r].mname
    BY <1>1, <2>1 DEF RequestsAuthorised, Authorised, Matched, MeasurementIdByType
  <2>3. row \in CredentialRow /\ row.builder = req[r].builder /\ row.measurement = req[r].mname
    BY <2>1, <2>2 DEF CredentialRow
  <2>4. kept \in Seq(CredentialRow) /\ Len(kept) = Len(credentials)
    BY <1>1, <2>1, DeprecateFacts
  <2>5. credentials' = Append(kept, row) /\ credentials \in Seq(CredentialRow)
    BY <1>1 DEF RegisterCredentials, Types, TypeOK
  <2>6. req'[r].pc # req[r].pc
    BY <1>1 DEF RegisterCredentials, Return, Idle, Types, TypeOK
  <2> HIDE DEF row, kept
  <2>7. \A i \in DOMAIN credentials' \ DOMAIN credentials : credentials'[i] = row
    BY <2>3, <2>4, <2>5, AppendedRow
  <2>8. Attested(r, row)
    BY <1>1, <2>1, <2>3, <2>6, AttestedRow
  <2> QED
    BY <2>7, <2>8
<1>2. ASSUME Types, RequestsAuthorised, NEW r \in Slot, LogEvent(r)
      PROVE  Written2
  <2> DEFINE row == EventOf(r)
  <2>1. req[r].pc = "log" /\ req[r].pc \in Located /\ req[r].mname \in MName
    BY <1>2 DEF LogEvent, Types, RequestsHold, Holds, Located
  <2>2. row \in Event
    BY <1>2, <2>1, EventTypes
  <2>3. row.builder = req[r].builder /\ row.measurement = req[r].mname
    BY <1>2, <2>1 DEF RequestsAuthorised, Authorised, Matched, EventOf, MeasurementId
  <2>4. eventLog' = Append(eventLog, row) /\ eventLog \in Seq(Event)
    BY <1>2 DEF LogEvent, Types, TypeOK
  <2>5. req'[r].pc # req[r].pc
    <3> DEFINE q == req[r]
    <3>1. q \in Request /\ req \in [Slot -> Request]
      BY <1>2 DEF Types, TypeOK
    <3>2. req'[r] = [q EXCEPT !.pc = "write"] \/ req'[r] = Idle
      BY <1>2, <3>1 DEF LogEvent, Continue, Return
    <3> HIDE DEF q
    <3>3. req'[r].pc \in {"write", "idle"}
      BY <3>1, <3>2 DEF Request, Idle
    <3> QED
      BY <2>1, <3>3
  <2> HIDE DEF row
  <2>6. \A i \in DOMAIN eventLog' \ DOMAIN eventLog : eventLog'[i] = row
    BY <2>2, <2>4, AppendedRow
  <2>7. Attested(r, row)
    BY <1>2, <2>1, <2>3, <2>5, AttestedRow
  <2> QED
    BY <2>6, <2>7
<1>3. ASSUME Types, RequestsAuthorised, [Next]_vars
      PROVE  [Written1 /\ Written2]_vars
  <2>1. ASSUME Next PROVE Written1
    <3>1. CASE credentials' = credentials
      BY <3>1
    <3> QED
      BY <1>1, <1>3, <2>1, <3>1, WhoRegisters
  <2>2. ASSUME Next PROVE Written2
    <3>1. CASE eventLog' = eventLog
      BY <3>1
    <3> QED
      BY <1>2, <1>3, <2>2, <3>1, WhoInsertsEvents
  <2> QED
    BY <1>3, <2>1, <2>2
<1> QED
  BY <1>3, AlwaysAuthorised, AlwaysTypes, PTL DEF Spec, WrittenAsAttested
=============================================================================
