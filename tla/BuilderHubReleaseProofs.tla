----------------------- MODULE BuilderHubReleaseProofs -----------------------
(***************************************************************************)
(* Proofs about what GetConfigSecrets of the hub releases: secrets of the  *)
(* authorised builder that were current during the request, and never      *)
(* without an event in event_log.                                          *)
(***************************************************************************)
EXTENDS BuilderHubProofs, FiniteSetTheorems

(* Who moves: a step changes the request of one slot at most.               *)

LEMMA AfterReturn ==
    ASSUME Types, NEW r \in Slot, NEW response, Return(r, response)
    PROVE  req'[r] = Idle /\ req'[r].pc = "idle" /\ \A s \in Slot \ {r} : req'[s] = req[s]
  BY DEF Types, TypeOK, Return, Idle

LEMMA AfterContinue ==
    ASSUME Types, NEW r \in Slot, NEW q, Continue(r, q)
    PROVE  req'[r] = q /\ \A s \in Slot \ {r} : req'[s] = req[s]
  BY DEF Types, TypeOK, Continue

LEMMA WhoMoves ==
    ASSUME Types, Next, NEW r \in Slot
    PROVE  req'[r] = req[r] \/ Arrive(r) \/ HandlerStep(r)
<1>1. CASE OneCall
  BY <1>1, OneCallKeeps
<1>2. ASSUME NEW s \in Slot, Arrive(s), s # r PROVE req'[r] = req[r]
  <2>1. \E q : req' = [req EXCEPT ![s] = q] \/ req' = req
    BY <1>2 DEF Arrive, BeginAuth, CheckActivation, CheckFullConfig, Continue, Reply
  <2> QED
    BY <1>2, <2>1 DEF Types, TypeOK
<1>3. ASSUME NEW s \in Slot, HandlerStep(s), s # r PROVE req'[r] = req[r]
  <2>1. \E q : req' = [req EXCEPT ![s] = q]
    BY <1>3 DEF HandlerStep, InstanceStep, MatchMeasurement, LookupBuilder, FetchConfig,
       FetchSecrets, LogEvent, WriteConfig, ListPeers, RejectCredentials, RegisterCredentials,
       Activate, FetchFullSecrets, FailStep, Continue, Return
  <2> QED
    BY <1>3, <2>1 DEF Types, TypeOK
<1> QED
  BY <1>1, <1>2, <1>3 DEF Next

(* A handler that arrives has made no lookup.                               *)
LEMMA ArrivesEarly ==
    ASSUME Types, NEW r \in Slot, Arrive(r)
    PROVE  /\ req[r].pc = "idle"
           /\ req'[r].pc \in {"idle", "measurement", "activate", "fullSecrets"}
<1>1. req[r].pc = "idle"
  BY DEF Arrive, BeginAuth, CheckActivation, CheckFullConfig
<1>2. ASSUME NEW op, NEW ip, NEW claim, NEW service, BeginAuth(r, op, ip, claim, service)
      PROVE  req'[r].pc = "measurement"
  <2> DEFINE q == [Idle EXCEPT !.pc = "measurement", !.op = op, !.ip = ip,
                               !.claim = claim, !.service = service]
  <2>1. q.pc = "measurement"
    BY DEF Idle
  <2>2. Continue(r, q)
    BY <1>2 DEF BeginAuth
  <2> HIDE DEF q
  <2> QED
    BY <2>1, <2>2, AfterContinue
<1>3. ASSUME NEW b, CheckActivation(r, b), req' # req
      PROVE  req'[r].pc = "activate"
  <2> DEFINE q == [Idle EXCEPT !.pc = "activate", !.op = "Activate", !.builder = b]
  <2>1. q.pc = "activate"
    BY DEF Idle
  <2>2. Continue(r, q)
    BY <1>3 DEF CheckActivation, Reply
  <2> HIDE DEF q
  <2> QED
    BY <2>1, <2>2, AfterContinue
<1>4. ASSUME NEW b, CheckFullConfig(r, b), req' # req
      PROVE  req'[r].pc = "fullSecrets"
  <2> DEFINE q == [Idle EXCEPT !.pc = "fullSecrets", !.op = "GetFullConfig", !.builder = b]
  <2>1. q.pc = "fullSecrets"
    BY DEF Idle
  <2>2. Continue(r, q)
    BY <1>4 DEF CheckFullConfig, Reply
  <2> HIDE DEF q
  <2> QED
    BY <2>1, <2>2, AfterContinue
<1> QED
  BY <1>1, <1>2, <1>3, <1>4 DEF Arrive

(* How a handler comes to its last two steps, and what it takes with it.    *)
LEMMA ReachesWrite ==
    ASSUME Types, Next, NEW r \in Slot, req'[r].pc \in {"log", "write"}
    PROVE  \/ req'[r] = req[r]
           \/ /\ FetchSecrets(r)
              /\ req'[r].pc = "log" /\ req'[r].op = req[r].op
              /\ req'[r].builder = req[r].builder /\ req'[r].secret = secrets[req[r].builder]
           \/ /\ LogEvent(r)
              /\ req'[r].pc = "write" /\ req'[r].op = req[r].op /\ req'[r].mname = req[r].mname
              /\ req'[r].builder = req[r].builder /\ req'[r].secret = req[r].secret
<1> DEFINE q == req[r]
<1>0. q \in Request
  BY DEF Types, TypeOK
<1>1. ASSUME NEW response, Return(r, response) PROVE FALSE
  BY <1>1, AfterReturn
<1>2. ASSUME Arrive(r) PROVE FALSE
  BY <1>2, ArrivesEarly
<1>3. ASSUME MatchMeasurement(r) PROVE FALSE
  <2>1. PICK m : Continue(r, [q EXCEPT !.pc = "builder", !.mname = m])
    BY <1>1, <1>3 DEF MatchMeasurement
  <2>2. req'[r] = [q EXCEPT !.pc = "builder", !.mname = m]
    BY <2>1, AfterContinue
  <2> HIDE DEF q
  <2> QED
    BY <1>0, <2>2 DEF Request
<1>4. ASSUME LookupBuilder(r) PROVE FALSE
  <2>1. PICK b : Continue(r, [q EXCEPT !.pc = AfterAuth[q.op], !.builder = b,
                                       !.network = builders[b].network])
    BY <1>1, <1>4 DEF LookupBuilder
  <2> DEFINE p == AfterAuth[q.op]
             n == builders[b].network
  <2>2. req'[r] = [q EXCEPT !.pc = p, !.builder = b, !.network = n]
    BY <2>1, AfterContinue
  <2>3. q.op \in AuthOps
    BY <1>4 DEF LookupBuilder, Types, RequestsHold, Holds
  <2>4. p \notin {"log", "write"}
    BY <2>3 DEF AfterAuth, AuthOps
  <2> HIDE DEF q, p, n
  <2> QED
    BY <1>0, <2>2, <2>4 DEF Request
<1>5. ASSUME FetchConfig(r) PROVE FALSE
  <2>1. req'[r] = [q EXCEPT !.pc = "secrets"]
    BY <1>1, <1>5, AfterContinue DEF FetchConfig
  <2> HIDE DEF q
  <2> QED
    BY <1>0, <2>1 DEF Request
<1>6. CASE FetchSecrets(r)
  <2> DEFINE x == secrets[q.builder]
  <2>1. req'[r] = [q EXCEPT !.pc = "log", !.secret = x]
    BY <1>6, AfterContinue DEF FetchSecrets
  <2> HIDE DEF q, x
  <2>2. req'[r].pc = "log" /\ req'[r].op = q.op /\ req'[r].builder = q.builder /\ req'[r].secret = x
    BY <1>0, <2>1 DEF Request
  <2> QED
    BY <1>6, <2>2 DEF q, x
<1>7. CASE LogEvent(r)
  <2>1. req'[r] = [q EXCEPT !.pc = "write"]
    BY <1>1, <1>7, AfterContinue DEF LogEvent
  <2> HIDE DEF q
  <2>2. /\ req'[r].pc = "write" /\ req'[r].op = q.op /\ req'[r].mname = q.mname
        /\ req'[r].builder = q.builder /\ req'[r].secret = q.secret
    BY <1>0, <2>1 DEF Request
  <2> QED
    BY <1>7, <2>2 DEF q
<1>8. ASSUME \/ WriteConfig(r) \/ ListPeers(r) \/ RejectCredentials(r) \/ RegisterCredentials(r)
             \/ Activate(r) \/ FetchFullSecrets(r) \/ FailStep(r)
      PROVE  FALSE
  BY <1>1, <1>8 DEF WriteConfig, ListPeers, RejectCredentials, RegisterCredentials, Activate,
     FetchFullSecrets, FailStep
<1> QED
  BY <1>2, <1>3, <1>4, <1>5, <1>6, <1>7, <1>8, WhoMoves DEF HandlerStep, InstanceStep

-----------------------------------------------------------------------------
(* Secrets are current.                                                     *)

(* A request that has its secrets has them from its own builder, as they    *)
(* were at some moment since it began.                                      *)
SecretsFresh ==
    \A r \in Slot : req[r].pc \in {"log", "write"} =>
        <<req[r].builder, req[r].secret>> \in seen[r].secrets

LEMMA SecretsSeen ==
    ASSUME Types, Observe, NEW r \in Slot, req'[r].op \in AuthOps
    PROVE  /\ seen[r].secrets \subseteq seen'[r].secrets
           /\ \A b \in Builder : <<b, secrets'[b]>> \in seen'[r].secrets
  BY DEF Observe

LEMMA FreshStep ==
    ASSUME Types, SecretsFresh, Next
    PROVE  SecretsFresh'
<1> SUFFICES ASSUME NEW r \in Slot, req'[r].pc \in {"log", "write"}
             PROVE  <<req'[r].builder, req'[r].secret>> \in seen'[r].secrets
  BY DEF SecretsFresh
<1>1. Observe /\ Types'
  BY NextTypes DEF Next
<1>2. req'[r].op \in AuthOps
  BY <1>1 DEF Types, RequestsHold, Holds, Located
<1>3. CASE req'[r] = req[r]
  BY <1>1, <1>2, <1>3, SecretsSeen DEF SecretsFresh
<1>4. CASE FetchSecrets(r) /\ req'[r].builder = req[r].builder /\ req'[r].secret = secrets[req[r].builder]
  <2>1. req[r].builder \in Builder /\ secrets' = secrets
    BY <1>4 DEF FetchSecrets, Types, RequestsHold, Holds, Located, db
  <2> QED
    BY <1>1, <1>2, <1>4, <2>1, SecretsSeen
<1>5. CASE LogEvent(r) /\ req'[r].builder = req[r].builder /\ req'[r].secret = req[r].secret
  <2>1. <<req[r].builder, req[r].secret>> \in seen[r].secrets
    BY <1>5 DEF LogEvent, SecretsFresh
  <2> QED
    BY <1>1, <1>2, <1>5, <2>1, SecretsSeen
<1> QED
  BY <1>3, <1>4, <1>5, ReachesWrite

(* GetConfigSecrets takes effect in its last step only.                     *)
LEMMA EffectIsWrite ==
    ASSUME Types, Next, NEW r \in Slot, req[r].op = "GetConfigSecrets", TakesEffect(r)
    PROVE  WriteConfig(r)
<1>1. req[r].pc \in Located
  BY EffectIsLocated
<1>2. req[r].pc \in {"config", "secrets", "log", "write"}
  BY <1>1 DEF Types, RequestsHold, Holds, Located
<1>3. req'[r].pc = "idle" /\ (resp'.status = 200 \/ credentials' # credentials)
  BY DEF TakesEffect
<1>4. HandlerStep(r)
  BY <1>2, <1>3, WhoMoves, ArrivesEarly
<1>5. ASSUME NEW q, Continue(r, q), q.pc # "idle" PROVE FALSE
  BY <1>3, <1>5, AfterContinue
<1>6. ASSUME Return(r, Status(500)), credentials' = credentials PROVE FALSE
  BY <1>3, <1>6 DEF Return, Status
<1> DEFINE q == req[r]
<1>7. q \in Request
  BY DEF Types, TypeOK
<1>8. \A p \in {"secrets", "log", "write"} :
          /\ [q EXCEPT !.pc = p].pc = p
          /\ \A x : [q EXCEPT !.pc = p, !.secret = x].pc = p
  <2> HIDE DEF q
  <2> QED
    BY <1>7 DEF Request
<1>9. ASSUME FetchConfig(r) PROVE FALSE
  BY <1>5, <1>6, <1>8, <1>9 DEF FetchConfig, db
<1>10. ASSUME FetchSecrets(r) PROVE FALSE
  BY <1>5, <1>8, <1>10 DEF FetchSecrets
<1>11. ASSUME LogEvent(r) PROVE FALSE
  BY <1>5, <1>6, <1>8, <1>11 DEF LogEvent
<1>12. ASSUME FailStep(r) PROVE FALSE
  BY <1>6, <1>12 DEF FailStep, db
<1>13. ASSUME \/ MatchMeasurement(r) \/ LookupBuilder(r) \/ ListPeers(r) \/ RejectCredentials(r)
              \/ RegisterCredentials(r) \/ Activate(r) \/ FetchFullSecrets(r)
       PROVE  FALSE
  BY <1>2, <1>13 DEF MatchMeasurement, LookupBuilder, ListPeers, RejectCredentials,
     RegisterCredentials, Activate, FetchFullSecrets
<1> QED
  BY <1>4, <1>9, <1>10, <1>11, <1>12, <1>13 DEF HandlerStep, InstanceStep

(* GetConfigSecrets answers with the secrets of the builder it authorised,  *)
(* as they were at some moment of the request, although an administrator    *)
(* may replace them between any two of its calls and other builders may     *)
(* share the address.                                                       *)
THEOREM ReleasedSecretsCurrent == Spec => SecretsWereCurrent
<1> DEFINE Current ==
      \A r \in Slot : req[r].op = "GetConfigSecrets" /\ TakesEffect(r) =>
          <<req[r].builder, resp'.body.content.secret>> \in seen[r].secrets
<1>1. Init => SecretsFresh
  BY DEF Init, SecretsFresh, Idle
<1>2. Types /\ SecretsFresh /\ [Next]_vars => SecretsFresh'
  <2>1. SecretsFresh /\ UNCHANGED vars => SecretsFresh'
    BY DEF SecretsFresh, vars
  <2> QED
    BY <2>1, FreshStep
<1>3. ASSUME Types, SecretsFresh, [Next]_vars
      PROVE  [Current]_vars
  <2> SUFFICES ASSUME Next, NEW r \in Slot, req[r].op = "GetConfigSecrets", TakesEffect(r)
               PROVE  <<req[r].builder, resp'.body.content.secret>> \in seen[r].secrets
    BY <1>3
  <2>1. WriteConfig(r)
    BY <1>3, EffectIsWrite
  <2>2. resp'.body.content.secret = req[r].secret
    BY <2>1 DEF WriteConfig, Return, Body
  <2> QED
    BY <1>3, <2>1, <2>2 DEF WriteConfig, SecretsFresh
<1> QED
  BY <1>1, <1>2, <1>3, AlwaysTypes, PTL DEF Spec, SecretsWereCurrent
-----------------------------------------------------------------------------
(* Releases are logged.                                                     *)

(* Requests that have logged their event e and not yet answered.            *)
Owed(e) == {r \in Slot : req[r].pc = "write" /\ EventOf(r) = e}

(* Each answer, given or owed, has an event of its own.                     *)
Balanced(e) ==
    /\ IsFiniteSet(Owed(e))
    /\ Count(released, e) + Cardinality(Owed(e)) <= Count(eventLog, e)
LogBalanced == \A e \in Event : Balanced(e)

LEMMA CountTyped ==
    ASSUME NEW log \in Seq(Event), NEW e
    PROVE  /\ IsFiniteSet({i \in DOMAIN log : log[i] = e})
           /\ Count(log, e) \in Nat
<1>1. DOMAIN log = 1..Len(log) /\ Len(log) \in Nat
  OBVIOUS
<1>2. IsFiniteSet(1..Len(log))
  BY <1>1, FS_Interval
<1>3. IsFiniteSet({i \in DOMAIN log : log[i] = e})
  BY <1>1, <1>2, FS_Subset
<1> QED
  BY <1>3, FS_CardinalityType DEF Count

(* A row more is counted for its own event only.                            *)
LEMMA CountAppend ==
    ASSUME NEW log \in Seq(Event), NEW x \in Event, NEW e
    PROVE  Count(Append(log, x), e) = Count(log, e) + IF x = e THEN 1 ELSE 0
<1> DEFINE n == Len(log)
           longer == Append(log, x)
           before == {i \in DOMAIN log : log[i] = e}
           after == {i \in DOMAIN longer : longer[i] = e}
<1>1. DOMAIN log = 1..n /\ n \in Nat
  OBVIOUS
<1>2. /\ DOMAIN longer = 1..(n + 1)
      /\ longer[n + 1] = x
      /\ \A i \in 1..n : longer[i] = log[i]
  BY <1>1, AppendProperties
<1>3. IsFiniteSet(before) /\ Cardinality(before) \in Nat /\ n + 1 \notin before
  <2>1. IsFiniteSet(before)
    BY CountTyped
  <2>2. Cardinality(before) \in Nat
    BY <2>1, FS_CardinalityType
  <2>3. n + 1 \notin before
    BY <1>1
  <2> QED
    BY <2>1, <2>2, <2>3
<1> HIDE DEF longer, n
<1>4. CASE x = e
  <2>1. after = before \cup {n + 1}
    BY <1>1, <1>2, <1>4
  <2>2. Cardinality(after) = Cardinality(before) + 1
    BY <1>3, <2>1, FS_AddElement
  <2> QED
    BY <1>4, <2>2 DEF Count, longer
<1>5. CASE x # e
  <2>1. after = before
    BY <1>1, <1>2, <1>5
  <2>2. Cardinality(after) = Cardinality(before) + 0
    <3> DEFINE k == Cardinality(before)
    <3>1. k \in Nat
      BY <1>3
    <3>2. Cardinality(after) = k
      BY <2>1, Zenon
    <3> HIDE DEF k
    <3>3. k = k + 0
      BY <3>1
    <3>4. Cardinality(after) = k + 0
      BY <3>2, <3>3, Zenon
    <3> QED
      BY <3>4, Zenon DEF k
  <2> QED
    BY <1>5, <2>2 DEF Count, longer
<1> QED
  BY <1>4, <1>5

(* The event of a request that may be logged: the row of its measurement is *)
(* there, and stays.                                                        *)
LEMMA EventNamed ==
    ASSUME Types, RequestsAuthorised, NEW r \in Slot, req[r].pc \in {"log", "write"}
    PROVE  EventOf(r) = [builder |-> req[r].builder, measurement |-> req[r].mname]
<1>1. measurements[req[r].mname] # Null
  BY DEF RequestsAuthorised, Authorised, Matched, Located
<1> QED
  BY <1>1 DEF EventOf, MeasurementId

(* From its last step a handler goes nowhere but to the answer.             *)
LEMMA WriteStays ==
    ASSUME Types, Next, NEW r \in Slot, req[r].pc = "write"
    PROVE  req'[r] = req[r] \/ WriteConfig(r)
<1>1. ASSUME HandlerStep(r) PROVE WriteConfig(r)
  BY <1>1 DEF HandlerStep, InstanceStep, MatchMeasurement, LookupBuilder, FetchConfig,
     FetchSecrets, LogEvent, ListPeers, RejectCredentials, RegisterCredentials, Activate,
     FetchFullSecrets, FailStep
<1> QED
  BY <1>1, WhoMoves, ArrivesEarly

(* Only LogEvent writes event_log, only WriteConfig answers.                *)
LEMMA WhoLogs ==
    ASSUME Next
    PROVE  \/ UNCHANGED <<eventLog, released>>
           \/ \E r \in Slot : LogEvent(r) \/ WriteConfig(r)
<1>1. ASSUME OneCall PROVE UNCHANGED <<eventLog, released>>
  BY <1>1 DEF OneCall, RejectAuthData, RejectCall, GetActiveBuildersNoAuthNetworked,
     GetActiveBuildersNoAuth, GetAllowedMeasurements, AddMeasurement,
     ChangeActiveStatusForMeasurement, AddBuilder, Deactivate, AddBuilderConfig,
     GetActiveConfigForBuilder, SetSecrets, db
<1>2. ASSUME NEW r \in Slot, Arrive(r) PROVE UNCHANGED <<eventLog, released>>
  BY <1>2 DEF Arrive, BeginAuth, CheckActivation, CheckFullConfig, db
<1>3. ASSUME NEW r \in Slot, HandlerStep(r)
      PROVE  UNCHANGED <<eventLog, released>> \/ LogEvent(r) \/ WriteConfig(r)
  BY <1>3 DEF HandlerStep, InstanceStep, MatchMeasurement, LookupBuilder, FetchConfig,
     FetchSecrets, ListPeers, RejectCredentials, RegisterCredentials, Activate,
     FetchFullSecrets, FailStep, db
<1> QED
  BY <1>1, <1>2, <1>3 DEF Next

(* A handler whose turn it is not owes what it owed.                        *)
LEMMA OwedAlone ==
    ASSUME Types, RequestsAuthorised, Next, NEW e \in Event, NEW r \in Slot,
           ~LogEvent(r), ~WriteConfig(r)
    PROVE  r \in Owed(e)' <=> r \in Owed(e)
<1>1. Types' /\ RequestsAuthorised'
  BY NextTypes, AuthorisedStep
<1>2. req[r].pc = "write" \/ req'[r].pc = "write" => req'[r] = req[r]
  BY WriteStays, ReachesWrite
<1>3. req[r].pc = "write" /\ req'[r] = req[r] => EventOf(r)' = EventOf(r)
  <2> SUFFICES ASSUME req[r].pc = "write", req'[r] = req[r] PROVE EventOf(r)' = EventOf(r)
    OBVIOUS
  <2>1. EventOf(r) = [builder |-> req[r].builder, measurement |-> req[r].mname]
    BY EventNamed
  <2>2. measurements'[req'[r].mname] # Null
    BY <1>1 DEF RequestsAuthorised, Authorised, Matched, Located
  <2>3. EventOf(r)' = [builder |-> req'[r].builder, measurement |-> req'[r].mname]
    BY <2>2 DEF EventOf, MeasurementId
  <2> QED
    BY <2>1, <2>3
<1> QED
  BY <1>2, <1>3 DEF Owed

LEMMA BalancedLog ==
    ASSUME Types, RequestsAuthorised, LogBalanced, Next, NEW r \in Slot, LogEvent(r), NEW e \in Event
    PROVE  Balanced(e)'
<1> DEFINE x == EventOf(r)
           old == Owed(e)
           new == Owed(e)'
<1>1. /\ req[r].pc = "log" /\ x \in Event
      /\ eventLog' = Append(eventLog, x) /\ UNCHANGED <<released, measurements>>
  BY EventTypes DEF LogEvent, Located
<1>2. /\ eventLog \in Seq(Event) /\ released \in Seq(Event)
      /\ IsFiniteSet(old)
      /\ Count(released, e) + Cardinality(old) <= Count(eventLog, e)
  BY DEF Types, TypeOK, LogBalanced, Balanced
<1>3. /\ Count(released, e) \in Nat /\ Count(eventLog, e) \in Nat /\ Cardinality(old) \in Nat
      /\ Count(eventLog', e) = Count(eventLog, e) + IF x = e THEN 1 ELSE 0
  BY <1>1, <1>2, CountTyped, CountAppend, FS_CardinalityType
<1>4. \A s \in Slot \ {r} : s \in new <=> s \in old
  <2>1. ASSUME NEW s \in Slot \ {r} PROVE ~LogEvent(s) /\ ~WriteConfig(s)
    <3>1. req'[s] = req[s]
      BY AfterReturn, AfterContinue DEF LogEvent
    <3>2. req'[s].pc # req[s].pc \/ ~(LogEvent(s) \/ WriteConfig(s))
      <4>1. ASSUME WriteConfig(s) PROVE req'[s].pc # req[s].pc
        BY <4>1, AfterReturn DEF WriteConfig
      <4>2. ASSUME LogEvent(s) PROVE req'[s].pc # req[s].pc
        <5>1. req[s].pc = "log" /\ req[s] \in Request
          BY <4>2 DEF LogEvent, Types, TypeOK
        <5> DEFINE q == req[s]
        <5>2. req'[s].pc = "idle" \/ req'[s] = [q EXCEPT !.pc = "write"]
          BY <4>2, AfterReturn, AfterContinue DEF LogEvent
        <5> HIDE DEF q
        <5>3. q.pc = "log" /\ q \in Request
          BY <5>1 DEF q
        <5>4. req'[s].pc # q.pc
          BY <5>2, <5>3 DEF Request
        <5> QED
          BY <5>4 DEF q
      <4> QED
        BY <4>1, <4>2
    <3> QED
      BY <3>1, <3>2
  <2> QED
    BY <2>1, OwedAlone
<1>5. r \notin old /\ (r \in new => x = e) /\ old \subseteq Slot /\ new \subseteq Slot
  <2>1. r \in new => x = e
    <3> SUFFICES ASSUME req'[r].pc = "write", EventOf(r)' = e PROVE x = e
      BY DEF Owed
    <3>1. req'[r].mname = req[r].mname /\ req'[r].builder = req[r].builder
      BY <1>1, ReachesWrite
    <3> QED
      BY <1>1, <3>1 DEF EventOf, MeasurementId
  <2> QED
    BY <1>1, <2>1 DEF Owed
<1> HIDE DEF old, new, x
<1>6. new = old \/ (new = old \cup {r} /\ x = e)
  BY <1>4, <1>5
<1>7. /\ IsFiniteSet(new)
      /\ Cardinality(new) = Cardinality(old) \/ (Cardinality(new) = Cardinality(old) + 1 /\ x = e)
  BY <1>2, <1>5, <1>6, FS_AddElement
<1>8. Count(released, e) + Cardinality(new) <= Count(eventLog', e)
  BY <1>2, <1>3, <1>7
<1> QED
  BY <1>1, <1>7, <1>8 DEF Balanced, new

LEMMA BalancedWrite ==
    ASSUME Types, RequestsAuthorised, LogBalanced, Next, NEW r \in Slot, WriteConfig(r), NEW e \in Event
    PROVE  Balanced(e)'
<1> DEFINE x == EventOf(r)
           old == Owed(e)
           new == Owed(e)'
<1>1. /\ req[r].pc = "write" /\ x \in Event
      /\ released' = Append(released, x) /\ UNCHANGED eventLog
  BY EventTypes DEF WriteConfig, Located, db
<1>2. /\ eventLog \in Seq(Event) /\ released \in Seq(Event)
      /\ IsFiniteSet(old)
      /\ Count(released, e) + Cardinality(old) <= Count(eventLog, e)
  BY DEF Types, TypeOK, LogBalanced, Balanced
<1>3. /\ Count(released, e) \in Nat /\ Count(eventLog, e) \in Nat /\ Cardinality(old) \in Nat
      /\ Count(released', e) = Count(released, e) + IF x = e THEN 1 ELSE 0
  BY <1>1, <1>2, CountTyped, CountAppend, FS_CardinalityType
<1>4. \A s \in Slot \ {r} : s \in new => s \in old
  <2> SUFFICES ASSUME NEW s \in Slot \ {r}, req'[s].pc = "write", EventOf(s)' = e
               PROVE  req[s].pc = "write" /\ EventOf(s) = e
    BY DEF Owed
  <2>1. req'[s] = req[s] /\ measurements' = measurements
    BY AfterReturn DEF WriteConfig, db
  <2> QED
    BY <2>1 DEF EventOf, MeasurementId
<1>5. r \notin new /\ (r \in old <=> x = e) /\ old \subseteq Slot /\ new \subseteq Slot
  <2>1. req'[r].pc = "idle"
    BY AfterReturn DEF WriteConfig
  <2> QED
    BY <1>1, <2>1 DEF Owed
<1> HIDE DEF old, new, x
<1>6. new \subseteq old \ {r}
  BY <1>4, <1>5
<1>7. /\ IsFiniteSet(old \ {r})
      /\ Cardinality(old \ {r}) = Cardinality(old) - (IF x = e THEN 1 ELSE 0)
  BY <1>2, <1>3, <1>5, FS_RemoveElement
<1>8. IsFiniteSet(new) /\ Cardinality(new) <= Cardinality(old \ {r}) /\ Cardinality(new) \in Nat
  BY <1>6, <1>7, FS_Subset, FS_CardinalityType
<1>9. Count(released', e) + Cardinality(new) <= Count(eventLog, e)
  BY <1>2, <1>3, <1>7, <1>8
<1> QED
  BY <1>1, <1>8, <1>9 DEF Balanced, new

(* GetConfigSecrets logs the event and answers in two calls, and any of     *)
(* them may be in between at once: no configuration leaves the hub without  *)
(* a row of its own in event_log, for any number of requests in flight.     *)
THEOREM ReleasesAreLogged == Spec => []EveryReleaseLogged
<1>1. Init => RequestsAuthorised /\ LogBalanced
  <2> SUFFICES ASSUME Init, NEW e \in Event PROVE Balanced(e)
    BY DEF Init, RequestsAuthorised, Authorised, Idle, Located, LogBalanced
  <2>1. Owed(e) = {}
    BY DEF Init, Owed, Idle
  <2>2. {i \in DOMAIN <<>> : <<>>[i] = e} = {}
    OBVIOUS
  <2>3. Count(<<>>, e) = 0
    BY <2>2, FS_EmptySet DEF Count
  <2> QED
    BY <2>1, <2>3, FS_EmptySet DEF Init, Balanced
<1>2. Types /\ RequestsAuthorised /\ LogBalanced /\ [Next]_vars => RequestsAuthorised' /\ LogBalanced'
  <2>1. CASE UNCHANGED vars
    BY <2>1 DEF RequestsAuthorised, Authorised, Matched, Found, LogBalanced, Balanced, Owed, EventOf,
       MeasurementId, Count, vars, db
  <2>2. ASSUME Types, RequestsAuthorised, LogBalanced, Next, NEW e \in Event
        PROVE  Balanced(e)'
    <3>1. CASE \E r \in Slot : LogEvent(r) \/ WriteConfig(r)
      BY <2>2, <3>1, BalancedLog, BalancedWrite
    <3>2. CASE ~ \E r \in Slot : LogEvent(r) \/ WriteConfig(r)
      <4>1. UNCHANGED <<eventLog, released>>
        BY <2>2, <3>2, WhoLogs
      <4>2. Owed(e)' = Owed(e)
        <5>1. \A r \in Slot : r \in Owed(e)' <=> r \in Owed(e)
          BY <2>2, <3>2, OwedAlone
        <5> QED
          BY <5>1 DEF Owed
      <4> QED
        BY <2>2, <4>1, <4>2 DEF LogBalanced, Balanced, Count
    <3> QED
      BY <3>1, <3>2
  <2> QED
    BY <2>1, <2>2, AuthorisedStep DEF LogBalanced
<1>3. Types /\ LogBalanced => EveryReleaseLogged
  <2> SUFFICES ASSUME Types, LogBalanced, NEW e \in Event
               PROVE  Count(released, e) <= Count(eventLog, e)
    BY DEF EveryReleaseLogged
  <2>1. /\ IsFiniteSet(Owed(e))
        /\ Count(released, e) + Cardinality(Owed(e)) <= Count(eventLog, e)
        /\ eventLog \in Seq(Event) /\ released \in Seq(Event)
    BY DEF LogBalanced, Balanced, Types, TypeOK
  <2>2. Cardinality(Owed(e)) \in Nat /\ Count(released, e) \in Nat /\ Count(eventLog, e) \in Nat
    BY <2>1, CountTyped, FS_CardinalityType
  <2> QED
    BY <2>1, <2>2
<1> QED
  BY <1>1, <1>2, <1>3, AlwaysTypes, PTL DEF Spec
=============================================================================
