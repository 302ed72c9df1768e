----------------------------- MODULE BuilderHub -----------------------------
(***************************************************************************)
(* The hub: its tables, its secret store and the handlers of the instance  *)
(* API, the internal API and the admin API (ports/http_handler.go,         *)
(* ports/admin_handler.go) with the application service and the database   *)
(* adapter below them.  A handler takes one step per call to the database  *)
(* or the secret store, and any number of handlers interleave.  The        *)
(* transactions of the database adapter are single steps here; module      *)
(* ActiveRowTx shows that they are atomic.                                 *)
(***************************************************************************)
EXTENDS Measurements, FiniteSets

CONSTANTS
    Builder,            \* builder names
    IP,                 \* addresses of builder instances
    Network,            \* peer networks
    ProductionNetwork,  \* domain.ProductionNetwork
    Service,            \* services that register credentials
    MName,              \* measurement names
    AttType,            \* attestation types
    Template,           \* measurement templates an administrator adds
    Claim,              \* what an instance attests: [type, values]
    Secret,             \* secret values
    Slot,               \* requests in flight at once
    Endpoints,          \* the endpoints that are called
    MaxRegistrations,   \* bound on rows of service_credential_registrations
    MaxConfigs,         \* bound on rows of builder_configs
    MaxEvents,          \* bound on rows of event_log
    Null                \* no row, no value

ASSUME ProductionAssumption == ProductionNetwork \in Network
ASSUME NullAssumption == Null \notin Builder \cup MName \cup Network \cup Secret

VARIABLES
    builders,       \* builders[b]: row of table builders, or Null
    measurements,   \* measurements[m]: row of measurements_whitelist, or Null
    credentials,    \* service_credential_registrations, in commit order
    configs,        \* builder_configs, in commit order
    eventLog,       \* event_log, in commit order
    secrets,        \* secrets[b]: what the secret store holds, or Null
    req,            \* req[r]: the handler running in slot r
    resp,           \* the response written in the last step, or Null
    released,       \* history: to whom configurations were released
    seen            \* seen[r], history: what was in force since r's request began

db == <<builders, measurements, credentials, configs, eventLog, secrets>>
vars == <<db, req, resp, released, seen>>

AuthOps == {"GetConfigSecrets", "GetActiveBuilders", "RegisterCredentials"}

BuilderRow == [ip : IP, network : Network, isActive : BOOLEAN]
MeasurementRow == [type : AttType, template : Template, isActive : BOOLEAN]
CredentialRow == [builder : Builder, service : Service, measurement : MName \cup {Null},
                  isActive : BOOLEAN]
ConfigRow == [builder : Builder, isActive : BOOLEAN]
Event == [builder : Builder, measurement : MName \cup {Null}]

ASSUME NullNameAssumption == Null \notin Builder \cup MName
ASSUME NullRowAssumption == Null \notin BuilderRow \cup MeasurementRow
\* Rows are numbered: NULL is not the number of one.
ASSUME NullIndexAssumption == Null \notin Nat

PC == {"idle", "measurement", "builder", "config", "secrets", "log", "write", "peers",
       "register", "activate", "fullSecrets"}

Request == [pc : PC, op : AuthOps \cup {"Activate", "GetFullConfig", "none"},
            ip : IP \cup {Null}, claim : Claim \cup {Null}, service : Service \cup {Null},
            mname : MName \cup {Null}, builder : Builder \cup {Null},
            network : Network \cup {Null}, secret : Secret \cup {Null}]

Idle == [pc |-> "idle", op |-> "none", ip |-> Null, claim |-> Null, service |-> Null,
         mname |-> Null, builder |-> Null, network |-> Null, secret |-> Null]

\* What was in force at some moment of a request.
Seen == [builders : SUBSET Builder, measurements : SUBSET MName,
         secrets : SUBSET (Builder \X (Secret \cup {Null}))]
Unseen == [builders |-> {}, measurements |-> {}, secrets |-> {}]

TypeOK ==
    /\ builders \in [Builder -> BuilderRow \cup {Null}]
    /\ measurements \in [MName -> MeasurementRow \cup {Null}]
    /\ credentials \in Seq(CredentialRow)
    /\ configs \in Seq(ConfigRow)
    /\ eventLog \in Seq(Event)
    /\ secrets \in [Builder -> Secret \cup {Null}]
    /\ req \in [Slot -> Request]
    /\ released \in Seq(Event)
    /\ seen \in [Slot -> Seen]

Init ==
    /\ builders = [b \in Builder |-> Null]
    /\ measurements = [m \in MName |-> Null]
    /\ credentials = <<>>
    /\ configs = <<>>
    /\ eventLog = <<>>
    /\ secrets = [b \in Builder |-> Null]
    /\ req = [r \in Slot |-> Idle]
    /\ resp = Null
    /\ released = <<>>
    /\ seen = [r \in Slot |-> Unseen]
-----------------------------------------------------------------------------
(* Queries.                                                                 *)

IsActiveBuilder(b) == builders[b] # Null /\ builders[b].isActive
IsActiveMeasurement(m) == measurements[m] # Null /\ measurements[m].isActive

\* Mutant: the is_active condition is dropped.
AnyStatusByType(type) ==
    [m \in {n \in MName : measurements[n] # Null /\ measurements[n].type = type}
        |-> measurements[m].template]
GetActiveMeasurementsByType(type) ==
    [m \in {n \in MName : IsActiveMeasurement(n) /\ measurements[n].type = type}
        |-> measurements[m].template]

GetActiveMeasurements == {m \in MName : IsActiveMeasurement(m)}

\* The rows one of which GetBuilderByIP returns: ip_address is not unique.
\* Mutant: inactive rows are returned as well.
AnyStatusByIP(ip) == {b \in Builder : builders[b] # Null /\ builders[b].ip = ip}
GetBuilderByIP(ip) == {b \in Builder : IsActiveBuilder(b) /\ builders[b].ip = ip}

HasActiveConfig(b) == \E i \in DOMAIN configs : configs[i].builder = b /\ configs[i].isActive

CredentialsOf(b) == {i \in DOMAIN credentials : credentials[i].builder = b}

(* GetActiveBuildersWithServiceCredentials: builders LEFT JOIN credentials, *)
(* grouped by builder.  A builder without credentials joins the NULL row,   *)
(* one whose credentials are all inactive joins nothing.                    *)
\* Mutant: an inner join.
InnerJoin(network) ==
    {p \in Builder \X DOMAIN credentials :
        /\ IsActiveBuilder(p[1]) /\ builders[p[1]].network = network
        /\ p[2] \in CredentialsOf(p[1]) /\ credentials[p[2]].isActive}
LeftJoin(network) ==
    {p \in Builder \X (DOMAIN credentials \cup {Null}) :
        /\ IsActiveBuilder(p[1]) /\ builders[p[1]].network = network
        /\ \/ p[2] = Null /\ CredentialsOf(p[1]) = {}
           \/ p[2] \in CredentialsOf(p[1]) /\ credentials[p[2]].isActive}

(* Per builder, the credential rows of its services: one per service, as    *)
(* fromDomainBuilderWithServices puts them in a map.                        *)
GetActiveBuilders(network) ==
    LET rows == LeftJoin(network)
        found(b) == {p[2] : p \in {q \in rows : q[1] = b}} \ {Null}
    IN  [b \in {p[1] : p \in rows} |->
            [s \in {credentials[i].service : i \in found(b)} |->
                CHOOSE i \in found(b) : credentials[i].service = s]]

\* The subqueries for measurement_id: by name, and by name and type.
\* Mutants: they want the measurement to be active still.
ActiveMeasurementId(m) == IF IsActiveMeasurement(m) THEN m ELSE Null
ActiveMeasurementIdByType(m, type) ==
    IF IsActiveMeasurement(m) /\ measurements[m].type = type THEN m ELSE Null
MeasurementId(m) == IF measurements[m] # Null THEN m ELSE Null
MeasurementIdByType(m, type) ==
    IF measurements[m] # Null /\ measurements[m].type = type THEN m ELSE Null
-----------------------------------------------------------------------------
(* Requests and responses.                                                  *)

\* A response without a body, and one that carries what op was called for.
Status(status) == [status |-> status, body |-> Null]
Body(op, content) == [status |-> 200, body |-> [op |-> op, content |-> content]]

\* The handler in slot r takes a step and goes on.
Continue(r, next) == req' = [req EXCEPT ![r] = next] /\ resp' = Null

\* The handler in slot r returns.
Return(r, response) == req' = [req EXCEPT ![r] = Idle] /\ resp' = response

\* A handler that makes a single call returns at once.
Reply(response) == resp' = response /\ UNCHANGED req

\* A write that takes effect is acknowledged unless its answer is lost.
Written == {200, 500}

Running(op) == Cardinality({r \in Slot : req[r].op = op})
-----------------------------------------------------------------------------
(* Instance API.  The proxy in front of it passes on the attestation type,  *)
(* the measurements and the address of the instance.                        *)

\* getAuthData finds the headers malformed.
RejectAuthData(op) ==
    op \in Endpoints /\ Reply(Status(403)) /\ UNCHANGED <<db, released>>

\* getAuthData succeeds.
BeginAuth(r, op, ip, claim, service) ==
    /\ op \in Endpoints
    /\ req[r].pc = "idle"
    /\ (op = "RegisterCredentials") = (service # Null)
    /\ op = "RegisterCredentials" => Len(credentials) + Running(op) < MaxRegistrations
    /\ op = "GetConfigSecrets" => Len(eventLog) + Running(op) < MaxEvents
    /\ Continue(r, [Idle EXCEPT !.pc = "measurement", !.op = op, !.ip = ip,
                                !.claim = claim, !.service = service])
    /\ UNCHANGED <<db, released>>

\* VerifyIPAndMeasurements, first half.
MatchMeasurement(r) ==
    /\ req[r].pc = "measurement"
    /\ LET names == validateMeasurement(req[r].claim.values,
                                        GetActiveMeasurementsByType(req[r].claim.type))
       IN  \/ \E m \in names : Continue(r, [req[r] EXCEPT !.pc = "builder", !.mname = m])
           \/ names = {} /\ Return(r, Status(403))
    /\ UNCHANGED <<db, released>>

AfterAuth == [GetConfigSecrets |-> "config", GetActiveBuilders |-> "peers",
              RegisterCredentials |-> "register"]

\* VerifyIPAndMeasurements, second half.
LookupBuilder(r) ==
    /\ req[r].pc = "builder"
    /\ LET found == GetBuilderByIP(req[r].ip)
       IN  \/ \E b \in found :
                  Continue(r, [req[r] EXCEPT !.pc = AfterAuth[req[r].op], !.builder = b,
                                             !.network = builders[b].network])
           \/ found = {} /\ Return(r, Status(403))
    /\ UNCHANGED <<db, released>>

\* GetConfigWithSecrets: the configuration is required, and not used.
FetchConfig(r) ==
    /\ req[r].pc = "config"
    /\ IF HasActiveConfig(req[r].builder)
       THEN Continue(r, [req[r] EXCEPT !.pc = "secrets"])
       ELSE Return(r, Status(500))
    /\ UNCHANGED <<db, released>>

\* A builder that has no secrets gets an empty body.
\* Mutants: the event is not logged; the secrets are looked up by address.
FetchAndSkipLog(r) ==
    /\ req[r].pc = "secrets"
    /\ Continue(r, [req[r] EXCEPT !.pc = "write", !.secret = secrets[req[r].builder]])
    /\ UNCHANGED <<db, released>>
FetchByAddress(r) ==
    /\ req[r].pc = "secrets"
    /\ \E b \in GetBuilderByIP(req[r].ip) :
           Continue(r, [req[r] EXCEPT !.pc = "log", !.secret = secrets[b]])
    /\ UNCHANGED <<db, released>>
FetchSecrets(r) ==
    /\ req[r].pc = "secrets"
    /\ Continue(r, [req[r] EXCEPT !.pc = "log", !.secret = secrets[req[r].builder]])
    /\ UNCHANGED <<db, released>>

EventOf(r) == [builder |-> req[r].builder, measurement |-> MeasurementId(req[r].mname)]

LogEvent(r) ==
    /\ req[r].pc = "log"
    /\ eventLog' = Append(eventLog, EventOf(r))
    /\ \/ Continue(r, [req[r] EXCEPT !.pc = "write"])
       \/ Return(r, Status(500))     \* the answer was lost
    /\ UNCHANGED <<builders, measurements, credentials, configs, secrets, released>>

WriteConfig(r) ==
    /\ req[r].pc = "write"
    /\ released' = Append(released, EventOf(r))
    /\ Return(r, Body(req[r].op, [config |-> Null, secret |-> req[r].secret]))
    /\ UNCHANGED db

ListPeers(r) ==
    /\ req[r].pc = "peers"
    /\ Return(r, Body(req[r].op, [network |-> req[r].network,
                                  peers |-> GetActiveBuilders(req[r].network)]))
    /\ UNCHANGED <<db, released>>

\* Service name, body or credentials missing or malformed; body unreadable.
RejectCredentials(r) ==
    /\ req[r].pc = "register"
    /\ \E status \in {400, 500} : Return(r, Status(status))
    /\ UNCHANGED <<db, released>>

\* RegisterCredentialsForBuilder's transaction: see ActiveRowTx.
Deprecate(b, s) ==
    [i \in DOMAIN credentials |->
        [credentials[i] EXCEPT !.isActive =
            @ /\ ~(credentials[i].builder = b /\ credentials[i].service = s)]]

RegisterCredentials(r) ==
    /\ req[r].pc = "register"
    /\ LET row == [builder |-> req[r].builder, service |-> req[r].service,
                   measurement |-> MeasurementIdByType(req[r].mname, req[r].claim.type),
                   isActive |-> TRUE]
       IN  credentials' = Append(Deprecate(row.builder, row.service), row)
    /\ \E status \in Written : Return(r, Status(status))
    /\ UNCHANGED <<builders, measurements, configs, eventLog, secrets, released>>

\* A call to the database or the secret store fails without effect, or the
\* transaction is refused.  A failed authentication lookup makes
\* GetConfigSecrets panic, which the Recoverer middleware turns into the same 500.
FailStep(r) ==
    /\ req[r].pc \notin {"idle", "write"}
    /\ Return(r, Status(500))
    /\ UNCHANGED <<db, released>>
-----------------------------------------------------------------------------
(* Internal API: no authentication.                                         *)

GetActiveBuildersNoAuthNetworked(network) ==
    /\ "GetActiveBuildersNoAuth" \in Endpoints
    /\ Reply(Body("GetActiveBuilders",
                  [network |-> network, peers |-> GetActiveBuilders(network)]))
    /\ UNCHANGED <<db, released>>

GetActiveBuildersNoAuth == GetActiveBuildersNoAuthNetworked(ProductionNetwork)

GetAllowedMeasurements ==
    /\ "GetAllowedMeasurements" \in Endpoints
    /\ Reply(Body("GetAllowedMeasurements", GetActiveMeasurements))
    /\ UNCHANGED <<db, released>>
-----------------------------------------------------------------------------
(* Admin API.                                                               *)

AdminWrites == {"AddMeasurement", "AddBuilder", "ChangeActiveStatusForBuilder",
                "ChangeActiveStatusForMeasurement", "AddBuilderConfig", "SetSecrets"}
Reads == {"GetActiveBuildersNoAuth", "GetAllowedMeasurements", "GetActiveConfig", "GetFullConfig"}

\* The body is malformed or a parameter empty (400), or the body is unreadable or
\* the first call of the handler fails without effect (500).
Validated == (AdminWrites \ {"SetSecrets"}) \cup {"GetActiveBuildersNoAuth"}
RejectCall(op) ==
    /\ op \in Endpoints
    /\ \E status \in IF op \in Validated THEN {400, 500} ELSE {500} :
           Reply(Status(status))
    /\ UNCHANGED <<db, released>>

\* New measurements are inactive; the table's names are unique.
AddMeasurement(m, type, template) ==
    /\ "AddMeasurement" \in Endpoints
    /\ \/ /\ measurements[m] = Null
          /\ measurements' = [measurements EXCEPT ![m] =
                 [type |-> type, template |-> template, isActive |-> FALSE]]
          /\ \E status \in Written : Reply(Status(status))
       \/ /\ measurements[m] # Null
          /\ Reply([status |-> 500, body |-> [op |-> "AddMeasurement",
                                           content |-> [duplicate |-> m, type |-> type]]])
          /\ UNCHANGED measurements
    /\ UNCHANGED <<builders, credentials, configs, eventLog, secrets, released>>

ChangeActiveStatusForMeasurement(m, enabled) ==
    /\ "ChangeActiveStatusForMeasurement" \in Endpoints
    /\ measurements' = IF measurements[m] = Null THEN measurements
                       ELSE [measurements EXCEPT ![m].isActive = enabled]
    /\ \E status \in Written : Reply(Status(status))
    /\ UNCHANGED <<builders, credentials, configs, eventLog, secrets, released>>

\* New builders are inactive; the network is required.
\* Mutant: the network is optional.
AddBuilderAnywhere(b, ip, network) ==
    /\ "AddBuilder" \in Endpoints
    /\ builders[b] = Null
    /\ builders' = [builders EXCEPT ![b] = [ip |-> ip, network |-> network, isActive |-> FALSE]]
    /\ Reply(Status(200))
    /\ UNCHANGED <<measurements, credentials, configs, eventLog, secrets, released>>
AddBuilder(b, ip, network) ==
    /\ "AddBuilder" \in Endpoints
    /\ \/ /\ network = Null
          /\ Reply([status |-> 400, body |-> [op |-> "AddBuilder", content |-> [ip |-> ip]]])
          /\ UNCHANGED builders
       \/ /\ network # Null /\ builders[b] # Null
          /\ Reply(Status(500))
          /\ UNCHANGED builders
       \/ /\ network # Null /\ builders[b] = Null
          /\ builders' = [builders EXCEPT ![b] =
                 [ip |-> ip, network |-> network, isActive |-> FALSE]]
          /\ \E status \in Written : Reply(Status(status))
    /\ UNCHANGED <<measurements, credentials, configs, eventLog, secrets, released>>

\* ChangeActiveStatusForBuilder, enabled: first the check ...
\* Mutant: there is no check.
CheckNothing(r, b) ==
    /\ "ChangeActiveStatusForBuilder" \in Endpoints
    /\ req[r].pc = "idle"
    /\ Continue(r, [Idle EXCEPT !.pc = "activate", !.op = "Activate", !.builder = b])
    /\ UNCHANGED <<db, released>>
CheckActivation(r, b) ==
    /\ "ChangeActiveStatusForBuilder" \in Endpoints
    /\ req[r].pc = "idle"
    /\ \/ /\ HasActiveConfig(b)
          /\ Continue(r, [Idle EXCEPT !.pc = "activate", !.op = "Activate", !.builder = b])
       \/ ~HasActiveConfig(b) /\ Reply(Status(400))
    /\ UNCHANGED <<db, released>>

SetActive(b, enabled) ==
    builders' = IF builders[b] = Null THEN builders
                ELSE [builders EXCEPT ![b].isActive = enabled]

\* ... then the UPDATE.
Activate(r) ==
    /\ req[r].pc = "activate"
    /\ SetActive(req[r].builder, TRUE)
    /\ \E status \in Written : Return(r, Status(status))
    /\ UNCHANGED <<measurements, credentials, configs, eventLog, secrets, released>>

\* ChangeActiveStatusForBuilder, disabled.
Deactivate(b) ==
    /\ "ChangeActiveStatusForBuilder" \in Endpoints
    /\ SetActive(b, FALSE)
    /\ \E status \in Written : Reply(Status(status))
    /\ UNCHANGED <<measurements, credentials, configs, eventLog, secrets, released>>

\* AddBuilderConfig's transaction: see ActiveRowTx.  A configuration for an
\* unknown builder violates the foreign key.
AddBuilderConfig(b) ==
    /\ "AddBuilderConfig" \in Endpoints
    /\ \/ /\ builders[b] # Null
          /\ Len(configs) < MaxConfigs
          /\ configs' = Append([i \in DOMAIN configs |->
                                  [configs[i] EXCEPT !.isActive = @ /\ configs[i].builder # b]],
                               [builder |-> b, isActive |-> TRUE])
          /\ \E status \in Written : Reply(Status(status))
       \/ /\ builders[b] = Null
          /\ Reply(Status(500))
          /\ UNCHANGED configs
    /\ UNCHANGED <<builders, measurements, credentials, eventLog, secrets, released>>

GetActiveConfigForBuilder(b) ==
    /\ "GetActiveConfig" \in Endpoints
    /\ Reply(IF HasActiveConfig(b)
             THEN Body("GetActiveConfig",
                       CHOOSE i \in DOMAIN configs : configs[i].builder = b /\ configs[i].isActive)
             ELSE Status(404))
    /\ UNCHANGED <<db, released>>

\* GetFullConfigForBuilder: the configuration is required, and not used ...
CheckFullConfig(r, b) ==
    /\ "GetFullConfig" \in Endpoints
    /\ req[r].pc = "idle"
    /\ \/ /\ HasActiveConfig(b)
          /\ Continue(r, [Idle EXCEPT !.pc = "fullSecrets", !.op = "GetFullConfig", !.builder = b])
       \/ ~HasActiveConfig(b) /\ Reply(Status(404))
    /\ UNCHANGED <<db, released>>

\* ... and the secrets are returned.
FetchFullSecrets(r) ==
    /\ req[r].pc = "fullSecrets"
    /\ Return(r, Body("GetFullConfig", [config |-> Null, secret |-> secrets[req[r].builder]]))
    /\ UNCHANGED <<db, released>>

SetSecrets(b, secret) ==
    /\ "SetSecrets" \in Endpoints
    /\ secrets' = [secrets EXCEPT ![b] = secret]
    /\ \E status \in Written : Reply(Status(status))
    /\ UNCHANGED <<builders, measurements, credentials, configs, eventLog, released>>
-----------------------------------------------------------------------------
\* History: extend what each request of the instance API has seen.
Observe ==
    seen' = [r \in Slot |->
        IF req'[r].op \notin AuthOps THEN Unseen
        ELSE [builders |-> seen[r].builders \cup {b \in Builder : IsActiveBuilder(b)'},
              measurements |-> seen[r].measurements \cup {m \in MName : IsActiveMeasurement(m)'},
              secrets |-> seen[r].secrets \cup {<<b, secrets'[b]>> : b \in Builder}]]

InstanceStep(r) ==
    \/ MatchMeasurement(r) \/ LookupBuilder(r)
    \/ FetchConfig(r) \/ FetchSecrets(r) \/ LogEvent(r) \/ WriteConfig(r)
    \/ ListPeers(r) \/ RejectCredentials(r) \/ RegisterCredentials(r)

\* The next step of the handler in slot r.
HandlerStep(r) == InstanceStep(r) \/ Activate(r) \/ FetchFullSecrets(r) \/ FailStep(r)

Arrive(r) ==
    \/ \E op \in AuthOps, ip \in IP, claim \in Claim, service \in Service \cup {Null} :
           BeginAuth(r, op, ip, claim, service)
    \/ \E b \in Builder : CheckActivation(r, b) \/ CheckFullConfig(r, b)

OneCall ==
    \/ \E op \in AuthOps : RejectAuthData(op)
    \/ \E op \in AdminWrites \cup Reads : RejectCall(op)
    \/ \E network \in Network : GetActiveBuildersNoAuthNetworked(network)
    \/ GetActiveBuildersNoAuth
    \/ GetAllowedMeasurements
    \/ \E m \in MName, type \in AttType, template \in Template : AddMeasurement(m, type, template)
    \/ \E m \in MName, enabled \in BOOLEAN : ChangeActiveStatusForMeasurement(m, enabled)
    \/ \E b \in Builder, ip \in IP, network \in Network \cup {Null} : AddBuilder(b, ip, network)
    \/ \E b \in Builder : Deactivate(b) \/ AddBuilderConfig(b) \/ GetActiveConfigForBuilder(b)
    \/ \E b \in Builder, secret \in Secret : SetSecrets(b, secret)

Next == ((\E r \in Slot : Arrive(r) \/ HandlerStep(r)) \/ OneCall) /\ Observe

Spec == Init /\ [][Next]_vars

(* The Go runtime keeps running a handler, and the calls it makes return.   *)
FairSpec == Spec /\ \A r \in Slot : WF_vars(HandlerStep(r) /\ Observe)
-----------------------------------------------------------------------------
(* Properties.                                                              *)

\* The last step wrote a response of op that has a body.
Answers(op) == resp # Null /\ resp.body # Null /\ resp.body.op = op

(* A builder is active only when it has an active configuration, whoever    *)
(* else runs between the check and the UPDATE of an activation request; and *)
(* a request that found its builder, or is about to activate one, will find *)
(* the configuration: the 500 of GetConfigWithSecrets for a missing         *)
(* configuration is never sent.                                             *)
ActiveBuilderConfigured ==
    /\ \A b \in Builder : IsActiveBuilder(b) => HasActiveConfig(b)
    /\ \A r \in Slot : req[r].pc \in {"config", "activate"} => HasActiveConfig(req[r].builder)

\* A request of the instance API releases secrets, lists peers or registers.
TakesEffect(r) ==
    /\ req[r].op \in AuthOps /\ req'[r].pc = "idle"
    /\ resp'.status = 200 \/ credentials' # credentials

(* The instance API acts only for an instance whose address belonged to the *)
(* builder acted for while that builder was active, and whose attestation   *)
(* matched a measurement of its type while that measurement was active,     *)
(* both at some moment of the request (VerifyIPAndMeasurements).            *)
AuthorisedDuringRequest ==
    [][\A r \in Slot : TakesEffect(r) =>
          LET b == req[r].builder
              m == req[r].mname
          IN  /\ b \in seen[r].builders /\ builders[b].ip = req[r].ip
              /\ m \in seen[r].measurements
              /\ measurements[m].type = req[r].claim.type
              /\ checkMeasurement(req[r].claim.values, measurements[m].template)]_vars

(* The secrets GetConfigSecrets answers with are those of the authorised    *)
(* builder, as they were at some moment of the request.                     *)
SecretsWereCurrent ==
    [][\A r \in Slot : req[r].op = "GetConfigSecrets" /\ TakesEffect(r) =>
          <<req[r].builder, resp'.body.content.secret>> \in seen[r].secrets]_vars

(* No configuration leaves the hub without a row in event_log: for each     *)
(* builder and measurement there are at least as many events as answers.    *)
Count(log, e) == Cardinality({i \in DOMAIN log : log[i] = e})

EveryReleaseLogged == \A e \in Event : Count(released, e) <= Count(eventLog, e)

(* A list of peers names exactly the active builders of its network, those  *)
(* without credentials too, and for each builder every service it ever      *)
(* registered, with the registration made last.                             *)
PeerList ==
    Answers("GetActiveBuilders") =>
        LET network == resp.body.content.network
            peers == resp.body.content.peers
        IN  /\ DOMAIN peers = {b \in Builder : IsActiveBuilder(b) /\ builders[b].network = network}
            /\ \A b \in DOMAIN peers :
                  /\ DOMAIN peers[b] = {credentials[i].service : i \in CredentialsOf(b)}
                  /\ \A i \in CredentialsOf(b) : i <= peers[b][credentials[i].service]
PeerListFaithful == [][PeerList']_vars

\* The request in slot r wrote a row that names a builder of its address and a
\* measurement it attested, each as it stood while the row of that name was active.
Attested(r, row) ==
    /\ req'[r] # req[r]
    /\ row.builder \in seen[r].builders /\ builders[row.builder].ip = req[r].ip
    /\ row.measurement \in seen[r].measurements
    /\ measurements[row.measurement].type = req[r].claim.type
    /\ checkMeasurement(req[r].claim.values, measurements[row.measurement].template)

(* The INSERTs of RegisterCredentialsForBuilder and LogEvent look the       *)
(* measurement up again, by its name, after other requests may have changed *)
(* it: all the same every registration and every event names the builder    *)
(* and the measurement its own request was authorised by, and never a NULL. *)
WrittenAsAttested ==
    [][/\ \A i \in DOMAIN credentials' \ DOMAIN credentials :
             \E r \in Slot : Attested(r, credentials'[i])
       /\ \A i \in DOMAIN eventLog' \ DOMAIN eventLog :
             \E r \in Slot : Attested(r, eventLog'[i])]_vars

\* The requests of the instance API that act for b, and on the strength of m.
ActingFor(b) == {r \in Slot : req[r].op \in AuthOps /\ req[r].builder = b}
ActingOn(m) == {r \in Slot : req[r].mname = m}

(* Once a builder, or a measurement, is inactive, VerifyIPAndMeasurements   *)
(* lets no further request act for it: only those past its check when it    *)
(* was deactivated still do, and their number falls.                        *)
RevokedOnlyDrains ==
    [][/\ \A b \in Builder : ~IsActiveBuilder(b) => ActingFor(b)' \subseteq ActingFor(b)
       /\ \A m \in MName : ~IsActiveMeasurement(m) => ActingOn(m)' \subseteq ActingOn(m)]_vars

(* Revocation takes effect: once a builder, or a measurement, is inactive   *)
(* for good, no request of the instance API acts on it any more.            *)
RevocationTakesEffect ==
    /\ \A b \in Builder : <>[](~IsActiveBuilder(b)) => <>[](ActingFor(b) = {})
    /\ \A m \in MName : <>[](~IsActiveMeasurement(m)) => <>[](ActingOn(m) = {})

(* What the NOTE at service.go:282 says of measurements: only a measurement *)
(* of the same name and the same attestation type is a duplicate.           *)
UniquePerNameAndType ==
    Answers("AddMeasurement") =>
        measurements[resp.body.content.duplicate].type = resp.body.content.type

(* What the comment at admin_handler.go:59 and the README say of the full   *)
(* configuration: the answer holds the active configuration.                *)
FullConfigHasConfig == Answers("GetFullConfig") => resp.body.content.config # Null

(* What the README gives as the payload of a new builder, a name and an     *)
(* address, is not refused as a bad request.                                *)
NameAndAddressSuffice == Answers("AddBuilder") => resp.status # 400
=============================================================================
