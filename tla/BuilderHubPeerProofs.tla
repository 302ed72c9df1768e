------------------------ MODULE BuilderHubPeerProofs ------------------------
(***************************************************************************)
(* Proofs about the lists of peers: GetActiveBuilders answers with exactly *)
(* the active builders of the network and, for each, the registration made *)
(* last for every service it ever registered.                              *)
(***************************************************************************)
EXTENDS BuilderHubProofs

(* The credentials table.  Two registrations compete when they are for the  *)
(* same builder and service.  Among those that compete one is active, and   *)
(* an active one is the last: no index of the table says so, only the       *)
(* transaction that deprecates before it inserts.                           *)
Compete(i, j) ==
    /\ credentials[i].builder = credentials[j].builder
    /\ credentials[i].service = credentials[j].service
SomeActive ==
    \A i \in DOMAIN credentials :
        \E j \in DOMAIN credentials : Compete(i, j) /\ credentials[j].isActive
ActiveIsLast ==
    \A i, j \in DOMAIN credentials : Compete(i, j) /\ credentials[j].isActive => i <= j
LatestActive == SomeActive /\ ActiveIsLast

(* What a registration leaves of the table: the earlier rows, those that    *)
(* compete with the new one inactive, and the new one at the end.           *)
LEMMA Registered ==
    ASSUME Types, NEW r \in Slot, RegisterCredentials(r)
    PROVE  \E n \in Nat, b \in Builder, s \in Service :
              /\ DOMAIN credentials = 1..n /\ DOMAIN credentials' = 1..(n + 1)
              /\ credentials'[n + 1].builder = b /\ credentials'[n + 1].service = s
              /\ credentials'[n + 1].isActive = TRUE
              /\ \A i \in 1..n :
                    /\ credentials'[i].builder = credentials[i].builder
                    /\ credentials'[i].service = credentials[i].service
                    /\ credentials'[i].isActive = (credentials[i].isActive
                          /\ ~(credentials[i].builder = b /\ credentials[i].service = s))
<1> DEFINE b == req[r].builder
           s == req[r].service
           m == MeasurementIdByType(req[r].mname, req[r].claim.type)
           row == [builder |-> b, service |-> s, measurement |-> m, isActive |-> TRUE]
           n == Len(credentials)
           d == Deprecate(b, s)
<1>1. b \in Builder /\ s \in Service /\ req[r].mname \in MName
  BY DEF RegisterCredentials, Types, TypeOK, RequestsHold, Holds, Located, Request
<1>2. credentials \in Seq(CredentialRow)
  BY DEF Types, TypeOK
<1>3. n \in Nat /\ DOMAIN credentials = 1..n
  BY <1>2
<1>4. d \in Seq(CredentialRow) /\ Len(d) = n
  BY <1>1, DeprecateFacts
<1>5. row \in CredentialRow
  <2>1. m \in MName \cup {Null}
    BY <1>1 DEF MeasurementIdByType
  <2> HIDE DEF m, b, s
  <2> QED
    BY <1>1, <2>1 DEF CredentialRow
<1>6. credentials' = Append(d, row)
  BY DEF RegisterCredentials
<1>7. row.builder = b /\ row.service = s /\ row.isActive = TRUE
  OBVIOUS
<1>8. ASSUME NEW i \in 1..n
      PROVE  /\ d[i].builder = credentials[i].builder
             /\ d[i].service = credentials[i].service
             /\ d[i].isActive = (credentials[i].isActive
                   /\ ~(credentials[i].builder = b /\ credentials[i].service = s))
  <2> DEFINE c == credentials[i]
             a == c.isActive /\ ~(c.builder = b /\ c.service = s)
  <2>1. c \in CredentialRow
    BY <1>2, <1>3
  <2>2. d[i] = [c EXCEPT !.isActive = a]
    BY <1>3 DEF Deprecate
  <2> HIDE DEF c, a, d
  <2>3. d[i].builder = c.builder /\ d[i].service = c.service /\ d[i].isActive = a
    BY <2>1, <2>2 DEF CredentialRow
  <2> QED
    BY <2>3 DEF c, a
<1> HIDE DEF d, row, b, s, m
<1>9. /\ DOMAIN credentials' = 1..(n + 1) /\ credentials'[n + 1] = row
      /\ \A i \in 1..n : credentials'[i] = d[i]
  BY <1>3, <1>4, <1>5, <1>6
<1>10. /\ credentials'[n + 1].builder = b /\ credentials'[n + 1].service = s
       /\ credentials'[n + 1].isActive = TRUE
       /\ \A i \in 1..n :
             /\ credentials'[i].builder = credentials[i].builder
             /\ credentials'[i].service = credentials[i].service
             /\ credentials'[i].isActive = (credentials[i].isActive
                   /\ ~(credentials[i].builder = b /\ credentials[i].service = s))
  BY <1>7, <1>8, <1>9, Zenon
<1> HIDE DEF n
<1> QED
  <2> USE <1>1, <1>3
  <2> WITNESS n \in Nat, b \in Builder, s \in Service
  <2> QED
    BY <1>3, <1>9, <1>10

LEMMA LatestKept ==
    ASSUME Types, LatestActive, NEW r \in Slot, RegisterCredentials(r)
    PROVE  LatestActive'
<1>1. PICK n \in Nat, b \in Builder, s \in Service :
              /\ DOMAIN credentials = 1..n /\ DOMAIN credentials' = 1..(n + 1)
              /\ credentials'[n + 1].builder = b /\ credentials'[n + 1].service = s
              /\ credentials'[n + 1].isActive = TRUE
              /\ \A i \in 1..n :
                    /\ credentials'[i].builder = credentials[i].builder
                    /\ credentials'[i].service = credentials[i].service
                    /\ credentials'[i].isActive = (credentials[i].isActive
                          /\ ~(credentials[i].builder = b /\ credentials[i].service = s))
  BY Registered
<1>2. SomeActive'
  <2> SUFFICES ASSUME NEW i \in 1..(n + 1)
               PROVE  \E j \in 1..(n + 1) : Compete(i, j)' /\ credentials'[j].isActive
    BY <1>1 DEF SomeActive
  <2>1. CASE credentials'[i].builder = b /\ credentials'[i].service = s
    <3>1. n + 1 \in 1..(n + 1) /\ Compete(i, n + 1)' /\ credentials'[n + 1].isActive
      BY <1>1, <2>1 DEF Compete
    <3> QED
      BY <3>1
  <2>2. CASE ~(credentials'[i].builder = b /\ credentials'[i].service = s)
    <3>1. i \in 1..n
      BY <1>1, <2>2
    <3>2. PICK j \in 1..n : Compete(i, j) /\ credentials[j].isActive
      BY <1>1, <3>1 DEF LatestActive, SomeActive
    <3>3. j \in 1..(n + 1) /\ Compete(i, j)'
      BY <1>1, <3>1, <3>2 DEF Compete
    <3>4. credentials'[j].isActive
      BY <1>1, <2>2, <3>1, <3>2 DEF Compete
    <3> QED
      BY <3>3, <3>4
  <2> QED
    BY <2>1, <2>2
<1>3. ActiveIsLast'
  <2> SUFFICES ASSUME NEW i \in 1..(n + 1), NEW j \in 1..(n + 1), Compete(i, j)',
                      credentials'[j].isActive
               PROVE  i <= j
    BY <1>1 DEF ActiveIsLast
  <2>1. CASE j = n + 1
    BY <1>1, <2>1
  <2>2. CASE j \in 1..n
    <3>1. credentials[j].isActive /\ ~(credentials[j].builder = b /\ credentials[j].service = s)
      BY <1>1, <2>2
    <3>2. i \in 1..n
      BY <1>1, <2>2, <3>1 DEF Compete
    <3>3. Compete(i, j)
      BY <1>1, <2>2, <3>2 DEF Compete
    <3> QED
      BY <1>1, <2>2, <3>1, <3>2, <3>3 DEF LatestActive, ActiveIsLast
  <2> QED
    BY <1>1, <2>1, <2>2
<1> QED
  BY <1>2, <1>3 DEF LatestActive

LEMMA AlwaysLatest == Spec => []LatestActive
<1>1. Init => LatestActive
  BY DEF Init, LatestActive, SomeActive, ActiveIsLast
<1>2. Types /\ LatestActive /\ [Next]_vars => LatestActive'
  <2> SUFFICES ASSUME Types, LatestActive, [Next]_vars PROVE LatestActive'
    OBVIOUS
  <2>1. CASE credentials' = credentials
    BY <2>1 DEF LatestActive, SomeActive, ActiveIsLast, Compete
  <2>2. CASE credentials' # credentials
    <3>1. Next
      BY <2>2 DEF vars, db
    <3> QED
      BY <2>2, <3>1, WhoRegisters, LatestKept
  <2> QED
    BY <2>1, <2>2
<1> QED
  BY <1>1, <1>2, AlwaysTypes, PTL DEF Spec

(* Who answers with a list of peers, and what the answer holds.             *)
Listing(network) ==
    resp' = Body("GetActiveBuilders", [network |-> network, peers |-> GetActiveBuilders(network)])

LEMMA WhoListsPeers ==
    ASSUME Types, Next, Answers("GetActiveBuilders")'
    PROVE  /\ UNCHANGED <<builders, credentials>>
           /\ \E network \in Network \cup {Null} : Listing(network)
<1>0. resp' # Null /\ resp'.body # Null /\ resp'.body.op = "GetActiveBuilders"
  BY DEF Answers
<1>1. \A status : resp' # Status(status)
  BY <1>0 DEF Status
<1>2. ASSUME NEW op, NEW content, resp' = Body(op, content)
      PROVE  op = "GetActiveBuilders"
  BY <1>0, <1>2 DEF Body
<1>3. ASSUME NEW r \in Slot, Arrive(r) PROVE FALSE
  BY <1>0, <1>1, <1>3 DEF Arrive, BeginAuth, CheckActivation, CheckFullConfig, Continue, Reply
<1>4. ASSUME NEW r \in Slot, HandlerStep(r) PROVE ListPeers(r)
  <2>1. ASSUME WriteConfig(r) PROVE FALSE
    <3>1. req[r].op = "GetConfigSecrets"
      BY <2>1 DEF WriteConfig, Types, RequestsHold, Holds
    <3> QED
      BY <1>2, <2>1, <3>1 DEF WriteConfig, Return
  <2>2. ~FetchFullSecrets(r)
    BY <1>2 DEF FetchFullSecrets, Return
  <2> QED
    BY <1>0, <1>1, <1>4, <2>1, <2>2 DEF HandlerStep, InstanceStep, MatchMeasurement, LookupBuilder,
       FetchConfig, FetchSecrets, LogEvent, RejectCredentials, RegisterCredentials, Activate,
       FailStep, Continue, Return
<1>5. ASSUME NEW r \in Slot, ListPeers(r)
      PROVE  /\ UNCHANGED <<builders, credentials>>
             /\ \E network \in Network \cup {Null} : Listing(network)
  <2>1. req[r].op = "GetActiveBuilders" /\ req[r].network \in Network \cup {Null}
    BY <1>5 DEF ListPeers, Types, TypeOK, Request, RequestsHold, Holds
  <2>2. Listing(req[r].network)
    BY <1>5, <2>1 DEF ListPeers, Return, Listing
  <2> QED
    BY <1>5, <2>1, <2>2 DEF ListPeers, db
<1>6. ASSUME OneCall
      PROVE  \E network \in Network : GetActiveBuildersNoAuthNetworked(network)
  <2>1. ~GetAllowedMeasurements
    BY <1>2 DEF GetAllowedMeasurements, Reply
  <2>2. \A m, type, template : ~AddMeasurement(m, type, template)
    <3> SUFFICES ASSUME NEW m, NEW type, NEW template, AddMeasurement(m, type, template)
                 PROVE  FALSE
      OBVIOUS
    <3>1. Reply([status |-> 500, body |-> [op |-> "AddMeasurement",
                     content |-> [duplicate |-> m, type |-> type]]])
      BY <1>1 DEF AddMeasurement, Reply
    <3> QED
      BY <1>0, <3>1 DEF Reply
  <2>3. \A b, ip, network : ~AddBuilder(b, ip, network)
    <3> SUFFICES ASSUME NEW b, NEW ip, NEW network, AddBuilder(b, ip, network)
                 PROVE  FALSE
      OBVIOUS
    <3>1. Reply([status |-> 400, body |-> [op |-> "AddBuilder", content |-> [ip |-> ip]]])
      BY <1>1 DEF AddBuilder, Reply
    <3> QED
      BY <1>0, <3>1 DEF Reply
  <2>4. \A b : ~GetActiveConfigForBuilder(b)
    BY <1>1, <1>2 DEF GetActiveConfigForBuilder, Reply
  <2> QED
    BY <1>1, <1>6, <2>1, <2>2, <2>3, <2>4, ProductionAssumption DEF OneCall, RejectAuthData,
       RejectCall, GetActiveBuildersNoAuth, ChangeActiveStatusForMeasurement, Deactivate,
       AddBuilderConfig, SetSecrets, Reply
<1>7. ASSUME NEW network \in Network, GetActiveBuildersNoAuthNetworked(network)
      PROVE  UNCHANGED <<builders, credentials>> /\ Listing(network)
  BY <1>7 DEF GetActiveBuildersNoAuthNetworked, Reply, Listing, db
<1> QED
  BY <1>3, <1>4, <1>5, <1>6, <1>7 DEF Next

(* The join, for a builder that is active in the network: the rows it finds *)
(* are its active registrations, and it is listed even when there are none. *)
LEMMA JoinFacts ==
    ASSUME Types, LatestActive, NEW network, NEW b \in Builder
    PROVE  /\ \A i \in DOMAIN credentials : (<<b, i>> \in LeftJoin(network))
                 = (/\ IsActiveBuilder(b) /\ builders[b].network = network
                    /\ i \in CredentialsOf(b) /\ credentials[i].isActive)
           /\ (\E p \in LeftJoin(network) : p[1] = b)
                 = (IsActiveBuilder(b) /\ builders[b].network = network)
<1>1. \A i \in DOMAIN credentials : i # Null
  <2>1. DOMAIN credentials \subseteq Nat
    BY DEF Types, TypeOK
  <2> QED
    BY <2>1, NullIndexAssumption
<1>2. ASSUME NEW i \in DOMAIN credentials
      PROVE  (<<b, i>> \in LeftJoin(network))
                 = (/\ IsActiveBuilder(b) /\ builders[b].network = network
                    /\ i \in CredentialsOf(b) /\ credentials[i].isActive)
  <2> DEFINE yes == /\ IsActiveBuilder(b) /\ builders[b].network = network
                    /\ i \in CredentialsOf(b) /\ credentials[i].isActive
  <2>1. <<b, i>> \in LeftJoin(network) <=> yes
    BY <1>1, <1>2 DEF LeftJoin
  <2>2. (<<b, i>> \in LeftJoin(network)) \in BOOLEAN /\ yes \in BOOLEAN
    OBVIOUS
  <2> QED
    BY <2>1, <2>2
<1>3. ASSUME NEW p \in LeftJoin(network), p[1] = b
      PROVE  IsActiveBuilder(b) /\ builders[b].network = network
  BY <1>3 DEF LeftJoin
<1>4. ASSUME IsActiveBuilder(b), builders[b].network = network
      PROVE  \E p \in LeftJoin(network) : p[1] = b
  <2>1. CASE CredentialsOf(b) = {}
    <3>1. <<b, Null>> \in LeftJoin(network)
      BY <1>4, <2>1 DEF LeftJoin
    <3> QED
      BY <3>1
  <2>2. ASSUME NEW i \in CredentialsOf(b)
        PROVE  \E p \in LeftJoin(network) : p[1] = b
    <3>1. PICK j \in DOMAIN credentials : Compete(i, j) /\ credentials[j].isActive
      BY <2>2 DEF CredentialsOf, LatestActive, SomeActive
    <3>2. <<b, j>> \in LeftJoin(network)
      BY <1>2, <1>4, <2>2, <3>1 DEF CredentialsOf, Compete
    <3> QED
      BY <3>2
  <2> QED
    BY <2>1, <2>2
<1> QED
  BY <1>2, <1>3, <1>4

(* The list of a network, when the last registration of each key is the     *)
(* active one.                                                              *)
LEMMA ListFacts ==
    ASSUME Types, LatestActive, NEW network
    PROVE  LET peers == GetActiveBuilders(network)
           IN  /\ DOMAIN peers
                     = {b \in Builder : IsActiveBuilder(b) /\ builders[b].network = network}
               /\ \A b \in DOMAIN peers :
                     /\ DOMAIN peers[b] = {credentials[i].service : i \in CredentialsOf(b)}
                     /\ \A i \in CredentialsOf(b) : i <= peers[b][credentials[i].service]
<1> DEFINE rows == LeftJoin(network)
           found(b) == {p[2] : p \in {q \in rows : q[1] = b}} \ {Null}
           services(b) == {credentials[i].service : i \in found(b)}
           last(b, s) == CHOOSE i \in found(b) : credentials[i].service = s
           listed == {p[1] : p \in rows}
           active == {b \in Builder : IsActiveBuilder(b) /\ builders[b].network = network}
           peers == GetActiveBuilders(network)
<1>1. peers = [b \in listed |-> [s \in services(b) |-> last(b, s)]]
  BY DEF GetActiveBuilders
<1>2. \A p \in rows : p = <<p[1], p[2]>> /\ p[1] \in Builder /\ p[2] \in DOMAIN credentials \cup {Null}
  BY DEF LeftJoin
<1>3. listed = active
  <2>1. ASSUME NEW b \in listed PROVE b \in active
    <3>1. PICK p \in rows : p[1] = b
      BY <2>1
    <3>2. b \in Builder
      BY <1>2, <3>1
    <3> QED
      BY <3>1, <3>2, JoinFacts
  <2>2. ASSUME NEW b \in active PROVE b \in listed
    BY <2>2, JoinFacts
  <2> QED
    BY <2>1, <2>2
<1>4. ASSUME NEW b \in active
      PROVE  found(b) = {i \in CredentialsOf(b) : credentials[i].isActive}
  <2>1. \A i \in DOMAIN credentials : i # Null
    <3>1. DOMAIN credentials \subseteq Nat
      BY DEF Types, TypeOK
    <3> QED
      BY <3>1, NullIndexAssumption
  <2>2. ASSUME NEW i \in found(b)
        PROVE  i \in CredentialsOf(b) /\ credentials[i].isActive
    <3>1. PICK p \in rows : p[1] = b /\ p[2] = i
      BY <2>2
    <3>2. i \in DOMAIN credentials /\ <<b, i>> \in rows
      BY <1>2, <2>2, <3>1
    <3> QED
      BY <1>4, <3>2, JoinFacts
  <2>3. ASSUME NEW i \in CredentialsOf(b), credentials[i].isActive
        PROVE  i \in found(b)
    <3>1. i \in DOMAIN credentials
      BY <2>3 DEF CredentialsOf
    <3>2. <<b, i>> \in rows
      BY <1>4, <2>3, <3>1, JoinFacts
    <3>3. <<b, i>>[1] = b /\ <<b, i>>[2] = i
      OBVIOUS
    <3> HIDE DEF rows
    <3> QED
      BY <2>1, <3>1, <3>2, <3>3
  <2> QED
    BY <2>2, <2>3
<1> HIDE DEF rows, found, peers
<1>5. ASSUME NEW b \in active, NEW i \in CredentialsOf(b)
      PROVE  \E j \in found(b) : credentials[j].service = credentials[i].service
  <2>1. PICK j \in DOMAIN credentials : Compete(i, j) /\ credentials[j].isActive
    BY <1>5 DEF CredentialsOf, LatestActive, SomeActive
  <2> QED
    BY <1>4, <1>5, <2>1 DEF CredentialsOf, Compete
<1>6. ASSUME NEW b \in active, NEW i \in CredentialsOf(b)
      PROVE  i <= last(b, credentials[i].service)
  <2> DEFINE c == last(b, credentials[i].service)
  <2>1. c \in found(b) /\ credentials[c].service = credentials[i].service
    BY <1>5, <1>6
  <2> HIDE DEF last, c
  <2>2. c \in CredentialsOf(b) /\ credentials[c].isActive
    BY <1>4, <2>1
  <2>3. i <= c
    BY <1>6, <2>1, <2>2 DEF CredentialsOf, Compete, LatestActive, ActiveIsLast
  <2> QED
    BY <2>3 DEF c
<1>7. ASSUME NEW b \in active
      PROVE  services(b) = {credentials[i].service : i \in CredentialsOf(b)}
  <2>1. ASSUME NEW i \in found(b) PROVE i \in CredentialsOf(b)
    BY <1>4, <1>7, <2>1
  <2> QED
    BY <1>5, <1>7, <2>1
<1> HIDE DEF last
<1>8. ASSUME NEW b \in active
      PROVE  /\ DOMAIN peers[b] = {credentials[i].service : i \in CredentialsOf(b)}
             /\ \A i \in CredentialsOf(b) : i <= peers[b][credentials[i].service]
  <2>1. peers[b] = [s \in services(b) |-> last(b, s)]
    BY <1>1, <1>3, <1>8
  <2>2. DOMAIN peers[b] = services(b) /\ \A s \in services(b) : peers[b][s] = last(b, s)
    BY <2>1
  <2>3. ASSUME NEW i \in CredentialsOf(b) PROVE credentials[i].service \in services(b)
    BY <1>7, <1>8
  <2> HIDE DEF services
  <2> QED
    BY <1>6, <1>7, <1>8, <2>2, <2>3
<1>9. DOMAIN peers = active
  BY <1>1, <1>3
<1> QED
  BY <1>8, <1>9 DEF peers

(* A list of peers, whichever endpoint it answers, names exactly the active *)
(* builders of its network, and for each every service it ever registered   *)
(* with the registration made last, however registrations and activations   *)
(* interleave with the call.                                                *)
THEOREM PeerListsFaithful == Spec => PeerListFaithful
<1>1. Types /\ LatestActive /\ [Next]_vars => [PeerList']_vars
  <2> SUFFICES ASSUME Types, LatestActive, Next, Answers("GetActiveBuilders")' PROVE PeerList'
    BY DEF PeerList
  <2>1. PICK network \in Network \cup {Null} : Listing(network)
    BY WhoListsPeers
  <2>2. builders' = builders /\ credentials' = credentials
    BY WhoListsPeers
  <2> DEFINE peers == GetActiveBuilders(network)
  <2>3. resp'.body.content.network = network /\ resp'.body.content.peers = peers
    BY <2>1 DEF Listing, Body
  <2>4. /\ DOMAIN peers
              = {b \in Builder : IsActiveBuilder(b) /\ builders[b].network = network}
        /\ \A b \in DOMAIN peers :
              /\ DOMAIN peers[b] = {credentials[i].service : i \in CredentialsOf(b)}
              /\ \A i \in CredentialsOf(b) : i <= peers[b][credentials[i].service]
    BY ListFacts
  <2> HIDE DEF peers
  <2> QED
    BY <2>2, <2>3, <2>4 DEF PeerList, IsActiveBuilder, CredentialsOf
<1> QED
  BY <1>1, AlwaysTypes, AlwaysLatest, PTL DEF Spec, PeerListFaithful
=============================================================================
