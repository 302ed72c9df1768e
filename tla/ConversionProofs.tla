-------------------------- MODULE ConversionProofs --------------------------
(***************************************************************************)
(* Proofs about the conversions of the hub that keep no state, for any     *)
(* registers, values, templates, services, texts and lists of peers.       *)
(***************************************************************************)
EXTENDS Conversions, TLAPS

MatchInput == [for : {"match"}, template : AllTemplates, measurement : AllMeasurements]
PeersInput == {[for |-> "peers", list |-> l] : l \in PeerLists}

InputOK == input = Nothing \/ input \in MatchInput \/ input \in PeersInput

LEMMA AlwaysInputOK == Spec => []InputOK
<1>1. Init => InputOK
  BY DEF Init, InputOK
<1>2. InputOK /\ [Next]_input => InputOK'
  BY DEF InputOK, Next, Match, Exchange, MatchInput, PeersInput
<1> QED
  BY <1>1, <1>2, PTL DEF Spec
-----------------------------------------------------------------------------
(* Matching.                                                                *)

(* GetExpectedValues lists the values a register is accepted with.          *)
LEMMA ExpectedAreAccepted ==
    ASSUME NEW s \in Single, NEW v
    PROVE  matchesAnyExpected(v, GetExpectedValues(s)) <=> v \in AcceptedValues(s)
<1>1. CASE s.expectedAny # <<>>
  BY <1>1 DEF matchesAnyExpected, GetExpectedValues, AcceptedValues
<1>2. CASE s.expectedAny = <<>> /\ s.expected # NoValue
  <2> DEFINE one == <<s.expected>>
  <2>1. GetExpectedValues(s) = one /\ AcceptedValues(s) = {s.expected}
    BY <1>2 DEF GetExpectedValues, AcceptedValues
  <2>2. DOMAIN one = {1} /\ one[1] = s.expected
    OBVIOUS
  <2> HIDE DEF one
  <2> QED
    BY <2>1, <2>2 DEF matchesAnyExpected
<1>3. CASE s.expectedAny = <<>> /\ s.expected = NoValue
  <2>1. GetExpectedValues(s) = <<>> /\ AcceptedValues(s) = {}
    BY <1>3 DEF GetExpectedValues, AcceptedValues
  <2> QED
    BY <2>1 DEF matchesAnyExpected
<1> QED
  BY <1>1, <1>2, <1>3

LEMMA MatchReads ==
    ASSUME NEW t \in AllTemplates, NEW m \in AllMeasurements
    PROVE  checkMeasurement(m, t)
              <=> \E f \in Readings(t) : \A k \in DOMAIN f : k \in DOMAIN m /\ m[k] = f[k]
<1>1. \A k \in DOMAIN t : t[k] \in Single
  BY DEF AllTemplates
<1>2. \A k \in DOMAIN m : m[k] \in Value
  BY DEF AllMeasurements
<1>3. ASSUME checkMeasurement(m, t)
      PROVE  \E f \in Readings(t) : \A k \in DOMAIN f : k \in DOMAIN m /\ m[k] = f[k]
  <2> DEFINE f == [k \in DOMAIN t |-> m[k]]
  <2>1. \A k \in DOMAIN t : k \in DOMAIN m /\ m[k] \in AcceptedValues(t[k])
    BY <1>1, <1>3, ExpectedAreAccepted DEF checkMeasurement
  <2>2. f \in Readings(t)
    BY <1>2, <2>1 DEF Readings
  <2>3. \A k \in DOMAIN f : k \in DOMAIN m /\ m[k] = f[k]
    BY <2>1
  <2> HIDE DEF f
  <2> QED
    BY <2>2, <2>3
<1>4. ASSUME NEW f \in Readings(t), \A k \in DOMAIN f : k \in DOMAIN m /\ m[k] = f[k]
      PROVE  checkMeasurement(m, t)
  <2>1. DOMAIN f = DOMAIN t /\ \A k \in DOMAIN t : f[k] \in AcceptedValues(t[k])
    BY <1>4 DEF Readings
  <2> QED
    BY <1>1, <1>4, <2>1, ExpectedAreAccepted DEF checkMeasurement
<1> QED
  BY <1>3, <1>4

(* checkMeasurement accepts exactly what one of the single-valued readings  *)
(* of the template would, for any template and any measurement: an          *)
(* alternative neither widens nor narrows the others, and a register that   *)
(* is not reported is never passed over.                                    *)
THEOREM AlternativesAreReadings == Spec => []MatchIsSomeReading
<1>1. InputOK => MatchIsSomeReading
  <2> SUFFICES ASSUME InputOK, input.for = "match"
               PROVE  checkMeasurement(input.measurement, input.template)
                        <=> \E f \in Readings(input.template) :
                               \A k \in DOMAIN f : k \in DOMAIN input.measurement /\ input.measurement[k] = f[k]
    BY DEF MatchIsSomeReading
  <2>1. input \in MatchInput
    BY DEF InputOK, Nothing, PeersInput
  <2>2. input.template \in AllTemplates /\ input.measurement \in AllMeasurements
    BY <2>1 DEF MatchInput
  <2> QED
    BY <2>2, MatchReads
<1> QED
  BY <1>1, AlwaysInputOK, PTL
-----------------------------------------------------------------------------
(* The way of a credential to the peers.                                    *)

(* A certificate is never SQL's NULL in the body, whose keys hold strings.  *)
LEMMA BodyText ==
    ASSUME NEW b \in Bodies
    PROVE  DecodeCred(b).tlsCert # Null
<1>1. \A k \in DOMAIN b : b[k].str \in Text
  BY DEF Bodies, Str
<1>2. Get(b, "tls_cert", NoText) \in Text
  BY <1>1, TextAssumption DEF Get
<1> QED
  BY <1>2, TextAssumption DEF DecodeCred

(* Through the row and back a credential is what it was: NULL stands for    *)
(* the empty certificate and for the missing key alike.                     *)
LEMMA RowKeeps ==
    ASSUME NEW b \in Bodies
    PROVE  FromRow(InsertedRow(DecodeCred(b))) = DecodeCred(b)
<1> DEFINE tls == Get(b, "tls_cert", NoText)
           key == Get(b, "ecdsa_pubkey_address", Null)
           region == Get(b, "region", NoText)
<1>1. tls # Null
  BY BodyText DEF DecodeCred
<1>2. DecodeCred(b) = [tlsCert |-> tls, ecdsaPubkey |-> key, region |-> region]
  BY DEF DecodeCred
<1> HIDE DEF tls, key, region
<1> QED
  BY <1>1, <1>2 DEF InsertedRow, FromRow, NullIfEmpty, NullString, Bytes2Address

(* Through JSON and back: a field that omitempty leaves out is read as the  *)
(* zero value it had.                                                       *)
LEMMA JsonKeeps ==
    ASSUME NEW tls, NEW key, NEW region
    PROVE  LET cred == [tlsCert |-> tls, ecdsaPubkey |-> key, region |-> region]
           IN  DecodeCred(EncodeCred(cred)) = cred
<1> DEFINE cred == [tlsCert |-> tls, ecdsaPubkey |-> key, region |-> region]
           keys == {"tls_cert" : x \in {tls} \ {NoText}}
                   \cup {"ecdsa_pubkey_address" : x \in {key} \ {Null}}
                   \cup {"region" : x \in {region} \ {NoText}}
           f == EncodeCred(cred)
           val(k) == CASE k = "tls_cert" -> tls
                       [] k = "ecdsa_pubkey_address" -> key
                       [] k = "region" -> region
<1>1. f = [k \in keys |-> Str(val(k))]
  BY DEF EncodeCred
<1>2. /\ "tls_cert" \in keys <=> tls # NoText
      /\ "ecdsa_pubkey_address" \in keys <=> key # Null
      /\ "region" \in keys <=> region # NoText
  OBVIOUS
<1>3. val("tls_cert") = tls /\ val("ecdsa_pubkey_address") = key /\ val("region") = region
  OBVIOUS
<1> HIDE DEF keys, f, val
<1>4. DOMAIN f = keys /\ \A k \in keys : f[k].str = val(k)
  BY <1>1 DEF Str
<1>5. Get(f, "tls_cert", NoText) = tls
  BY <1>2, <1>3, <1>4 DEF Get
<1>6. Get(f, "ecdsa_pubkey_address", Null) = key
  BY <1>2, <1>3, <1>4 DEF Get
<1>7. Get(f, "region", NoText) = region
  BY <1>2, <1>3, <1>4 DEF Get
<1> QED
  BY <1>5, <1>6, <1>7 DEF DecodeCred, f

LEMMA CredKept ==
    ASSUME NEW b \in Bodies
    PROVE  DecodeCred(EncodeCred(FromRow(InsertedRow(DecodeCred(b))))) = DecodeCred(b)
<1>1. DecodeCred(EncodeCred(DecodeCred(b))) = DecodeCred(b)
  BY JsonKeeps DEF DecodeCred
<1> QED
  BY <1>1, RowKeeps

(* What one builder's object looks like to a reader.                        *)
LEMMA ServedFacts ==
    ASSUME NEW peer, IsPeer(peer)
    PROVE  LET f == Served(peer)
               S == DOMAIN peer.bodies
           IN  /\ DOMAIN f = Fields \cup S
               /\ \A s \in S : IsObj(f[s]) /\ DecodeCred(f[s].obj) = DecodeCred(peer.bodies[s])
               /\ \A k \in Fields \ S : ~IsObj(f[k])
               /\ "ip" \notin S => f["ip"].str = peer.row.ip
               /\ "name" \notin S => f["name"].str = peer.row.name
               /\ "dns_name" \notin S => f["dns_name"].str = NullString(peer.row.dnsName)
<1> DEFINE S == DOMAIN peer.bodies
           creds == [s \in S |-> InsertedRow(DecodeCred(peer.bodies[s]))]
           kept == [s \in S |-> FromRow(creds[s])]
           dns == NullString(peer.row.dnsName)
           b == [ip |-> peer.row.ip, name |-> peer.row.name, dnsName |-> dns, serviceCreds |-> kept]
           val(k) == CASE k \in S -> Obj(EncodeCred(kept[k]))
                       [] k \notin S /\ k = "ip" -> Str(peer.row.ip)
                       [] k \notin S /\ k = "name" -> Str(peer.row.name)
                       [] k \notin S /\ k = "dns_name" -> Str(dns)
           f == Served(peer)
<1>1. DOMAIN kept = S
  OBVIOUS
<1>2. f = MarshalJSON(b)
  <2>1. DOMAIN creds = S
    OBVIOUS
  <2>2. FromBuilder(peer.row, creds) = b
    BY <2>1, Zenon DEF FromBuilder
  <2> QED
    BY <2>2, Zenon DEF Served
<1>3. f = [k \in Fields \cup S |-> val(k)]
  BY <1>1, <1>2 DEF MarshalJSON
<1>4. \A s \in S : DecodeCred(EncodeCred(kept[s])) = DecodeCred(peer.bodies[s])
  <2>1. \A s \in S : peer.bodies[s] \in Bodies
    BY DEF IsPeer
  <2>2. \A s \in S : kept[s] = FromRow(InsertedRow(DecodeCred(peer.bodies[s])))
    BY Zenon
  <2> QED
    BY <2>1, <2>2, CredKept, Zenon
<1>5. \A s \in S : val(s) = Obj(EncodeCred(kept[s]))
  OBVIOUS
<1>6. /\ "ip" \notin S => val("ip") = Str(peer.row.ip)
      /\ "name" \notin S => val("name") = Str(peer.row.name)
      /\ "dns_name" \notin S => val("dns_name") = Str(dns)
  OBVIOUS
<1> HIDE DEF S, kept, dns, val, f
<1>7. DOMAIN f = Fields \cup S /\ \A k \in Fields \cup S : f[k] = val(k)
  BY <1>3
<1>8. \A s \in S : IsObj(f[s]) /\ DecodeCred(f[s].obj) = DecodeCred(peer.bodies[s])
  BY <1>4, <1>5, <1>7 DEF IsObj, Obj
<1>9. /\ "ip" \notin S => f["ip"] = Str(peer.row.ip)
      /\ "name" \notin S => f["name"] = Str(peer.row.name)
      /\ "dns_name" \notin S => f["dns_name"] = Str(dns)
  BY <1>6, <1>7 DEF Fields
<1>10. \A k \in Fields \ S : ~IsObj(f[k])
  BY <1>9 DEF Fields, IsObj, Str
<1> QED
  BY <1>7, <1>8, <1>9, <1>10 DEF S, f, dns, Str

(* One builder read back: as registered, or not at all when a service has   *)
(* the name of a field.                                                     *)
Clash(peer) == \E s \in DOMAIN peer.bodies : Fold(s) \in Fields

LEMMA PeerReadBack ==
    ASSUME NEW peer, IsPeer(peer)
    PROVE  UnmarshalJSON(Served(peer)) = IF Clash(peer) THEN Err ELSE Registered(peer)
<1> DEFINE S == DOMAIN peer.bodies
           f == Served(peer)
           read == [ip |-> Get(f, "ip", NoText), name |-> Get(f, "name", NoText),
                    dnsName |-> Get(f, "dns_name", NoText),
                    serviceCreds |-> [k \in DOMAIN f \ Fields |-> DecodeCred(f[k].obj)]]
           refused == \/ \E k \in DOMAIN f : Fold(k) \in Fields /\ IsObj(f[k])
                      \/ \E k \in DOMAIN f \ Fields : ~IsObj(f[k])
<1>1. UnmarshalJSON(f) = IF refused THEN Err ELSE read
  BY Zenon DEF UnmarshalJSON
<1>2. /\ DOMAIN f = Fields \cup S
      /\ \A s \in S : IsObj(f[s]) /\ DecodeCred(f[s].obj) = DecodeCred(peer.bodies[s])
      /\ \A k \in Fields \ S : ~IsObj(f[k])
      /\ "ip" \notin S => f["ip"].str = peer.row.ip
      /\ "name" \notin S => f["name"].str = peer.row.name
      /\ "dns_name" \notin S => f["dns_name"].str = NullString(peer.row.dnsName)
  BY ServedFacts
<1> HIDE DEF f
<1>3. refused <=> Clash(peer)
  <2>1. ASSUME NEW s \in S, Fold(s) \in Fields PROVE refused
    BY <1>2, <2>1
  <2>2. ASSUME NEW k \in DOMAIN f, Fold(k) \in Fields, IsObj(f[k]) PROVE Clash(peer)
    BY <1>2, <2>2 DEF Clash
  <2>3. ASSUME NEW k \in DOMAIN f \ Fields PROVE IsObj(f[k])
    BY <1>2, <2>3
  <2> QED
    BY <2>1, <2>2, <2>3 DEF Clash
<1>4. ASSUME ~Clash(peer) PROVE read = Registered(peer)
  <2>1. S \cap Fields = {}
    BY <1>4, FoldAssumption DEF Clash
  <2>2. /\ Get(f, "ip", NoText) = peer.row.ip
        /\ Get(f, "name", NoText) = peer.row.name
        /\ Get(f, "dns_name", NoText) = NullString(peer.row.dnsName)
    BY <1>2, <2>1 DEF Get, Fields
  <2>3. DOMAIN f \ Fields = S
    BY <1>2, <2>1
  <2> DEFINE left == [k \in DOMAIN f \ Fields |-> DecodeCred(f[k].obj)]
             creds == [s \in S |-> DecodeCred(peer.bodies[s])]
  <2>4. left = creds
    BY <1>2, <2>3
  <2>5. Registered(peer) = [ip |-> peer.row.ip, name |-> peer.row.name,
                            dnsName |-> NullString(peer.row.dnsName), serviceCreds |-> creds]
    BY Zenon DEF Registered
  <2> HIDE DEF left
  <2>6. read = [ip |-> Get(f, "ip", NoText), name |-> Get(f, "name", NoText),
                dnsName |-> Get(f, "dns_name", NoText), serviceCreds |-> left]
    BY Zenon DEF left
  <2> HIDE DEF creds, read
  <2> QED
    BY <2>2, <2>4, <2>5, <2>6
<1> HIDE DEF refused, read
<1> QED
  BY <1>1, <1>3, <1>4 DEF f

LEMMA RegisteredNotErr == ASSUME NEW peer PROVE Registered(peer) # Err
<1>1. "ip" \in DOMAIN Registered(peer)
  BY DEF Registered
<1>2. "ip" \notin DOMAIN Err
  BY DEF Err
<1> QED
  BY <1>1, <1>2

(* A credential registered with RegisterCredentials arrives at every peer   *)
(* as it was sent, through the row, the domain type and two JSON            *)
(* conversions, for any lists of builders and services; a list is           *)
(* unreadable exactly if a service has, in any case, the name of a field.   *)
THEOREM CredentialsReachPeers == Spec => []PeersReadBack
<1>1. InputOK => PeersReadBack
  <2> DEFINE list == input.list
             served == [i \in DOMAIN list |-> Served(list[i])]
             clash == \E i \in DOMAIN list : Clash(list[i])
             reg == [i \in DOMAIN list |-> Registered(list[i])]
  <2> SUFFICES ASSUME InputOK, input.for = "peers"
               PROVE  UnmarshalList(served) = IF clash THEN Err ELSE reg
    BY DEF PeersReadBack, Clash
  <2>1. \A i \in DOMAIN list : IsPeer(list[i])
    <3>1. input \in PeersInput
      BY DEF InputOK, Nothing, MatchInput
    <3>2. list \in PeerLists
      BY <3>1 DEF PeersInput
    <3> QED
      BY <3>2, PeerListsAssumption
  <2>2. /\ DOMAIN served = DOMAIN list
        /\ \A i \in DOMAIN list : UnmarshalJSON(served[i])
                                   = IF Clash(list[i]) THEN Err ELSE Registered(list[i])
    <3>1. \A i \in DOMAIN list : served[i] = Served(list[i])
      OBVIOUS
    <3>2. DOMAIN served = DOMAIN list
      OBVIOUS
    <3> HIDE DEF served
    <3> QED
      BY <2>1, <3>1, <3>2, PeerReadBack
  <2> HIDE DEF served, list
  <2>3. (\E i \in DOMAIN served : UnmarshalJSON(served[i]) = Err) <=> clash
    BY <2>2, RegisteredNotErr
  <2>4. ASSUME ~clash
        PROVE  [i \in DOMAIN served |-> UnmarshalJSON(served[i])] = reg
    BY <2>2, <2>4
  <2> HIDE DEF clash, reg
  <2> QED
    BY <2>3, <2>4 DEF UnmarshalList
<1> QED
  BY <1>1, AlwaysInputOK, PTL
=============================================================================
