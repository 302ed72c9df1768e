------------------------------ MODULE PeerJson ------------------------------
(***************************************************************************)
(* What becomes of a registered credential on its way to the peers: the    *)
(* body of the registration, the row, the domain type and the JSON of the  *)
(* peer list (ports/http_handler.go, adapters/database, ports/types.go).   *)
(* JSON objects are functions from keys to values; a JSON value is a       *)
(* string, [str |-> x], or an object, [obj |-> f].                         *)
(***************************************************************************)
CONSTANTS
    NoText,     \* the empty string
    Null,       \* SQL NULL, or Go's nil
    ZeroAddress,\* common.Address{}
    Fold(_)     \* the case folding encoding/json applies to keys

Fields == {"ip", "name", "dns_name"}

\* A field is filled from its own key, whatever other keys fold to it.
ASSUME FoldAssumption == \A k \in Fields : Fold(k) = k

Str(x) == [str |-> x]
Obj(f) == [obj |-> f]
IsObj(v) == "obj" \in DOMAIN v

Err == [err |-> TRUE]

\* A key that is missing leaves its field at the zero value.
Get(f, k, zero) == IF k \in DOMAIN f THEN f[k].str ELSE zero

\* json.Unmarshal into ServiceCred.
DecodeCred(f) == [tlsCert |-> Get(f, "tls_cert", NoText),
                  ecdsaPubkey |-> Get(f, "ecdsa_pubkey_address", Null),
                  region |-> Get(f, "region", NoText)]

\* json.Marshal of ServiceCred: every field is omitempty.
EncodeCred(cred) ==
    [k \in {"tls_cert" : x \in {cred.tlsCert} \ {NoText}}
           \cup {"ecdsa_pubkey_address" : x \in {cred.ecdsaPubkey} \ {Null}}
           \cup {"region" : x \in {cred.region} \ {NoText}} |->
        Str(CASE k = "tls_cert" -> cred.tlsCert
              [] k = "ecdsa_pubkey_address" -> cred.ecdsaPubkey
              [] k = "region" -> cred.region)]

\* RegisterCredentials takes the body unless it has no credentials.
Accepted(body) == DecodeCred(body).ecdsaPubkey # Null \/ DecodeCred(body).tlsCert # NoText

\* The row RegisterCredentialsForBuilder inserts: an empty certificate is NULL,
\* and so are the bytes of a missing key; the region is never NULL.
NullIfEmpty(x) == IF x = NoText THEN Null ELSE x
InsertedRow(cred) == [tlsCert |-> NullIfEmpty(cred.tlsCert), ecdsaPubkey |-> cred.ecdsaPubkey,
                      region |-> cred.region]

\* sql.NullString.String.
NullString(x) == IF x = Null THEN NoText ELSE x

\* Mutant: no test for missing bytes.
BytesToAddress(bytes) == IF bytes = Null THEN ZeroAddress ELSE bytes
Bytes2Address(bytes) == IF bytes = Null THEN Null ELSE bytes

\* toDomainBuilderWithCredentials and fromDomainBuilderWithServices.
FromRow(row) == [tlsCert |-> NullString(row.tlsCert), ecdsaPubkey |-> Bytes2Address(row.ecdsaPubkey),
                 region |-> row.region]
FromBuilder(row, creds) ==
    [ip |-> row.ip, name |-> row.name, dnsName |-> NullString(row.dnsName),
     serviceCreds |-> [s \in DOMAIN creds |-> FromRow(creds[s])]]

\* The services are written over the fields.
MarshalJSON(b) ==
    [k \in Fields \cup DOMAIN b.serviceCreds |->
        CASE k \in DOMAIN b.serviceCreds -> Obj(EncodeCred(b.serviceCreds[k]))
          [] k \notin DOMAIN b.serviceCreds /\ k = "ip" -> Str(b.ip)
          [] k \notin DOMAIN b.serviceCreds /\ k = "name" -> Str(b.name)
          [] k \notin DOMAIN b.serviceCreds /\ k = "dns_name" -> Str(b.dnsName)]

(* encoding/json fills the fields of Alias from keys of any case, and       *)
(* refuses an object where a string is expected.  What is left after the    *)
(* fields' own keys are deleted are the services.                           *)
UnmarshalJSON(f) ==
    IF \/ \E k \in DOMAIN f : Fold(k) \in Fields /\ IsObj(f[k])
       \/ \E k \in DOMAIN f \ Fields : ~IsObj(f[k])
    THEN Err
    ELSE [ip |-> Get(f, "ip", NoText), name |-> Get(f, "name", NoText),
          dnsName |-> Get(f, "dns_name", NoText),
          serviceCreds |-> [k \in DOMAIN f \ Fields |-> DecodeCred(f[k].obj)]]

\* A list is read as a whole.
UnmarshalList(list) ==
    IF \E i \in DOMAIN list : UnmarshalJSON(list[i]) = Err THEN Err
    ELSE [i \in DOMAIN list |-> UnmarshalJSON(list[i])]
=============================================================================
