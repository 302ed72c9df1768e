---------------------------- MODULE Conversions ----------------------------
(***************************************************************************)
(* Two parts of the hub that keep no state, against reference definitions: *)
(* the matching of an attested measurement with a template, and the way of *)
(* a registered credential to the peers.  A step takes up an input.        *)
(***************************************************************************)
EXTENDS Measurements, PeerJson

CONSTANTS
    Register,       \* names of measurement registers
    Value,          \* values of registers
    Alternatives,   \* the lists of values a template may give for a register
    Service,        \* names of services
    Text,           \* names, addresses, certificates, keys and regions
    PeerLists       \* the lists of builders and what they registered

VARIABLE input      \* the input at hand, with the conversion it is for
-----------------------------------------------------------------------------
(* Measurements and templates.                                              *)

ASSUME AlternativesAssumption == Alternatives \subseteq Seq(Value)

Single == [expected : Value \cup {NoValue}, expectedAny : Alternatives]

AllTemplates == UNION {[S -> Single] : S \in SUBSET Register}
AllMeasurements == UNION {[S -> Value] : S \in SUBSET Register}

\* The single-valued templates that a template stands for.
AcceptedValues(s) ==
    IF s.expectedAny # <<>> THEN {s.expectedAny[i] : i \in DOMAIN s.expectedAny}
    ELSE {s.expected} \ {NoValue}
Readings(t) == {f \in [DOMAIN t -> Value] : \A k \in DOMAIN t : f[k] \in AcceptedValues(t[k])}

(* A template with alternatives accepts exactly what one of the templates   *)
(* with a single value per register would (README, "OR semantics"), and     *)
(* needs every register it names to be reported; registers it does not name *)
(* are ignored (checkMeasurement).                                          *)
MatchIsSomeReading ==
    input.for = "match" =>
        (checkMeasurement(input.measurement, input.template)
            <=> \E f \in Readings(input.template) :
                   \A k \in DOMAIN f : k \in DOMAIN input.measurement /\ input.measurement[k] = f[k])
-----------------------------------------------------------------------------
(* Builders, and for each the bodies it registered by service.              *)

CredKeys == {"tls_cert", "ecdsa_pubkey_address", "region"}
Bodies == {b \in UNION {[S -> {Str(x) : x \in Text}] : S \in SUBSET CredKeys} : Accepted(b)}
IsPeer(peer) ==
    /\ peer.row \in [ip : Text, name : Text, dnsName : Text \cup {Null}]
    /\ DOMAIN peer.bodies \subseteq Service
    /\ peer.bodies \in [DOMAIN peer.bodies -> Bodies]

ASSUME TextAssumption == NoText \in Text /\ Null \notin Text
ASSUME PeerListsAssumption == \A list \in PeerLists : \A i \in DOMAIN list : IsPeer(list[i])

Served(peer) ==
    MarshalJSON(FromBuilder(peer.row, [s \in DOMAIN peer.bodies |-> InsertedRow(DecodeCred(peer.bodies[s]))]))

\* What a peer should read of a builder.
Registered(peer) ==
    [ip |-> peer.row.ip, name |-> peer.row.name, dnsName |-> NullString(peer.row.dnsName),
     serviceCreds |-> [s \in DOMAIN peer.bodies |-> DecodeCred(peer.bodies[s])]]

(* What the instances registered is what their peers read: the same fields  *)
(* are there, empty ones and missing ones alike, after the body, the row,   *)
(* the domain type and two JSON conversions.  The exception is a service    *)
(* called, in any case, like a field of the builder, which RegisterCreden-  *)
(* tials does not refuse: then the list cannot be read, for all builders.   *)
PeersReadBack ==
    input.for = "peers" =>
        UnmarshalList([i \in DOMAIN input.list |-> Served(input.list[i])])
            = IF \E i \in DOMAIN input.list : \E s \in DOMAIN input.list[i].bodies : Fold(s) \in Fields
              THEN Err
              ELSE [i \in DOMAIN input.list |-> Registered(input.list[i])]
-----------------------------------------------------------------------------
Nothing == [for |-> "nothing"]

Init == input = Nothing

Match == input' \in [for : {"match"}, template : AllTemplates, measurement : AllMeasurements]
Exchange == input' \in {[for |-> "peers", list |-> l] : l \in PeerLists}

Next == \/ input = Nothing /\ (Match \/ Exchange)
        \/ input # Nothing /\ input' = Nothing

Spec == Init /\ [][Next]_input
=============================================================================
