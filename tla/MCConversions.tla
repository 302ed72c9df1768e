--------------------------- MODULE MCConversions ---------------------------
(***************************************************************************)
(* The parts of the hub that keep no state, over small inputs and against  *)
(* reference definitions: the matching of measurements and the way of a    *)
(* credential to the peers (module Conversions), and the flattening and    *)
(* merging of secrets.                                                     *)
(***************************************************************************)
EXTENDS Conversions, ConfigUtils

(* Templates with up to two alternatives for a register.                    *)
ValueLists == {<<>>, <<"x">>, <<"x", "y">>}

(* Registered services with names that are like a field's or not.           *)

FoldKey(k) == CASE k = "IP" -> "ip" [] OTHER -> k

Body(tls, key, region) ==
    [k \in {"tls_cert" : x \in tls} \cup {"ecdsa_pubkey_address" : x \in key} \cup {"region" : x \in region} |->
        Str(CHOOSE x \in CASE k = "tls_cert" -> tls
                           [] k = "ecdsa_pubkey_address" -> key
                           [] k = "region" -> region : TRUE)]
SomeBodies == {b \in {Body(tls, key, region) : tls \in {{}, {NoText}, {"cert"}},
                                               key \in {{}, {ZeroAddress}, {"addr"}},
                                               region \in {{}, {"eu"}}} : Accepted(b)}

PeersWith(n) == UNION {[S -> SomeBodies] : S \in {S \in SUBSET Service : Cardinality(S) <= n}}
Row == [ip : {"10.0.0.1"}, name : {"b"}, dnsName : {Null, "b.net"}]

\* One builder with two services, or two with one.
SmallPeerLists ==
    {<<[row |-> r, bodies |-> p]>> : r \in Row, p \in PeersWith(2)}
    \cup {<<[row |-> r, bodies |-> p], [row |-> r, bodies |-> o]>> : r \in Row, p, o \in PeersWith(1)}
-----------------------------------------------------------------------------
(* Secrets and configurations of keys a, b and a.b.                         *)

IndexPart(i) == <<"[0]", "[1]">>[i + 1]

\* A backslash and a t are read as a tab; a newline may not stand between quotes.
BetweenQuotes(v) == CASE v = "\\t" -> "\t" [] v = "\n" -> Unreadable [] OTHER -> v

str(x) == [kind |-> "str", val |-> x]
obj(f) == [kind |-> "obj", fields |-> f]
Number == [kind |-> "num"]

KeySets(n) == {S \in SUBSET {<<"a">>, <<"b">>, <<"a", "b">>} : Cardinality(S) <= n}
Objects(n, values) == {obj(f) : f \in UNION {[S -> values] : S \in KeySets(n)}}

Scalars == {str("x"), str("\\t"), str("\n")}
Leaves == Scalars \cup Objects(1, Scalars) \cup {Number, [kind |-> "arr", items |-> <<str("x"), str("y")>>]}
Secrets == Objects(3, Scalars \cup {obj([k \in {<<"b">>} |-> str("y")])}) \cup Objects(2, Leaves)
           \cup Leaves \cup {[kind |-> "null"]}

Configs == {obj([k \in S |-> v]) : S \in {{}, {<<"a">>}, {<<"a">>, <<"b">>}},
                                   v \in {str("x"), Number, obj([k \in {<<"b">>} |-> str("z")])}}
           \cup {Number}

\* The strings in a value.
RECURSIVE Strings(_)
Strings(v) ==
    CASE v.kind = "str" -> {v.val}
      [] v.kind = "obj" -> UNION {Strings(v.fields[k]) : k \in DOMAIN v.fields}
      [] v.kind = "arr" -> UNION {Strings(v.items[i]) : i \in DOMAIN v.items}
      [] OTHER -> {}

\* Whether all leaves are strings.
RECURSIVE OnlyStrings(_)
OnlyStrings(v) ==
    CASE v.kind = "str" -> TRUE
      [] v.kind = "obj" -> \A k \in DOMAIN v.fields : OnlyStrings(v.fields[k])
      [] v.kind = "arr" -> \A i \in DOMAIN v.items : OnlyStrings(v.items[i])
      [] OTHER -> FALSE

\* The strings a path leads to, taken as a whole number of keys.
RECURSIVE Reach(_, _)
Reach(v, path) ==
    IF path = <<>> THEN IF v.kind = "str" THEN {v.val} ELSE {}
    ELSE UNION (CASE v.kind = "obj" ->
                       {Reach(v.fields[k], SubSeq(path, Len(k) + 1, Len(path))) :
                            k \in {k \in DOMAIN v.fields : IsPrefix(k, path)}}
                  [] v.kind = "arr" ->
                       {Reach(v.items[i], Tail(path)) : i \in {i \in DOMAIN v.items : IndexPart(i - 1) = Head(path)}}
                  [] OTHER -> {})

Paths == SeqOf({"a", "b", "[0]", "[1]"}, 4)

(* Whatever the order in which FlattenJSONFromBytes meets the keys, the     *)
(* flat map has the paths that lead to a string in the secrets, each with   *)
(* a string it leads to; two when a key with a dot meets nested keys.       *)
(* There is none exactly if the secrets hold something else than strings.   *)
FlatMapsAreReadings ==
    input.for = "merge" =>
        LET flats == FlattenJSONFromBytes(input.secrets)
        IN  /\ flats # {} <=> \/ input.secrets.kind = "null"
                              \/ input.secrets.kind = "obj" /\ OnlyStrings(input.secrets)
            /\ \A f \in flats :
                   input.secrets.kind = "obj" =>
                       /\ DOMAIN f = {p \in Paths : Reach(input.secrets, p) # {}}
                       /\ \A p \in DOMAIN f : f[p] \in Reach(input.secrets, p)

\* The secrets laid over the configuration, object by object, each as it is read.
RECURSIVE Overlay(_, _)
Overlay(config, secrets) ==
    IF secrets.kind = "str" THEN str(BetweenQuotes(secrets.val))
    ELSE LET under == IF config.kind = "obj" THEN config.fields ELSE NoKeys
             over == {k \in DOMAIN secrets.fields : Strings(secrets.fields[k]) # {}}
         IN  obj([k \in DOMAIN under \cup over |->
                    IF k \notin over THEN under[k]
                    ELSE Overlay(IF k \in DOMAIN under THEN under[k] ELSE Number, secrets.fields[k])])

\* No key of an object, and of the objects in it, has a dot, and no arrays.
RECURSIVE Plain(_)
Plain(v) == \/ v.kind = "str"
            \/ v.kind = "obj" /\ \A k \in DOMAIN v.fields : Len(k) = 1 /\ Plain(v.fields[k])

RECURSIVE IsJson(_)
IsJson(v) == CASE v.kind = "obj" -> \A k \in DOMAIN v.fields : IsJson(v.fields[k])
               [] OTHER -> v.kind # "broken"

(* Secrets without dots in their keys, flattened and merged, lie over the   *)
(* configuration where they stood, and nothing else of it changes, in       *)
(* whatever order MergeConfigSecrets meets the paths.  The strings are not  *)
(* escaped: one that spells an escape sequence comes out as the character   *)
(* it stands for, and one with a control character in it makes the result   *)
(* unreadable.                                                              *)
MergedInPlace ==
    input.for = "merge" /\ input.secrets.kind = "obj" /\ Plain(input.secrets) /\ input.config.kind = "obj" =>
        LET merged == UNION {MergeConfigSecrets(input.config, f) : f \in FlattenJSONFromBytes(input.secrets)}
        IN  IF \A v \in Strings(input.secrets) : BetweenQuotes(v) # Unreadable
            THEN merged = {Overlay(input.config, input.secrets)}
            ELSE \A m \in merged : ~IsJson(m)
-----------------------------------------------------------------------------
Merge == input = Nothing /\ input' \in [for : {"merge"}, config : Configs, secrets : Secrets]

MCSpec == Init /\ [][Next \/ Merge]_input
=============================================================================
