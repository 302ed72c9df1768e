----------------------------- MODULE ConfigUtils -----------------------------
(***************************************************************************)
(* Flattening secrets and merging them into a configuration                *)
(* (application/config_utils.go).  A JSON value is a record with a kind:   *)
(* "str" (val), "obj" (fields, a function from keys), "arr" (items, a      *)
(* sequence), "null" or "num" for the rest.  A key, and a dotted path, is  *)
(* the sequence of what stands between its dots: a key with a dot is one   *)
(* of two parts, and joining and splitting lose the difference.            *)
(* Go ranges over maps in any order: results are sets.                     *)
(***************************************************************************)
EXTENDS SequencesExt

CONSTANTS
    Index(_),       \* Index(i): the part "[i]" of a path
    ReadBack(_),    \* what a reader of JSON makes of a string put between quotes
    Unreadable      \* ... when that is no JSON string

EmptyString == <<"">>

\* Mutant: the prefix is lost in nested objects.
KeyOnly(prefix, key) == key
NewKey(prefix, key) == IF prefix # EmptyString THEN prefix \o key ELSE key

NoKeys == [k \in {} |-> ""]
Over(f, g) == [k \in DOMAIN f \cup DOMAIN g |-> IF k \in DOMAIN g THEN g[k] ELSE f[k]]

\* Write the maps of each part over those of the parts before it.
WriteAll(parts) ==
    FoldLeft(LAMBDA maps, part : {Over(f, g) : f \in maps, g \in part}, {NoKeys}, parts)

(* flattenJSON and flattenArray: the flat maps that may come out, none for  *)
(* ErrNonStringSecret.                                                      *)
RECURSIVE flattenJSON(_, _)
flattenJSON(value, prefix) ==
    CASE value.kind = "str" -> {[p \in {prefix} |-> value.val]}
      [] value.kind = "obj" ->
             UNION {WriteAll([i \in DOMAIN order |->
                                flattenJSON(value.fields[order[i]], NewKey(prefix, order[i]))])
                    : order \in SetToSeqs(DOMAIN value.fields)}
      [] value.kind = "arr" ->
             WriteAll([i \in DOMAIN value.items |->
                         flattenJSON(value.items[i], prefix \o <<Index(i - 1)>>)])
      [] OTHER -> {}

\* Only an object unmarshals into the map, and null, as an empty one.
FlattenJSONFromBytes(data) ==
    CASE data.kind = "obj" -> flattenJSON(data, EmptyString)
      [] data.kind = "null" -> {NoKeys}
      [] OTHER -> {}

(* jsonparser.Set for paths without array indices: replaces the value at    *)
(* the path, adds what is missing of it, and puts an object where anything  *)
(* else stands in its way.                                                  *)
RECURSIVE SetPath(_, _, _)
SetPath(value, path, new) ==
    IF path = <<>> THEN new
    ELSE LET fields == IF value.kind = "obj" THEN value.fields ELSE NoKeys
             key == <<Head(path)>>
             old == IF key \in DOMAIN fields THEN fields[key] ELSE [kind |-> "obj", fields |-> NoKeys]
         IN  [kind |-> "obj",
              fields |-> Over(fields, [k \in {key} |-> SetPath(old, Tail(path), new)])]

\* The value between quotes, as it is: characters that only look like an escape
\* sequence are read as one, control characters break the JSON.  A value with a
\* double quote in it, or an odd backslash at its end, moves the end of the string
\* and is not among the values here.
Quote(v) ==
    IF ReadBack(v) = Unreadable THEN [kind |-> "broken"] ELSE [kind |-> "str", val |-> ReadBack(v)]

\* The configurations that may come out, none for an error: a configuration that
\* is not an object has no keys to set.
\* Mutant: the path is not split.
MergeUnsplit(config, secrets) ==
    {[kind |-> "obj", fields |-> Over(config.fields, [p \in DOMAIN secrets |-> Quote(secrets[p])])]}
MergeConfigSecrets(config, secrets) ==
    {FoldLeft(LAMBDA c, path : SetPath(c, path, Quote(secrets[path])), config, order)
        : order \in IF config.kind = "obj" \/ secrets = NoKeys THEN SetToSeqs(DOMAIN secrets) ELSE {}}
=============================================================================
