---------------------------- MODULE Measurements ----------------------------
(***************************************************************************)
(* How an attested measurement is matched against the whitelist            *)
(* (application/service.go, domain/types.go).  A measurement is a function *)
(* from register names to values.  A template is a function from register  *)
(* names to single measurements [expected, expectedAny], where expected    *)
(* may be NoValue (the empty string) and expectedAny is a sequence.        *)
(***************************************************************************)
EXTENDS Naturals, Sequences

CONSTANT NoValue    \* the empty string of SingleMeasurement.Expected

GetExpectedValues(s) ==
    IF s.expectedAny # <<>> THEN s.expectedAny
    ELSE IF s.expected # NoValue THEN <<s.expected>>
    ELSE <<>>

matchesAnyExpected(value, expected) == \E i \in DOMAIN expected : expected[i] = value

\* Mutant: a register the measurement does not have is skipped.
MissingSkipped(measurement, template) ==
    \A k \in DOMAIN template \cap DOMAIN measurement :
        matchesAnyExpected(measurement[k], GetExpectedValues(template[k]))
checkMeasurement(measurement, template) ==
    \A k \in DOMAIN template :
        /\ k \in DOMAIN measurement
        /\ matchesAnyExpected(measurement[k], GetExpectedValues(template[k]))

(* The names validateMeasurement may return: it takes the first row that    *)
(* matches, and the query behind the rows does not order them.  Empty is    *)
(* ErrNotFound.  templates is a function from names to templates.           *)
validateMeasurement(measurement, templates) ==
    {name \in DOMAIN templates : checkMeasurement(measurement, templates[name])}
=============================================================================
