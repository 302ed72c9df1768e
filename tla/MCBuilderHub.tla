---------------------------- MODULE MCBuilderHub ----------------------------
(* BuilderHub for TLC.                                                       *)
EXTENDS BuilderHub, TLC

\* Two registers and two values; templates with one expected value, with several,
\* and with a register the instances do not report.
exactX == [reg \in {"4"} |-> [expected |-> "x", expectedAny |-> <<>>]]
anyXY == [reg \in {"4"} |-> [expected |-> NoValue, expectedAny |-> <<"x", "y">>]]
twoRegisters == [reg \in {"4", "11"} |-> [expected |-> "x", expectedAny |-> <<>>]]

attest(type, x) == [type |-> type, values |-> [reg \in {"4"} |-> x]]

OneTemplate == {exactX}
ManyTemplates == {anyXY, twoRegisters}
OneClaim == {attest("azure-tdx", "x")}
ManyClaims == {attest(type, x) : type \in AttType, x \in {"x", "y"}}

\* Names are told apart only by equality.  Used in safety runs.
Symmetry == Permutations(Builder) \cup Permutations(MName) \cup Permutations(Slot)
            \cup Permutations(IP) \cup Permutations(Service) \cup Permutations(Secret)

\* No action reads resp: states that differ in it have the same future, and the
\* properties of the runs that use this view look at resp' only.
WithoutResponse == <<db, req, released, seen>>
=============================================================================
