--------------------------- MODULE MCPolicyUpdate ---------------------------
(***************************************************************************)
(* Small instances of PolicyUpdate: two resources, two executables, and    *)
(* policies that differ in what they protect and whom they let in.         *)
(***************************************************************************)
EXTENDS PolicyUpdate

MCPath == {"/r1", "/r2", "/e1", "/e2", "rel", "/gone", ""}
MCAbsPath == {"/r1", "/r2", "/e1", "/e2", "/gone"}
MCFileId == {"r1", "r2", "e1", "e2", "zero"}
MCRuleId == {"a", "b", "c", ""}

\* Every path its own inode; "/gone" cannot be stat'ed.
MCStat == [p \in MCPath |->
             CASE p = "/r1" -> "r1" [] p = "/r2" -> "r2"
               [] p = "/e1" -> "e1" [] p = "/e2" -> "e2" [] OTHER -> "nofile"]

\* Files with and without a rule for e1, an executable no rule names, one that
\* cannot be identified, a file nobody protects and one without identity.
MCAccess == {<<"r1", "e1">>, <<"r2", "e1">>, <<"r1", "e2">>, <<"r1", "zero">>,
             <<"e2", "e1">>, <<"zero", "e1">>}

\* A file that every policy protects or that only some do, and an executable
\* that cannot be identified, for the run with a ring; one open for the loaders.
EventAccess == {<<"r1", "e1">>, <<"r2", "e1">>, <<"r1", "zero">>}
LoadAccess == {<<"r2", "e1">>}

Rule(id, r, x, a) == [id |-> id, resource |-> r, process |-> x, action |-> a]

Pol(v, d, res, rs) ==
    [version |-> v, default_action |-> d, protected_resources |-> res,
     rules |-> rs]

\* A lets e1 into r1; B protects r1 and r2, lets e1 into r1, keeps e1 out of
\* r2 in a rule that a later duplicate contradicts; Bad cannot be compiled.
PolA == Pol(1, "DENY", <<"/r1">>, <<Rule("a", "/r1", "/e1", "ALLOW")>>)
PolB == Pol(2, "DENY", <<"/r2", "/r1">>,
            <<Rule("a", "/r2", "/e1", "DENY"), Rule("b", "/r1", "/e1", "ALLOW"),
              Rule("c", "/r2", "/e1", "ALLOW")>>)
PolBad == Pol(3, "DENY", <<"/gone">>, <<>>)

\* More resources than the maps of the runs have room for.
PolBig == Pol(4, "DENY", <<"/r1", "/r2", "/e2">>, <<>>)

MCPolicies == {PolA, PolB}
MCPoliciesAll == {PolA, PolB, PolBig, PolBad}
=============================================================================
