--------------------------- MODULE MCConnection ----------------------------
(***************************************************************************)
(* Small instances of Connection: documents that go wrong in every member, *)
(* and texts of up to five tokens, cut up in every way.                    *)
(***************************************************************************)
EXTENDS Connection

MCPath == {"/r", "/e", "/gone", "rel", ""}
MCAbsPath == {"/r", "/e", "/gone"}
MCFileId == {"r", "e", "zero"}
MCStat == [p \in MCPath |->
             CASE p = "/r" -> "r" [] p = "/e" -> "e" [] OTHER -> "nofile"]

\* The cast saturates, as on ARM; on x86 both sides become the smallest int.
MCFloatBelow == -4

MCText == {"ALLOW", "DENY", "MAYBE", "OPEN", "READ", "exe_path", "uid",
           "status", "list", "load_policy", "stream", "stop", "unknown"}

Resource(path, op) == [path |-> path, operation |-> op]
Rule(id, res, op, proc, act) ==
    [id |-> id, resource |-> res, operation |-> op, process |-> proc, action |-> act]
Exe(type, v) == [type |-> type, value |-> v]
Doc(v, d, res, rules) ==
    [version |-> v, defaults |-> d, protected_resources |-> res, rules |-> rules]

R == Resource("/r", "OPEN")
A == Rule("a", "/r", "OPEN", Exe("exe_path", "/e"), "ALLOW")
Num(n) == [type |-> "integer", n |-> n]
Float(n) == [type |-> "float", n |-> n]
Bool(n) == [type |-> "boolean", n |-> n]
Good == Doc(Num(1), [action |-> "DENY"], <<R>>, <<A>>)

\* Version 9 and -1 are 1 and -1 as an int of eight values, 5 is -3; a float is
\* in range (1.9) or on either side of it.
Roots == {Doc(v, d, res, rs) :
            v \in {Absent, Other} \cup {Num(n) : n \in {2, -1, 5, 9}}
                 \cup {Float(n) : n \in {1, 9, -9}} \cup {Bool(0), Bool(1)},
            d \in {Absent, Other} \cup {[action |-> a] : a \in Member({"ALLOW", "MAYBE"})},
            res \in {Absent, Other, <<>>, <<R>>},
            rs \in {Absent, Other, <<>>, <<A>>}}

Resources == {[Good EXCEPT !.protected_resources = rs] :
                rs \in {<<Resource(p, op)>> : p \in Member(MCPath),
                                              op \in Member({"OPEN", "READ"})}
                       \cup {<<R, R>>, <<R, Other>>, <<Other, R>>,
                             <<R, Resource("/gone", Absent)>>}}

Rules == {[Good EXCEPT !.rules = <<r>>] :
            r \in {Rule(i, res, op, proc, a) :
                     i \in Member({"b", ""}), res \in Member({"/r", "/e"}),
                     op \in {Absent, "READ"},
                     proc \in {Absent, Other}
                              \cup {Exe(t, v) : t \in Member({"exe_path", "uid"}),
                                                v \in Member({"/e", "rel", ""})},
                     a \in Member({"DENY", "MAYBE"})}}

Pairs == {[Good EXCEPT !.rules = rs] :
            rs \in {<<A, A>>, <<A, Other>>,
                    <<A, Rule("b", "/r", Absent, Exe("exe_path", "/r"), "DENY")>>}}

MCFiles == {NotJson, OutOfRange, Other} \cup Roots \cup Resources \cup Rules \cup Pairs

NotInt == [Good EXCEPT !.version = Other]
Wide == [Good EXCEPT !.version = Num(9)]
Gone == [Good EXCEPT !.protected_resources = <<R, Resource("/gone", Absent)>>]
Second == [Good EXCEPT !.version = Float(2), !.rules = <<>>]

MCEdited == {Good, Second, Gone, NotInt, Wide, NotJson, OutOfRange, Other}

Commands == {Request(c, Absent) : c \in {"status", "list", "stream", "stop",
                                         "unknown", "load_policy", Absent, Other}}
Loads == {Request("load_policy", d) : d \in {Other, Good, Second, Gone, NotInt, Wide}}

\* Every pair of lines, and every short text over a few tokens.
MCScripts ==
    {<<a, NL, b, NL>> : a, b \in Commands \cup Loads \cup {Other, NotJson, OutOfRange}}
      \cup {<<a, NL>> : a \in Commands}
      \cup {<<a, b, NL>> : a, b \in {OutOfRange, NotJson, Other}}
      \cup UNION {[1..n -> {NL, Request("list", Absent), Request("stop", Absent),
                            Request("load_policy", Second), NotJson}] : n \in 2..5}
=============================================================================
