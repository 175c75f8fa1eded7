---------------------------- MODULE ConfigParser ---------------------------
(***************************************************************************)
(* ConfigParser: from a JSON document to a Policy.                         *)
(*                                                                         *)
(* A document is the tree json::parse builds, cut down to the members the  *)
(* parser looks at; a member is Absent, a value of a type it does not      *)
(* expect (Other), or a value of that type.  NotJson is a text json::parse *)
(* refuses with parse_error, OutOfRange one it refuses with out_of_range   *)
(* (a number no double can hold).  A step of the parser ends in one of     *)
(* three ways: "ok", "error" (an err(...) is returned) or "throws": what   *)
(* is not a parse_error, like the type_error of json::value() for a member *)
(* of the wrong type, is not caught by from_json.                          *)
(***************************************************************************)
EXTENDS Policy

CONSTANTS
    Absent, Other, NotJson, OutOfRange,
    Text,        \* the strings of members that are neither paths nor ids
    IntRange,    \* number of values of an int32_t
    FloatBelow, FloatAbove   \* what the build's cast of a double to int32_t
                             \* yields below and above the range (undefined)

\* A member whose value, when it has the type the parser expects, is in S.
Member(S) == S \cup {Absent, Other}

\* The documents: objects and arrays that may hold anything in every place.
JsonDefaults == [action : Member(Text)]
JsonResource == [path : Member(Path), operation : Member(Text)]
JsonProcess == [type : Member(Text), value : Member(Path)]
JsonRule ==
    [id : Member(RuleId), resource : Member(Path), operation : Member(Text),
     process : Member(JsonProcess), action : Member(Text)]
\* Numbers and booleans, which get<int>() all takes; a float by its integer part.
JsonNumber ==
    [type : {"integer", "float"}, n : Int] \cup [type : {"boolean"}, n : {0, 1}]
JsonPolicy ==
    [version : Member(JsonNumber), defaults : Member(JsonDefaults),
     protected_resources : Member(Seq(JsonResource \cup {Other})),
     rules : Member(Seq(JsonRule \cup {Other}))]

Document == JsonPolicy \cup {Other, NotJson, OutOfRange}

Int32 == -(IntRange \div 2)..(IntRange \div 2 - 1)

\* Absent, Other and the texts without a value are none of the values of the
\* expected types; an int32_t has as many negative values as others.
ASSUME ParserAssumption ==
    /\ Absent # Other /\ NotJson \notin {Absent, Other}
    /\ OutOfRange \notin {Absent, Other, NotJson}
    /\ \A m \in {Absent, Other} :
          /\ m \notin Path /\ m \notin RuleId /\ m \notin Text /\ m \notin JsonNumber
          /\ m \notin JsonDefaults /\ m \notin JsonProcess
          /\ m \notin JsonResource /\ m \notin JsonRule
          /\ m \notin Seq(JsonResource \cup {Other})
          /\ m \notin Seq(JsonRule \cup {Other})
    /\ \A m \in {Absent, Other, NotJson, OutOfRange} : m \notin JsonPolicy
    /\ Action \cup {"OPEN", "exe_path"} \subseteq Text
    /\ IntRange \in Nat \ {0} /\ IntRange % 2 = 0
    /\ FloatBelow \in Int32 /\ FloatAbove \in Int32

\* Member m of a string type, and of any other type.
Given(m) == m \notin {Absent, Other}

\* json::value(key, default).
value(m, default) == IF m = Absent THEN default ELSE m

Fetch(m) == IF m = Other THEN "throws" ELSE "ok"

Check(test) == IF test THEN "ok" ELSE "error"

\* The first step that does not end in "ok" decides.
Outcome(steps) ==
    LET i == SelectInSeq(steps, LAMBDA s : s # "ok")
    IN  IF i = 0 THEN "ok" ELSE steps[i]

\* The cast of a wider integer keeps the low bits.
int32(n) == ((n + IntRange \div 2) % IntRange) - IntRange \div 2

\* get<int>(): an integer or a boolean is cast, a float loses its fraction.
get_int(m) ==
    CASE m.type \in {"integer", "boolean"} -> int32(m.n)
      [] m.type = "float" /\ m.n \in Int32 -> m.n
      [] m.type = "float" /\ m.n \notin Int32 ->
            IF m.n < 0 THEN FloatBelow ELSE FloatAbove

-----------------------------------------------------------------------------
parse_operation(m) == Check(m \in {Absent, "OPEN"})

\* Mutant: any string is taken for an action.
parse_action_Any(m) == Check(m # Other)

parse_action(m) == Check(m \in {Absent} \cup Action)

parse_process(m) ==
    IF ~Given(m) THEN Check(m = Absent)
    ELSE Outcome(<<Fetch(m.type),
                   Check(m.type = "exe_path"),
                   Check(m.value \in AbsPath)>>)

parse_defaults(m) == IF Given(m) THEN parse_action(m.action) ELSE Check(m = Absent)

parse_resource(m) ==
    IF ~Given(m) THEN "error"
    ELSE Outcome(<<Fetch(m.path),
                   Check(value(m.path, EmptyPath) \in AbsPath),
                   parse_operation(m.operation)>>)

parse_rule(m) ==
    IF ~Given(m) THEN "error"
    ELSE Outcome(<<Fetch(m.id), Fetch(m.resource),
                   parse_operation(m.operation),
                   parse_process(m.process),
                   parse_action(m.action)>>)

Items(m) == IF Given(m) THEN m ELSE <<>>

\* The Policy that from_json builds once every step went well.
PolicyOf(root) ==
    LET resources == Items(root.protected_resources)
        rules     == Items(root.rules)
    IN  [version |-> IF root.version = Absent THEN 0 ELSE get_int(root.version),
         default_action |->
            IF Given(root.defaults) THEN value(root.defaults.action, "DENY")
                                    ELSE "DENY",
         protected_resources |-> [i \in DOMAIN resources |-> resources[i].path],
         rules |->
            [i \in DOMAIN rules |->
                [id       |-> value(rules[i].id, EmptyId),
                 resource |-> value(rules[i].resource, EmptyPath),
                 process  |-> IF Given(rules[i].process)
                              THEN rules[i].process.value ELSE EmptyPath,
                 action   |-> value(rules[i].action, "ALLOW")]]]

\* The steps of from_json before validate(), in the order of the code.
Steps(root) ==
    LET resources == Items(root.protected_resources)
        rules     == Items(root.rules)
    IN  <<Fetch(root.version), parse_defaults(root.defaults),
          Check(root.protected_resources # Other)>>
          \o [i \in DOMAIN resources |-> parse_resource(resources[i])]
          \o <<Check(root.rules # Other)>>
          \o [i \in DOMAIN rules |-> parse_rule(rules[i])]

from_json(doc) ==
    IF doc = OutOfRange THEN "throws"
    ELSE IF doc \in {NotJson, Other} THEN "error"
    ELSE LET parsed == Outcome(Steps(doc))
         IN  IF parsed = "ok" THEN Check(validate(PolicyOf(doc))) ELSE parsed

-----------------------------------------------------------------------------
(* A reading of documents that does not follow the parser.                 *)

\* The document that spells out every member of policy p.
Written(p) ==
    [version |-> [type |-> "integer", n |-> p.version],
     defaults |-> [action |-> p.default_action],
     protected_resources |->
        [i \in DOMAIN p.protected_resources |->
            [path |-> p.protected_resources[i], operation |-> "OPEN"]],
     rules |->
        [i \in DOMAIN p.rules |->
            [id |-> p.rules[i].id, resource |-> p.rules[i].resource,
             operation |-> "OPEN",
             process |-> [type |-> "exe_path", value |-> p.rules[i].process],
             action |-> p.rules[i].action]]]

\* Apart from the version, document doc states nothing that the document w does
\* not state, and leaves out only what has a default.
Covers(doc, w) ==
    /\ doc.defaults = Absent \/ doc.defaults.action \in {Absent, w.defaults.action}
    /\ LET given == Items(doc.protected_resources) IN
          /\ Len(given) = Len(w.protected_resources)
          /\ \A i \in DOMAIN given :
                /\ given[i].path = w.protected_resources[i].path
                /\ given[i].operation \in {Absent, "OPEN"}
    /\ LET given == Items(doc.rules) IN
          /\ Len(given) = Len(w.rules)
          /\ \A i \in DOMAIN given :
                /\ given[i].id = w.rules[i].id
                /\ given[i].resource = w.rules[i].resource
                /\ given[i].process = w.rules[i].process
                /\ given[i].operation \in {Absent, "OPEN"}
                /\ given[i].action \in {Absent, w.rules[i].action}

\* Version v is the number that member m states, a float without its fraction;
\* when that is no int32_t, it agrees with it in the low bits, except for a
\* float, of which C++ says nothing.
StandsFor(v, m) ==
    /\ v \in Int32
    /\ m = Absent => v = 0
    /\ m # Absent =>
          \/ v = m.n
          \/ /\ m.n \notin Int32
             /\ m.type = "integer" => (m.n - v) % IntRange = 0
=============================================================================
