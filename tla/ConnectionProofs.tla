-------------------------- MODULE ConnectionProofs --------------------------
(***************************************************************************)
(* Proofs about Connection, for every JSON document, every policy file and *)
(* every text a client may write: what the parser makes of a document,     *)
(* which policies reach the daemon, and that each line of the stream is    *)
(* handled and answered, however the stream is cut up.                     *)
(***************************************************************************)
EXTENDS Connection, SeqLemmas, FiniteSetTheorems

\* How a step of the parser ends.
Result == {"ok", "error", "throws"}

-----------------------------------------------------------------------------
(* The parser.                                                             *)

\* All steps go well exactly when none of them is the first to fail.
LEMMA OutcomeOk ==
    ASSUME NEW steps \in Seq(Result)
    PROVE  /\ Outcome(steps) \in Result
           /\ Outcome(steps) = "ok" <=> \A i \in 1..Len(steps) : steps[i] = "ok"
<1> DEFINE I == {i \in 1..Len(steps) : steps[i] # "ok"}
           k == SelectInSeq(steps, LAMBDA s : s # "ok")
<1>1. k = IF I # {} THEN Min(I) ELSE 0
  BY DEF SelectInSeq
<1>2. Outcome(steps) = IF k = 0 THEN "ok" ELSE steps[k]
  BY DEF Outcome
<1>3. CASE I = {}
  BY <1>1, <1>2, <1>3 DEF Result
<1>4. CASE I # {}
  <2>1. I \subseteq Nat
    OBVIOUS
  <2>2. Min(I) \in I
    BY <1>4, <2>1, LeastNumber
  <2>3. k \in 1..Len(steps) /\ steps[k] # "ok"
    BY <1>1, <1>4, <2>2
  <2> HIDE DEF k
  <2>4. k # 0 /\ steps[k] \in Result
    BY <2>3
  <2> QED BY <1>2, <2>3, <2>4
<1> QED BY <1>3, <1>4

\* Both parts of a concatenation consist of "ok" if and only if it does.
LEMMA ConcatOk ==
    ASSUME NEW s \in Seq(Result), NEW t \in Seq(Result)
    PROVE  /\ s \o t \in Seq(Result)
           /\ (\A i \in 1..Len(s \o t) : (s \o t)[i] = "ok")
                <=> /\ \A i \in 1..Len(s) : s[i] = "ok"
                    /\ \A i \in 1..Len(t) : t[i] = "ok"
<1> DEFINE u == s \o t
<1>1. /\ u \in Seq(Result) /\ Len(u) = Len(s) + Len(t)
      /\ \A i \in 1..(Len(s) + Len(t)) :
            u[i] = IF i <= Len(s) THEN s[i] ELSE t[i - Len(s)]
  BY ConcatProperties
<1>2. Len(s) \in Nat /\ Len(t) \in Nat
  OBVIOUS
<1> HIDE DEF u
<1>3. ASSUME \A i \in 1..Len(u) : u[i] = "ok", NEW i \in 1..Len(s)
      PROVE  s[i] = "ok"
  <2>1. i \in 1..Len(u) /\ i \in 1..(Len(s) + Len(t)) /\ i <= Len(s)
    BY <1>1, <1>2
  <2> QED BY <1>1, <1>3, <2>1
<1>4. ASSUME \A i \in 1..Len(u) : u[i] = "ok", NEW i \in 1..Len(t)
      PROVE  t[i] = "ok"
  <2> DEFINE j == i + Len(s)
  <2>1. /\ j \in 1..Len(u) /\ j \in 1..(Len(s) + Len(t)) /\ ~(j <= Len(s))
        /\ j - Len(s) = i
    BY <1>1, <1>2
  <2> HIDE DEF j
  <2> QED BY <1>1, <1>4, <2>1
<1>5. ASSUME \A i \in 1..Len(s) : s[i] = "ok", \A i \in 1..Len(t) : t[i] = "ok",
             NEW i \in 1..Len(u)
      PROVE  u[i] = "ok"
  <2>1. i \in 1..(Len(s) + Len(t))
    BY <1>1
  <2>2. CASE i <= Len(s)
    BY <1>1, <1>2, <1>5, <2>1, <2>2
  <2>3. CASE ~(i <= Len(s))
    <3>1. i - Len(s) \in 1..Len(t)
      BY <1>2, <2>1, <2>3
    <3> QED BY <1>1, <1>5, <2>1, <2>3, <3>1
  <2> QED BY <2>2, <2>3
<1>6. (\A i \in 1..Len(u) : u[i] = "ok")
         <=> /\ \A i \in 1..Len(s) : s[i] = "ok"
             /\ \A i \in 1..Len(t) : t[i] = "ok"
  BY <1>3, <1>4, <1>5
<1> QED BY <1>1, <1>6 DEF u

\* When parse_process, parse_resource and parse_rule accept their input.
LEMMA PartsOk ==
    /\ \A m \in Member(JsonProcess) :
          /\ parse_process(m) \in Result
          /\ parse_process(m) = "ok" <=>
                m = Absent \/ /\ m \in JsonProcess
                              /\ m.type = "exe_path" /\ m.value \in AbsPath
    /\ \A m \in Member(JsonDefaults) :
          /\ parse_defaults(m) \in Result
          /\ parse_defaults(m) = "ok" <=>
                m = Absent \/ (m \in JsonDefaults /\ m.action \in {Absent} \cup Action)
    /\ \A m \in JsonResource \cup {Other} :
          /\ parse_resource(m) \in Result
          /\ parse_resource(m) = "ok" <=>
                /\ m \in JsonResource
                /\ m.path \in AbsPath /\ m.operation \in {Absent, "OPEN"}
    /\ \A m \in JsonRule \cup {Other} :
          /\ parse_rule(m) \in Result
          /\ parse_rule(m) = "ok" <=>
                /\ m \in JsonRule /\ m.id # Other /\ m.resource # Other
                /\ m.operation \in {Absent, "OPEN"}
                /\ parse_process(m.process) = "ok"
                /\ m.action \in {Absent} \cup Action
<1>n. /\ Absent # Other
      /\ \A m \in {Absent, Other} :
            /\ m # "exe_path" /\ m \notin Path
            /\ m \notin JsonDefaults /\ m \notin JsonProcess
            /\ m \notin JsonResource /\ m \notin JsonRule
  BY ParserAssumption DEF Action
<1>p. AbsPath \subseteq Path /\ EmptyPath \notin AbsPath
  BY PolicyAssumption
<1>1. ASSUME NEW m \in Member(JsonProcess)
      PROVE  /\ parse_process(m) \in Result
             /\ parse_process(m) = "ok" <=>
                   m = Absent \/ /\ m \in JsonProcess
                                 /\ m.type = "exe_path" /\ m.value \in AbsPath
  <2>1. CASE ~Given(m)
    BY <1>n, <2>1 DEF parse_process, Given, Check, Result
  <2>2. CASE Given(m)
    <3> DEFINE s == <<Fetch(m.type), Check(m.type = "exe_path"),
                      Check(m.value \in AbsPath)>>
    <3>1. m \in JsonProcess
      BY <2>2 DEF Given, Member
    <3>2. parse_process(m) = Outcome(s)
      BY <2>2 DEF parse_process
    <3>3. s \in Seq(Result) /\ Len(s) = 3
      BY DEF Check, Fetch, Result
    <3>4. (\A i \in 1..3 : s[i] = "ok")
             <=> m.type # Other /\ m.type = "exe_path" /\ m.value \in AbsPath
      <4>1. (\A i \in 1..3 : s[i] = "ok") <=> s[1] = "ok" /\ s[2] = "ok" /\ s[3] = "ok"
        <5> HIDE DEF s
        <5> QED OBVIOUS
      <4> QED BY <4>1 DEF Check, Fetch
    <3> HIDE DEF s
    <3>5. m # Absent /\ "exe_path" # Other
      BY <1>n, <2>2 DEF Given
    <3> QED BY <3>1, <3>2, <3>3, <3>4, <3>5, OutcomeOk
  <2> QED BY <2>1, <2>2
<1>2. ASSUME NEW m \in Member(JsonDefaults)
      PROVE  /\ parse_defaults(m) \in Result
             /\ parse_defaults(m) = "ok" <=>
                   m = Absent \/ (m \in JsonDefaults /\ m.action \in {Absent} \cup Action)
  <2>1. CASE ~Given(m)
    <3>1. parse_defaults(m) = Check(m = Absent) /\ m \in {Absent, Other}
      BY <2>1 DEF parse_defaults, Given
    <3>2. m \notin JsonDefaults
      BY <1>n, <3>1
    <3>3. CASE m = Absent
      <4>1. parse_defaults(m) = "ok"
        BY <3>1, <3>3 DEF Check
      <4> QED BY <3>3, <4>1 DEF Result
    <3>4. CASE m # Absent
      <4>1. parse_defaults(m) = "error"
        BY <3>1, <3>4 DEF Check
      <4> QED BY <3>2, <3>4, <4>1 DEF Result
    <3> QED BY <3>3, <3>4
  <2>2. CASE Given(m)
    BY <2>2 DEF parse_defaults, parse_action, Given, Check, Member, Result
  <2> QED BY <2>1, <2>2
<1>3. ASSUME NEW m \in JsonResource \cup {Other}
      PROVE  /\ parse_resource(m) \in Result
             /\ parse_resource(m) = "ok" <=>
                   /\ m \in JsonResource
                   /\ m.path \in AbsPath /\ m.operation \in {Absent, "OPEN"}
  <2>1. CASE ~Given(m)
    BY <1>n, <2>1 DEF parse_resource, Given, Result
  <2>2. CASE Given(m)
    <3> DEFINE s == <<Fetch(m.path), Check(value(m.path, EmptyPath) \in AbsPath),
                      parse_operation(m.operation)>>
    <3>1. m \in JsonResource
      BY <2>2 DEF Given
    <3>2. parse_resource(m) = Outcome(s)
      BY <2>2 DEF parse_resource
    <3>o. /\ parse_operation(m.operation) \in Result
          /\ parse_operation(m.operation) = "ok" <=> m.operation \in {Absent, "OPEN"}
      BY DEF parse_operation, Check, Result
    <3>3. s \in Seq(Result) /\ Len(s) = 3
      BY <3>o DEF Check, Fetch, Result
    <3>4. (\A i \in 1..3 : s[i] = "ok")
             <=> /\ m.path # Other /\ value(m.path, EmptyPath) \in AbsPath
                 /\ m.operation \in {Absent, "OPEN"}
      <4>1. (\A i \in 1..3 : s[i] = "ok") <=> s[1] = "ok" /\ s[2] = "ok" /\ s[3] = "ok"
        <5> HIDE DEF s
        <5> QED OBVIOUS
      <4> QED BY <3>o, <4>1 DEF Check, Fetch
    <3>5. m.path # Other /\ value(m.path, EmptyPath) \in AbsPath <=> m.path \in AbsPath
      BY <1>n, <1>p DEF value
    <3> HIDE DEF s
    <3> QED BY <3>1, <3>2, <3>3, <3>4, <3>5, OutcomeOk
  <2> QED BY <2>1, <2>2
<1>4. ASSUME NEW m \in JsonRule \cup {Other}
      PROVE  /\ parse_rule(m) \in Result
             /\ parse_rule(m) = "ok" <=>
                   /\ m \in JsonRule /\ m.id # Other /\ m.resource # Other
                   /\ m.operation \in {Absent, "OPEN"}
                   /\ parse_process(m.process) = "ok"
                   /\ m.action \in {Absent} \cup Action
  <2>1. CASE ~Given(m)
    BY <1>n, <2>1 DEF parse_rule, Given, Result
  <2>2. CASE Given(m)
    <3> DEFINE s == <<Fetch(m.id), Fetch(m.resource), parse_operation(m.operation),
                      parse_process(m.process), parse_action(m.action)>>
    <3>1. m \in JsonRule
      BY <2>2 DEF Given
    <3>2. parse_rule(m) = Outcome(s)
      BY <2>2 DEF parse_rule
    <3>o. /\ parse_operation(m.operation) \in Result
          /\ parse_operation(m.operation) = "ok" <=> m.operation \in {Absent, "OPEN"}
          /\ parse_action(m.action) \in Result
          /\ parse_action(m.action) = "ok" <=> m.action \in {Absent} \cup Action
      BY DEF parse_operation, parse_action, Check, Result
    <3>p. parse_process(m.process) \in Result
      BY <1>1, <3>1 DEF JsonRule
    <3>3. s \in Seq(Result) /\ Len(s) = 5
      BY <3>o, <3>p DEF Fetch, Result
    <3>4. (\A i \in 1..5 : s[i] = "ok")
             <=> /\ m.id # Other /\ m.resource # Other
                 /\ m.operation \in {Absent, "OPEN"}
                 /\ parse_process(m.process) = "ok"
                 /\ m.action \in {Absent} \cup Action
      <4>1. (\A i \in 1..5 : s[i] = "ok")
               <=> /\ s[1] = "ok" /\ s[2] = "ok" /\ s[3] = "ok" /\ s[4] = "ok"
                   /\ s[5] = "ok"
        <5> HIDE DEF s
        <5> QED OBVIOUS
      <4> QED BY <3>o, <4>1 DEF Fetch
    <3> HIDE DEF s
    <3> QED BY <3>1, <3>2, <3>3, <3>4, OutcomeOk
  <2> QED BY <2>1, <2>2
<1> QED BY <1>1, <1>2, <1>3, <1>4

\* The documents that get as far as validate().
Accepted(root) ==
    /\ root.version # Other
    /\ parse_defaults(root.defaults) = "ok"
    /\ root.protected_resources # Other
    /\ \A i \in 1..Len(Items(root.protected_resources)) :
          parse_resource(Items(root.protected_resources)[i]) = "ok"
    /\ root.rules # Other
    /\ \A i \in 1..Len(Items(root.rules)) :
          parse_rule(Items(root.rules)[i]) = "ok"

\* The arrays of a document are sequences.
LEMMA ItemsType ==
    ASSUME NEW root \in JsonPolicy
    PROVE  /\ Items(root.protected_resources) \in Seq(JsonResource \cup {Other})
           /\ Items(root.rules) \in Seq(JsonRule \cup {Other})
<1>1. /\ root.protected_resources \in Member(Seq(JsonResource \cup {Other}))
      /\ root.rules \in Member(Seq(JsonRule \cup {Other}))
  BY DEF JsonPolicy
<1> QED BY <1>1 DEF Items, Given, Member

\* The steps of from_json all go well for these documents and no others.
LEMMA StepsOk ==
    ASSUME NEW root \in JsonPolicy
    PROVE  /\ Outcome(Steps(root)) \in Result
           /\ Outcome(Steps(root)) = "ok" <=> Accepted(root)
<1> DEFINE res == Items(root.protected_resources)
           rls == Items(root.rules)
           a == <<Fetch(root.version), parse_defaults(root.defaults),
                  Check(root.protected_resources # Other)>>
           b == [i \in 1..Len(res) |-> parse_resource(res[i])]
           c == <<Check(root.rules # Other)>>
           d == [i \in 1..Len(rls) |-> parse_rule(rls[i])]
<1>1. /\ res \in Seq(JsonResource \cup {Other}) /\ rls \in Seq(JsonRule \cup {Other})
      /\ Len(res) \in Nat /\ Len(rls) \in Nat
      /\ DOMAIN res = 1..Len(res) /\ DOMAIN rls = 1..Len(rls)
  BY ItemsType
<1>2. Steps(root) = ((a \o b) \o c) \o d
  BY <1>1 DEF Steps
<1>3. /\ a \in Seq(Result)
      /\ (\A i \in 1..Len(a) : a[i] = "ok")
           <=> /\ root.version # Other /\ parse_defaults(root.defaults) = "ok"
               /\ root.protected_resources # Other
  <2>1. parse_defaults(root.defaults) \in Result
    BY PartsOk DEF JsonPolicy
  <2>2. a \in Seq(Result) /\ Len(a) = 3
    BY <2>1 DEF Fetch, Check, Result
  <2>3. (\A i \in 1..3 : a[i] = "ok") <=> a[1] = "ok" /\ a[2] = "ok" /\ a[3] = "ok"
    <3> HIDE DEF a
    <3> QED OBVIOUS
  <2> QED BY <2>2, <2>3 DEF Fetch, Check
<1>4. /\ b \in Seq(Result)
      /\ (\A i \in 1..Len(b) : b[i] = "ok")
           <=> \A i \in 1..Len(res) : parse_resource(res[i]) = "ok"
  <2>1. \A i \in 1..Len(res) : parse_resource(res[i]) \in Result
    BY <1>1, PartsOk
  <2>2. b \in [1..Len(res) -> Result]
    BY <2>1
  <2>3. b \in Seq(Result) /\ Len(b) = Len(res)
    <3> HIDE DEF b
    <3> QED BY <1>1, <2>2, FunctionIsSeq
  <2> QED BY <2>3
<1>5. /\ c \in Seq(Result)
      /\ (\A i \in 1..Len(c) : c[i] = "ok") <=> root.rules # Other
  BY DEF Check, Result
<1>6. /\ d \in Seq(Result)
      /\ (\A i \in 1..Len(d) : d[i] = "ok")
           <=> \A i \in 1..Len(rls) : parse_rule(rls[i]) = "ok"
  <2>1. \A i \in 1..Len(rls) : parse_rule(rls[i]) \in Result
    BY <1>1, PartsOk
  <2>2. d \in [1..Len(rls) -> Result]
    BY <2>1
  <2>3. d \in Seq(Result) /\ Len(d) = Len(rls)
    <3> HIDE DEF d
    <3> QED BY <1>1, <2>2, FunctionIsSeq
  <2> QED BY <2>3
<1> DEFINE ok(s) == \A i \in 1..Len(s) : s[i] = "ok"
<1>7. ok(a) /\ ok(b) /\ ok(c) /\ ok(d) <=> Accepted(root)
  BY <1>3, <1>4, <1>5, <1>6 DEF Accepted
<1> HIDE DEF a, b, c, d
<1>8. (a \o b) \in Seq(Result) /\ (ok(a \o b) <=> ok(a) /\ ok(b))
  BY <1>3, <1>4, ConcatOk
<1>9. ((a \o b) \o c) \in Seq(Result) /\ (ok((a \o b) \o c) <=> ok(a \o b) /\ ok(c))
  <2> DEFINE ab == a \o b
  <2>1. ab \in Seq(Result)
    BY <1>8
  <2> HIDE DEF ab
  <2>2. (ab \o c) \in Seq(Result) /\ (ok(ab \o c) <=> ok(ab) /\ ok(c))
    BY <1>5, <2>1, ConcatOk
  <2> QED BY <2>2 DEF ab
<1>10. /\ Steps(root) \in Seq(Result)
       /\ ok(Steps(root)) <=> ok((a \o b) \o c) /\ ok(d)
  <2> DEFINE abc == (a \o b) \o c
  <2>1. abc \in Seq(Result) /\ Steps(root) = abc \o d
    BY <1>2, <1>9
  <2> HIDE DEF abc
  <2>2. (abc \o d) \in Seq(Result) /\ (ok(abc \o d) <=> ok(abc) /\ ok(d))
    BY <1>6, <2>1, ConcatOk
  <2> QED BY <2>1, <2>2 DEF abc
<1>11. ok(Steps(root)) <=> Accepted(root)
  <2> HIDE DEF ok
  <2> QED BY <1>7, <1>8, <1>9, <1>10
<1> QED BY <1>10, <1>11, OutcomeOk

\* What is left of an integer after its remainder is a multiple of the divisor.
LEMMA Multiple ==
    ASSUME NEW a \in Int, NEW r \in Nat \ {0}
    PROVE  (a - (a % r)) % r = 0
<1>1. a = r * (a \div r) + (a % r) /\ a \div r \in Int /\ a % r \in 0..(r - 1)
  OBVIOUS
<1> DEFINE q == a \div r
           m == a % r
<1>2. a = r * q + m /\ q \in Int /\ m \in Int
  BY <1>1
<1> HIDE DEF q, m
<1>3. a - m = r * q
  BY <1>2
<1>4. (r * q) % r = 0
  BY <1>2
<1> QED BY <1>3, <1>4 DEF m

\* A cast keeps what fits an int32_t, always yields one, and keeps the low bits.
LEMMA CastRange ==
    ASSUME NEW n \in Int
    PROVE  /\ int32(n) \in Int32
           /\ n \in Int32 => int32(n) = n
           /\ (n - int32(n)) % IntRange = 0
<1> DEFINE h == IntRange \div 2
<1>1. h \in Nat /\ h >= 1 /\ IntRange = 2 * h /\ IntRange \in Nat \ {0}
  BY ParserAssumption
<1>2. /\ (n + h) % IntRange \in Nat
      /\ (n + h) % IntRange < IntRange
      /\ n + h \in 0..(IntRange - 1) => (n + h) % IntRange = n + h
  <2> HIDE DEF h
  <2> QED BY <1>1
<1>3. int32(n) = ((n + h) % IntRange) - h
  BY DEF int32
<1>m. ((n + h) - ((n + h) % IntRange)) % IntRange = 0
  <2>1. n + h \in Int
    BY <1>1
  <2> HIDE DEF h
  <2> QED BY <1>1, <2>1, Multiple
<1> DEFINE m == (n + h) % IntRange
<1>4. /\ m \in Nat /\ m < IntRange /\ (n + h \in 0..(IntRange - 1) => m = n + h)
      /\ ((n + h) - m) % IntRange = 0
  BY <1>2, <1>m
<1>5. int32(n) = m - h
  BY <1>3
<1>7. Int32 = -h..(h - 1)
  BY DEF Int32
<1> HIDE DEF h, m
<1>6. /\ int32(n) \in -h..(h - 1)
      /\ n \in -h..(h - 1) => int32(n) = n
  BY <1>1, <1>4, <1>5
<1>8. n - int32(n) = (n + h) - m
  BY <1>1, <1>4, <1>5
<1> QED BY <1>4, <1>6, <1>7, <1>8

\* The version of the policy: zero, or what get<int>() makes of the member.
Version(m) == IF m = Absent THEN 0 ELSE get_int(m)

\* Every number and boolean becomes an int32_t that stands for it.
LEMMA VersionStands ==
    ASSUME NEW m \in JsonNumber \cup {Absent}
    PROVE  StandsFor(Version(m), m)
<1>1. CASE m = Absent
  <2>1. 0 \in Int32
    BY ParserAssumption DEF Int32
  <2> QED BY <1>1, <2>1 DEF Version, StandsFor
<1>2. CASE m # Absent
  <2>1. /\ m.n \in Int
        /\ m.type \in {"integer", "float", "boolean"}
        /\ m.type = "boolean" => m.n \in {0, 1}
    BY <1>2 DEF JsonNumber
  <2>2. Version(m) = get_int(m)
    BY <1>2 DEF Version
  <2>3. CASE m.type = "integer"
    <3>1. Version(m) = int32(m.n)
      BY <2>2, <2>3 DEF get_int
    <3> QED BY <1>2, <2>1, <3>1, CastRange DEF StandsFor
  <2>4. CASE m.type = "boolean"
    <3>1. Version(m) = int32(m.n)
      BY <2>2, <2>4 DEF get_int
    <3> QED BY <1>2, <2>1, <2>4, <3>1, CastRange DEF StandsFor
  <2>5. CASE m.type = "float"
    <3>1. CASE m.n \in Int32
      <4>1. Version(m) = m.n
        BY <2>2, <2>5, <3>1 DEF get_int
      <4> QED BY <1>2, <3>1, <4>1 DEF StandsFor
    <3>2. CASE m.n \notin Int32
      <4>1. Version(m) \in {FloatBelow, FloatAbove}
        BY <2>2, <2>5, <3>2 DEF get_int
      <4> QED BY <1>2, <2>5, <3>2, <4>1, ParserAssumption DEF StandsFor
    <3> QED BY <3>1, <3>2
  <2> QED BY <2>1, <2>3, <2>4, <2>5
<1> QED BY <1>1, <1>2

\* An int32_t written as an integer is read back.
LEMMA VersionReadBack ==
    ASSUME NEW v \in Int32
    PROVE  /\ [type |-> "integer", n |-> v] \in JsonNumber
           /\ Version([type |-> "integer", n |-> v]) = v
<1> DEFINE m == [type |-> "integer", n |-> v]
<1>1. v \in Int
  BY ParserAssumption DEF Int32
<1>2. m \in JsonNumber
  BY <1>1 DEF JsonNumber
<1>3. m # Absent
  BY <1>2, ParserAssumption
<1>4. m.type = "integer" /\ m.n = v
  OBVIOUS
<1> HIDE DEF m
<1>5. Version(m) = int32(v)
  BY <1>3, <1>4 DEF Version, get_int
<1> QED BY <1>1, <1>2, <1>5, CastRange DEF m

\* The policy built from an accepted document, member by member.
LEMMA PolicyParts ==
    ASSUME NEW root \in JsonPolicy, Accepted(root)
    PROVE  /\ PolicyOf(root) \in PolicyType
           /\ PolicyOf(root).version = Version(root.version)
           /\ root.version \in JsonNumber \cup {Absent}
           /\ PolicyOf(root).version \in Int32
           /\ PolicyOf(root).default_action =
                 IF Given(root.defaults) THEN value(root.defaults.action, "DENY")
                                         ELSE "DENY"
           /\ Len(PolicyOf(root).protected_resources)
                = Len(Items(root.protected_resources))
           /\ \A i \in 1..Len(Items(root.protected_resources)) :
                 PolicyOf(root).protected_resources[i]
                   = Items(root.protected_resources)[i].path
           /\ Len(PolicyOf(root).rules) = Len(Items(root.rules))
           /\ \A i \in 1..Len(Items(root.rules)) :
                 PolicyOf(root).rules[i] =
                   [id       |-> value(Items(root.rules)[i].id, EmptyId),
                    resource |-> value(Items(root.rules)[i].resource, EmptyPath),
                    process  |-> IF Given(Items(root.rules)[i].process)
                                 THEN Items(root.rules)[i].process.value
                                 ELSE EmptyPath,
                    action   |-> value(Items(root.rules)[i].action, "ALLOW")]
<1> DEFINE res == Items(root.protected_resources)
           rls == Items(root.rules)
           pr == [i \in 1..Len(res) |-> res[i].path]
           rule(m) == [id       |-> value(m.id, EmptyId),
                       resource |-> value(m.resource, EmptyPath),
                       process  |-> IF Given(m.process) THEN m.process.value
                                    ELSE EmptyPath,
                       action   |-> value(m.action, "ALLOW")]
           pl == [i \in 1..Len(rls) |-> rule(rls[i])]
           def == IF Given(root.defaults) THEN value(root.defaults.action, "DENY")
                                          ELSE "DENY"
<1>1. /\ res \in Seq(JsonResource \cup {Other}) /\ rls \in Seq(JsonRule \cup {Other})
      /\ Len(res) \in Nat /\ Len(rls) \in Nat
      /\ DOMAIN res = 1..Len(res) /\ DOMAIN rls = 1..Len(rls)
  BY ItemsType
<1>2. pr \in Seq(Path) /\ Len(pr) = Len(res)
  <2>1. ASSUME NEW i \in 1..Len(res) PROVE res[i].path \in Path
    <3>1. res[i] \in JsonResource \cup {Other} /\ parse_resource(res[i]) = "ok"
      BY <1>1 DEF Accepted
    <3>2. res[i].path \in AbsPath
      BY <3>1, PartsOk
    <3> QED BY <3>2, PolicyAssumption
  <2>2. pr \in [1..Len(res) -> Path]
    BY <2>1
  <2> HIDE DEF pr
  <2> QED BY <1>1, <2>2, FunctionIsSeq
<1>3. pl \in Seq(PolicyRule) /\ Len(pl) = Len(rls)
  <2>1. ASSUME NEW i \in 1..Len(rls) PROVE rule(rls[i]) \in PolicyRule
    <3> DEFINE m == rls[i]
    <3>1. m \in JsonRule \cup {Other} /\ parse_rule(m) = "ok"
      BY <1>1 DEF Accepted
    <3> HIDE DEF m
    <3>2. /\ m \in JsonRule /\ m.id # Other /\ m.resource # Other
          /\ parse_process(m.process) = "ok" /\ m.action \in {Absent} \cup Action
      BY <3>1, PartsOk
    <3>3. /\ m.id \in Member(RuleId) /\ m.resource \in Member(Path)
          /\ m.process \in Member(JsonProcess)
      BY <3>2 DEF JsonRule
    <3>4. value(m.id, EmptyId) \in RuleId /\ value(m.resource, EmptyPath) \in Path
      BY <3>2, <3>3, PolicyAssumption DEF value, Member
    <3>5. value(m.action, "ALLOW") \in Action
      BY <3>2 DEF value, Action
    <3>6. (IF Given(m.process) THEN m.process.value ELSE EmptyPath) \in Path
      <4>1. m.process = Absent \/ m.process.value \in AbsPath
        BY <3>2, <3>3, PartsOk
      <4> QED BY <4>1, PolicyAssumption DEF Given
    <3>7. rule(m) \in PolicyRule
      BY <3>4, <3>5, <3>6 DEF PolicyRule
    <3> QED BY <3>7 DEF m
  <2> HIDE DEF rule
  <2>2. pl \in [1..Len(rls) -> PolicyRule]
    BY <2>1
  <2> HIDE DEF pl
  <2> QED BY <1>1, <2>2, FunctionIsSeq
<1>4. root.version \in JsonNumber \cup {Absent}
  BY DEF Accepted, JsonPolicy, Member
<1>5. def \in Action
  <2>1. /\ root.defaults \in Member(JsonDefaults)
        /\ parse_defaults(root.defaults) = "ok"
    BY DEF Accepted, JsonPolicy
  <2>2. root.defaults = Absent \/ root.defaults.action \in {Absent} \cup Action
    BY <2>1, PartsOk
  <2> QED BY <2>2 DEF Given, value, Action
<1>6. PolicyOf(root) = [version |-> Version(root.version),
                        default_action |-> def,
                        protected_resources |-> pr, rules |-> pl]
  BY <1>1 DEF PolicyOf, Version
<1>7. Version(root.version) \in Int32 /\ Version(root.version) \in Int
  <2>1. Version(root.version) \in Int32
    BY <1>4, VersionStands DEF StandsFor
  <2> QED BY <2>1, ParserAssumption DEF Int32
<1>8. /\ \A i \in 1..Len(res) : pr[i] = res[i].path
      /\ \A i \in 1..Len(rls) : pl[i] = rule(rls[i])
  OBVIOUS
<1> HIDE DEF pr, pl, def, res, rls
<1>9. PolicyOf(root) \in PolicyType
  BY <1>2, <1>3, <1>5, <1>6, <1>7 DEF PolicyType
<1> QED BY <1>2, <1>3, <1>4, <1>6, <1>7, <1>8, <1>9 DEF def, res, rls

\* from_json returns a policy exactly for the accepted documents whose policy
\* is valid.
LEMMA FromJson ==
    ASSUME NEW doc \in Document
    PROVE  /\ from_json(doc) \in Result
           /\ from_json(doc) = "ok" <=>
                 /\ doc \in JsonPolicy /\ Accepted(doc)
                 /\ validate(PolicyOf(doc))
<1>1. CASE doc \in {NotJson, Other, OutOfRange}
  <2>1. from_json(doc) \in {"error", "throws"}
    BY <1>1 DEF from_json
  <2>2. doc \notin JsonPolicy
    BY <1>1, ParserAssumption
  <2> QED BY <2>1, <2>2 DEF Result
<1>2. CASE doc \notin {NotJson, Other, OutOfRange}
  <2>1. doc \in JsonPolicy
    BY <1>2 DEF Document
  <2>2. from_json(doc) = IF Outcome(Steps(doc)) = "ok"
                         THEN Check(validate(PolicyOf(doc))) ELSE Outcome(Steps(doc))
    BY <1>2 DEF from_json
  <2>3. CASE Accepted(doc)
    <3>1. from_json(doc) = Check(validate(PolicyOf(doc)))
      BY <2>1, <2>2, <2>3, StepsOk
    <3>2. CASE validate(PolicyOf(doc))
      <4>1. from_json(doc) = "ok"
        BY <3>1, <3>2 DEF Check
      <4> QED BY <2>1, <2>3, <3>2, <4>1 DEF Result
    <3>3. CASE ~validate(PolicyOf(doc))
      <4>1. from_json(doc) = "error"
        BY <3>1, <3>3 DEF Check
      <4> QED BY <3>3, <4>1 DEF Result
    <3> QED BY <3>2, <3>3
  <2>4. CASE ~Accepted(doc)
    BY <2>1, <2>2, <2>4, StepsOk
  <2> QED BY <2>3, <2>4
<1> QED BY <1>1, <1>2

\* What from_json accepts is a valid policy that says what the document says,
\* and the policy written out in full is read back unchanged.
LEMMA ReadsBack ==
    ASSUME NEW doc \in Document, from_json(doc) = "ok"
    PROVE  /\ PolicyOf(doc) \in PolicyType /\ validate(PolicyOf(doc))
           /\ \A i \in DOMAIN PolicyOf(doc).rules :
                 PolicyOf(doc).rules[i].process \in AbsPath
           /\ from_json(Written(PolicyOf(doc))) = "ok"
           /\ PolicyOf(Written(PolicyOf(doc))) = PolicyOf(doc)
           /\ Covers(doc, Written(PolicyOf(doc)))
           /\ StandsFor(PolicyOf(doc).version, doc.version)
<1> DEFINE p == PolicyOf(doc)
           w == Written(p)
           res == Items(doc.protected_resources)
           rls == Items(doc.rules)
           pr == p.protected_resources
           pl == p.rules
<1>1. doc \in JsonPolicy /\ Accepted(doc) /\ validate(p)
  BY FromJson
<1>2. p \in PolicyType
  BY <1>1, PolicyParts
<1>3. /\ pr \in Seq(Path) /\ pl \in Seq(PolicyRule)
      /\ Len(pr) \in Nat /\ Len(pl) \in Nat
      /\ DOMAIN pr = 1..Len(pr) /\ DOMAIN pl = 1..Len(pl)
      /\ p.version \in Int /\ p.default_action \in Action
  <2> HIDE DEF p
  <2> QED BY <1>2 DEF PolicyType
<1>4. /\ Len(pr) = Len(res) /\ Len(pl) = Len(rls)
      /\ p.version = Version(doc.version) /\ p.version \in Int32
      /\ doc.version \in JsonNumber \cup {Absent}
      /\ p.default_action = IF Given(doc.defaults)
                            THEN value(doc.defaults.action, "DENY") ELSE "DENY"
  BY <1>1, PolicyParts
<1>5. ASSUME NEW i \in 1..Len(res)
      PROVE  /\ res[i].path = pr[i] /\ pr[i] \in AbsPath
             /\ res[i].operation \in {Absent, "OPEN"}
  <2>1. res[i] \in JsonResource \cup {Other} /\ parse_resource(res[i]) = "ok"
    BY <1>1, ItemsType DEF Accepted
  <2>2. res[i].path \in AbsPath /\ res[i].operation \in {Absent, "OPEN"}
    BY <2>1, PartsOk
  <2>3. res[i].path = pr[i]
    BY <1>1, PolicyParts
  <2> QED BY <2>2, <2>3
<1>6. ASSUME NEW i \in 1..Len(rls)
      PROVE  /\ rls[i].id = pl[i].id /\ pl[i].id \in RuleId
             /\ rls[i].resource = pl[i].resource /\ pl[i].resource \in Path
             /\ rls[i].process = [type |-> "exe_path", value |-> pl[i].process]
             /\ pl[i].process \in AbsPath
             /\ rls[i].operation \in {Absent, "OPEN"}
             /\ rls[i].action \in {Absent, pl[i].action}
             /\ pl[i].action \in Action
  <2> DEFINE m == rls[i]
             q == pl[i]
  <2>1. m \in JsonRule \cup {Other} /\ parse_rule(m) = "ok"
    BY <1>1, ItemsType DEF Accepted
  <2>2. q = [id       |-> value(m.id, EmptyId),
             resource |-> value(m.resource, EmptyPath),
             process  |-> IF Given(m.process) THEN m.process.value ELSE EmptyPath,
             action   |-> value(m.action, "ALLOW")]
    BY <1>1, PolicyParts
  <2>3. q.id # EmptyId /\ q.resource \in AbsPath /\ q.process # EmptyPath
    <3>1. i \in 1..Len(pl)
      BY <1>4
    <3> HIDE DEF p
    <3> QED BY <1>1, <3>1 DEF validate
  <2>4. q \in PolicyRule
    BY <1>3, <1>4
  <2> HIDE DEF m, q
  <2>5. /\ m \in JsonRule
        /\ m.operation \in {Absent, "OPEN"}
        /\ parse_process(m.process) = "ok" /\ m.action \in {Absent} \cup Action
    BY <2>1, PartsOk
  <2>6. m.process \in Member(JsonProcess)
    BY <2>5 DEF JsonRule
  <2>7. m.id = q.id /\ m.resource = q.resource
    BY <2>2, <2>3, PolicyAssumption DEF value
  <2>8. Given(m.process) /\ q.process = m.process.value
    BY <2>2, <2>3
  <2>9. m.process \in JsonProcess /\ m.process.type = "exe_path" /\ m.process.value \in AbsPath
    BY <2>5, <2>6, <2>8, PartsOk DEF Given
  <2>10. m.process = [type |-> "exe_path", value |-> q.process]
    BY <2>8, <2>9 DEF JsonProcess
  <2>11. m.action \in {Absent, q.action}
    BY <2>2 DEF value
  <2>12. q.id \in RuleId /\ q.resource \in Path /\ q.action \in Action
    BY <2>4 DEF PolicyRule
  <2>13. q.process \in AbsPath
    BY <2>8, <2>9
  <2> QED BY <2>5, <2>7, <2>10, <2>11, <2>12, <2>13 DEF m, q
<1>7. \A i \in DOMAIN pl : pl[i].process \in AbsPath
  BY <1>3, <1>4, <1>6
<1> DEFINE wr == [i \in 1..Len(pr) |-> [path |-> pr[i], operation |-> "OPEN"]]
           rule(q) == [id |-> q.id, resource |-> q.resource, operation |-> "OPEN",
                       process |-> [type |-> "exe_path", value |-> q.process],
                       action |-> q.action]
           wl == [i \in 1..Len(pl) |-> rule(pl[i])]
<1>8. w = [version |-> [type |-> "integer", n |-> p.version],
           defaults |-> [action |-> p.default_action],
           protected_resources |-> wr, rules |-> wl]
  BY <1>3 DEF Written
<1>9. wr \in Seq(JsonResource \cup {Other}) /\ Len(wr) = Len(pr)
  <2>1. ASSUME NEW i \in 1..Len(pr)
        PROVE  [path |-> pr[i], operation |-> "OPEN"] \in JsonResource
    <3>1. pr[i] \in Path /\ "OPEN" \in Text
      BY <1>3, ParserAssumption
    <3> QED BY <3>1 DEF JsonResource, Member
  <2>2. wr \in [1..Len(pr) -> JsonResource \cup {Other}]
    BY <2>1
  <2> HIDE DEF wr
  <2> QED BY <1>3, <2>2, FunctionIsSeq
<1>10. /\ wl \in Seq(JsonRule \cup {Other}) /\ Len(wl) = Len(pl)
       /\ \A i \in 1..Len(pl) : wl[i] \in JsonRule
  <2>1. ASSUME NEW i \in 1..Len(pl)
        PROVE  rule(pl[i]) \in JsonRule
    <3> DEFINE q == pl[i]
    <3>1. /\ q.id \in RuleId /\ q.resource \in Path /\ q.process \in Path
          /\ q.action \in Action
      BY <1>4, <1>6, PolicyAssumption
    <3>2. "OPEN" \in Text /\ "exe_path" \in Text /\ Action \subseteq Text
      BY ParserAssumption
    <3> HIDE DEF q
    <3>3. [type |-> "exe_path", value |-> q.process] \in JsonProcess
      BY <3>1, <3>2 DEF JsonProcess, Member
    <3>4. rule(q) \in JsonRule
      BY <3>1, <3>2, <3>3 DEF JsonRule, Member
    <3> QED BY <3>4 DEF q
  <2> HIDE DEF rule
  <2>2. wl \in [1..Len(pl) -> JsonRule \cup {Other}] /\ \A i \in 1..Len(pl) : wl[i] \in JsonRule
    BY <2>1
  <2> HIDE DEF wl
  <2> QED BY <1>3, <2>2, FunctionIsSeq
<1>11. w \in JsonPolicy
  <2>1. [action |-> p.default_action] \in JsonDefaults
    BY <1>3, ParserAssumption DEF JsonDefaults, Member
  <2>2. [type |-> "integer", n |-> p.version] \in JsonNumber
    BY <1>4, VersionReadBack
  <2> HIDE DEF wr, wl, p, w
  <2> QED BY <1>8, <1>9, <1>10, <2>1, <2>2 DEF JsonPolicy, Member
<1>12. Items(w.protected_resources) = wr /\ Items(w.rules) = wl
  <2>1. Given(wr) /\ Given(wl)
    <3> HIDE DEF wr, wl
    <3> QED BY <1>9, <1>10, ParserAssumption DEF Given
  <2> HIDE DEF wr, wl, w
  <2> QED BY <1>8, <2>1 DEF Items
<1>13. Accepted(w)
  <2>1. w.version # Other
    <3>1. w.version \in JsonNumber
      BY <1>4, <1>8, VersionReadBack
    <3> QED BY <3>1, ParserAssumption
  <2>2. parse_defaults(w.defaults) = "ok"
    <3>1. /\ w.defaults \in JsonDefaults /\ w.defaults.action \in Action
      <4>1. [action |-> p.default_action] \in JsonDefaults
        BY <1>3, ParserAssumption DEF JsonDefaults, Member
      <4> QED BY <1>3, <1>8, <4>1
    <3> HIDE DEF w
    <3> QED BY <3>1, PartsOk DEF Member
  <2>3. w.protected_resources # Other /\ w.rules # Other
    <3> HIDE DEF wr, wl, w
    <3> QED BY <1>8, <1>9, <1>10, ParserAssumption
  <2>4. ASSUME NEW i \in 1..Len(wr) PROVE parse_resource(wr[i]) = "ok"
    <3>1. wr[i] \in JsonResource \cup {Other} /\ wr[i].path = pr[i] /\ wr[i].operation = "OPEN"
      BY <1>9
    <3>2. pr[i] \in AbsPath
      BY <1>4, <1>5, <1>9
    <3>3. wr[i] \in JsonResource
      <4>1. wr[i] = [path |-> pr[i], operation |-> "OPEN"]
        BY <1>9
      <4>2. pr[i] \in Path /\ "OPEN" \in Text
        BY <3>2, PolicyAssumption, ParserAssumption
      <4> HIDE DEF wr
      <4> QED BY <4>1, <4>2 DEF JsonResource, Member
    <3> HIDE DEF wr
    <3> QED BY <3>1, <3>2, <3>3, PartsOk
  <2>5. ASSUME NEW i \in 1..Len(wl) PROVE parse_rule(wl[i]) = "ok"
    <3> DEFINE q == pl[i]
               m == wl[i]
    <3>1. m = rule(q) /\ m \in JsonRule
      BY <1>10
    <3>2. /\ q.id \in RuleId /\ q.resource \in Path /\ q.process \in AbsPath
          /\ q.action \in Action
      BY <1>4, <1>6, <1>10
    <3> HIDE DEF q, m
    <3>3. /\ m.id = q.id /\ m.resource = q.resource /\ m.operation = "OPEN"
          /\ m.process = [type |-> "exe_path", value |-> q.process]
          /\ m.action = q.action
      BY <3>1
    <3>4. m.id # Other /\ m.resource # Other
      BY <3>2, <3>3, ParserAssumption
    <3>5. parse_process(m.process) = "ok"
      <4>1. m.process \in JsonProcess
        <5>1. q.process \in Path /\ "exe_path" \in Text
          BY <3>2, PolicyAssumption, ParserAssumption
        <5> QED BY <3>3, <5>1 DEF JsonProcess, Member
      <4>2. m.process.type = "exe_path" /\ m.process.value \in AbsPath
        BY <3>2, <3>3
      <4> QED BY <4>1, <4>2, PartsOk DEF Member
    <3>6. parse_rule(m) = "ok"
      BY <3>1, <3>2, <3>3, <3>4, <3>5, PartsOk
    <3> QED BY <3>6 DEF m
  <2> HIDE DEF w, wr, wl
  <2> QED BY <1>12, <2>1, <2>2, <2>3, <2>4, <2>5 DEF Accepted
<1>14. PolicyOf(w) = p
  <2> DEFINE v == PolicyOf(w)
  <2>1. v \in PolicyType
    BY <1>11, <1>13, PolicyParts
  <2>2. v.version = p.version
    <3>1. /\ v.version = Version(w.version)
          /\ w.version = [type |-> "integer", n |-> p.version]
      BY <1>8, <1>11, <1>13, PolicyParts
    <3> QED BY <1>4, <3>1, VersionReadBack
  <2>3. v.default_action = p.default_action
    <3>1. v.default_action = IF Given(w.defaults) THEN value(w.defaults.action, "DENY")
                             ELSE "DENY"
      BY <1>11, <1>13, PolicyParts
    <3>2. w.defaults = [action |-> p.default_action]
      BY <1>8
    <3>3. [action |-> p.default_action] \in JsonDefaults /\ p.default_action # Absent
      BY <1>3, ParserAssumption DEF JsonDefaults, Member
    <3>4. Given(w.defaults)
      BY <3>2, <3>3, ParserAssumption DEF Given
    <3>5. value(w.defaults.action, "DENY") = p.default_action
      BY <3>2, <3>3 DEF value
    <3> QED BY <3>1, <3>4, <3>5
  <2>4. v.protected_resources = pr
    <3>1. /\ v.protected_resources \in Seq(Path) /\ Len(v.protected_resources) = Len(pr)
          /\ \A i \in 1..Len(pr) : v.protected_resources[i] = pr[i]
      <4>1. v.protected_resources \in Seq(Path)
        <5> HIDE DEF v
        <5> QED BY <2>1 DEF PolicyType
      <4>2. /\ Len(v.protected_resources) = Len(wr)
            /\ \A i \in 1..Len(wr) : v.protected_resources[i] = wr[i].path
        <5> HIDE DEF wr
        <5> QED BY <1>11, <1>12, <1>13, PolicyParts
      <4> QED BY <1>9, <4>1, <4>2
    <3> HIDE DEF v, pr
    <3> QED BY <1>3, <3>1, SeqEqual
  <2>5. v.rules = pl
    <3>1. v.rules \in Seq(PolicyRule)
      <4> HIDE DEF v
      <4> QED BY <2>1 DEF PolicyType
    <3>2. /\ Len(v.rules) = Len(wl)
          /\ \A i \in 1..Len(wl) :
                v.rules[i] = [id |-> value(wl[i].id, EmptyId),
                    resource |-> value(wl[i].resource, EmptyPath),
                    process  |-> IF Given(wl[i].process) THEN wl[i].process.value
                                 ELSE EmptyPath,
                    action   |-> value(wl[i].action, "ALLOW")]
      <4> HIDE DEF wl
      <4> QED BY <1>11, <1>12, <1>13, PolicyParts
    <3>3. ASSUME NEW i \in 1..Len(pl) PROVE v.rules[i] = pl[i]
      <4> DEFINE q == pl[i]
                 m == wl[i]
      <4>1. m = rule(q)
        BY <1>10
      <4>2. v.rules[i] = [id |-> value(m.id, EmptyId),
                    resource |-> value(m.resource, EmptyPath),
                    process  |-> IF Given(m.process) THEN m.process.value
                                 ELSE EmptyPath,
                    action   |-> value(m.action, "ALLOW")]
        BY <1>10, <3>2
      <4>3. /\ q \in PolicyRule /\ q.id \in RuleId /\ q.resource \in Path
            /\ q.action \in Action /\ q.process \in Path
        <5>1. q \in PolicyRule
          <6> HIDE DEF pl
          <6> QED BY <1>3
        <5> HIDE DEF q
        <5> QED BY <5>1 DEF PolicyRule
      <4> HIDE DEF q, m
      <4>4. [type |-> "exe_path", value |-> q.process] \in JsonProcess
        <5>1. "exe_path" \in Text
          BY ParserAssumption
        <5> QED BY <4>3, <5>1 DEF JsonProcess, Member
      <4>5. /\ m.id = q.id /\ m.resource = q.resource /\ m.action = q.action
            /\ m.process = [type |-> "exe_path", value |-> q.process]
        BY <4>1
      <4>6. /\ value(m.id, EmptyId) = q.id
            /\ value(m.resource, EmptyPath) = q.resource
        BY <4>3, <4>5, ParserAssumption DEF value
      <4>7. value(m.action, "ALLOW") = q.action
        BY <4>3, <4>5, ParserAssumption DEF value
      <4>8. Given(m.process) /\ m.process.value = q.process
        BY <4>4, <4>5, ParserAssumption DEF Given
      <4>9. v.rules[i] = [id |-> q.id, resource |-> q.resource, process |-> q.process,
                          action |-> q.action]
        BY <4>2, <4>6, <4>7, <4>8
      <4>10. v.rules[i] = q
        BY <4>3, <4>9 DEF PolicyRule
      <4> QED BY <4>10 DEF q
    <3>4. Len(v.rules) = Len(pl)
      BY <1>10, <3>2
    <3> HIDE DEF v, pl
    <3> QED BY <1>3, <3>1, <3>3, <3>4, SeqEqual
  <2>6. v = p
    <3> HIDE DEF v, p
    <3> QED BY <1>2, <2>1, <2>2, <2>3, <2>4, <2>5 DEF PolicyType
  <2> QED BY <2>6
<1>15. from_json(w) = "ok"
  <2>1. w \in Document
    BY <1>11 DEF Document
  <2> QED BY <1>1, <1>11, <1>13, <1>14, <2>1, FromJson
<1>16. Covers(doc, w)
  <2>3. doc.defaults = Absent \/ doc.defaults.action \in {Absent, w.defaults.action}
    <3>1. doc.defaults # Other
      <4>1. doc.defaults \in Member(JsonDefaults) /\ parse_defaults(doc.defaults) = "ok"
        BY <1>1 DEF Accepted, JsonPolicy
      <4>2. doc.defaults = Absent \/ doc.defaults \in JsonDefaults
        BY <4>1, PartsOk
      <4> QED BY <4>2, ParserAssumption
    <3> QED BY <1>4, <1>8, <3>1 DEF value, Given
  <2>4. /\ Len(res) = Len(w.protected_resources)
        /\ \A i \in 1..Len(res) :
              /\ res[i].path = w.protected_resources[i].path
              /\ res[i].operation \in {Absent, "OPEN"}
    <3>1. w.protected_resources = wr
      BY <1>8
    <3> QED BY <1>4, <1>5, <1>9, <3>1
  <2>5. /\ Len(rls) = Len(w.rules)
        /\ \A i \in 1..Len(rls) :
              /\ rls[i].id = w.rules[i].id
              /\ rls[i].resource = w.rules[i].resource
              /\ rls[i].process = w.rules[i].process
              /\ rls[i].operation \in {Absent, "OPEN"}
              /\ rls[i].action \in {Absent, w.rules[i].action}
    <3>1. w.rules = wl
      BY <1>8
    <3> QED BY <1>4, <1>6, <1>10, <3>1
  <2>6. DOMAIN res = 1..Len(res) /\ DOMAIN rls = 1..Len(rls)
    BY <1>1, ItemsType
  <2> HIDE DEF w, res, rls
  <2>7. Items(doc.protected_resources) = res /\ Items(doc.rules) = rls
    BY DEF res, rls
  <2> QED BY <2>3, <2>4, <2>5, <2>6, <2>7 DEF Covers
<1>17. StandsFor(p.version, doc.version)
  BY <1>4, VersionStands
<1> QED BY <1>1, <1>2, <1>7, <1>14, <1>15, <1>16, <1>17

\* from_json is faithful for every document: what it accepts is a valid policy
\* saying exactly what the document says, with a version that stands for the
\* number or boolean there, and nothing valid is refused or changed when it is
\* written out and parsed again.
THEOREM ParserIsFaithful == Spec => []ParserFaithful
<1> DEFINE FileOK == file \in Document
<1>1. Init => FileOK
  BY ConnectionAssumption DEF Init, Document
<1>2. FileOK /\ [Next]_vars => FileOK'
  <2> SUFFICES ASSUME file \in Document, [Next]_vars PROVE file' \in Document
    OBVIOUS
  <2>1. file' = file \/ file' \in Edited
    BY DEF Next, HandlerRecv, HandlerClose, NoMoreLines, EmptyLine, HandleLine,
           HandlerTerminate, StreamEvent, StreamClose, StopElsewhere,
           ClientSend, LoadCheck, LoadSend, Edit, ClientAnswer, ClientEof,
           ClientGiveUp, ClientEvents, client, vars
  <2> QED BY <2>1, ConnectionAssumption
<1>3. FileOK => ParserFaithful
  BY ReadsBack DEF ParserFaithful
<1> HIDE DEF FileOK
<1> QED BY <1>1, <1>2, <1>3, PTL DEF Spec

-----------------------------------------------------------------------------
(* Lines and the stream.                                                   *)

\* The first line of a text is what precedes its first newline.
LEMMA FirstLineIs ==
    ASSUME NEW S, NEW bytes \in Seq(S), HasLine(bytes)
    PROVE  /\ FirstLine(bytes) \in Seq(S) /\ AfterLine(bytes) \in Seq(S)
           /\ \A i \in 1..Len(FirstLine(bytes)) : FirstLine(bytes)[i] # NL
           /\ Len(FirstLine(bytes)) \in Nat /\ Len(FirstLine(bytes)) < Len(bytes)
           /\ bytes[Len(FirstLine(bytes)) + 1] = NL
           /\ \A i \in 1..Len(FirstLine(bytes)) : FirstLine(bytes)[i] = bytes[i]
           /\ AfterLine(bytes)
                = SubSeq(bytes, Len(FirstLine(bytes)) + 2, Len(bytes))
<1> DEFINE I == {i \in 1..Len(bytes) : bytes[i] = NL}
           k == SelectInSeq(bytes, LAMBDA b : b = NL)
<1>1. k = IF I # {} THEN Min(I) ELSE 0
  BY DEF SelectInSeq
<1>2. I # {} /\ I \subseteq Nat
  BY DEF HasLine, Contains
<1>3. Min(I) \in I /\ \A i \in I : Min(I) =< i
  BY <1>2, LeastNumber
<1>4. /\ k \in 1..Len(bytes) /\ bytes[k] = NL
      /\ \A i \in 1..Len(bytes) : bytes[i] = NL => k =< i
  BY <1>1, <1>2, <1>3
<1>5. FirstLine(bytes) = SubSeq(bytes, 1, k - 1)
      /\ AfterLine(bytes) = SubSeq(bytes, k + 1, Len(bytes))
  BY DEF FirstLine, AfterLine
<1> HIDE DEF k
<1>6. /\ FirstLine(bytes) \in Seq(S) /\ AfterLine(bytes) \in Seq(S)
      /\ Len(FirstLine(bytes)) = k - 1
      /\ \A i \in 1..(k - 1) : FirstLine(bytes)[i] = bytes[i]
  <2>1. k - 1 \in 0..Len(bytes) /\ k \in 0..Len(bytes)
    BY <1>4
  <2>2. /\ SubSeq(bytes, 1, k - 1) \in Seq(S)
        /\ Len(SubSeq(bytes, 1, k - 1)) = k - 1
        /\ \A i \in 1..(k - 1) : SubSeq(bytes, 1, k - 1)[i] = bytes[i]
    BY <2>1, Cut
  <2>3. SubSeq(bytes, k + 1, Len(bytes)) \in Seq(S)
    BY <2>1, Cut
  <2> QED BY <1>5, <2>2, <2>3
<1>7. \A i \in 1..(k - 1) : i \in 1..Len(bytes) /\ ~(k =< i)
  BY <1>4
<1>8. /\ Len(FirstLine(bytes)) \in Nat /\ Len(FirstLine(bytes)) < Len(bytes)
      /\ Len(FirstLine(bytes)) + 1 = k /\ Len(FirstLine(bytes)) + 2 = k + 1
  BY <1>4, <1>6
<1> QED BY <1>4, <1>5, <1>6, <1>7, <1>8

\* How a text of one request and its newline can be cut up.
LEMMA OneRequest ==
    ASSUME NEW x, x # NL
    PROVE  /\ ~HasLine(<<>>) /\ ~HasLine(<<x>>) /\ HasLine(<<x, NL>>)
           /\ FirstLine(<<x, NL>>) = <<x>> /\ AfterLine(<<x, NL>>) = <<>>
<1>1. ~HasLine(<<>>) /\ ~HasLine(<<x>>)
  BY DEF HasLine, Contains
<1> DEFINE s == <<x, NL>>
           S == {x, NL}
<1>2. s \in Seq(S) /\ Len(s) = 2 /\ s[1] = x /\ s[2] = NL
  OBVIOUS
<1> HIDE DEF s, S
<1>3. HasLine(s)
  BY <1>2 DEF HasLine, Contains
<1> DEFINE f == FirstLine(s)
<1>4. /\ f \in Seq(S) /\ Len(f) \in Nat /\ Len(f) < 2 /\ s[Len(f) + 1] = NL
      /\ \A i \in 1..Len(f) : f[i] = s[i]
      /\ AfterLine(s) = SubSeq(s, Len(f) + 2, 2)
  BY <1>2, <1>3, FirstLineIs
<1> HIDE DEF f
<1>5. Len(f) = 1
  <2>1. Len(f) # 0
    BY <1>2, <1>4
  <2> DEFINE n == Len(f)
  <2>2. n \in Nat /\ n < 2 /\ n # 0
    BY <1>4, <2>1
  <2> HIDE DEF n
  <2>3. n = 1
    BY <2>2
  <2> QED BY <2>3 DEF n
<1>6. f = <<x>>
  BY <1>2, <1>4, <1>5
<1>7. AfterLine(s) = <<>>
  BY <1>2, <1>4, <1>5
<1> QED BY <1>1, <1>3, <1>6, <1>7 DEF s, f

\* What recv(2) may take from such a text, and what it leaves.
LEMMA CutRequest ==
    ASSUME NEW x
    PROVE  /\ Len(<<x, NL>>) = 2 /\ Len(<<NL>>) = 1
           /\ SubSeq(<<x, NL>>, 1, 1) = <<x>> /\ SubSeq(<<x, NL>>, 2, 2) = <<NL>>
           /\ SubSeq(<<x, NL>>, 1, 2) = <<x, NL>> /\ SubSeq(<<x, NL>>, 3, 2) = <<>>
           /\ SubSeq(<<NL>>, 1, 1) = <<NL>> /\ SubSeq(<<NL>>, 2, 1) = <<>>
           /\ <<>> \o <<x>> = <<x>> /\ <<>> \o <<x, NL>> = <<x, NL>>
           /\ <<x>> \o <<NL>> = <<x, NL>>
<1> DEFINE s == <<x, NL>>
           t == <<NL>>
           S == {x, NL}
<1>1. /\ s \in Seq(S) /\ Len(s) = 2 /\ s[1] = x /\ s[2] = NL
      /\ t \in Seq(S) /\ Len(t) = 1 /\ t[1] = NL
  OBVIOUS
<1>2. <<>> \o <<x>> = <<x>> /\ <<>> \o s = s /\ <<x>> \o <<NL>> = s
  <2> DEFINE u == <<x>>
  <2>1. u \in Seq(S) /\ Len(u) = 1 /\ u[1] = x
    OBVIOUS
  <2> HIDE DEF s, t, S, u
  <2>2. <<>> \o u = u /\ <<>> \o s = s
    BY <1>1, <2>1, ConcatEmptySeq
  <2>3. /\ u \o t \in Seq(S) /\ Len(u \o t) = Len(u) + Len(t)
        /\ \A i \in 1..(Len(u) + Len(t)) :
              (u \o t)[i] = IF i <= Len(u) THEN u[i] ELSE t[i - Len(u)]
    BY <1>1, <2>1, ConcatProperties
  <2> DEFINE v == u \o t
  <2>4. v \in Seq(S) /\ Len(v) = 2 /\ v[1] = x /\ v[2] = NL
    BY <1>1, <2>1, <2>3
  <2> HIDE DEF v
  <2>5. v = s
    BY <1>1, <2>4, SeqEqual
  <2> QED BY <2>2, <2>5 DEF u, v, t
<1> HIDE DEF s, t, S
<1>3. SubSeq(s, 1, 1) = <<x>> /\ SubSeq(s, 2, 2) = <<NL>>
  <2> DEFINE a == SubSeq(s, 1, 1)
             b == SubSeq(s, 1 + 1, Len(s))
  <2>1. 1 \in 0..Len(s)
    BY <1>1
  <2>2. /\ a \in Seq(S) /\ b \in Seq(S) /\ Len(a) = 1 /\ Len(b) = Len(s) - 1
        /\ \A i \in 1..1 : a[i] = s[i]
        /\ \A i \in 1..(Len(s) - 1) : b[i] = s[1 + i]
    BY <1>1, <2>1, Cut
  <2> HIDE DEF a, b
  <2>3. a = <<x>> /\ b = <<NL>>
    BY <1>1, <2>2
  <2>4. b = SubSeq(s, 2, 2)
    BY <1>1 DEF b
  <2> QED BY <2>3, <2>4 DEF a
<1>4. SubSeq(s, 1, 2) = s /\ SubSeq(s, 3, 2) = <<>>
  BY <1>1, SubSeqFull, SubSeqEmpty
<1>5. SubSeq(t, 1, 1) = t /\ SubSeq(t, 2, 1) = <<>>
  BY <1>1, SubSeqFull, SubSeqEmpty
<1> QED BY <1>1, <1>2, <1>3, <1>4, <1>5 DEF s, t

-----------------------------------------------------------------------------
(* The lines of a text.                                                    *)

\* The numbers of a set up to a bound.
UpTo(E, d) == {x \in E : x <= d}

\* The rank of a number in a finite set of numbers.
LEMMA Rank ==
    ASSUME NEW E, E \subseteq Nat, IsFiniteSet(E)
    PROVE  /\ Cardinality(E) \in Nat
           /\ \A e \in E : Cardinality(UpTo(E, e)) \in 1..Cardinality(E)
           /\ \A e, f \in E :
                 e < f => Cardinality(UpTo(E, e)) < Cardinality(UpTo(E, f))
<1>1. Cardinality(E) \in Nat
  BY FS_CardinalityType
<1>2. ASSUME NEW e \in E
      PROVE  /\ IsFiniteSet(UpTo(E, e)) /\ Cardinality(UpTo(E, e)) \in Nat
             /\ Cardinality(UpTo(E, e)) <= Cardinality(E)
             /\ Cardinality(UpTo(E, e)) # 0
  <2> DEFINE U == UpTo(E, e)
  <2>1. U \in SUBSET E /\ e \in U
    BY DEF UpTo
  <2> HIDE DEF U
  <2>2. IsFiniteSet(U) /\ Cardinality(U) <= Cardinality(E)
    BY <2>1, FS_Subset
  <2>3. Cardinality(U) \in Nat
    BY <2>2, FS_CardinalityType
  <2>4. Cardinality(U) # 0
    BY <2>1, <2>2, FS_EmptySet
  <2> QED BY <2>2, <2>3, <2>4 DEF U
<1>3. ASSUME NEW e \in E, NEW f \in E, e < f
      PROVE  Cardinality(UpTo(E, e)) < Cardinality(UpTo(E, f))
  <2> DEFINE U == UpTo(E, e)
             V == UpTo(E, f)
  <2>0. /\ f <= f /\ ~(f <= e)
        /\ \A x \in E : x <= e => x <= f
    BY <1>3
  <2>1. U \in SUBSET V /\ f \in V /\ f \notin U
    BY <2>0 DEF UpTo
  <2>2. IsFiniteSet(V) /\ Cardinality(V) \in Nat /\ Cardinality(U) \in Nat
    BY <1>2
  <2> HIDE DEF U, V
  <2>3. Cardinality(U) <= Cardinality(V) /\ Cardinality(U) # Cardinality(V)
    BY <2>1, <2>2, FS_Subset
  <2>4. Cardinality(U) < Cardinality(V)
    BY <2>2, <2>3
  <2> QED BY <2>4 DEF U, V
<1>4. \A e \in E : Cardinality(UpTo(E, e)) \in 1..Cardinality(E)
  BY <1>1, <1>2
<1> QED BY <1>1, <1>3, <1>4

\* Every place of a finite set of numbers is taken by one of them.
LEMMA NthIs ==
    ASSUME NEW E, E \subseteq Nat, IsFiniteSet(E)
    PROVE  /\ \A k \in 1..Cardinality(E) :
                 Nth(E, k) \in E /\ Cardinality(UpTo(E, Nth(E, k))) = k
           /\ \A e \in E : Nth(E, Cardinality(UpTo(E, e))) = e
<1> DEFINE n == Cardinality(E)
           rank == [e \in E |-> Cardinality(UpTo(E, e))]
<1>1. /\ n \in Nat
      /\ \A e \in E : rank[e] \in 1..n
      /\ \A e, f \in E : e < f => rank[e] < rank[f]
  BY Rank
<1>2. rank \in [E -> 1..n]
  BY <1>1
<1>3. \A e \in E : rank[e] = Cardinality(UpTo(E, e))
  OBVIOUS
<1> HIDE DEF rank
<1>4. \A e, f \in E : rank[e] = rank[f] => e = f
  <2> SUFFICES ASSUME NEW e \in E, NEW f \in E, rank[e] = rank[f] PROVE e = f
    OBVIOUS
  <2>1. e \in Nat /\ f \in Nat /\ rank[e] \in Nat /\ rank[f] \in Nat
    BY <1>1
  <2>2. ~(e < f) /\ ~(f < e)
    BY <1>1, <2>1
  <2> QED BY <2>1, <2>2
<1>5. rank \in Injection(E, 1..n)
  BY <1>2, <1>4 DEF Injection, IsInjective
<1>6. IsFiniteSet(1..n) /\ Cardinality(1..n) = n
  <2>1. 1 \in Int /\ n \in Int /\ n \in Nat
    BY <1>1
  <2> HIDE DEF n
  <2>2. IsFiniteSet(1..n) /\ Cardinality(1..n) = IF 1 > n THEN 0 ELSE n - 1 + 1
    BY <2>1, FS_Interval
  <2> QED BY <2>1, <2>2
<1>7. rank \in Surjection(E, 1..n)
  BY <1>5, <1>6, FS_Injection
<1>8. \A k \in 1..n : \E e \in E : rank[e] = k
  BY <1>7 DEF Surjection
<1>9. \A k : Nth(E, k) = CHOOSE e \in E : rank[e] = k
  BY <1>3 DEF Nth, UpTo
<1>10. \A k \in 1..n : Nth(E, k) \in E /\ rank[Nth(E, k)] = k
  BY <1>8, <1>9
<1>11. \A e \in E : Nth(E, rank[e]) = e
  BY <1>1, <1>4, <1>10
<1> QED BY <1>3, <1>10, <1>11

\* The numbers up to a bound keep their places.
LEMMA NthOfPart ==
    ASSUME NEW E, E \subseteq Nat, IsFiniteSet(E), NEW d \in Nat
    PROVE  /\ IsFiniteSet(UpTo(E, d)) /\ Cardinality(UpTo(E, d)) \in Nat
           /\ Cardinality(UpTo(E, d)) <= Cardinality(E)
           /\ \A k \in 1..Cardinality(UpTo(E, d)) :
                 Nth(UpTo(E, d), k) = Nth(E, k) /\ Nth(E, k) \in UpTo(E, d)
<1> DEFINE U == UpTo(E, d)
<1>1. U \in SUBSET E /\ U \subseteq Nat
  BY DEF UpTo
<1>2. \A e \in U : UpTo(U, e) = UpTo(E, e)
  <2>1. \A e \in U, x \in E : x <= e => x <= d
    BY DEF UpTo
  <2> QED BY <2>1 DEF UpTo
<1> HIDE DEF U
<1>3. IsFiniteSet(U) /\ Cardinality(U) <= Cardinality(E)
  BY <1>1, FS_Subset
<1>4. Cardinality(U) \in Nat
  BY <1>3, FS_CardinalityType
<1>5. ASSUME NEW k \in 1..Cardinality(U)
      PROVE  Nth(U, k) = Nth(E, k) /\ Nth(E, k) \in U
  <2>1. Nth(U, k) \in U /\ Cardinality(UpTo(U, Nth(U, k))) = k
    BY <1>1, <1>3, NthIs
  <2>2. Cardinality(UpTo(E, Nth(U, k))) = k /\ Nth(U, k) \in E
    BY <1>1, <1>2, <2>1
  <2>3. Nth(E, k) = Nth(U, k)
    BY <2>2, NthIs
  <2> QED BY <2>1, <2>3
<1> QED BY <1>3, <1>4, <1>5 DEF U

\* A number larger than all others comes last.
LEMMA NthAdded ==
    ASSUME NEW E, E \subseteq Nat, IsFiniteSet(E), NEW e \in Nat, e > 0,
           \A x \in E : x < e
    PROVE  /\ Cardinality(E \cup {e}) = Cardinality(E) + 1
           /\ Cardinality(E) \in Nat
           /\ \A k \in 1..Cardinality(E) : Nth(E \cup {e}, k) = Nth(E, k)
           /\ Nth(E \cup {e}, Cardinality(E) + 1) = e
<1> DEFINE F == E \cup {e}
<1>1. e \notin E
  OBVIOUS
<1>2. F \subseteq Nat /\ e \in F
  OBVIOUS
<1>3. IsFiniteSet(F) /\ Cardinality(F) = Cardinality(E) + 1
  BY <1>1, FS_AddElement
<1>4. UpTo(F, e - 1) = E
  <2>1. (\A x \in E : x <= e - 1) /\ ~(e <= e - 1)
    OBVIOUS
  <2> QED BY <2>1 DEF UpTo
<1>5. UpTo(F, e) = F
  <2>1. \A x \in F : x <= e
    OBVIOUS
  <2> QED BY <2>1 DEF UpTo
<1>6. e - 1 \in Nat
  OBVIOUS
<1>7. Cardinality(E) \in Nat
  BY FS_CardinalityType
<1> HIDE DEF F
<1>8. \A k \in 1..Cardinality(UpTo(F, e - 1)) : Nth(UpTo(F, e - 1), k) = Nth(F, k)
  BY <1>2, <1>3, <1>6, NthOfPart
<1>9. Nth(F, Cardinality(UpTo(F, e))) = e
  BY <1>2, <1>3, NthIs
<1> QED BY <1>3, <1>4, <1>5, <1>7, <1>8, <1>9 DEF F

\* Where lines end.
LEMMA EndsAreNumbers ==
    ASSUME NEW S, NEW bytes \in Seq(S)
    PROVE  LineEnds(bytes) \subseteq Nat /\ IsFiniteSet(LineEnds(bytes))
<1>1. LineEnds(bytes) \in SUBSET (2..Len(bytes))
  BY DEF LineEnds
<1>2. IsFiniteSet(2..Len(bytes))
  <2>1. 2 \in Int /\ Len(bytes) \in Int
    OBVIOUS
  <2> QED BY <2>1, FS_Interval
<1> QED BY <1>1, <1>2, FS_Subset

\* The lines that end at given places are a sequence.
LEMMA LinesAreSeq ==
    ASSUME NEW bytes, NEW E, IsFiniteSet(E)
    PROVE  /\ LinesEnding(bytes, E) \in Seq({LineAt(bytes, Nth(E, k)) : k \in 1..Cardinality(E)})
           /\ Len(LinesEnding(bytes, E)) = Cardinality(E)
           /\ Cardinality(E) \in Nat
           /\ \A k \in 1..Cardinality(E) :
                 LinesEnding(bytes, E)[k] = LineAt(bytes, Nth(E, k))
<1> DEFINE n == Cardinality(E)
           T == {LineAt(bytes, Nth(E, k)) : k \in 1..n}
           f == LinesEnding(bytes, E)
<1>1. n \in Nat
  BY FS_CardinalityType
<1>2. f = [k \in 1..n |-> LineAt(bytes, Nth(E, k))]
  BY DEF LinesEnding
<1>3. f \in [1..n -> T]
  BY <1>2
<1>4. \A k \in 1..n : f[k] = LineAt(bytes, Nth(E, k))
  BY <1>2
<1> HIDE DEF f, T, n
<1>5. f \in Seq(T) /\ Len(f) = n
  BY <1>1, <1>3, FunctionIsSeq
<1> QED BY <1>1, <1>4, <1>5 DEF f, T, n

\* The lines that end up to a place are the first of all lines.
LEMMA LinesUpTo ==
    ASSUME NEW S, NEW bytes \in Seq(S), NEW d \in Nat
    PROVE  IsPrefix(LinesEnding(bytes, UpTo(LineEnds(bytes), d)), Lines(bytes))
<1> DEFINE E == LineEnds(bytes)
           U == UpTo(E, d)
           s == LinesEnding(bytes, U)
           t == LinesEnding(bytes, E)
           T == {LineAt(bytes, Nth(U, k)) : k \in 1..Cardinality(U)}
                  \cup {LineAt(bytes, Nth(E, k)) : k \in 1..Cardinality(E)}
<1>1. E \subseteq Nat /\ IsFiniteSet(E)
  BY EndsAreNumbers
<1>2. /\ IsFiniteSet(U) /\ Cardinality(U) \in Nat
      /\ Cardinality(U) <= Cardinality(E)
      /\ \A k \in 1..Cardinality(U) : Nth(U, k) = Nth(E, k)
  BY <1>1, NthOfPart
<1>3. Lines(bytes) = t
  BY DEF Lines
<1> HIDE DEF E, U
<1>4. /\ s \in Seq(T) /\ Len(s) = Cardinality(U)
      /\ \A k \in 1..Cardinality(U) : s[k] = LineAt(bytes, Nth(U, k))
  <2> DEFINE TU == {LineAt(bytes, Nth(U, k)) : k \in 1..Cardinality(U)}
  <2>1. s \in Seq(TU)
    BY <1>2, LinesAreSeq
  <2>2. TU \subseteq T
    OBVIOUS
  <2> HIDE DEF TU, T
  <2>3. s \in Seq(T)
    BY <2>1, <2>2
  <2> QED BY <1>2, <2>3, LinesAreSeq
<1>5. /\ t \in Seq(T) /\ Len(t) = Cardinality(E) /\ Cardinality(E) \in Nat
      /\ \A k \in 1..Cardinality(E) : t[k] = LineAt(bytes, Nth(E, k))
  <2> DEFINE TE == {LineAt(bytes, Nth(E, k)) : k \in 1..Cardinality(E)}
  <2>1. t \in Seq(TE)
    BY <1>1, LinesAreSeq
  <2>2. TE \subseteq T
    OBVIOUS
  <2> HIDE DEF TE, T
  <2>3. t \in Seq(T)
    BY <2>1, <2>2
  <2> QED BY <1>1, <2>3, LinesAreSeq
<1>6. Len(s) <= Len(t) /\ \A k \in 1..Len(s) : s[k] = t[k]
  BY <1>2, <1>4, <1>5
<1> HIDE DEF s, t, T
<1>7. IsPrefix(s, t)
  BY <1>4, <1>5, <1>6, PrefixByElements
<1> QED BY <1>3, <1>7 DEF s, U, E

\* A line begins after the newline before it, or with the text.
LEMMA LineAtIs ==
    ASSUME NEW S, NEW bytes \in Seq(S), NEW e \in 1..Len(bytes), NEW b \in 0..(e - 1),
           b > 0 => bytes[b] = NL, \A i \in (b + 1)..(e - 1) : bytes[i] # NL
    PROVE  LineAt(bytes, e) = SubSeq(bytes, b + 1, e - 1)
<1> DEFINE N == {0} \cup {i \in 1..(e - 1) : bytes[i] = NL}
<1>1. b \in N /\ \A y \in N : b >= y
  OBVIOUS
<1>2. N \subseteq Nat
  OBVIOUS
<1>3. LineAt(bytes, e) = SubSeq(bytes, Max(N) + 1, e - 1)
  BY DEF LineAt
<1> HIDE DEF N
<1>4. Max(N) \in N /\ \A y \in N : Max(N) >= y
  BY <1>1 DEF Max
<1>5. Max(N) = b
  <2>1. Max(N) \in Nat /\ b \in Nat /\ Max(N) >= b /\ b >= Max(N)
    BY <1>1, <1>2, <1>4
  <2> QED BY <2>1
<1> QED BY <1>3, <1>5

\* Two texts that agree up to the end of a line have the same line there.
LEMMA SameLine ==
    ASSUME NEW S, NEW bytes \in Seq(S), NEW text \in Seq(S), NEW e \in 1..Len(bytes),
           Len(bytes) <= Len(text), \A i \in 1..Len(bytes) : text[i] = bytes[i]
    PROVE  LineAt(text, e) = LineAt(bytes, e)
<1> DEFINE N == {0} \cup {i \in 1..(e - 1) : bytes[i] = NL}
           M == {0} \cup {i \in 1..(e - 1) : text[i] = NL}
           b == Max(N)
<1>1. M = N
  <2>1. \A i \in 1..(e - 1) : text[i] = bytes[i]
    OBVIOUS
  <2> QED BY <2>1
<1>2. b \in 0..(e - 1)
  <2>1. N \subseteq 0..(e - 1) /\ N # {} /\ e - 1 \in Nat
    OBVIOUS
  <2> HIDE DEF N
  <2>2. b \in N
    BY <2>1, GreatestNumber
  <2> QED BY <2>1, <2>2
<1>3. /\ LineAt(bytes, e) = SubSeq(bytes, b + 1, e - 1)
      /\ LineAt(text, e) = SubSeq(text, b + 1, e - 1)
  BY <1>1 DEF LineAt
<1> HIDE DEF b
<1> DEFINE s == SubSeq(bytes, b + 1, e - 1)
           t == SubSeq(text, b + 1, e - 1)
           m == b + 1
           n == e - 1
<1>4. m \in Int /\ n \in Int /\ m >= 1 /\ n <= Len(bytes) /\ n <= Len(text)
  BY <1>2
<1>5. (\A i \in m..n : bytes[i] \in S) /\ (\A i \in m..n : text[i] \in S)
  BY <1>4
<1>6. \A i \in m..n : text[i] = bytes[i]
  BY <1>4
<1>7. s = SubSeq(bytes, m, n) /\ t = SubSeq(text, m, n)
  OBVIOUS
<1> HIDE DEF m, n, s, t
<1>8. /\ s \in Seq(S) /\ Len(s) = IF m <= n THEN n - m + 1 ELSE 0
      /\ \A i \in 1..(n - m + 1) : s[i] = bytes[m + i - 1]
  BY <1>4, <1>5, <1>7, SubSeqProperties
<1>9. /\ t \in Seq(S) /\ Len(t) = IF m <= n THEN n - m + 1 ELSE 0
      /\ \A i \in 1..(n - m + 1) : t[i] = text[m + i - 1]
  BY <1>4, <1>5, <1>7, SubSeqProperties
<1>10. Len(s) = Len(t) /\ \A i \in 1..Len(s) : s[i] = t[i]
  <2>1. \A i \in 1..(n - m + 1) : m + i - 1 \in m..n
    BY <1>4
  <2>2. \A i \in 1..(n - m + 1) : s[i] = t[i]
    BY <1>6, <1>8, <1>9, <2>1
  <2>3. \A i \in 1..Len(s) : i \in 1..(n - m + 1)
    BY <1>4, <1>8
  <2> QED BY <1>8, <1>9, <2>2, <2>3
<1>11. s = t
  BY <1>8, <1>9, <1>10, SeqEqual
<1> QED BY <1>3, <1>11 DEF s, t

\* What arrives later changes no line that has ended.
LEMMA LinesKept ==
    ASSUME NEW S, NEW bytes \in Seq(S), NEW more \in Seq(S), NEW d \in 0..Len(bytes)
    PROVE  LinesEnding(bytes \o more, UpTo(LineEnds(bytes \o more), d))
             = LinesEnding(bytes, UpTo(LineEnds(bytes), d))
<1> DEFINE text == bytes \o more
           U == UpTo(LineEnds(bytes), d)
<1>1. /\ text \in Seq(S) /\ Len(text) = Len(bytes) + Len(more)
      /\ \A i \in 1..Len(bytes) : text[i] = bytes[i]
      /\ Len(bytes) \in Nat /\ Len(more) \in Nat
  OBVIOUS
<1>2. Len(bytes) <= Len(text)
  BY <1>1
<1> HIDE DEF text
<1>3. UpTo(LineEnds(text), d) = U
  <2>1. \A e \in 2..Len(text) : e <= d =>
          /\ e \in 2..Len(bytes) /\ text[e] = bytes[e] /\ text[e - 1] = bytes[e - 1]
    BY <1>1, <1>2
  <2>2. \A e \in 2..Len(bytes) :
          /\ e \in 2..Len(text) /\ text[e] = bytes[e] /\ text[e - 1] = bytes[e - 1]
    BY <1>1, <1>2
  <2> QED BY <2>1, <2>2 DEF UpTo, LineEnds
<1>4. ASSUME NEW k \in 1..Cardinality(U)
      PROVE  LineAt(text, Nth(U, k)) = LineAt(bytes, Nth(U, k))
  <2>1. Nth(U, k) \in U
    <3>1. LineEnds(bytes) \subseteq Nat /\ IsFiniteSet(LineEnds(bytes)) /\ d \in Nat
      BY EndsAreNumbers
    <3>2. Nth(U, k) = Nth(LineEnds(bytes), k) /\ Nth(LineEnds(bytes), k) \in U
      BY <3>1, NthOfPart
    <3> QED BY <3>2
  <2>2. Nth(U, k) \in 1..Len(bytes)
    <3>1. U \subseteq 1..Len(bytes)
      BY DEF UpTo, LineEnds
    <3> QED BY <2>1, <3>1
  <2> QED BY <1>1, <1>2, <2>2, SameLine
<1>5. LinesEnding(text, U) = LinesEnding(bytes, U)
  BY <1>4 DEF LinesEnding
<1> QED BY <1>3, <1>5 DEF text

\* The handler has taken the text up to d, which is the end of a line.  The next
\* line begins there; it is one of the lines of the text unless it is empty.
LEMMA NextLine ==
    ASSUME NEW S, NEW bytes \in Seq(S), NEW d \in 0..Len(bytes), d > 0 => bytes[d] = NL,
           NEW rest, rest = SubSeq(bytes, d + 1, Len(bytes)), HasLine(rest)
    PROVE  \E e \in 1..Len(bytes) :
              /\ d < e /\ bytes[e] = NL
              /\ AfterLine(rest) = SubSeq(bytes, e + 1, Len(bytes))
              /\ FirstLine(rest) = <<>> =>
                    UpTo(LineEnds(bytes), e) = UpTo(LineEnds(bytes), d)
              /\ FirstLine(rest) # <<>> =>
                    /\ UpTo(LineEnds(bytes), e) = UpTo(LineEnds(bytes), d) \cup {e}
                    /\ LineAt(bytes, e) = FirstLine(rest)
<1> DEFINE f == FirstLine(rest)
           n == Len(f)
           e == d + n + 1
<1>1. /\ rest \in Seq(S) /\ Len(rest) = Len(bytes) - d
      /\ \A i \in 1..(Len(bytes) - d) : rest[i] = bytes[d + i]
  BY Cut
<1>2. /\ f \in Seq(S) /\ AfterLine(rest) \in Seq(S)
      /\ n \in Nat /\ n < Len(rest) /\ rest[n + 1] = NL
      /\ \A i \in 1..n : f[i] # NL /\ f[i] = rest[i]
      /\ AfterLine(rest) = SubSeq(rest, n + 2, Len(rest))
  BY <1>1, FirstLineIs
<1>3. f = <<>> <=> n = 0
  BY <1>2, EmptySeq
<1>4. Len(bytes) \in Nat /\ d \in Nat /\ d <= Len(bytes)
  OBVIOUS
<1> HIDE DEF f, n
<1>5. e \in 1..Len(bytes) /\ d < e
  BY <1>1, <1>2, <1>4
<1>6. bytes[e] = NL
  <2>1. n + 1 \in 1..(Len(bytes) - d) /\ d + (n + 1) = e
    BY <1>1, <1>2, <1>4
  <2> QED BY <1>1, <1>2, <2>1
<1>7. \A i \in 1..n : bytes[d + i] # NL /\ bytes[d + i] = f[i]
  <2>1. \A i \in 1..n : i \in 1..(Len(bytes) - d)
    BY <1>1, <1>2, <1>4
  <2> QED BY <1>1, <1>2, <2>1
<1>8. \A j \in (d + 1)..(e - 1) : bytes[j] # NL
  <2>1. \A j \in (d + 1)..(e - 1) : j - d \in 1..n /\ d + (j - d) = j
    BY <1>2, <1>4
  <2> QED BY <1>7, <2>1
<1>9. AfterLine(rest) = SubSeq(bytes, e + 1, Len(bytes))
  <2> DEFINE a == SubSeq(bytes, e + 1, Len(bytes))
             l == Len(bytes) - e
  <2>0. e \in 0..Len(bytes) /\ l \in Nat
    BY <1>4, <1>5
  <2>1. /\ a \in Seq(S) /\ Len(a) = l
        /\ \A i \in 1..l : a[i] = bytes[e + i]
    BY <2>0, Cut
  <2> DEFINE m == n + 1
  <2>m. n + 2 = m + 1 /\ m \in 0..Len(rest) /\ Len(rest) - m = l /\ m \in Nat
        /\ d + m = e
    BY <1>1, <1>2, <1>4
  <2> HIDE DEF m
  <2>2. AfterLine(rest) = SubSeq(rest, m + 1, Len(rest))
    BY <1>2, <2>m
  <2>3. /\ AfterLine(rest) \in Seq(S) /\ Len(AfterLine(rest)) = l
        /\ \A i \in 1..l : AfterLine(rest)[i] = rest[m + i]
    <3> DEFINE c == SubSeq(rest, m + 1, Len(rest))
    <3>1. /\ c \in Seq(S) /\ Len(c) = Len(rest) - m
          /\ \A i \in 1..(Len(rest) - m) : c[i] = rest[m + i]
      BY <1>1, <2>m, Cut
    <3> HIDE DEF c, l
    <3> QED BY <2>m, <2>2, <3>1 DEF c
  <2>4. ASSUME NEW i \in 1..l PROVE rest[m + i] = bytes[e + i]
    <3> HIDE DEF e
    <3>1. m + i \in 1..(Len(bytes) - d) /\ d + (m + i) = e + i
      BY <1>4, <1>5, <2>m
    <3> QED BY <1>1, <3>1
  <2> HIDE DEF a, l, e
  <2>5. \A i \in 1..Len(a) : a[i] = AfterLine(rest)[i]
    BY <2>1, <2>3, <2>4
  <2>6. a = AfterLine(rest)
    BY <2>1, <2>3, <2>5, SeqEqual
  <2> QED BY <2>6 DEF a
<1> HIDE DEF e
<1>10. \A x \in LineEnds(bytes) : x <= e /\ ~(x <= d) => x = e
  <2>1. ASSUME NEW x \in LineEnds(bytes), x <= e, ~(x <= d), x # e PROVE FALSE
    <3>1. x \in 2..Len(bytes) /\ bytes[x] = NL
      BY DEF LineEnds
    <3>2. x \in (d + 1)..(e - 1)
      BY <1>4, <1>5, <2>1, <3>1
    <3> QED BY <1>8, <3>1, <3>2
  <2> QED BY <2>1
<1>11. \A x \in LineEnds(bytes) : x <= d => x <= e
  BY <1>4, <1>5 DEF LineEnds
<1>12. ~(e <= d) /\ e <= e /\ e \in Nat
  BY <1>4, <1>5
<1>13. CASE n = 0
  <2>1. e = d + 1
    BY <1>4, <1>13 DEF e
  <2>2. e \notin LineEnds(bytes)
    <3>1. CASE d = 0
      BY <2>1, <3>1 DEF LineEnds
    <3>2. CASE d > 0
      <4>1. e - 1 = d
        BY <1>4, <2>1
      <4> QED BY <3>2, <4>1 DEF LineEnds
    <3> QED BY <1>4, <3>1, <3>2
  <2>3. UpTo(LineEnds(bytes), e) = UpTo(LineEnds(bytes), d)
    BY <1>10, <1>11, <2>2 DEF UpTo
  <2> QED BY <1>3, <1>5, <1>6, <1>9, <1>13, <2>3 DEF f
<1>14. CASE n # 0
  <2>1. e - 1 \in (d + 1)..(e - 1) /\ e \in 2..Len(bytes)
    BY <1>2, <1>4, <1>5, <1>14 DEF e
  <2>2. e \in LineEnds(bytes)
    BY <1>6, <1>8, <2>1 DEF LineEnds
  <2>3. UpTo(LineEnds(bytes), e) = UpTo(LineEnds(bytes), d) \cup {e}
    BY <1>10, <1>11, <1>12, <2>2 DEF UpTo
  <2>4. d \in 0..(e - 1)
    BY <1>4, <1>5
  <2>5. LineAt(bytes, e) = SubSeq(bytes, d + 1, e - 1)
    BY <1>5, <1>8, <2>4, LineAtIs
  <2>6. SubSeq(bytes, d + 1, e - 1) = f
    <3> DEFINE g == SubSeq(bytes, d + 1, e - 1)
    <3>1. e - 1 = d + n /\ d + 1 \in Int /\ e - 1 \in Int
      BY <1>2, <1>4 DEF e
    <3>2. \A i \in (d + 1)..(e - 1) : bytes[i] \in S
      BY <1>4, <1>5
    <3>3. /\ g \in Seq(S) /\ Len(g) = IF d + 1 <= e - 1 THEN (e - 1) - (d + 1) + 1 ELSE 0
          /\ \A i \in 1..((e - 1) - (d + 1) + 1) : g[i] = bytes[(d + 1) + i - 1]
      BY <3>1, <3>2, SubSeqProperties
    <3> HIDE DEF g
    <3>4. (e - 1) - (d + 1) + 1 = n /\ d + 1 <= e - 1
      BY <1>2, <1>4, <1>14, <3>1
    <3>5. Len(g) = n
      BY <3>3, <3>4
    <3>6. \A i \in 1..n : g[i] = f[i]
      <4>1. \A i \in 1..n : (d + 1) + i - 1 = d + i
        BY <1>2, <1>4
      <4> QED BY <1>7, <3>3, <3>4, <4>1
    <3>7. Len(f) = n
      BY DEF n
    <3>8. g = f
      BY <1>2, <3>3, <3>5, <3>6, <3>7, SeqEqual
    <3> QED BY <3>8 DEF g
  <2> QED BY <1>3, <1>5, <1>6, <1>9, <1>14, <2>3, <2>5, <2>6 DEF f
<1> QED BY <1>13, <1>14

\* The next line comes after those before it.
LEMMA LinesAppend ==
    ASSUME NEW S, NEW bytes \in Seq(S), NEW d \in Nat, NEW e \in Nat, d < e,
           UpTo(LineEnds(bytes), e) = UpTo(LineEnds(bytes), d) \cup {e}
    PROVE  LinesEnding(bytes, UpTo(LineEnds(bytes), e))
             = Append(LinesEnding(bytes, UpTo(LineEnds(bytes), d)), LineAt(bytes, e))
<1> DEFINE E == UpTo(LineEnds(bytes), d)
           F == E \cup {e}
           n == Cardinality(E)
           s == LinesEnding(bytes, E)
           t == LinesEnding(bytes, F)
           T == {LineAt(bytes, Nth(E, k)) : k \in 1..n} \cup {LineAt(bytes, e)}
<1>1. E \subseteq Nat /\ IsFiniteSet(E) /\ n \in Nat
  <2>1. LineEnds(bytes) \subseteq Nat /\ IsFiniteSet(LineEnds(bytes))
    BY EndsAreNumbers
  <2>2. E \subseteq LineEnds(bytes)
    BY DEF UpTo
  <2> QED BY <2>1, <2>2, NthOfPart
<1>2. e > 0 /\ \A x \in E : x < e
  BY <1>1 DEF UpTo
<1> HIDE DEF E
<1>3. /\ Cardinality(F) = n + 1
      /\ \A k \in 1..n : Nth(F, k) = Nth(E, k)
      /\ Nth(F, n + 1) = e
  BY <1>1, <1>2, NthAdded
<1>4. IsFiniteSet(F)
  BY <1>1, FS_AddElement
<1>5. /\ s \in Seq({LineAt(bytes, Nth(E, k)) : k \in 1..n}) /\ Len(s) = n
      /\ \A k \in 1..n : s[k] = LineAt(bytes, Nth(E, k))
  BY <1>1, LinesAreSeq
<1>6. s \in Seq(T)
  <2> DEFINE R == {LineAt(bytes, Nth(E, k)) : k \in 1..n}
  <2>1. s \in Seq(R) /\ R \subseteq T
    BY <1>5
  <2> HIDE DEF R, T, s
  <2> QED BY <2>1
<1>7. t = [k \in 1..(n + 1) |-> LineAt(bytes, Nth(F, k))]
  BY <1>3 DEF LinesEnding
<1>8. \A k \in 1..(n + 1) : t[k] = IF k <= n THEN s[k] ELSE LineAt(bytes, e)
  <2>1. \A k \in 1..(n + 1) : t[k] = LineAt(bytes, Nth(F, k))
    BY <1>7
  <2>2. \A k \in 1..(n + 1) : k \in 1..n \/ k = n + 1
    BY <1>1
  <2> HIDE DEF t, s, F
  <2> QED BY <1>1, <1>3, <1>5, <2>1, <2>2
<1> DEFINE l == LineAt(bytes, e)
           u == Append(s, l)
<1>9. l \in T
  OBVIOUS
<1> HIDE DEF n, s, T, F, l
<1>10. /\ u \in Seq(T) /\ Len(u) = n + 1
       /\ \A k \in 1..(n + 1) : u[k] = IF k <= n THEN s[k] ELSE l
  BY <1>1, <1>5, <1>6, <1>9, AppendProperties
<1>11. DOMAIN t = 1..(n + 1)
  BY <1>7
<1> HIDE DEF t
<1>12. t \in Seq(T) /\ Len(t) = n + 1
  <2>1. t \in [1..(n + 1) -> T]
    <3>1. \A k \in 1..(n + 1) : t[k] \in T
      BY <1>8, <1>10 DEF l
    <3> QED BY <1>7, <3>1
  <2> QED BY <1>1, <2>1, FunctionIsSeq
<1>13. t = u
  <2>1. \A k \in 1..Len(t) : t[k] = u[k]
    BY <1>8, <1>10, <1>12 DEF l
  <2> QED BY <1>10, <1>12, <2>1, SeqEqual
<1> QED BY <1>13 DEF t, u, s, l, F, E

-----------------------------------------------------------------------------
(* The policies that reach the daemon.                                     *)

ClientPcs == {"start", "checked", "answer", "events", "closed", "refused",
              "aborted"}
HandlerPcs == {"recv", "lines", "stream", "closed", "dead"}

\* What the daemon may have installed.
Installable(p) ==
    p \in PolicyType /\ CanCompile(p, Stat) /\ p.version <= IntRange \div 2 - 1

\* The types, of the bytes under way to the handler too.
Types ==
    /\ kind \in Kinds /\ file \in Document
    /\ cl = [pc |-> cl.pc, pending |-> cl.pending, got |-> cl.got,
             shown |-> cl.shown, gaveUp |-> cl.gaveUp]
    /\ cl.pc \in ClientPcs
    /\ toD \in Seq(Token)
    /\ hd = [pc |-> hd.pc, buf |-> hd.buf]
    /\ hd.pc \in HandlerPcs /\ hd.buf \in Seq(Token)
    /\ edits \in 0..MaxEdits /\ streamed \in 0..MaxEvents
    /\ running \in BOOLEAN /\ applies \in BOOLEAN
    /\ current # NoPolicy => Installable(current)
    /\ replies \in Seq(Replies)

\* What status, list, stop and policy load ask for, in one text.
Asking == kind \in {"ask", "load"}

Req == Request("load_policy", file)

Requests ==
    IF kind = "load" THEN {Req}
    ELSE {Request(c, Absent) : c \in {"status", "list", "stop"}}

\* The request under way, in one or in two parts, or nothing under way.
UnderWay(x) ==
    /\ replies = <<>>
    /\ \/ hd.buf = <<>> /\ toD = <<x, NL>>
       \/ hd.buf = <<x>> /\ toD = <<NL>>
       \/ hd.buf = <<x, NL>> /\ toD = <<>>

Nothing == hd.buf = <<>> /\ toD = <<>>

\* A guardctl sends one request, never before its check of the file, and the
\* handler answers it once.
RequestInv ==
    Asking =>
        /\ cl.pc # "events" /\ hd.pc \in {"recv", "lines", "closed"}
        /\ cl.pc = "checked" => kind = "load"
        /\ cl.pc \in {"start", "checked", "refused", "aborted"} =>
              Nothing /\ replies = <<>>
        /\ cl.pc \in {"answer", "closed"} =>
              /\ kind = "load" => file \notin {NotJson, OutOfRange}
              /\ Nothing \/ \E x \in Requests : UnderWay(x)

\* The file is sent as it was checked unless somebody changed it, and answered
\* with ok if it is.
LoadInv ==
    kind = "load" =>
        /\ cl.pc \in {"checked", "answer", "closed"} /\ edits = 0 =>
              from_json(file) = "ok" /\ CanCompile(PolicyOf(file), Stat)
        /\ edits = 0 /\ applies /\ replies # <<>> => replies[1].ok

\* The answer on its way back, in one or in two parts.  A client that got none
\* has given up, or met the end of the stream, after which nothing is answered.
AnswerInv ==
    Asking =>
        /\ cl.pc # "closed" =>
              /\ cl.got = NoAnswer
              /\ IF replies = <<>> THEN cl.pending = <<>> /\ toC = <<>>
                 ELSE \/ cl.pending = <<>> /\ toC = <<replies[1], NL>>
                      \/ cl.pending = <<replies[1]>> /\ toC = <<NL>>
        /\ cl.pc = "closed" =>
              \/ cl.got = NoAnswer /\ cl.gaveUp
              \/ cl.got = NoAnswer /\ replies = <<>> /\ hd.pc = "closed"
              \/ cl.got = replies[1] /\ replies # <<>>

\* A request changes the current policy only to one that compiles, and every
\* request has an answer.
LEMMA RequestEffect ==
    ASSUME NEW cur, cur # NoPolicy => Installable(cur), NEW req \in JsonRequest
    PROVE  /\ handle_request(cur, req).answer \in Replies
           /\ handle_request(cur, req).policy # NoPolicy =>
                 Installable(handle_request(cur, req).policy)
<1> DEFINE same(a) == [answer |-> a, policy |-> cur]
           r == handle_request(cur, req)
<1>1. VersionOf(cur) \in Int
  BY DEF VersionOf, Installable, PolicyType
<1>2. CASE req.cmd = "load_policy" /\ Given(req.policy)
  <2> DEFINE doc == req.policy
             parsed == from_json(doc)
  <2>1. r = LoadPolicy(cur, doc)
    BY <1>2 DEF handle_request
  <2>2. doc \in JsonPolicy /\ doc \in Document
    BY <1>2 DEF JsonRequest, Given, Document
  <2>3. CASE parsed # "ok"
    <3>1. r = [answer |-> Answer(FALSE, IF parsed = "error" THEN "error"
                                        ELSE "internal", 0), policy |-> cur]
      BY <2>1, <2>3 DEF LoadPolicy
    <3> QED BY <3>1 DEF Answer, Replies
  <2>4. CASE parsed = "ok" /\ ~(CanCompile(PolicyOf(doc), Stat) /\ applies)
    <3>1. r = [answer |-> Answer(FALSE, "error", 0), policy |-> cur]
      BY <2>1, <2>4 DEF LoadPolicy
    <3> QED BY <3>1 DEF Answer, Replies
  <2>5. CASE parsed = "ok" /\ CanCompile(PolicyOf(doc), Stat) /\ applies
    <3>1. r = [answer |-> Answer(TRUE, "policy_version", PolicyOf(doc).version),
               policy |-> PolicyOf(doc)]
      BY <2>1, <2>5 DEF LoadPolicy
    <3>2. Accepted(doc)
      BY <2>2, <2>5, FromJson
    <3>3. /\ PolicyOf(doc) \in PolicyType
          /\ PolicyOf(doc).version \in Int32
      BY <2>2, <3>2, PolicyParts
    <3>4. PolicyOf(doc).version \in Int /\ PolicyOf(doc).version <= IntRange \div 2 - 1
      BY <3>3, ParserAssumption DEF Int32
    <3>5. Installable(PolicyOf(doc))
      BY <2>5, <3>3, <3>4 DEF Installable
    <3> QED BY <3>1, <3>4, <3>5 DEF Answer, Replies
  <2> QED BY <2>3, <2>4, <2>5
<1>3. CASE ~(req.cmd = "load_policy" /\ Given(req.policy))
  <2>1. \/ r = same(Answer(TRUE, "status", VersionOf(cur)))
        \/ r = same(Answer(TRUE, "rules", VersionOf(cur)))
        \/ r = same(Answer(TRUE, "stream", 0))
        \/ r = same(Answer(TRUE, "message", 0))
        \/ r = same(Answer(FALSE, "error", 0))
    <3>1. CASE req.cmd = "status"
      BY <3>1 DEF handle_request
    <3>2. CASE req.cmd = "list"
      BY <3>2 DEF handle_request
    <3>3. CASE req.cmd = "stream"
      BY <3>3 DEF handle_request
    <3>4. CASE req.cmd = "stop"
      BY <3>4 DEF handle_request
    <3>5. CASE req.cmd \notin {"status", "list", "stream", "stop"}
      BY <1>3, <3>5 DEF handle_request
    <3> QED BY <3>1, <3>2, <3>3, <3>4, <3>5
  <2>2. /\ Answer(TRUE, "status", VersionOf(cur)) \in Replies
        /\ Answer(TRUE, "rules", VersionOf(cur)) \in Replies
        /\ Answer(TRUE, "stream", 0) \in Replies
        /\ Answer(TRUE, "message", 0) \in Replies
        /\ Answer(FALSE, "error", 0) \in Replies
    BY <1>1 DEF Answer, Replies
  <2>3. PICK a \in Replies : r = same(a)
    BY <2>1, <2>2
  <2>4. r.answer = a /\ r.policy = cur
    BY <2>3
  <2> QED BY <2>4
<1> QED BY <1>2, <1>3

\* A line the handler takes for a request is one.
LEMMA ParsedRequest ==
    ASSUME NEW bytes \in Seq(Token), HasLine(bytes), FirstLine(bytes) # <<>>,
           Parse(FirstLine(bytes)) # NotJson, ~Terminates(Parse(FirstLine(bytes)))
    PROVE  Parse(FirstLine(bytes)) \in JsonRequest
<1> DEFINE f == FirstLine(bytes)
<1>1. f \in Seq(Token) /\ \A i \in 1..Len(f) : f[i] # NL
  BY FirstLineIs
<1>2. Len(f) \in Nat /\ Len(f) >= 1 /\ Parse(f) = f[1]
  <2>1. Parse(f) = f[1]
    BY DEF Parse
  <2>2. f # <<>>
    OBVIOUS
  <2> HIDE DEF f
  <2> QED BY <1>1, <2>1, <2>2
<1>3. Parse(f) \in Token /\ Parse(f) # NL
  <2> HIDE DEF f
  <2> QED BY <1>1, <1>2
<1>4. Parse(f) # Other /\ Parse(f) # OutOfRange /\ Parse(f) # NotJson
  BY DEF Terminates
<1> QED BY <1>3, <1>4 DEF Token

\* The types are inductive.
LEMMA TypesStep ==
    ASSUME Types, [Next]_vars
    PROVE  Types'
<1>0. /\ cl = [pc |-> cl.pc, pending |-> cl.pending, got |-> cl.got,
               shown |-> cl.shown, gaveUp |-> cl.gaveUp]
      /\ hd = [pc |-> hd.pc, buf |-> hd.buf]
  BY DEF Types
<1>r. ASSUME NEW a \in Replies, replies' = Append(replies, a)
      PROVE  replies' \in Seq(Replies)
  <2>1. replies \in Seq(Replies)
    BY DEF Types
  <2> QED BY <1>r, <2>1
<1>1. CASE HandlerRecv
  <2>1. PICK n \in 1..Len(toD) :
          /\ hd' = [pc |-> "lines", buf |-> hd.buf \o SubSeq(toD, 1, n)]
          /\ toD' = SubSeq(toD, n + 1, Len(toD))
    BY <1>1 DEF HandlerRecv
  <2>2. toD \in Seq(Token) /\ hd.buf \in Seq(Token) /\ n \in 0..Len(toD)
    BY DEF Types
  <2>3. SubSeq(toD, 1, n) \in Seq(Token) /\ SubSeq(toD, n + 1, Len(toD)) \in Seq(Token)
    BY <2>2, Cut
  <2>4. hd.buf \o SubSeq(toD, 1, n) \in Seq(Token)
    BY <2>2, <2>3, ConcatProperties
  <2>5. /\ toD' \in Seq(Token) /\ hd' = [pc |-> hd'.pc, buf |-> hd'.buf]
        /\ hd'.pc = "lines" /\ hd'.buf \in Seq(Token)
    BY <2>1, <2>3, <2>4
  <2> QED BY <1>1, <2>5 DEF HandlerRecv, Types, client, HandlerPcs
<1>2. CASE HandlerClose \/ NoMoreLines \/ StreamClose
  <2>1. /\ hd' = [pc |-> hd'.pc, buf |-> hd'.buf]
        /\ hd'.pc \in {"recv", "closed"} /\ hd'.buf = hd.buf
    BY <1>0, <1>2 DEF HandlerClose, NoMoreLines, StreamClose
  <2> QED BY <1>2, <2>1
             DEF HandlerClose, NoMoreLines, StreamClose, Types, client,
                 HandlerPcs
<1>3. CASE EmptyLine
  <2>1. AfterLine(hd.buf) \in Seq(Token)
    BY <1>3, FirstLineIs DEF EmptyLine, Types
  <2>2. /\ hd' = [pc |-> hd'.pc, buf |-> hd'.buf]
        /\ hd'.pc = hd.pc /\ hd'.buf = AfterLine(hd.buf)
    BY <1>0, <1>3 DEF EmptyLine
  <2> QED BY <1>3, <2>1, <2>2 DEF EmptyLine, Types, client
<1>4. CASE HandleLine
  <2> DEFINE req == Parse(FirstLine(hd.buf))
             r == handle_request(current, req)
  <2>1. /\ hd.pc = "lines" /\ HasLine(hd.buf) /\ FirstLine(hd.buf) # <<>>
        /\ ~Terminates(req) /\ hd.buf \in Seq(Token)
    BY <1>4 DEF HandleLine, Types
  <2>2. AfterLine(hd.buf) \in Seq(Token)
    BY <2>1, FirstLineIs
  <2>3. UNCHANGED <<kind, cl, file, edits, applies, toD, streamed>>
    BY <1>4 DEF HandleLine, client
  <2>4. CASE req = NotJson
    <3>1. /\ replies' = Append(replies, Answer(FALSE, "error", 0))
          /\ hd' = [hd EXCEPT !.buf = AfterLine(@)]
          /\ UNCHANGED <<current, running>>
      BY <1>4, <2>4 DEF HandleLine, Reply
    <3>2. Answer(FALSE, "error", 0) \in Replies
      BY DEF Answer, Replies
    <3>3. replies' \in Seq(Replies)
      BY <1>r, <3>1, <3>2
    <3>4. /\ hd' = [pc |-> hd'.pc, buf |-> hd'.buf]
          /\ hd'.pc = hd.pc /\ hd'.buf = AfterLine(hd.buf)
      BY <1>0, <3>1
    <3> QED BY <2>2, <2>3, <3>1, <3>3, <3>4 DEF Types
  <2>5. CASE req # NotJson
    <3>1. req \in JsonRequest
      BY <2>1, <2>5, ParsedRequest
    <3>2. /\ replies' = Append(replies, r.answer) /\ current' = r.policy
          /\ running' = (running /\ req.cmd # "stop")
          /\ hd' = [pc  |-> IF req.cmd = "stream" THEN "stream" ELSE "lines",
                    buf |-> AfterLine(hd.buf)]
      BY <1>4, <2>5 DEF HandleLine, Reply
    <3> HIDE DEF req
    <3>3. r.answer \in Replies /\ (r.policy # NoPolicy => Installable(r.policy))
      BY <3>1, RequestEffect DEF Types
    <3> HIDE DEF r
    <3>4. replies' \in Seq(Replies)
      BY <1>r, <3>2, <3>3
    <3>5. /\ hd' = [pc |-> hd'.pc, buf |-> hd'.buf]
          /\ hd'.pc \in HandlerPcs /\ hd'.buf = AfterLine(hd.buf)
      BY <3>2 DEF HandlerPcs
    <3>6. (current # NoPolicy => Installable(current))'
      BY <3>2, <3>3 DEF Installable
    <3>7. running' \in BOOLEAN
      BY <3>2
    <3> QED BY <2>2, <2>3, <3>4, <3>5, <3>6, <3>7 DEF Types
  <2> QED BY <2>4, <2>5
<1>5. CASE HandlerTerminate
  <2>1. /\ hd' = [pc |-> hd'.pc, buf |-> hd'.buf]
        /\ hd'.pc = "dead" /\ hd'.buf = hd.buf
    BY <1>0, <1>5 DEF HandlerTerminate
  <2> QED BY <1>5, <2>1 DEF HandlerTerminate, Types, client, HandlerPcs
<1>6. CASE StreamEvent
  <2>1. streamed' \in 0..MaxEvents
    BY <1>6, ConnectionAssumption DEF StreamEvent, Types
  <2> QED BY <1>6, <2>1 DEF StreamEvent, Types, client
<1>7. CASE StopElsewhere
  BY <1>7 DEF StopElsewhere, Types, client
<1>s. ASSUME NEW bytes \in Seq(Token), NEW pc \in ClientPcs, Send(bytes, pc)
      PROVE  /\ toD' \in Seq(Token) /\ cl'.pc \in ClientPcs
             /\ cl' = [pc |-> cl'.pc, pending |-> cl'.pending, got |-> cl'.got,
                       shown |-> cl'.shown, gaveUp |-> cl'.gaveUp]
  BY <1>0, <1>s DEF Send
<1>8. CASE ClientSend
  <2>1. \A c \in {"status", "list", "stop", "stream"} :
           <<Request(c, Absent), NL>> \in Seq(Token)
    <3>1. \A c \in {"status", "list", "stop", "stream"} : Request(c, Absent) \in Token
      BY ConnectionAssumption DEF Request, Token, JsonRequest, Member
    <3> QED BY <3>1 DEF Token
  <2>2. \E bytes \in Seq(Token), pc \in ClientPcs : Send(bytes, pc)
    BY <1>8, <2>1, ConnectionAssumption DEF ClientSend, ClientPcs
  <2>3. UNCHANGED <<kind, file, edits, applies, toC, daemon>>
    BY <1>8 DEF ClientSend
  <2> QED BY <1>s, <2>2, <2>3 DEF Types, daemon
<1>9. CASE LoadCheck
  <2>1. from_json(file) \in Result
    BY FromJson DEF Types
  <2>2. /\ cl' = [pc |-> cl'.pc, pending |-> cl'.pending, got |-> cl'.got,
                  shown |-> cl'.shown, gaveUp |-> cl'.gaveUp]
        /\ cl'.pc \in ClientPcs
    BY <1>0, <1>9, <2>1 DEF LoadCheck, Result, ClientPcs
  <2> QED BY <1>9, <2>2 DEF LoadCheck, Types, daemon
<1>10. CASE LoadSend
  <2>1. CASE file \in {NotJson, OutOfRange}
    <3>1. /\ cl' = [pc |-> cl'.pc, pending |-> cl'.pending, got |-> cl'.got,
                    shown |-> cl'.shown, gaveUp |-> cl'.gaveUp]
          /\ cl'.pc = "aborted" /\ toD' = toD
      BY <1>0, <1>10, <2>1 DEF LoadSend
    <3> QED BY <1>10, <3>1 DEF LoadSend, Types, daemon, ClientPcs
  <2>2. CASE file \notin {NotJson, OutOfRange}
    <3>1. <<Req, NL>> \in Seq(Token)
      <4>1. Req \in Token
        BY <2>2, ConnectionAssumption
           DEF Req, Request, Token, JsonRequest, Member, Types, Document
      <4> QED BY <4>1 DEF Token
    <3>2. Send(<<Req, NL>>, "answer")
      BY <1>10, <2>2 DEF LoadSend, Req
    <3>3. /\ toD' \in Seq(Token) /\ cl'.pc \in ClientPcs
          /\ cl' = [pc |-> cl'.pc, pending |-> cl'.pending, got |-> cl'.got,
                    shown |-> cl'.shown, gaveUp |-> cl'.gaveUp]
      BY <1>s, <3>1, <3>2 DEF ClientPcs
    <3> QED BY <1>10, <3>3 DEF LoadSend, Types, daemon
  <2> QED BY <2>1, <2>2
<1>11. CASE Edit
  <2>1. file' \in Document /\ edits' \in 0..MaxEdits
    BY <1>11, ConnectionAssumption DEF Edit, Types
  <2> QED BY <1>11, <2>1 DEF Edit, Types, daemon
<1>12. CASE ClientAnswer \/ ClientEof \/ ClientGiveUp \/ ClientEvents
  <2>1. /\ cl' = [pc |-> cl'.pc, pending |-> cl'.pending, got |-> cl'.got,
                  shown |-> cl'.shown, gaveUp |-> cl'.gaveUp]
        /\ cl'.pc \in {cl.pc, "closed"}
    <3>1. CASE ClientAnswer
      BY <1>0, <3>1 DEF ClientAnswer
    <3>2. CASE ClientEof
      BY <1>0, <3>2 DEF ClientEof
    <3>3. CASE ClientEvents
      BY <1>0, <3>3 DEF ClientEvents
    <3>4. CASE ClientGiveUp
      BY <1>0, <3>4 DEF ClientGiveUp
    <3> QED BY <1>12, <3>1, <3>2, <3>3, <3>4
  <2> QED BY <1>12, <2>1
             DEF ClientAnswer, ClientEof, ClientGiveUp, ClientEvents, Types,
                 daemon, ClientPcs
<1>13. CASE UNCHANGED vars
  BY <1>13 DEF vars, Types, Installable
<1> QED BY <1>1, <1>2, <1>3, <1>4, <1>5, <1>6, <1>7, <1>8, <1>9, <1>10, <1>11,
           <1>12, <1>13 DEF Next

-----------------------------------------------------------------------------
(* The theorems about the connection.                                      *)

\* The types hold initially.
LEMMA InitTypes == Init => Types
<1> SUFFICES ASSUME Init PROVE Types
  OBVIOUS
<1>1. file \in Document
  BY ConnectionAssumption DEF Init, Document
<1>2. 0 \in 0..MaxEdits /\ 0 \in 0..MaxEvents
  BY ConnectionAssumption
<1>3. /\ cl = [pc |-> cl.pc, pending |-> cl.pending, got |-> cl.got,
               shown |-> cl.shown, gaveUp |-> cl.gaveUp]
      /\ hd = [pc |-> hd.pc, buf |-> hd.buf]
      /\ cl.pc = "start" /\ hd.pc = "recv" /\ hd.buf = <<>>
  BY DEF Init
<1> QED BY <1>1, <1>2, <1>3 DEF Init, Types, ClientPcs, HandlerPcs

\* Every type is kept, and whatever the daemon has installed is valid and has a
\* version that an int32_t holds.
THEOREM TypeCorrect == Spec => []TypeOK
<1>1. Types => TypeOK
  <2> SUFFICES ASSUME Types PROVE TypeOK
    OBVIOUS
  <2>1. current # NoPolicy => validate(current)
    BY DEF Types, Installable, CanCompile
  <2>2. VersionOf(current) \in 0..(IntRange \div 2 - 1)
    <3>1. IntRange \div 2 \in Int /\ 0 <= IntRange \div 2 - 1
      BY CastRange, ParserAssumption
    <3>2. CASE current = NoPolicy
      BY <3>1, <3>2 DEF VersionOf
    <3>3. CASE current # NoPolicy
      <4>1. current.version \in Int /\ current.version <= IntRange \div 2 - 1
        BY <3>3 DEF Types, Installable, PolicyType
      <4>2. current.version >= 0
        BY <2>1, <3>3 DEF validate
      <4> QED BY <3>1, <3>3, <4>1, <4>2 DEF VersionOf
    <3> QED BY <3>2, <3>3
  <2> QED BY <2>1, <2>2 DEF Types, TypeOK, ClientPcs, HandlerPcs
<1> QED BY <1>1, InitTypes, TypesStep, PTL DEF Spec

\* The request of a guardctl is one text that is not the newline, and the
\* handler takes it for a request.
LEMMA RequestIsText ==
    ASSUME Types, Asking, kind = "load" => file \notin {NotJson, OutOfRange},
           NEW x \in Requests
    PROVE  /\ x \in JsonRequest /\ x # NL /\ x \notin {NotJson, Other, OutOfRange}
           /\ Parse(<<x>>) = x /\ ~Terminates(x) /\ x.cmd # "stream"
           /\ kind = "load" => x = Req
<1>1. PICK c \in {"load_policy", "status", "list", "stop"},
           d \in JsonPolicy \cup {Absent, Other} :
        x = Request(c, d) /\ (kind = "load" => x = Req)
  <2>1. CASE kind = "load"
    <3>1. file \in JsonPolicy \cup {Absent, Other}
      BY <2>1 DEF Types, Document
    <3> QED BY <2>1, <3>1 DEF Requests, Req
  <2>2. CASE kind # "load"
    BY <2>2 DEF Requests
  <2> QED BY <2>1, <2>2
<1>2. x = [cmd |-> c, policy |-> d] /\ x.cmd = c
  BY <1>1 DEF Request
<1>3. c \in Text /\ c # Other
  <2>1. c \in Text
    BY ConnectionAssumption
  <2> QED BY <2>1, ParserAssumption
<1>4. x \in JsonRequest
  BY <1>2, <1>3 DEF JsonRequest, Member
<1>5. x # NL /\ x \notin {NotJson, Other, OutOfRange}
  BY <1>4, ConnectionAssumption
<1>6. Parse(<<x>>) = x
  BY DEF Parse
<1>7. ~Terminates(x) /\ x.cmd # "stream"
  BY <1>2, <1>3, <1>5 DEF Terminates
<1> QED BY <1>1, <1>4, <1>5, <1>6, <1>7

\* A line in the buffer of a guardctl's connection is its request, whole and
\* alone.
LEMMA LineIsRequest ==
    ASSUME Types, RequestInv, Asking, HasLine(hd.buf)
    PROVE  /\ cl.pc \in {"answer", "closed"}
           /\ kind = "load" => file \notin {NotJson, OutOfRange}
           /\ toD = <<>> /\ replies = <<>>
           /\ \E x \in Requests :
                 FirstLine(hd.buf) = <<x>> /\ AfterLine(hd.buf) = <<>>
<1>1. ~HasLine(<<>>)
  BY DEF HasLine, Contains
<1>2. /\ cl.pc \in {"answer", "closed"}
      /\ kind = "load" => file \notin {NotJson, OutOfRange}
      /\ \E x \in Requests : UnderWay(x)
  BY <1>1 DEF RequestInv, Nothing, Types, ClientPcs
<1>3. PICK x \in Requests : UnderWay(x)
  BY <1>2
<1>4. x # NL
  BY <1>2, RequestIsText
<1>5. /\ ~HasLine(<<x>>) /\ FirstLine(<<x, NL>>) = <<x>>
      /\ AfterLine(<<x, NL>>) = <<>>
  BY <1>4, OneRequest
<1> QED BY <1>1, <1>2, <1>3, <1>5 DEF UnderWay

\* A checked policy is accepted when the kernel takes it.
LEMMA CheckedAccepted ==
    ASSUME Types, applies, from_json(file) = "ok",
           CanCompile(PolicyOf(file), Stat)
    PROVE  handle_request(current, Req).answer.ok
<1>1. Req.cmd = "load_policy" /\ Req.policy = file
  BY DEF Req, Request
<1>2. Given(file)
  <2>1. file \in JsonPolicy
    BY FromJson DEF Types
  <2> QED BY <2>1, ParserAssumption DEF Given
<1>3. handle_request(current, Req) = LoadPolicy(current, file)
  BY <1>1, <1>2 DEF handle_request
<1> QED BY <1>3 DEF LoadPolicy, Answer

\* What handle_line does for a guardctl: it answers the one request and leaves
\* nothing to be read.
LEMMA AnswerOnce ==
    ASSUME Types, RequestInv, Asking, HandleLine
    PROVE  /\ cl.pc \in {"answer", "closed"} /\ hd.pc = "lines"
           /\ kind = "load" => file \notin {NotJson, OutOfRange}
           /\ replies = <<>> /\ hd'.pc = "lines" /\ Nothing'
           /\ UNCHANGED client
           /\ \E x \in Requests, a \in Replies :
                 /\ a = handle_request(current, x).answer
                 /\ kind = "load" => x = Req
                 /\ replies' = <<a>> /\ toC' = toC \o <<a, NL>>
<1>1. hd.pc = "lines" /\ HasLine(hd.buf) /\ UNCHANGED <<client, toD>>
  BY DEF HandleLine
<1>2. /\ cl.pc \in {"answer", "closed"}
      /\ kind = "load" => file \notin {NotJson, OutOfRange}
      /\ toD = <<>> /\ replies = <<>>
  BY <1>1, LineIsRequest
<1>3. PICK x \in Requests : FirstLine(hd.buf) = <<x>> /\ AfterLine(hd.buf) = <<>>
  BY <1>1, LineIsRequest
<1>4. /\ x \in JsonRequest /\ x # NotJson /\ Parse(<<x>>) = x
      /\ x.cmd # "stream" /\ (kind = "load" => x = Req)
  BY <1>2, RequestIsText
<1> DEFINE a == handle_request(current, x).answer
<1>5. /\ replies' = Append(replies, a) /\ toC' = toC \o <<a, NL>>
      /\ hd' = [pc  |-> IF x.cmd = "stream" THEN "stream" ELSE "lines",
                buf |-> AfterLine(hd.buf)]
  BY <1>3, <1>4 DEF HandleLine, Reply
<1>6. a \in Replies
  BY <1>4, RequestEffect DEF Types
<1>7. hd'.pc = "lines" /\ hd'.buf = <<>>
  BY <1>3, <1>4, <1>5
<1> HIDE DEF a
<1>8. replies' = <<a>>
  BY <1>2, <1>5
<1>9. Nothing'
  BY <1>1, <1>2, <1>7 DEF Nothing
<1>10. a = handle_request(current, x).answer
  BY DEF a
<1> QED BY <1>1, <1>2, <1>4, <1>5, <1>6, <1>7, <1>8, <1>9, <1>10

\* The client and the kernel's answer stay what they are.
LEMMA Fixed == [Next]_vars => UNCHANGED <<kind, applies>>
  BY DEF Next, HandlerRecv, HandlerClose, NoMoreLines, EmptyLine, HandleLine,
         HandlerTerminate, StreamEvent, StreamClose, StopElsewhere, ClientSend,
         LoadCheck, LoadSend, Edit, ClientAnswer, ClientEof, ClientGiveUp,
         ClientEvents, client, vars

\* A step of a guardctl's connection: none but these.
LEMMA AskingSteps ==
    ASSUME Types, RequestInv, Asking, Next
    PROVE  \/ HandlerRecv \/ HandlerClose \/ NoMoreLines \/ HandleLine
           \/ StopElsewhere \/ ClientSend \/ LoadCheck \/ LoadSend \/ Edit
           \/ ClientAnswer \/ ClientEof \/ ClientGiveUp
<1>1. cl.pc # "events" /\ hd.pc \in {"recv", "lines", "closed"}
  BY DEF RequestInv
<1>2. ~StreamEvent /\ ~StreamClose /\ ~ClientEvents
  BY <1>1 DEF StreamEvent, StreamClose, ClientEvents
<1>3. ASSUME EmptyLine \/ HandlerTerminate PROVE FALSE
  <2>1. HasLine(hd.buf)
    BY <1>3 DEF EmptyLine, HandlerTerminate
  <2>2. PICK x \in Requests : FirstLine(hd.buf) = <<x>>
    BY <2>1, LineIsRequest
  <2>3. kind = "load" => file \notin {NotJson, OutOfRange}
    BY <2>1, LineIsRequest
  <2>4. Parse(<<x>>) = x /\ ~Terminates(x)
    BY <2>3, RequestIsText
  <2> QED BY <1>3, <2>2, <2>4 DEF EmptyLine, HandlerTerminate
<1> QED BY <1>2, <1>3 DEF Next

\* One request is sent, once, and answered at most once.
LEMMA RequestStep ==
    ASSUME Types, RequestInv, [Next]_vars
    PROVE  RequestInv'
<1>k. kind' = kind
  BY Fixed
<1> SUFFICES ASSUME Asking PROVE RequestInv'
  BY <1>k DEF RequestInv, Asking
<1>0. /\ cl = [pc |-> cl.pc, pending |-> cl.pending, got |-> cl.got,
               shown |-> cl.shown, gaveUp |-> cl.gaveUp]
      /\ hd = [pc |-> hd.pc, buf |-> hd.buf]
      /\ cl.pc \in ClientPcs
  BY DEF Types
<1>p. /\ cl.pc # "events" /\ hd.pc \in {"recv", "lines", "closed"}
      /\ cl.pc = "checked" => kind = "load"
      /\ cl.pc \in {"start", "checked", "refused", "aborted"} =>
            Nothing /\ replies = <<>>
      /\ cl.pc \in {"answer", "closed"} =>
            /\ kind = "load" => file \notin {NotJson, OutOfRange}
            /\ Nothing \/ \E x \in Requests : UnderWay(x)
  BY DEF RequestInv
\* Where the client is left alone, what the handler did decides.
<1>c. ASSUME UNCHANGED client, hd'.pc \in {"recv", "lines", "closed"},
             \/ UNCHANGED <<hd.buf, toD, replies>>
             \/ cl.pc \in {"answer", "closed"}
                /\ (Nothing' \/ \E x \in Requests : UnderWay(x)')
      PROVE  RequestInv'
  <2>0. Requests' = Requests
    BY <1>c DEF Requests, Req, client
  <2>1. CASE UNCHANGED <<hd.buf, toD, replies>>
    <3>1. Nothing' = Nothing
      BY <2>1 DEF Nothing
    <3>2. ASSUME NEW x PROVE UnderWay(x)' = UnderWay(x)
      BY <2>1 DEF UnderWay
    <3> QED BY <1>c, <1>p, <2>0, <2>1, <3>1, <3>2 DEF RequestInv, client
  <2>2. CASE /\ cl.pc \in {"answer", "closed"}
             /\ Nothing' \/ \E x \in Requests : UnderWay(x)'
    BY <1>c, <1>p, <2>0, <2>2 DEF RequestInv, client
  <2> QED BY <1>c, <2>1, <2>2
<1>1. CASE HandlerRecv
  <2>1. PICK n \in 1..Len(toD) :
          /\ hd' = [pc |-> "lines", buf |-> hd.buf \o SubSeq(toD, 1, n)]
          /\ toD' = SubSeq(toD, n + 1, Len(toD))
    BY <1>1 DEF HandlerRecv
  <2>2. UNCHANGED client /\ replies' = replies
    BY <1>1 DEF HandlerRecv
  <2>3. hd'.pc = "lines" /\ hd'.buf = hd.buf \o SubSeq(toD, 1, n)
    BY <2>1
  <2>4. toD # <<>>
    BY <2>1
  <2>5. cl.pc \in {"answer", "closed"}
    BY <1>0, <1>p, <2>4 DEF Nothing, ClientPcs
  <2>6. PICK x \in Requests : UnderWay(x)
    BY <1>p, <2>4, <2>5 DEF Nothing
  <2>7. UnderWay(x)'
    <3>1. CASE hd.buf = <<>> /\ toD = <<x, NL>>
      <4>1. n = 1 \/ n = 2
        BY <3>1, CutRequest
      <4>2. CASE n = 1
        <5>1. hd'.buf = <<x>> /\ toD' = <<NL>>
          BY <2>1, <2>3, <3>1, <4>2, CutRequest
        <5> QED BY <2>2, <2>6, <5>1 DEF UnderWay
      <4>3. CASE n = 2
        <5>1. Len(toD) = 2 /\ n + 1 = 3
          BY <3>1, <4>3, CutRequest
        <5>2. /\ hd'.buf = <<>> \o SubSeq(<<x, NL>>, 1, 2)
              /\ toD' = SubSeq(<<x, NL>>, 3, 2)
          BY <2>1, <2>3, <3>1, <4>3, <5>1
        <5>3. hd'.buf = <<x, NL>> /\ toD' = <<>>
          BY <5>2, CutRequest
        <5> QED BY <2>2, <2>6, <5>3 DEF UnderWay
      <4> QED BY <4>1, <4>2, <4>3
    <3>2. CASE hd.buf = <<x>> /\ toD = <<NL>>
      <4>1. n = 1
        BY <3>2, CutRequest
      <4>2. Len(toD) = 1 /\ n + 1 = 2
        BY <3>2, <4>1, CutRequest
      <4>3. /\ hd'.buf = <<x>> \o SubSeq(<<NL>>, 1, 1)
            /\ toD' = SubSeq(<<NL>>, 2, 1)
        BY <2>1, <2>3, <3>2, <4>1, <4>2
      <4>4. hd'.buf = <<x, NL>> /\ toD' = <<>>
        BY <4>3, CutRequest
      <4> QED BY <2>2, <2>6, <4>4 DEF UnderWay
    <3> QED BY <2>4, <2>6, <3>1, <3>2 DEF UnderWay
  <2> QED BY <1>c, <2>2, <2>3, <2>5, <2>7
<1>2. CASE HandlerClose \/ NoMoreLines
  <2>1. hd'.pc \in {"recv", "closed"} /\ hd'.buf = hd.buf
    BY <1>0, <1>2 DEF HandlerClose, NoMoreLines
  <2>2. UNCHANGED <<client, toD, replies>>
    BY <1>2 DEF HandlerClose, NoMoreLines
  <2> QED BY <1>c, <2>1, <2>2
<1>3. CASE HandleLine
  <2>1. /\ cl.pc \in {"answer", "closed"} /\ UNCHANGED client
        /\ hd'.pc = "lines" /\ Nothing'
    BY <1>3, AnswerOnce
  <2> QED BY <1>c, <2>1
<1>4. CASE StopElsewhere \/ UNCHANGED vars
  <2>1. UNCHANGED <<client, hd, toD, replies>>
    BY <1>4 DEF StopElsewhere, vars, client
  <2>2. hd'.pc = hd.pc /\ hd'.buf = hd.buf
    BY <2>1
  <2> QED BY <1>c, <1>p, <2>1, <2>2
<1>5. CASE ClientSend
  <2>1. /\ UNCHANGED <<kind, file, hd, replies>>
        /\ kind = "ask" /\ cl.pc = "start" /\ Nothing /\ replies = <<>>
    BY <1>5, <1>p DEF ClientSend, daemon, Asking
  <2>2. PICK c \in {"status", "list", "stop"} :
          Send(<<Request(c, Absent), NL>>, "answer")
    BY <1>5, <2>1 DEF ClientSend
  <2>3. cl'.pc = "answer" /\ toD' = <<Request(c, Absent), NL>>
    BY <1>0, <2>2 DEF Send
  <2>4. UnderWay(Request(c, Absent))'
    BY <2>1, <2>3 DEF UnderWay, Nothing
  <2>5. Request(c, Absent) \in Requests'
    BY <2>1 DEF Requests
  <2> QED BY <1>p, <2>1, <2>3, <2>4, <2>5 DEF RequestInv
<1>6. CASE LoadCheck
  <2>1. from_json(file) \in Result /\ cl.pc = "start"
    BY <1>6, FromJson DEF Types, LoadCheck
  <2>2. cl'.pc \in {"aborted", "refused", "checked"}
    BY <1>0, <1>6, <2>1 DEF LoadCheck, Result
  <2>3. /\ UNCHANGED <<kind, toD, hd, replies>> /\ kind = "load"
        /\ Nothing /\ replies = <<>>
    BY <1>6, <1>p, <2>1 DEF LoadCheck, daemon
  <2> QED BY <1>p, <2>2, <2>3 DEF RequestInv, Nothing
<1>7. CASE LoadSend
  <2>1. /\ UNCHANGED <<kind, file, hd, replies>>
        /\ cl.pc = "checked" /\ Nothing /\ replies = <<>>
    BY <1>7, <1>p DEF LoadSend, daemon
  <2>2. CASE file \in {NotJson, OutOfRange}
    <3>1. cl'.pc = "aborted" /\ toD' = toD
      BY <1>0, <1>7, <2>2 DEF LoadSend
    <3> QED BY <1>p, <2>1, <3>1 DEF RequestInv, Nothing
  <2>3. CASE file \notin {NotJson, OutOfRange}
    <3>1. cl'.pc = "answer" /\ toD' = <<Req, NL>>
      BY <1>0, <1>7, <2>3 DEF LoadSend, Send, Req
    <3>2. UnderWay(Req)'
      BY <2>1, <3>1 DEF UnderWay, Nothing, Req
    <3>3. kind = "load"
      BY <1>p, <2>1
    <3>4. Req' \in Requests'
      BY <2>1, <3>3 DEF Requests
    <3> QED BY <1>p, <2>1, <2>3, <3>1, <3>2, <3>4 DEF RequestInv
  <2> QED BY <2>2, <2>3
<1>8. CASE Edit
  <2>1. /\ UNCHANGED <<kind, cl, toD, hd, replies>>
        /\ cl.pc \in {"start", "checked"} /\ Nothing /\ replies = <<>>
    BY <1>8, <1>p DEF Edit, daemon
  <2> QED BY <1>p, <2>1 DEF RequestInv, Nothing
<1>9. CASE ClientAnswer \/ ClientEof \/ ClientGiveUp
  <2>1. cl'.pc \in {cl.pc, "closed"} /\ cl.pc \in {"answer", "events"}
    <3>1. CASE ClientAnswer
      BY <1>0, <3>1 DEF ClientAnswer
    <3>2. CASE ClientEof
      BY <1>0, <3>2 DEF ClientEof
    <3>3. CASE ClientGiveUp
      BY <1>0, <3>3 DEF ClientGiveUp
    <3> QED BY <1>9, <3>1, <3>2, <3>3
  <2>2. UNCHANGED <<kind, file, toD, hd, replies>>
    BY <1>9 DEF ClientAnswer, ClientEof, ClientGiveUp, daemon
  <2>3. cl.pc = "answer" /\ cl'.pc \in {"answer", "closed"}
    BY <1>p, <2>1
  <2>4. Requests' = Requests /\ Nothing' = Nothing
    BY <2>2 DEF Requests, Req, Nothing
  <2>5. ASSUME NEW x PROVE UnderWay(x)' = UnderWay(x)
    BY <2>2 DEF UnderWay
  <2> QED BY <1>p, <2>2, <2>3, <2>4, <2>5 DEF RequestInv
<1> QED BY <1>1, <1>2, <1>3, <1>4, <1>5, <1>6, <1>7, <1>8, <1>9, AskingSteps

\* The file that is sent is the file that was checked, unless it was changed.
LEMMA LoadStep ==
    ASSUME Types, RequestInv, LoadInv, [Next]_vars
    PROVE  LoadInv'
<1>k. kind' = kind /\ applies' = applies
  BY Fixed
<1> SUFFICES ASSUME kind = "load" PROVE LoadInv'
  BY <1>k DEF LoadInv
<1>a. Asking
  BY DEF Asking
<1>0. /\ cl = [pc |-> cl.pc, pending |-> cl.pending, got |-> cl.got,
               shown |-> cl.shown, gaveUp |-> cl.gaveUp]
      /\ cl.pc \in ClientPcs
  BY DEF Types
<1>p. /\ cl.pc \in {"checked", "answer", "closed"} /\ edits = 0 =>
            from_json(file) = "ok" /\ CanCompile(PolicyOf(file), Stat)
      /\ edits = 0 /\ applies /\ replies # <<>> => replies[1].ok
  BY DEF LoadInv
<1>1. CASE \/ HandlerRecv \/ HandlerClose \/ NoMoreLines \/ StopElsewhere
           \/ UNCHANGED vars
  <2>1. UNCHANGED <<cl, file, edits, replies>>
    BY <1>1
       DEF HandlerRecv, HandlerClose, NoMoreLines, StopElsewhere, vars, client
  <2> QED BY <1>k, <1>p, <2>1 DEF LoadInv
<1>2. CASE HandleLine
  <2>1. /\ cl.pc \in {"answer", "closed"} /\ file \notin {NotJson, OutOfRange}
        /\ UNCHANGED <<cl, file, edits>>
    BY <1>2, <1>a, AnswerOnce DEF client
  <2>2. PICK a \in Replies :
          a = handle_request(current, Req).answer /\ replies' = <<a>>
    BY <1>2, <1>a, AnswerOnce
  <2>3. edits = 0 /\ applies => a.ok
    BY <1>p, <2>1, <2>2, CheckedAccepted
  <2>4. replies'[1] = a
    BY <2>2
  <2> QED BY <1>k, <1>p, <2>1, <2>3, <2>4 DEF LoadInv
<1>3. CASE ClientSend
  BY <1>3 DEF ClientSend
<1>4. CASE LoadCheck
  <2>1. from_json(file) \in Result /\ cl.pc = "start"
    BY <1>4, FromJson DEF Types, LoadCheck
  <2>2. /\ cl'.pc \in {"aborted", "refused", "checked"}
        /\ cl'.pc = "checked" =>
              from_json(file) = "ok" /\ CanCompile(PolicyOf(file), Stat)
    BY <1>0, <1>4, <2>1 DEF LoadCheck, Result
  <2>3. UNCHANGED <<file, edits, replies>>
    BY <1>4 DEF LoadCheck, daemon
  <2> QED BY <1>k, <1>p, <2>2, <2>3 DEF LoadInv
<1>5. CASE LoadSend
  <2>1. cl.pc = "checked" /\ UNCHANGED <<file, edits, replies>>
    BY <1>5 DEF LoadSend, daemon
  <2> QED BY <1>k, <1>p, <2>1 DEF LoadInv
<1>6. CASE Edit
  <2>1. replies' = replies /\ cl.pc \in {"start", "checked"} /\ edits' # 0
    BY <1>6 DEF Edit, daemon, Types
  <2> QED BY <2>1 DEF LoadInv
<1>7. CASE ClientAnswer \/ ClientEof \/ ClientGiveUp
  <2>1. UNCHANGED <<file, edits, replies>>
    BY <1>7 DEF ClientAnswer, ClientEof, ClientGiveUp, daemon
  <2>2. cl.pc = "answer"
    BY <1>7, <1>a DEF ClientAnswer, ClientEof, ClientGiveUp, RequestInv
  <2> QED BY <1>k, <1>p, <2>1, <2>2 DEF LoadInv
<1> QED BY <1>1, <1>2, <1>3, <1>4, <1>5, <1>6, <1>7, <1>a, AskingSteps

\* The one answer comes back whole, and nothing else does.
LEMMA AnswerStep ==
    ASSUME Types, RequestInv, AnswerInv, [Next]_vars
    PROVE  AnswerInv'
<1>k. kind' = kind
  BY Fixed
<1> SUFFICES ASSUME Asking PROVE AnswerInv'
  BY <1>k DEF AnswerInv, Asking
<1>0. /\ cl = [pc |-> cl.pc, pending |-> cl.pending, got |-> cl.got,
               shown |-> cl.shown, gaveUp |-> cl.gaveUp]
      /\ hd = [pc |-> hd.pc, buf |-> hd.buf]
  BY DEF Types
<1> DEFINE r == replies[1]
<1>p. /\ cl.pc # "closed" =>
            /\ cl.got = NoAnswer
            /\ replies = <<>> => cl.pending = <<>> /\ toC = <<>>
            /\ replies # <<>> => \/ cl.pending = <<>> /\ toC = <<r, NL>>
                                 \/ cl.pending = <<r>> /\ toC = <<NL>>
      /\ cl.pc = "closed" =>
            \/ cl.got = NoAnswer /\ cl.gaveUp
            \/ cl.got = NoAnswer /\ replies = <<>> /\ hd.pc = "closed"
            \/ cl.got = r /\ replies # <<>>
  BY DEF AnswerInv
<1>1. CASE \/ HandlerRecv \/ HandlerClose \/ NoMoreLines \/ StopElsewhere
           \/ UNCHANGED vars
  <2>1. UNCHANGED <<cl, toC, replies>>
    BY <1>1
       DEF HandlerRecv, HandlerClose, NoMoreLines, StopElsewhere, vars, client
  <2>2. hd.pc = "closed" => hd'.pc = "closed"
    BY <1>1 DEF HandlerRecv, HandlerClose, NoMoreLines, StopElsewhere, vars
  <2> QED BY <1>p, <2>1, <2>2 DEF AnswerInv
<1>2. CASE HandleLine
  <2>1. hd.pc = "lines" /\ replies = <<>> /\ cl' = cl
    BY <1>2, AnswerOnce DEF client
  <2>2. PICK a \in Replies : replies' = <<a>> /\ toC' = toC \o <<a, NL>>
    BY <1>2, AnswerOnce
  <2>3. CASE cl.pc = "closed"
    <3>1. cl.got = NoAnswer /\ cl.gaveUp
      BY <1>p, <2>1, <2>3
    <3> QED BY <2>1, <2>3, <3>1 DEF AnswerInv
  <2>4. CASE cl.pc # "closed"
    <3>1. cl.got = NoAnswer /\ cl.pending = <<>> /\ toC = <<>>
      BY <1>p, <2>1, <2>4
    <3>2. toC' = <<a, NL>>
      BY <2>2, <3>1, CutRequest
    <3>3. replies' # <<>> /\ replies'[1] = a
      BY <2>2
    <3> QED BY <2>1, <2>4, <3>1, <3>2, <3>3 DEF AnswerInv
  <2> QED BY <2>3, <2>4
<1>3. CASE ClientSend \/ LoadCheck \/ LoadSend \/ Edit
  <2>1. /\ UNCHANGED <<toC, replies>>
        /\ cl.pc \in {"start", "checked"}
    BY <1>3 DEF ClientSend, LoadCheck, LoadSend, Edit, daemon
  <2>2. replies = <<>> /\ cl.pending = <<>> /\ toC = <<>> /\ cl.got = NoAnswer
    BY <1>p, <2>1 DEF RequestInv
  <2>3. cl'.pending = cl.pending /\ cl'.got = cl.got /\ cl'.pc # "closed"
    <3>1. CASE ClientSend
      <4>1. kind = "ask"
        BY <3>1 DEF ClientSend, Asking
      <4>2. PICK c : Send(<<Request(c, Absent), NL>>, "answer")
        BY <3>1, <4>1 DEF ClientSend
      <4> QED BY <1>0, <4>2 DEF Send
    <3>2. CASE LoadCheck
      <4>1. from_json(file) \in Result
        BY FromJson DEF Types
      <4> QED BY <1>0, <3>2, <4>1 DEF LoadCheck, Result
    <3>3. CASE LoadSend
      BY <1>0, <3>3 DEF LoadSend, Send
    <3>4. CASE Edit
      BY <2>1, <3>4 DEF Edit
    <3> QED BY <1>3, <3>1, <3>2, <3>3, <3>4
  <2> QED BY <2>1, <2>2, <2>3 DEF AnswerInv
<1>4. CASE ClientAnswer
  <2>1. PICK n \in 1..Len(toC) :
          /\ toC' = SubSeq(toC, n + 1, Len(toC))
          /\ LET line == cl.pending \o SubSeq(toC, 1, n) IN
                cl' = IF HasLine(line)
                      THEN [cl EXCEPT !.pc = "closed", !.got = FirstLine(line)[1]]
                      ELSE [cl EXCEPT !.pending = line]
    BY <1>4 DEF ClientAnswer
  <2> DEFINE line == cl.pending \o SubSeq(toC, 1, n)
  <2>2. /\ HasLine(line) => /\ cl'.pc = "closed"
                            /\ cl'.got = FirstLine(line)[1]
        /\ ~HasLine(line) => /\ cl'.pc = cl.pc /\ cl'.got = cl.got
                             /\ cl'.pending = line
    BY <1>0, <2>1
  <2>3. cl.pc = "answer" /\ UNCHANGED <<hd, replies>>
    BY <1>4 DEF ClientAnswer, daemon
  <2>4. toC # <<>>
    BY <2>1
  <2>5. replies # <<>> /\ cl.got = NoAnswer
        /\ (\/ cl.pending = <<>> /\ toC = <<r, NL>>
            \/ cl.pending = <<r>> /\ toC = <<NL>>)
    BY <1>p, <2>3, <2>4
  <2>6. r # NL
    <3>1. r \in Replies
      BY <2>5 DEF Types
    <3> QED BY <3>1, ConnectionAssumption
  <2>7. \/ line = <<r>> /\ toC' = <<NL>>
        \/ line = <<r, NL>>
    <3>1. CASE cl.pending = <<>> /\ toC = <<r, NL>>
      <4>1. n = 1 \/ n = 2
        BY <3>1, CutRequest
      <4>2. CASE n = 1
        <5>1. line = <<r>>
          BY <3>1, <4>2, CutRequest
        <5>2. toC' = <<NL>>
          <6>1. Len(toC) = 2 /\ n + 1 = 2
            BY <3>1, <4>2, CutRequest
          <6>2. toC' = SubSeq(<<r, NL>>, 2, 2)
            BY <2>1, <3>1, <6>1
          <6> QED BY <6>2, CutRequest
        <5> QED BY <5>1, <5>2
      <4>3. CASE n = 2
        BY <3>1, <4>3, CutRequest
      <4> QED BY <4>1, <4>2, <4>3
    <3>2. CASE cl.pending = <<r>> /\ toC = <<NL>>
      <4>1. n = 1
        BY <3>2, CutRequest
      <4> QED BY <3>2, <4>1, CutRequest
    <3> QED BY <2>5, <3>1, <3>2
  <2> HIDE DEF line
  <2>8. /\ ~HasLine(<<r>>) /\ HasLine(<<r, NL>>)
        /\ FirstLine(<<r, NL>>)[1] = r
    BY <2>6, OneRequest
  <2>9. CASE line = <<r>> /\ toC' = <<NL>>
    <3>1. cl'.pc = "answer" /\ cl'.got = NoAnswer /\ cl'.pending = <<r>>
      BY <2>2, <2>3, <2>5, <2>8, <2>9
    <3> QED BY <2>3, <2>5, <2>9, <3>1 DEF AnswerInv
  <2>10. CASE line = <<r, NL>>
    <3>1. cl'.pc = "closed" /\ cl'.got = r
      BY <2>2, <2>8, <2>10
    <3> QED BY <2>3, <2>5, <3>1 DEF AnswerInv
  <2> QED BY <2>7, <2>9, <2>10
<1>5. CASE ClientEof
  <2>1. /\ cl.pc = "answer" /\ hd.pc = "closed" /\ toC = <<>>
        /\ UNCHANGED <<hd, toC, replies>>
    BY <1>5 DEF ClientEof, daemon, RequestInv
  <2>2. replies = <<>> /\ cl.pending = <<>>
    BY <1>p, <2>1
  <2>3. cl'.pc = "closed" /\ cl'.got = NoAnswer
    BY <1>0, <1>5, <2>2 DEF ClientEof, WithoutLine
  <2> QED BY <2>1, <2>2, <2>3 DEF AnswerInv
<1>6. CASE ClientGiveUp
  <2>1. cl.pc = "answer" /\ UNCHANGED <<hd, toC, replies>>
    BY <1>6 DEF ClientGiveUp, daemon, RequestInv
  <2>2. cl'.pc = "closed" /\ cl'.gaveUp /\ cl'.got = WithoutLine
    BY <1>0, <1>6 DEF ClientGiveUp
  <2>3. CASE cl.pending = <<>>
    <3>1. cl'.got = NoAnswer
      BY <2>2, <2>3 DEF WithoutLine
    <3> QED BY <2>2, <3>1 DEF AnswerInv
  <2>4. CASE cl.pending # <<>>
    <3>1. replies # <<>> /\ cl.pending = <<r>>
      BY <1>p, <2>1, <2>4
    <3>2. cl'.got = r
      BY <2>1, <2>2, <3>1 DEF WithoutLine
    <3> QED BY <2>1, <2>2, <3>1, <3>2 DEF AnswerInv
  <2> QED BY <2>3, <2>4
<1> QED BY <1>1, <1>2, <1>3, <1>4, <1>5, <1>6, AskingSteps

\* The three parts hold throughout.
LEMMA Invariance == Spec => [](Types /\ RequestInv /\ LoadInv /\ AnswerInv)
<1>1. Init => RequestInv /\ LoadInv /\ AnswerInv
  <2> SUFFICES ASSUME Init PROVE RequestInv /\ LoadInv /\ AnswerInv
    OBVIOUS
  <2>1. /\ cl.pc = "start" /\ hd.pc = "recv" /\ hd.buf = <<>>
        /\ cl.got = NoAnswer /\ cl.pending = <<>>
    BY DEF Init
  <2> QED BY <2>1 DEF Init, RequestInv, LoadInv, AnswerInv, Nothing
<1> QED BY <1>1, InitTypes, TypesStep, RequestStep, LoadStep, AnswerStep, PTL
           DEF Spec

\* Only a policy that compiles becomes current, no policy document ends the
\* daemon, and a file that guardctl checked is accepted unless it was changed or
\* the kernel refuses it (run_policy_load, handle_request).
THEOREM LoadIsSafe == Spec => []LoadSafe
<1>1. Types /\ RequestInv /\ LoadInv => LoadSafe
  BY DEF Types, Installable, RequestInv, Asking, LoadInv, LoadSafe
<1> QED BY <1>1, Invariance, PTL

\* No answer is taken for none.
LEMMA NoAnswerGiven == NoAnswer \notin Replies
<1> SUFFICES ASSUME NoAnswer \in Replies PROVE FALSE
  OBVIOUS
<1>1. "ok" \in NoAnswer.keys
  BY DEF Replies
<1> QED BY <1>1 DEF NoAnswer

\* A guardctl that hangs up has the answer to its own request, whole, or it has
\* none because none was given or because recv(2) failed it or the answer was
\* too long (request_json); of however many parts it receives it in, and whether
\* the daemon stops meanwhile.
THEOREM AnswerReturned == Spec => []OwnAnswer
<1>1. Types /\ AnswerInv => OwnAnswer
  <2> SUFFICES ASSUME Types, AnswerInv, Asking, cl.pc = "closed" PROVE OwnAnswer
    BY DEF OwnAnswer, Asking
  <2>1. replies # <<>> => replies[1] \in Replies
    BY DEF Types
  <2>2. replies # <<>> => replies[1] # NoAnswer
    BY <2>1, NoAnswerGiven
  <2> QED BY <2>2 DEF AnswerInv, OwnAnswer
<1> QED BY <1>1, Invariance, PTL

-----------------------------------------------------------------------------
(* The answers.                                                            *)

\* What one line does, and what it is answered with, under a policy.
AnswerTo(cur, line) ==
    IF Parse(line) = NotJson THEN Answer(FALSE, "error", 0)
    ELSE handle_request(cur, Parse(line)).answer

\* handle_request makes a policy current for the lines that load one.
LEMMA Effect ==
    ASSUME NEW cur, NEW line, Parse(line) \in JsonRequest
    PROVE  handle_request(cur, Parse(line)).policy
             = IF Installs(line) THEN PolicyOf(Parse(line).policy) ELSE cur
<1> DEFINE req == Parse(line)
           r == handle_request(cur, req)
           same(a) == [answer |-> a, policy |-> cur]
<1>1. req \notin {NotJson, Other, OutOfRange}
  BY ConnectionAssumption
<1>2. Installs(line) <=> /\ req.cmd = "load_policy" /\ Given(req.policy)
                         /\ from_json(req.policy) = "ok"
                         /\ CanCompile(PolicyOf(req.policy), Stat) /\ applies
  BY <1>1 DEF Installs
<1> HIDE DEF req
<1>3. CASE req.cmd = "load_policy" /\ Given(req.policy)
  <2>1. r = LoadPolicy(cur, req.policy)
    BY <1>3 DEF handle_request
  <2> QED BY <1>2, <1>3, <2>1 DEF LoadPolicy, req
<1>4. CASE ~(req.cmd = "load_policy" /\ Given(req.policy))
  <2>1. r.policy = cur
    <3>1. CASE req.cmd = "status"
      BY <3>1 DEF handle_request
    <3>2. CASE req.cmd = "list"
      BY <3>2 DEF handle_request
    <3>3. CASE req.cmd = "stream"
      BY <3>3 DEF handle_request
    <3>4. CASE req.cmd = "stop"
      BY <3>4 DEF handle_request
    <3>5. CASE req.cmd \notin {"status", "list", "stream", "stop"}
      BY <1>4, <3>5 DEF handle_request
    <3> QED BY <3>1, <3>2, <3>3, <3>4, <3>5
  <2> QED BY <1>2, <1>4, <2>1 DEF req
<1> QED BY <1>3, <1>4

\* The policy after some lines does not depend on those that follow.
LEMMA PolicyKept ==
    ASSUME NEW L, NEW lines \in Seq(L), NEW l \in L, NEW n \in 0..Len(lines)
    PROVE  PolicyAfter(Append(lines, l), n) = PolicyAfter(lines, n)
<1> DEFINE more == Append(lines, l)
           P == {i \in 1..n : Installs(lines[i])}
           Q == {i \in 1..n : Installs(more[i])}
<1>1. \A i \in 1..n : more[i] = lines[i]
  <2>1. \A i \in 1..n : i \in 1..Len(lines)
    OBVIOUS
  <2> QED BY <2>1, AppendProperties
<1>2. P = Q
  BY <1>1
<1>3. /\ PolicyAfter(lines, n) = IF P = {} THEN NoPolicy
                                 ELSE PolicyOf(Parse(lines[Max(P)]).policy)
      /\ PolicyAfter(more, n) = IF Q = {} THEN NoPolicy
                                ELSE PolicyOf(Parse(more[Max(Q)]).policy)
  BY DEF PolicyAfter
<1>4. CASE P = {}
  BY <1>2, <1>3, <1>4
<1>5. CASE P # {}
  <2>1. P \subseteq 0..n /\ n \in Nat /\ P \subseteq 1..n
    OBVIOUS
  <2> HIDE DEF P, Q, more
  <2>2. Max(P) \in 1..n
    BY <1>5, <2>1, GreatestNumber
  <2>3. more[Max(Q)] = lines[Max(P)]
    BY <1>1, <1>2, <2>2
  <2>4. PolicyAfter(more, n) = PolicyAfter(lines, n)
    BY <1>2, <1>3, <2>3
  <2> QED BY <2>4 DEF more
<1> QED BY <1>4, <1>5

\* One more line.
LEMMA OneMore ==
    ASSUME NEW L, NEW lines \in Seq(L), NEW l \in L
    PROVE  /\ AnswersTo(Append(lines, l))
                = Append(AnswersTo(lines), AnswerTo(PolicyAfter(lines, Len(lines)), l))
           /\ PolicyAfter(Append(lines, l), Len(lines) + 1)
                = IF Installs(l) THEN PolicyOf(Parse(l).policy)
                  ELSE PolicyAfter(lines, Len(lines))
<1> DEFINE more == Append(lines, l)
           n == Len(lines)
           a == AnswersTo(lines)
           b == AnswersTo(more)
           x == AnswerTo(PolicyAfter(lines, n), l)
           T == {AnswerTo(PolicyAfter(lines, i - 1), lines[i]) : i \in 1..n} \cup {x}
           c == Append(a, x)
<1>1. /\ more \in Seq(L) /\ Len(more) = n + 1 /\ n \in Nat
      /\ \A i \in 1..n : more[i] = lines[i]
      /\ more[n + 1] = l
  OBVIOUS
<1>2. \A i \in 0..n : PolicyAfter(more, i) = PolicyAfter(lines, i)
  BY PolicyKept
<1>3. a = [i \in 1..n |-> AnswerTo(PolicyAfter(lines, i - 1), lines[i])]
  BY DEF AnswersTo, AnswerTo
<1>4. b = [i \in 1..(n + 1) |-> AnswerTo(PolicyAfter(more, i - 1), more[i])]
  BY <1>1 DEF AnswersTo, AnswerTo
<1>5. /\ a \in [1..n -> T]
      /\ \A i \in 1..n : a[i] = AnswerTo(PolicyAfter(lines, i - 1), lines[i])
  BY <1>3
<1>6. /\ DOMAIN b = 1..(n + 1)
      /\ b = [i \in 1..(n + 1) |-> b[i]]
      /\ \A i \in 1..(n + 1) : b[i] = AnswerTo(PolicyAfter(more, i - 1), more[i])
  BY <1>4
<1>7. x \in T
  OBVIOUS
<1>p. PolicyAfter(more, n + 1) = IF Installs(l) THEN PolicyOf(Parse(l).policy)
                                 ELSE PolicyAfter(lines, n)
  <2> DEFINE P == {i \in 1..n : Installs(lines[i])}
             Q == {i \in 1..(n + 1) : Installs(more[i])}
  <2>1. /\ PolicyAfter(lines, n) = IF P = {} THEN NoPolicy
                                   ELSE PolicyOf(Parse(lines[Max(P)]).policy)
        /\ PolicyAfter(more, n + 1) = IF Q = {} THEN NoPolicy
                                      ELSE PolicyOf(Parse(more[Max(Q)]).policy)
    BY DEF PolicyAfter
  <2>2. \A i \in 1..(n + 1) : i \in 1..n \/ i = n + 1
    BY <1>1
  <2>3. CASE Installs(l)
    <3>1. n + 1 \in Q /\ \A i \in Q : n + 1 >= i
      BY <1>1, <2>3
    <3>2. Q \subseteq Nat
      BY <1>1
    <3> HIDE DEF Q, n, more
    <3>3. Max(Q) \in Q /\ \A i \in Q : Max(Q) >= i
      BY <3>1 DEF Max
    <3>4. Max(Q) \in Nat /\ n + 1 \in Nat /\ Max(Q) >= n + 1 /\ n + 1 >= Max(Q)
      BY <1>1, <3>1, <3>2, <3>3
    <3>5. Max(Q) = n + 1
      BY <3>4
    <3> QED BY <1>1, <2>1, <2>3, <3>1, <3>5
  <2>4. CASE ~Installs(l)
    <3>1. Q = {i \in 1..n : Installs(more[i])}
      BY <1>1, <2>2, <2>4
    <3>2. PolicyAfter(more, n) = IF Q = {} THEN NoPolicy
                                 ELSE PolicyOf(Parse(more[Max(Q)]).policy)
      BY <3>1 DEF PolicyAfter
    <3> HIDE DEF Q, n, more
    <3>3. PolicyAfter(more, n + 1) = PolicyAfter(more, n)
      BY <2>1, <3>2
    <3>4. n \in 0..n
      BY <1>1
    <3> QED BY <1>2, <2>4, <3>3, <3>4
  <2> QED BY <2>3, <2>4
<1> HIDE DEF a, b, x, T, n, more
<1>8. a \in Seq(T) /\ Len(a) = n
  BY <1>1, <1>5, FunctionIsSeq
<1>9. /\ c \in Seq(T) /\ Len(c) = n + 1
      /\ \A i \in 1..(n + 1) : c[i] = IF i <= n THEN a[i] ELSE x
  BY <1>1, <1>7, <1>8, AppendProperties
<1>10. ASSUME NEW i \in 1..(n + 1) PROVE b[i] = c[i]
  <2>1. CASE i <= n
    <3>1. i \in 1..n /\ i - 1 \in 0..n
      BY <1>1, <2>1
    <3> QED BY <1>1, <1>2, <1>5, <1>6, <1>9, <2>1, <3>1
  <2>2. CASE ~(i <= n)
    <3>1. i = n + 1 /\ i - 1 = n /\ n \in 0..n
      BY <1>1, <2>2
    <3>2. b[i] = AnswerTo(PolicyAfter(lines, n), l)
      BY <1>1, <1>2, <1>6, <3>1
    <3> QED BY <1>9, <2>2, <3>2 DEF x
  <2> QED BY <2>1, <2>2
<1> HIDE DEF c
<1>11. b \in [1..(n + 1) -> T]
  <2>1. \A i \in 1..(n + 1) : b[i] \in T
    BY <1>9, <1>10
  <2> QED BY <1>6, <2>1
<1>12. b \in Seq(T) /\ Len(b) = n + 1
  BY <1>1, <1>11, FunctionIsSeq
<1>13. b = c
  BY <1>9, <1>10, <1>12, SeqEqual
<1> QED BY <1>p, <1>13 DEF a, b, c, x, n, more

\* The kernel's answer is fixed, so the same lines have the same answers.
LEMMA AnswersFixed ==
    ASSUME UNCHANGED applies
    PROVE  \A s : /\ AnswersTo(s)' = AnswersTo(s)
                  /\ \A n : PolicyAfter(s, n)' = PolicyAfter(s, n)
<1>1. \A l : Installs(l)' <=> Installs(l)
  BY DEF Installs
<1>2. \A s, n : PolicyAfter(s, n)' = PolicyAfter(s, n)
  BY <1>1 DEF PolicyAfter
<1>3. \A p, d : LoadPolicy(p, d)' = LoadPolicy(p, d)
  BY DEF LoadPolicy
<1>4. \A p, r : handle_request(p, r)' = handle_request(p, r)
  BY <1>3 DEF handle_request
<1>5. \A s : AnswersTo(s)' = AnswersTo(s)
  BY <1>2, <1>4 DEF AnswersTo
<1> QED BY <1>2, <1>5

-----------------------------------------------------------------------------
(* The line protocol.                                                      *)

\* The handler has read the text up to d: the lines up to there are handled,
\* and the rest is in the buffer.
CutAt(d) ==
    /\ handled = LinesEnding(read, UpTo(LineEnds(read), d))
    /\ d > 0 => read[d] = NL
    /\ hd.pc # "dead" => hd.buf = SubSeq(read, d + 1, Len(read))

LineInv ==
    /\ read \in Seq(Token) /\ handled \in Seq(Seq(Token))
    /\ hd.pc = "recv" => ~HasLine(hd.buf)
    /\ \E d \in 0..Len(read) : CutAt(d)

\* The lines that have an answer: all but the one that ends the process.
Answered == IF hd.pc = "dead" THEN Front(handled) ELSE handled

ReplyInv ==
    /\ replies = AnswersTo(Answered)
    /\ current = PolicyAfter(Answered, Len(Answered))

\* Each step of the handler takes at most the next line of what it has read.
LEMMA LineStep ==
    ASSUME Types, LineInv, [Next]_vars
    PROVE  LineInv'
<1>0. /\ hd = [pc |-> hd.pc, buf |-> hd.buf] /\ hd.buf \in Seq(Token)
      /\ toD \in Seq(Token)
  BY DEF Types
<1>1. /\ read \in Seq(Token) /\ handled \in Seq(Seq(Token))
      /\ hd.pc = "recv" => ~HasLine(hd.buf)
  BY DEF LineInv
<1>2. PICK d \in 0..Len(read) : CutAt(d)
  BY DEF LineInv
<1>3. /\ handled = LinesEnding(read, UpTo(LineEnds(read), d))
      /\ d > 0 => read[d] = NL
      /\ hd.pc # "dead" => hd.buf = SubSeq(read, d + 1, Len(read))
  BY <1>2 DEF CutAt
<1>4. CASE UNCHANGED <<hd, read, handled>>
  BY <1>1, <1>2, <1>3, <1>4 DEF LineInv, CutAt
<1>5. CASE HandlerRecv
  <2>1. PICK n \in 1..Len(toD) :
          /\ hd' = [pc |-> "lines", buf |-> hd.buf \o SubSeq(toD, 1, n)]
          /\ read' = read \o SubSeq(toD, 1, n)
    BY <1>5 DEF HandlerRecv
  <2>2. hd.pc = "recv" /\ handled' = handled
    BY <1>5 DEF HandlerRecv
  <2> DEFINE p == SubSeq(toD, 1, n)
  <2>3. p \in Seq(Token)
    <3>1. n \in 0..Len(toD)
      OBVIOUS
    <3> QED BY <1>0, <3>1, Cut
  <2>4. hd'.pc = "lines" /\ hd'.buf = hd.buf \o p /\ read' = read \o p
    BY <2>1
  <2> HIDE DEF p
  <2>5. /\ read' \in Seq(Token) /\ Len(read') = Len(read) + Len(p)
        /\ \A i \in 1..Len(read) : read'[i] = read[i]
        /\ Len(read) \in Nat /\ Len(p) \in Nat
    BY <1>1, <2>3, <2>4
  <2>6. d \in 0..Len(read') /\ (d > 0 => read'[d] = NL)
    BY <1>3, <2>5
  <2>7. hd'.buf = SubSeq(read', d + 1, Len(read'))
    BY <1>1, <1>3, <2>2, <2>3, <2>4, RestGrows
  <2>8. handled' = LinesEnding(read', UpTo(LineEnds(read'), d))
    BY <1>1, <1>3, <2>2, <2>3, <2>4, LinesKept
  <2>9. CutAt(d)'
    BY <2>6, <2>7, <2>8 DEF CutAt
  <2> QED BY <1>1, <2>2, <2>4, <2>5, <2>6, <2>9 DEF LineInv
<1>6. CASE HandlerClose \/ NoMoreLines \/ StreamClose
  <2>1. /\ hd.pc # "dead" /\ hd'.pc # "dead" /\ hd'.buf = hd.buf
        /\ UNCHANGED <<read, handled>>
    BY <1>0, <1>6 DEF HandlerClose, NoMoreLines, StreamClose
  <2>2. hd'.pc = "recv" => ~HasLine(hd'.buf)
    BY <1>0, <1>6 DEF HandlerClose, NoMoreLines, StreamClose
  <2>3. CutAt(d)'
    BY <1>3, <2>1 DEF CutAt
  <2> QED BY <1>1, <1>2, <2>1, <2>2, <2>3 DEF LineInv
<1>7. CASE EmptyLine \/ HandleLine \/ HandlerTerminate
  <2>1. hd.pc = "lines" /\ HasLine(hd.buf) /\ read' = read
    BY <1>7 DEF EmptyLine, HandleLine, HandlerTerminate
  <2>2. hd.buf = SubSeq(read, d + 1, Len(read))
    BY <1>3, <2>1
  <2>3. PICK e \in 1..Len(read) :
              /\ d < e /\ read[e] = NL
              /\ AfterLine(hd.buf) = SubSeq(read, e + 1, Len(read))
              /\ FirstLine(hd.buf) = <<>> =>
                    UpTo(LineEnds(read), e) = UpTo(LineEnds(read), d)
              /\ FirstLine(hd.buf) # <<>> =>
                    /\ UpTo(LineEnds(read), e) = UpTo(LineEnds(read), d) \cup {e}
                    /\ LineAt(read, e) = FirstLine(hd.buf)
    BY <1>1, <1>3, <2>1, <2>2, NextLine
  <2>4. CASE EmptyLine
    <3>1. FirstLine(hd.buf) = <<>> /\ handled' = handled
      BY <2>4 DEF EmptyLine
    <3>2. hd'.pc = hd.pc /\ hd'.buf = AfterLine(hd.buf)
      BY <1>0, <2>4 DEF EmptyLine
    <3>3. CutAt(e)'
      BY <1>3, <2>1, <2>3, <3>1, <3>2 DEF CutAt
    <3>4. e \in 0..Len(read)
      OBVIOUS
    <3> QED BY <1>1, <2>1, <3>1, <3>2, <3>3, <3>4 DEF LineInv
  <2>5. CASE HandleLine \/ HandlerTerminate
    <3>1. FirstLine(hd.buf) # <<>> /\ handled' = Append(handled, FirstLine(hd.buf))
      BY <2>5 DEF HandleLine, HandlerTerminate
    <3>2. hd'.pc # "recv" /\ (hd'.pc # "dead" => hd'.buf = AfterLine(hd.buf))
      <4>1. CASE HandlerTerminate
        BY <1>0, <4>1 DEF HandlerTerminate
      <4>2. CASE HandleLine
        <5>1. CASE Parse(FirstLine(hd.buf)) = NotJson
          BY <1>0, <2>1, <4>2, <5>1 DEF HandleLine
        <5>2. CASE Parse(FirstLine(hd.buf)) # NotJson
          <6>1. hd' = [pc  |-> IF Parse(FirstLine(hd.buf)).cmd = "stream"
                               THEN "stream" ELSE "lines",
                       buf |-> AfterLine(hd.buf)]
            BY <4>2, <5>2 DEF HandleLine
          <6> QED BY <6>1
        <5> QED BY <5>1, <5>2
      <4> QED BY <2>5, <4>1, <4>2
    <3>3. e \in 0..Len(read) /\ e \in Nat /\ d \in Nat
      OBVIOUS
    <3>4. LinesEnding(read, UpTo(LineEnds(read), e))
            = Append(LinesEnding(read, UpTo(LineEnds(read), d)), LineAt(read, e))
      BY <1>1, <2>3, <3>1, <3>3, LinesAppend
    <3>5. handled' = LinesEnding(read, UpTo(LineEnds(read), e))
      BY <1>3, <2>3, <3>1, <3>4
    <3>6. CutAt(e)'
      BY <2>1, <2>3, <3>2, <3>5 DEF CutAt
    <3>7. handled' \in Seq(Seq(Token))
      <4>1. FirstLine(hd.buf) \in Seq(Token)
        BY <1>0, <2>1, FirstLineIs
      <4> QED BY <1>1, <3>1, <4>1
    <3> QED BY <1>1, <2>1, <3>2, <3>3, <3>6, <3>7 DEF LineInv
  <2> QED BY <1>7, <2>4, <2>5
<1>8. CASE \/ StreamEvent \/ StopElsewhere \/ ClientSend \/ LoadCheck \/ LoadSend
           \/ Edit \/ ClientAnswer \/ ClientEof \/ ClientGiveUp \/ ClientEvents
           \/ UNCHANGED vars
  <2>1. UNCHANGED <<hd, read, handled>>
    BY <1>8
       DEF StreamEvent, StopElsewhere, ClientSend, LoadCheck, LoadSend, Edit,
           ClientAnswer, ClientEof, ClientGiveUp, ClientEvents, vars, daemon
  <2> QED BY <1>4, <2>1
<1> QED BY <1>5, <1>6, <1>7, <1>8 DEF Next

\* Each line the handler copes with is answered under the policy that the lines
\* before it have left.
LEMMA ReplyStep ==
    ASSUME Types, LineInv, ReplyInv, [Next]_vars
    PROVE  ReplyInv'
<1>0. /\ hd = [pc |-> hd.pc, buf |-> hd.buf] /\ hd.buf \in Seq(Token)
      /\ handled \in Seq(Seq(Token))
  BY DEF Types, LineInv
<1>1. UNCHANGED applies
  BY Fixed
<1>2. \A s : /\ AnswersTo(s)' = AnswersTo(s)
             /\ \A n : PolicyAfter(s, n)' = PolicyAfter(s, n)
  BY <1>1, AnswersFixed
<1>3. /\ replies = AnswersTo(Answered)
      /\ current = PolicyAfter(Answered, Len(Answered))
  BY DEF ReplyInv
<1>k. ASSUME Answered' = Answered, UNCHANGED <<replies, current>>
      PROVE  ReplyInv'
  BY <1>2, <1>3, <1>k DEF ReplyInv
<1>4. CASE HandleLine
  <2> DEFINE l == FirstLine(hd.buf)
  <2>1. /\ hd.pc = "lines" /\ HasLine(hd.buf) /\ l # <<>> /\ ~Terminates(Parse(l))
        /\ handled' = Append(handled, l)
    BY <1>4 DEF HandleLine
  <2>2. l \in Seq(Token)
    BY <1>0, <2>1, FirstLineIs
  <2>3. Answered = handled
    BY <2>1 DEF Answered
  <2>4. hd'.pc # "dead"
    <3>1. CASE Parse(l) = NotJson
      BY <1>0, <1>4, <2>1, <3>1 DEF HandleLine
    <3>2. CASE Parse(l) # NotJson
      <4>1. hd' = [pc  |-> IF Parse(l).cmd = "stream" THEN "stream" ELSE "lines",
                   buf |-> AfterLine(hd.buf)]
        BY <1>4, <3>2 DEF HandleLine
      <4> QED BY <4>1
    <3> QED BY <3>1, <3>2
  <2>5. Answered' = Append(handled, l)
    BY <2>1, <2>4 DEF Answered
  <2>6. /\ replies' = Append(replies, AnswerTo(current, l))
        /\ current' = IF Installs(l) THEN PolicyOf(Parse(l).policy) ELSE current
    <3>1. CASE Parse(l) = NotJson
      <4>1. replies' = Append(replies, Answer(FALSE, "error", 0)) /\ current' = current
        BY <1>4, <3>1 DEF HandleLine, Reply
      <4>2. ~Installs(l)
        BY <3>1 DEF Installs
      <4> QED BY <3>1, <4>1, <4>2 DEF AnswerTo
    <3>2. CASE Parse(l) # NotJson
      <4>1. /\ replies' = Append(replies, handle_request(current, Parse(l)).answer)
            /\ current' = handle_request(current, Parse(l)).policy
        BY <1>4, <3>2 DEF HandleLine, Reply
      <4>2. Parse(l) \in JsonRequest
        BY <1>0, <2>1, <3>2, ParsedRequest
      <4>3. current' = IF Installs(l) THEN PolicyOf(Parse(l).policy) ELSE current
        BY <4>1, <4>2, Effect
      <4> QED BY <3>2, <4>1, <4>3 DEF AnswerTo
    <3> QED BY <3>1, <3>2
  <2> HIDE DEF l
  <2> DEFINE more == Append(handled, l)
  <2>7. /\ AnswersTo(more)
             = Append(AnswersTo(handled), AnswerTo(PolicyAfter(handled, Len(handled)), l))
        /\ PolicyAfter(more, Len(handled) + 1)
             = IF Installs(l) THEN PolicyOf(Parse(l).policy)
               ELSE PolicyAfter(handled, Len(handled))
    BY <1>0, <2>2, OneMore
  <2>8. Len(more) = Len(handled) + 1
    BY <1>0, <2>2
  <2> HIDE DEF more
  <2>9. replies' = AnswersTo(more) /\ current' = PolicyAfter(more, Len(more))
    BY <1>3, <2>3, <2>6, <2>7, <2>8
  <2>10. Answered' = more
    BY <2>5 DEF more
  <2> QED BY <1>2, <2>9, <2>10 DEF ReplyInv
<1>5. CASE HandlerTerminate
  <2> DEFINE l == FirstLine(hd.buf)
  <2>1. /\ hd.pc = "lines" /\ HasLine(hd.buf) /\ handled' = Append(handled, l)
        /\ UNCHANGED <<replies, current>>
    BY <1>5 DEF HandlerTerminate
  <2>2. hd'.pc = "dead"
    BY <1>0, <1>5 DEF HandlerTerminate
  <2>3. l \in Seq(Token)
    BY <1>0, <2>1, FirstLineIs
  <2> HIDE DEF l
  <2>4. Front(Append(handled, l)) = handled
    <3> DEFINE m == Append(handled, l)
    <3>1. /\ m \in Seq(Seq(Token)) /\ Len(m) = Len(handled) + 1
          /\ Len(handled) \in Nat /\ Len(m) - 1 = Len(handled)
          /\ \A i \in 1..Len(handled) : m[i] = handled[i]
      BY <1>0, <2>3
    <3>2. Front(m) = SubSeq(m, 1, Len(handled))
      BY <3>1 DEF Front
    <3> HIDE DEF m
    <3>3. Len(handled) \in 0..Len(m)
      BY <3>1
    <3> DEFINE f == SubSeq(m, 1, Len(handled))
    <3>4. /\ f \in Seq(Seq(Token)) /\ Len(f) = Len(handled)
          /\ \A i \in 1..Len(handled) : f[i] = m[i]
      BY <3>1, <3>3, Cut
    <3> HIDE DEF f
    <3>5. f = handled
      BY <1>0, <3>1, <3>4, SeqEqual
    <3> QED BY <3>2, <3>5 DEF f, m
  <2>5. Answered' = Answered
    BY <2>1, <2>2, <2>4 DEF Answered
  <2> QED BY <1>k, <2>1, <2>5
<1>6. CASE \/ HandlerRecv \/ HandlerClose \/ NoMoreLines \/ EmptyLine \/ StreamClose
  <2>1. /\ hd.pc # "dead" /\ hd'.pc # "dead"
        /\ UNCHANGED <<handled, replies, current>>
    BY <1>0, <1>6
       DEF HandlerRecv, HandlerClose, NoMoreLines, EmptyLine, StreamClose
  <2>2. Answered' = Answered
    BY <2>1 DEF Answered
  <2> QED BY <1>k, <2>1, <2>2
<1>7. CASE \/ StreamEvent \/ StopElsewhere \/ ClientSend \/ LoadCheck \/ LoadSend
           \/ Edit \/ ClientAnswer \/ ClientEof \/ ClientGiveUp \/ ClientEvents
           \/ UNCHANGED vars
  <2>1. UNCHANGED <<hd, handled, replies, current>>
    BY <1>7
       DEF StreamEvent, StopElsewhere, ClientSend, LoadCheck, LoadSend, Edit,
           ClientAnswer, ClientEof, ClientGiveUp, ClientEvents, vars, daemon
  <2>2. Answered' = Answered
    BY <2>1 DEF Answered
  <2> QED BY <1>k, <2>1, <2>2
<1> QED BY <1>4, <1>5, <1>6, <1>7 DEF Next

\* Nothing has been read or answered at first.
LEMMA InitLine == Init => LineInv /\ ReplyInv
<1> SUFFICES ASSUME Init PROVE LineInv /\ ReplyInv
  OBVIOUS
<1>1. /\ hd.pc = "recv" /\ hd.buf = <<>> /\ read = <<>> /\ handled = <<>>
      /\ replies = <<>> /\ current = NoPolicy
  BY DEF Init
<1>2. read \in Seq(Token) /\ handled \in Seq(Seq(Token)) /\ Len(read) = 0
  BY <1>1
<1>3. ~HasLine(hd.buf)
  BY <1>1, OneRequest DEF HasLine, Contains
<1>4. CutAt(0)
  <2>1. UpTo(LineEnds(read), 0) = {}
    BY <1>2 DEF UpTo, LineEnds
  <2>2. LinesEnding(read, {}) = <<>>
    <3>1. Cardinality({}) = 0
      BY FS_EmptySet
    <3> QED BY <3>1 DEF LinesEnding
  <2>3. SubSeq(read, 0 + 1, Len(read)) = <<>>
    BY <1>2, SubSeqEmpty
  <2>4. handled = LinesEnding(read, UpTo(LineEnds(read), 0))
    BY <1>1, <2>1, <2>2
  <2>5. hd.buf = SubSeq(read, 0 + 1, Len(read))
    BY <1>1, <2>3
  <2>6. ~(0 > 0)
    OBVIOUS
  <2> QED BY <2>4, <2>5, <2>6 DEF CutAt
<1>5. ReplyInv
  <2>1. Answered = <<>> /\ Len(Answered) = 0
    BY <1>1 DEF Answered
  <2>2. AnswersTo(<<>>) = <<>>
    BY DEF AnswersTo
  <2>3. PolicyAfter(<<>>, 0) = NoPolicy
    BY DEF PolicyAfter
  <2> QED BY <1>1, <2>1, <2>2, <2>3 DEF ReplyInv
<1>6. 0 \in 0..Len(read)
  BY <1>2
<1> QED BY <1>1, <1>2, <1>3, <1>4, <1>5, <1>6 DEF LineInv

\* However recv(2) cuts the stream up, each line is handled once and in order
\* and has one answer, under the policy the lines before it have left, and a
\* guardctl that waits for an answer gets the one to its request unless it gives
\* up.
THEOREM LinesAnswered == Spec => []LineProtocol
<1>1. LineInv => IsPrefix(handled, Lines(read))
                 /\ (hd.pc = "recv" => handled = Lines(read))
  <2> SUFFICES ASSUME LineInv
               PROVE  IsPrefix(handled, Lines(read))
                      /\ (hd.pc = "recv" => handled = Lines(read))
    OBVIOUS
  <2>1. read \in Seq(Token) /\ (hd.pc = "recv" => ~HasLine(hd.buf))
    BY DEF LineInv
  <2>2. PICK d \in 0..Len(read) : CutAt(d)
    BY DEF LineInv
  <2>3. /\ handled = LinesEnding(read, UpTo(LineEnds(read), d))
        /\ hd.pc # "dead" => hd.buf = SubSeq(read, d + 1, Len(read))
    BY <2>2 DEF CutAt
  <2>4. IsPrefix(handled, Lines(read))
    BY <2>1, <2>3, LinesUpTo
  <2>5. ASSUME hd.pc = "recv" PROVE handled = Lines(read)
    <3>1. /\ Len(hd.buf) = Len(read) - d
          /\ \A i \in 1..(Len(read) - d) : hd.buf[i] = read[d + i]
      BY <2>1, <2>3, <2>5, Cut
    <3>2. \A i \in 1..Len(hd.buf) : hd.buf[i] # NL
      BY <2>1, <2>5 DEF HasLine, Contains
    <3>3. ASSUME NEW e \in LineEnds(read), ~(e <= d) PROVE FALSE
      <4>1. e \in 2..Len(read) /\ read[e] = NL
        BY DEF LineEnds
      <4>2. e - d \in 1..(Len(read) - d) /\ d + (e - d) = e
        BY <3>3, <4>1
      <4> QED BY <3>1, <3>2, <4>1, <4>2
    <3>4. UpTo(LineEnds(read), d) = LineEnds(read)
      BY <3>3 DEF UpTo
    <3> QED BY <2>3, <3>4 DEF Lines
  <2> QED BY <2>4, <2>5
<1>2. LineInv /\ ReplyInv /\ OwnAnswer => LineProtocol
  BY <1>1 DEF ReplyInv, Answered, LineProtocol
<1> QED BY <1>2, InitLine, LineStep, ReplyStep, AnswerReturned, Invariance, PTL
           DEF Spec
=============================================================================
