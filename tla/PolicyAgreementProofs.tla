------------------------ MODULE PolicyAgreementProofs ------------------------
(***************************************************************************)
(* Proofs that the kernel, status(), the reverse resolver, the events and  *)
(* the DecisionEngine tell the same story about the policy in force.       *)
(* PolicyUpdateProofs has the invariant of the maps they rest on.          *)
(***************************************************************************)
EXTENDS PolicyUpdateProofs, SeqLemmas, FiniteSetTheorems

\* What agreement by path needs beyond the code of load_policy.  Two names of
\* one file (hard links, a relative name) are one file for the kernel and two
\* for the DecisionEngine; the compiler does not pass on the default action; and
\* two calls of load_policy at once may leave the kernel with one policy and
\* user space with the other.
OneName ==
    \A p, q \in Path : Resolves(Stat, p) /\ Stat[p] = Stat[q] => p = q

DenyByDefault == \A p \in Policies : p.default_action = "DENY"

OneLoader == \A k, l \in Loader : k = l

-----------------------------------------------------------------------------
(* The two decision procedures, and the resolver.                          *)

\* The parts of a policy that compiles.
LEMMA CompiledParts ==
    ASSUME NEW p \in Policies, CanCompile(p, Stat)
    PROVE  /\ Len(p.protected_resources) \in Nat /\ Len(p.rules) \in Nat
           /\ Len(compile(p, Stat).protected_resources) = Len(p.protected_resources)
           /\ Len(compile(p, Stat).rules) = Len(p.rules)
           /\ \A i \in 1..Len(p.protected_resources) :
                 /\ p.protected_resources[i] \in AbsPath
                 /\ p.protected_resources[i] \in Path
                 /\ Resolves(Stat, p.protected_resources[i])
                 /\ compile(p, Stat).protected_resources[i]
                      = Stat[p.protected_resources[i]]
           /\ \A i \in 1..Len(p.rules) :
                 /\ p.rules[i].resource \in Path /\ p.rules[i].process \in Path
                 /\ p.rules[i].action \in Action
                 /\ Resolves(Stat, p.rules[i].resource)
                 /\ Resolves(Stat, p.rules[i].process)
                 /\ KeyOf(compile(p, Stat).rules[i])
                      = <<Stat[p.rules[i].resource], Stat[p.rules[i].process]>>
                 /\ compile(p, Stat).rules[i].action = p.rules[i].action
<1> DEFINE pr == p.protected_resources
           rs == p.rules
<1>1. p \in PolicyType
  BY UpdateAssumption
<1>2. pr \in Seq(Path) /\ rs \in Seq(PolicyRule)
      /\ Len(pr) \in Nat /\ Len(rs) \in Nat
  BY <1>1 DEF PolicyType
<1>3. /\ Len(compile(p, Stat).protected_resources) = Len(pr)
      /\ Len(compile(p, Stat).rules) = Len(rs)
  BY CompileType
<1>4. \A i \in 1..Len(pr) :
         /\ pr[i] \in AbsPath /\ pr[i] \in Path /\ Resolves(Stat, pr[i])
         /\ compile(p, Stat).protected_resources[i] = Stat[pr[i]]
  BY <1>2, PolicyAssumption DEF CanCompile, validate, compile
<1>5. ASSUME NEW i \in 1..Len(rs)
      PROVE  /\ rs[i].resource \in Path /\ rs[i].process \in Path
             /\ rs[i].action \in Action
             /\ Resolves(Stat, rs[i].resource) /\ Resolves(Stat, rs[i].process)
             /\ KeyOf(compile(p, Stat).rules[i])
                  = <<Stat[rs[i].resource], Stat[rs[i].process]>>
             /\ compile(p, Stat).rules[i].action = rs[i].action
  <2>1. rs[i] \in PolicyRule
    BY <1>2
  <2>2. rs[i].resource \in Path /\ rs[i].process \in Path /\ rs[i].action \in Action
    BY <2>1 DEF PolicyRule
  <2>3. PICK j \in 1..Len(pr) : pr[j] = rs[i].resource
    BY DEF CanCompile, validate
  <2>4. Resolves(Stat, rs[i].resource) /\ Resolves(Stat, rs[i].process)
    BY <1>4, <2>3 DEF CanCompile
  <2>5. compile(p, Stat).rules[i] =
           [rule_id  |-> i, resource |-> Stat[rs[i].resource],
            process  |-> Stat[rs[i].process], action |-> rs[i].action]
    BY <1>2 DEF compile
  <2>6. /\ KeyOf(compile(p, Stat).rules[i])
             = <<Stat[rs[i].resource], Stat[rs[i].process]>>
        /\ compile(p, Stat).rules[i].action = rs[i].action
    BY <2>5 DEF KeyOf
  <2> QED
    BY <2>2, <2>4, <2>6
<1> HIDE DEF pr, rs
<1> QED
  BY <1>2, <1>3, <1>4, <1>5 DEF pr, rs

\* find_rule returns the first rule that matches, or 0.
LEMMA FindRuleFirst ==
    ASSUME NEW p \in Policies, NEW path, NEW exe
    PROVE  \/ /\ find_rule(p, path, exe) = 0
              /\ \A i \in 1..Len(p.rules) :
                    ~(p.rules[i].resource = path /\ p.rules[i].process = exe)
           \/ /\ find_rule(p, path, exe) \in 1..Len(p.rules)
              /\ p.rules[find_rule(p, path, exe)].resource = path
              /\ p.rules[find_rule(p, path, exe)].process = exe
              /\ \A i \in 1..(find_rule(p, path, exe) - 1) :
                    ~(p.rules[i].resource = path /\ p.rules[i].process = exe)
<1> DEFINE I == {i \in 1..Len(p.rules) :
                    p.rules[i].resource = path /\ p.rules[i].process = exe}
<1>1. find_rule(p, path, exe) = IF I # {} THEN Min(I) ELSE 0
  BY DEF find_rule, SelectInSeq
<1>2. p.rules \in Seq(PolicyRule) /\ Len(p.rules) \in Nat
  BY UpdateAssumption DEF PolicyType
<1>3. CASE I = {}
  BY <1>1, <1>3
<1>4. CASE I # {}
  <2>1. I \subseteq Nat
    BY <1>2
  <2> DEFINE m == Min(I)
  <2>2. m \in I /\ \A i \in I : m =< i
    BY <1>4, <2>1, LeastNumber
  <2>3. find_rule(p, path, exe) = m
    BY <1>1, <1>4
  <2> HIDE DEF m
  <2>4. m \in 1..Len(p.rules) /\ p.rules[m].resource = path /\ p.rules[m].process = exe
    BY <2>2
  <2>5. ASSUME NEW i \in 1..(m - 1)
        PROVE  ~(p.rules[i].resource = path /\ p.rules[i].process = exe)
    <3>1. i \in 1..Len(p.rules) /\ ~(m =< i)
      BY <1>2, <2>4
    <3> QED
      BY <2>2, <3>1
  <2> QED
    BY <2>3, <2>4, <2>5
<1> QED
  BY <1>3, <1>4

\* The kernel's verdict on the compiled policy, by inode, is the decision of
\* DecisionEngine::evaluate on the policy, by path.
LEMMA VerdictIsDecision ==
    ASSUME OneName, DenyByDefault,
           NEW p \in Policies, CanCompile(p, Stat),
           NEW path \in AbsPath, NEW exe \in AbsPath,
           Resolves(Stat, path), Stat[exe] # NoFile
    PROVE  Verdict(compile(p, Stat), Stat[path], Stat[exe])
             = evaluate(p, path, exe).action
<1> DEFINE c == compile(p, Stat)
           f == Stat[path]
           e == Stat[exe]
           rs == p.rules
           r == find_rule(p, path, exe)
<1>1. path \in Path /\ exe \in Path /\ f \in FileId /\ e \in FileId /\ f # ZeroId
  BY PolicyAssumption, UpdateAssumption DEF Resolves
<1>2. c \in CompiledPolicy /\ c # Paused
  BY CompileType, HookAssumption
<1>3. ASSUME NEW i \in 1..Len(p.protected_resources)
      PROVE  c.protected_resources[i] = f <=> p.protected_resources[i] = path
  BY <1>1, CompiledParts DEF OneName
<1>4. f \notin Listed(c) <=> ~is_protected(p, path)
  BY <1>3, CompiledParts DEF is_protected, Listed
<1>5. ASSUME NEW i \in 1..Len(rs)
      PROVE  /\ KeyOf(c.rules[i]) = <<f, e>>
                  <=> rs[i].resource = path /\ rs[i].process = exe
             /\ rs[i].process = exe => e # ZeroId
             /\ c.rules[i].action = rs[i].action /\ rs[i].action \in Action
  <2>1. /\ rs[i].resource \in Path /\ rs[i].process \in Path
        /\ Resolves(Stat, rs[i].resource) /\ Resolves(Stat, rs[i].process)
        /\ KeyOf(c.rules[i]) = <<Stat[rs[i].resource], Stat[rs[i].process]>>
        /\ c.rules[i].action = rs[i].action /\ rs[i].action \in Action
    BY CompiledParts
  <2>2. Stat[rs[i].resource] = f <=> rs[i].resource = path
    BY <1>1, <2>1 DEF OneName
  <2>3. Stat[rs[i].process] = e <=> rs[i].process = exe
    BY <1>1, <2>1 DEF OneName
  <2>4. rs[i].process = exe => e # ZeroId
    BY <2>1 DEF Resolves
  <2> QED
    BY <2>1, <2>2, <2>3, <2>4
<1>6. Len(c.rules) = Len(rs) /\ Len(rs) \in Nat
  BY CompiledParts
<1>7. CASE ~is_protected(p, path)
  <2>1. Verdict(c, f, e) = "ALLOW"
    BY <1>2, <1>4, <1>7 DEF Verdict
  <2>2. evaluate(p, path, exe).action = "ALLOW"
    BY <1>7 DEF evaluate, Decision
  <2> QED
    BY <2>1, <2>2
<1>8. CASE is_protected(p, path)
  <2>1. Verdict(c, f, e) =
           IF /\ e # ZeroId
              /\ \E j \in 1..Len(rs) :
                    /\ KeyOf(c.rules[j]) = <<f, e>>
                    /\ c.rules[j].action = "ALLOW"
                    /\ \A i \in 1..(j - 1) : KeyOf(c.rules[i]) # <<f, e>>
           THEN "ALLOW" ELSE "DENY"
    BY <1>1, <1>2, <1>4, <1>6, <1>8 DEF Verdict
  <2>2. evaluate(p, path, exe).action = IF r # 0 THEN rs[r].action ELSE "DENY"
    BY <1>8 DEF evaluate, Decision, DenyByDefault
  <2> SUFFICES Verdict(c, f, e) = evaluate(p, path, exe).action
    OBVIOUS
  <2> HIDE DEF c, f, e, rs, r
  <2>3. CASE r = 0
    <3>1. \A i \in 1..Len(rs) : ~(rs[i].resource = path /\ rs[i].process = exe)
      BY <2>3, FindRuleFirst DEF rs, r
    <3> QED
      BY <1>5, <2>1, <2>2, <2>3, <3>1
  <2>4. CASE r # 0
    <3>1. /\ r \in 1..Len(rs) /\ rs[r].resource = path /\ rs[r].process = exe
          /\ \A i \in 1..(r - 1) : ~(rs[i].resource = path /\ rs[i].process = exe)
      BY <2>4, FindRuleFirst DEF rs, r
    <3>2. \A i \in 1..(r - 1) : i \in 1..Len(rs)
      BY <1>6, <3>1
    <3>3. /\ e # ZeroId /\ KeyOf(c.rules[r]) = <<f, e>>
          /\ c.rules[r].action = rs[r].action /\ rs[r].action \in Action
          /\ \A i \in 1..(r - 1) : KeyOf(c.rules[i]) # <<f, e>>
      BY <1>5, <3>1, <3>2
    <3>4. ASSUME NEW j \in 1..Len(rs), KeyOf(c.rules[j]) = <<f, e>>,
                 \A i \in 1..(j - 1) : KeyOf(c.rules[i]) # <<f, e>>
          PROVE  j = r
      <4>1. ~(j < r) /\ ~(r < j)
        BY <1>6, <3>1, <3>3, <3>4
      <4> QED
        BY <1>6, <3>1, <4>1
    <3>5. CASE rs[r].action = "ALLOW"
      <4>1. \E j \in 1..Len(rs) :
               /\ KeyOf(c.rules[j]) = <<f, e>>
               /\ c.rules[j].action = "ALLOW"
               /\ \A i \in 1..(j - 1) : KeyOf(c.rules[i]) # <<f, e>>
        BY <3>1, <3>3, <3>5
      <4> QED
        BY <2>1, <2>2, <2>4, <3>3, <3>5, <4>1
    <3>6. CASE rs[r].action = "DENY"
      <4>1. ~\E j \in 1..Len(rs) :
               /\ KeyOf(c.rules[j]) = <<f, e>>
               /\ c.rules[j].action = "ALLOW"
               /\ \A i \in 1..(j - 1) : KeyOf(c.rules[i]) # <<f, e>>
        BY <3>3, <3>4, <3>6
      <4> QED
        BY <2>1, <2>2, <2>4, <3>6, <4>1
    <3> QED
      BY <3>3, <3>5, <3>6 DEF Action
  <2> QED
    BY <2>3, <2>4
<1> QED
  BY <1>7, <1>8

\* The resolver of a policy gives every file it protects its configured name.
LEMMA ResolverNames ==
    ASSUME OneName, NEW p \in Policies, CanCompile(p, Stat),
           NEW i \in 1..Len(p.protected_resources)
    PROVE  Resolver(p, Stat)[Stat[p.protected_resources[i]]]
             = p.protected_resources[i]
<1> DEFINE procs == [k \in 1..Len(p.rules) |-> p.rules[k].process]
           names == p.protected_resources \o procs
           f == Stat[p.protected_resources[i]]
           same == {k \in 1..Len(names) : Stat[names[k]] = f}
           last == {k \in 1..Len(names) :
                      /\ Stat[names[k]] = f
                      /\ \A j \in (k + 1)..Len(names) : Stat[names[j]] # f}
<1>1. /\ p.protected_resources \in Seq(Path) /\ Len(p.protected_resources) \in Nat
      /\ Len(p.rules) \in Nat
      /\ \A k \in 1..Len(p.rules) : p.rules[k].process \in Path
  BY UpdateAssumption, CompiledParts DEF PolicyType
<1>2. procs \in Seq(Path) /\ Len(procs) = Len(p.rules)
  <2>1. procs \in [1..Len(p.rules) -> Path]
    BY <1>1
  <2> HIDE DEF procs
  <2> QED
    BY <1>1, <2>1, FunctionIsSeq
<1> HIDE DEF procs
<1>3. /\ names \in Seq(Path)
      /\ Len(names) = Len(p.protected_resources) + Len(procs)
      /\ names[i] = p.protected_resources[i]
      /\ Len(names) \in Nat /\ i \in 1..Len(names)
  <2> DEFINE a == p.protected_resources
  <2>1. a \in Seq(Path) /\ i \in 1..Len(a) /\ Len(a) \in Nat /\ Len(procs) \in Nat
    BY <1>1, <1>2
  <2> HIDE DEF a
  <2>2. a \o procs \in Seq(Path)
    BY <1>2, <2>1
  <2>3. Len(a \o procs) = Len(a) + Len(procs)
    BY <1>2, <2>1, ConcatProperties
  <2>4. (a \o procs)[i] = a[i]
    BY <1>2, <2>1, <2>3, ConcatProperties
  <2>5. Len(a \o procs) \in Nat /\ i \in 1..Len(a \o procs)
    BY <2>1, <2>3
  <2> QED
    BY <2>2, <2>3, <2>4, <2>5 DEF a
<1>4. i \in 1..Len(names) /\ Len(names) \in Nat
  BY <1>3
<1>5. Resolves(Stat, p.protected_resources[i]) /\ p.protected_resources[i] \in Path
  BY CompiledParts
<1>6. f \in FileId
  BY <1>5, UpdateAssumption DEF Resolves
<1> HIDE DEF names, f
<1>7. \A k \in 1..Len(names) : names[k] \in Path
  BY <1>3, <1>4
<1>8. i \in same /\ \A k \in same : names[k] = p.protected_resources[i]
  BY <1>3, <1>4, <1>5, <1>7 DEF OneName, f
<1>9. last # {} /\ last \subseteq same
  <2> DEFINE back == {Len(names) - k : k \in same}
  <2>1. back \subseteq Nat /\ back # {}
    BY <1>4, <1>8
  <2>2. Min(back) \in back /\ \A b \in back : Min(back) =< b
    BY <2>1, LeastNumber
  <2>3. PICK k \in same : Min(back) = Len(names) - k
    BY <2>2
  <2>4. \A j \in same : Len(names) - k =< Len(names) - j
    BY <2>2, <2>3
  <2>5. \A j \in (k + 1)..Len(names) : j \notin same
    BY <1>4, <2>4
  <2>6. \A j \in (k + 1)..Len(names) : j \in 1..Len(names)
    BY <1>4
  <2>7. k \in last
    BY <2>5, <2>6
  <2> QED
    BY <2>7
<1>10. Resolver(p, Stat)[f] = names[CHOOSE k \in last : TRUE]
  BY <1>6, <1>9 DEF Resolver, names, procs
<1>11. (CHOOSE k \in last : TRUE) \in same
  BY <1>9
<1> QED
  BY <1>8, <1>10, <1>11 DEF f
-----------------------------------------------------------------------------
(* The record of an open in the ring, and what status() reports.           *)

\* A record not yet submitted belongs to an open between its reservation and
\* its return, and says what that open asks for; no open has two of them.
Busy(i) == i \in 1..Len(ring) /\ ~ring[i].submitted

OwnedAt(i) ==
    /\ hook[ring[i].tid].ev
    /\ hook[ring[i].tid].pc \in {"rule", "ret"}
    /\ ring[i].res = hook[ring[i].tid].res
    /\ ring[i].exe = hook[ring[i].tid].exe
    /\ ring[i].stale = hook[ring[i].tid].stale

BusyInv ==
    /\ \A i \in 1..Len(ring) : Busy(i) => OwnedAt(i)
    /\ \A i, j \in 1..Len(ring) :
          Busy(i) /\ Busy(j) /\ ring[i].tid = ring[j].tid => i = j

\* A record of an open that saw one policy only, and nothing that clear_map
\* left, carries that policy's verdict.
Faithful(r) ==
    \A c \in r.seen : r.seen = {c} /\ ~r.stale =>
        /\ c \in CompiledPolicy
        /\ r.res # ZeroId
        /\ r.res \in Listed(c)
        /\ r.action = Verdict(c, r.res, r.exe)

RecordInv == \A i \in 1..Len(ring) : ring[i].submitted => Faithful(ring[i])

\* status_ describes the policy last enabled, and claims enforcement only while
\* the enforcer is loaded.
StatusInv ==
    /\ status_.enforcing =>
          skel = "loaded" /\ status_.policy_version = applied.version
    /\ config.enabled \/ status_.enforcing =>
          /\ status_.protected_count = Len(applied.protected_resources)
          /\ status_.rule_count = Len(applied.rules)

\* With one load at a time, user space follows the kernel: the policy enabled
\* is the one whose resolver is built next and which is installed last.
AgreeInv ==
    /\ \A l \in Loader : At(l, "resolver") \/ At(l, "install") =>
          applied = Compiled(l)
    /\ \A l \in Loader : At(l, "install") => resolver = Resolver(PolicyOf(l), Stat)
    /\ current # NoPolicy => CanCompile(current, Stat)
    /\ (\A l \in Loader : ~At(l, "install")) /\ current # NoPolicy =>
          resolver = Resolver(current, Stat)
    /\ (\A l \in Loader : ld[l].pc \in {"idle", "lock", "pause"}) /\ config.enabled =>
          current # NoPolicy /\ applied = compile(current, Stat)

\* status_ changes with the policy enabled and with the life of the enforcer.
LEMMA StatusStep ==
    ASSUME TypeOK, LockInv, StatusInv, [Next]_vars
    PROVE  StatusInv'
<1>1. CASE EnforcerLoad
  <2>1. ~config.enabled
    BY <1>1 DEF EnforcerLoad, LockInv
  <2> QED BY <1>1, <2>1 DEF EnforcerLoad, StatusInv
<1>2. CASE Detach
  BY <1>2 DEF Detach, StatusInv
<1>3. ASSUME NEW l \in Loader, NEW p \in Policies, LoadBegin(l, p)
      PROVE  StatusInv'
  BY <1>3 DEF LoadBegin, StatusInv
<1>4. ASSUME NEW l \in Loader, LoadStep(l)
      PROVE  StatusInv'
  <2>1. CASE ApplyEnable(l)
    <3>1. skel = "loaded" /\ skel' = skel
      BY <2>1 DEF ApplyEnable, At, LockInv, Critical
    <3> QED BY <2>1, <3>1 DEF ApplyEnable, StatusInv
  <2>2. CASE ApplyPause(l)
    BY <2>2 DEF ApplyPause, StatusInv
  <2>3. CASE ApplyLock(l) \/ ApplyFail(l) \/ SwapResolver(l) \/ Install(l)
    BY <2>3 DEF ApplyLock, ApplyFail, SwapResolver, Install, StatusInv
  <2>4. CASE \/ ClearProtected(l) \/ ClearRules(l)
             \/ InsertProtected(l) \/ InsertRules(l)
    BY <2>4
       DEF ClearProtected, ClearRules, InsertProtected, InsertRules, StatusInv
  <2> QED BY <1>4, <2>1, <2>2, <2>3, <2>4 DEF LoadStep
<1>5. CASE RingPoll
  BY <1>5 DEF RingPoll, loadVars, StatusInv
<1>6. CASE Open
  <2>1. UNCHANGED <<config, applied, skel>> /\ status_' = status_
    BY <1>6, OpenKeepsMaps DEF Open
  <2> QED BY <2>1 DEF StatusInv
<1>7. CASE UNCHANGED vars
  BY <1>7 DEF vars, StatusInv
<1> QED BY <1>1, <1>2, <1>3, <1>4, <1>5, <1>6, <1>7 DEF Next

\* The keys of the protected map, save those that clear_map left, are no more
\* than the entries they came from.
LEMMA KeysBounded ==
    ASSUME TypeOK, CompleteWhenEnabled, config.enabled
    PROVE  Cardinality(protected \ kept.files) <= Len(applied.protected_resources)
<1> DEFINE ids == applied.protected_resources
           n == Len(ids)
           S == Listed(applied)
<1>1. applied \in CompiledPolicy /\ protected = kept.files \cup S
  BY DEF CompleteWhenEnabled
<1>2. ids \in Seq(FileId) /\ n \in Nat /\ S = {ids[i] : i \in 1..n}
  BY <1>1 DEF CompiledPolicy, Listed
<1> HIDE DEF S
<1>3. [i \in 1..n |-> ids[i]] \in Surjection(1..n, S)
  <2> DEFINE f == [i \in 1..n |-> ids[i]]
  <2> HIDE DEF n, ids
  <2>1. f \in [1..n -> S]
    BY <1>2
  <2>2. \A x \in S : \E i \in 1..n : f[i] = x
    BY <1>2
  <2> HIDE DEF f
  <2> QED BY <2>1, <2>2 DEF Surjection, f
<1> HIDE DEF n, ids
<1>4. IsFiniteSet(1..n) /\ Cardinality(1..n) = n
  <2>1. 1 \in Int /\ n \in Int /\ n >= 1 - 1
    BY <1>2
  <2> QED BY <1>2, <2>1, FS_Interval
<1>5. IsFiniteSet(S) /\ Cardinality(S) <= Cardinality(1..n)
  BY <1>3, <1>4, FS_Surjection
<1>6. IsFiniteSet(S) /\ Cardinality(S) <= n /\ Cardinality(S) \in Nat
  BY <1>4, <1>5, FS_CardinalityType
<1>7. protected \ kept.files \subseteq S
  BY <1>1
<1>8. /\ Cardinality(protected \ kept.files) <= Cardinality(S)
      /\ Cardinality(protected \ kept.files) \in Nat
  BY <1>6, <1>7, FS_Subset, FS_CardinalityType
<1> QED BY <1>2, <1>6, <1>8 DEF n, ids

\* Every step keeps the owner of every record that is not submitted.
LEMMA BusyStep ==
    ASSUME TypeOK, BusyInv, [Next]_vars
    PROVE  BusyInv'
<1>0. /\ hook \in [Task -> HookType] /\ ring \in Seq(RecordType)
      /\ Len(ring) \in Nat
      /\ \A i \in 1..Len(ring) : ring[i] \in RecordType /\ ring[i].tid \in Task
  <2>1. hook \in [Task -> HookType] /\ ring \in Seq(RecordType)
    BY DEF TypeOK, KernelTypeOK
  <2>2. \A i \in 1..Len(ring) : ring[i] \in RecordType
    BY <2>1
  <2> QED BY <2>1, <2>2 DEF RecordType
\* The ring stays, and so does every open that has a record in it.
<1>k. ASSUME ring' = ring,
             \A t \in Task : hook[t].pc \in {"rule", "ret"} =>
                /\ hook'[t].pc \in {"rule", "ret"}
                /\ hook'[t].ev = hook[t].ev
                /\ hook'[t].res = hook[t].res
                /\ hook'[t].exe = hook[t].exe
                /\ hook'[t].stale = hook[t].stale
      PROVE  BusyInv'
  BY <1>0, <1>k DEF BusyInv, Busy, OwnedAt
<1>u. ASSUME ring' = ring, hook' = hook
      PROVE  BusyInv'
  BY <1>u, <1>k
<1>w. ASSUME ring' = ring, NEW r, hook' = Witness(hook, r)
      PROVE  BusyInv'
  <2>1. \A t \in Task : /\ hook'[t].pc = hook[t].pc /\ hook'[t].ev = hook[t].ev
                        /\ hook'[t].res = hook[t].res /\ hook'[t].exe = hook[t].exe
                        /\ hook'[t].stale = hook[t].stale
    BY <1>0, <1>w DEF Witness, HookType
  <2> QED BY <1>k, <1>w, <2>1
<1>1. CASE EnforcerLoad
  BY <1>1, <1>w DEF EnforcerLoad
<1>2. CASE Detach
  BY <1>2, <1>w DEF Detach
<1>3. ASSUME NEW l \in Loader, NEW p \in Policies, LoadBegin(l, p)
      PROVE  BusyInv'
  BY <1>3, <1>u DEF LoadBegin
<1>4. ASSUME NEW l \in Loader, LoadStep(l)
      PROVE  BusyInv'
  <2>1. CASE ApplyPause(l)
    BY <2>1, <1>w DEF ApplyPause
  <2>2. CASE ApplyEnable(l)
    BY <2>2, <1>w DEF ApplyEnable
  <2>3. CASE ApplyLock(l) \/ ApplyFail(l) \/ SwapResolver(l) \/ Install(l)
    BY <2>3, <1>u DEF ApplyLock, ApplyFail, SwapResolver, Install
  <2>4. CASE \/ ClearProtected(l) \/ ClearRules(l)
             \/ InsertProtected(l) \/ InsertRules(l)
    BY <2>4, <1>u DEF ClearProtected, ClearRules, InsertProtected, InsertRules
  <2> QED BY <1>4, <2>1, <2>2, <2>3, <2>4 DEF LoadStep
<1>5. CASE RingPoll
  <2>1. /\ ring' = Tail(ring) /\ ring # <<>> /\ hook' = hook
    BY <1>5 DEF RingPoll
  <2>2. /\ Len(ring') = Len(ring) - 1
        /\ \A i \in 1..Len(ring') : i + 1 \in 1..Len(ring) /\ ring'[i] = ring[i + 1]
    BY <1>0, <2>1
  <2>3. \A i \in 1..Len(ring') : Busy(i)' => Busy(i + 1) /\ (OwnedAt(i + 1) => OwnedAt(i)')
    BY <2>1, <2>2 DEF Busy, OwnedAt
  <2>4. \A i, j \in 1..Len(ring') : i + 1 = j + 1 => i = j
    BY <1>0, <2>2
  <2> QED BY <2>2, <2>3, <2>4 DEF BusyInv
<1>6. CASE Open
  <2>1. PICK t \in Task : \/ \E a \in Access : HookEnter(t, a[1], a[2])
                          \/ HookStep(t)
    BY <1>6 DEF Open, HookNext
  <2>t. hook[t] \in HookType
    BY <1>0
  <2>2. ASSUME NEW a \in Access, HookEnter(t, a[1], a[2])
        PROVE  BusyInv'
    <3>1. hook[t].pc = "idle" /\ ring' = ring
          /\ \A s \in Task : s # t => hook'[s] = hook[s]
      BY <1>0, <2>2 DEF HookEnter
    <3> QED BY <1>k, <3>1
  <2>3. CASE HookLookup(t)
    <3>1. /\ hook[t].pc = "lookup"
          /\ \A s \in Task : s # t => hook'[s] = hook[s]
      BY <1>0, <2>3 DEF HookLookup
    <3>2. CASE ring' = ring
      BY <1>k, <3>1, <3>2
    <3>3. CASE /\ hook' = [hook EXCEPT ![t].pc = "rule", ![t].ev = TRUE]
               /\ \E g \in StaleId, n \in StaleRule :
                     ring' = Append(ring,
                        [tid |-> t, submitted |-> FALSE, res |-> hook[t].res,
                         proc |-> g, rule_id |-> n, action |-> "DENY",
                         reason |-> "UNKNOWN_PROCESS", exe |-> hook[t].exe,
                         seen |-> hook[t].seen, stale |-> hook[t].stale])
      <4>1. /\ hook'[t].pc = "rule" /\ hook'[t].ev
            /\ hook'[t].res = hook[t].res /\ hook'[t].exe = hook[t].exe
            /\ hook'[t].stale = hook[t].stale
        BY <1>0, <2>t, <3>3 DEF HookType
      <4> DEFINE n == Len(ring) + 1
      <4>2. /\ Len(ring') = n
            /\ \A i \in 1..Len(ring) : ring'[i] = ring[i]
            /\ ring'[n].tid = t
            /\ ring'[n].res = hook[t].res /\ ring'[n].exe = hook[t].exe
            /\ ring'[n].stale = hook[t].stale
        BY <1>0, <3>3
      <4>3. \A i \in 1..Len(ring) : Busy(i) => ring[i].tid # t
        BY <3>1 DEF BusyInv, OwnedAt
      <4>4. \A i \in 1..n : i = n \/ i \in 1..Len(ring)
        BY <1>0
      <4>5. \A i \in 1..Len(ring) : Busy(i)' => Busy(i) /\ OwnedAt(i)'
        BY <1>0, <3>1, <4>2, <4>3 DEF Busy, BusyInv, OwnedAt
      <4>6. ASSUME NEW i \in 1..n, i = n PROVE OwnedAt(i)'
        BY <4>1, <4>2, <4>6 DEF OwnedAt
      <4> QED BY <4>2, <4>3, <4>4, <4>5, <4>6 DEF BusyInv
    <3> QED BY <2>3, <3>2, <3>3 DEF HookLookup
  <2>4. CASE HookRule(t)
    <3>1. /\ ring' = ring
          /\ \A s \in Task : s # t => hook'[s] = hook[s]
          /\ hook'[t].pc = "ret" /\ hook'[t].ev = hook[t].ev
          /\ hook'[t].res = hook[t].res /\ hook'[t].exe = hook[t].exe
          /\ hook'[t].stale = hook[t].stale
      BY <1>0, <2>t, <2>4 DEF HookRule, HookType
    <3> QED BY <1>k, <3>1
  <2>5. CASE HookReturn(t)
    <3>1. /\ \A s \in Task : s # t => hook'[s] = hook[s]
          /\ Len(ring') = Len(ring)
          /\ \A i \in 1..Len(ring) :
                \/ ring'[i] = ring[i] /\ ~(Busy(i) /\ ring[i].tid = t)
                \/ ring'[i].submitted
      <4>1. PICK v \in RuleRead(t), w \in RuleRead(t) :
              /\ hook' = [hook EXCEPT
                    ![t].pc = "idle", ![t].ev = FALSE, ![t].rule = NoRule,
                    ![t].verdict = fg_decision(hook[t].exe, w).action]
              /\ ring' = [i \in 1..Len(ring) |->
                    IF ring[i].tid = t /\ ~ring[i].submitted
                    THEN [ring[i] EXCEPT
                             !.submitted = TRUE,
                             !.action = fg_decision(hook[t].exe, v).action,
                             !.reason = fg_decision(hook[t].exe, v).reason,
                             !.seen = hook[t].seen,
                             !.rule_id = IF v = NoRule THEN @
                                ELSE fg_decision(hook[t].exe, v).rule_id]
                    ELSE ring[i]]
        BY <2>5 DEF HookReturn
      <4>2. \A s \in Task : s # t => hook'[s] = hook[s]
        BY <1>0, <4>1
      <4>3. Len(ring') = Len(ring)
        <5>1. ring' \in [1..Len(ring) -> {ring'[i] : i \in 1..Len(ring)}]
          BY <4>1
        <5> QED BY <1>0, <5>1, FunctionIsSeq
      <4>4. ASSUME NEW i \in 1..Len(ring)
            PROVE  \/ ring'[i] = ring[i] /\ ~(Busy(i) /\ ring[i].tid = t)
                   \/ ring'[i].submitted
        BY <1>0, <4>1 DEF Busy, RecordType
      <4> QED BY <4>2, <4>3, <4>4
    <3>2. \A i \in 1..Len(ring') : Busy(i)' =>
             /\ i \in 1..Len(ring) /\ Busy(i)
             /\ ring'[i] = ring[i] /\ ring[i].tid # t
      BY <3>1 DEF Busy
    <3>3. \A i \in 1..Len(ring') : Busy(i)' /\ OwnedAt(i) => OwnedAt(i)'
      BY <1>0, <3>1, <3>2 DEF OwnedAt
    <3> QED BY <3>2, <3>3 DEF BusyInv
  <2> QED BY <2>1, <2>2, <2>3, <2>4, <2>5 DEF HookStep
<1>7. CASE UNCHANGED vars
  BY <1>7, <1>u DEF vars
<1> QED BY <1>1, <1>2, <1>3, <1>4, <1>5, <1>6, <1>7 DEF Next

\* An open that saw one policy submits that policy's verdict.
LEMMA RecordStep ==
    ASSUME TypeOK, CompleteWhenEnabled, HookInv, BusyInv, RecordInv, [Next]_vars
    PROVE  RecordInv'
<1>0. /\ hook \in [Task -> HookType] /\ ring \in Seq(RecordType)
      /\ Len(ring) \in Nat
      /\ \A i \in 1..Len(ring) : ring[i] \in RecordType
  <2>1. hook \in [Task -> HookType] /\ ring \in Seq(RecordType)
    BY DEF TypeOK, KernelTypeOK
  <2> QED BY <2>1
<1>u. ASSUME ring' = ring PROVE RecordInv'
  BY <1>u DEF RecordInv
<1>1. CASE EnforcerLoad \/ Detach \/ \E l \in Loader, p \in Policies : LoadBegin(l, p)
  BY <1>1, <1>u DEF EnforcerLoad, Detach, LoadBegin
<1>2. ASSUME NEW l \in Loader, LoadStep(l)
      PROVE  RecordInv'
  BY <1>2, <1>u
     DEF LoadStep, ApplyLock, ApplyFail, ApplyPause, ClearProtected, ClearRules,
         InsertProtected, InsertRules, ApplyEnable, SwapResolver, Install
<1>3. CASE RingPoll
  <2>1. ring' = Tail(ring) /\ ring # <<>>
    BY <1>3 DEF RingPoll
  <2>2. \A i \in 1..Len(ring') : i + 1 \in 1..Len(ring) /\ ring'[i] = ring[i + 1]
    BY <1>0, <2>1
  <2> QED BY <2>2 DEF RecordInv
<1>4. CASE Open
  <2>1. PICK t \in Task : \/ \E a \in Access : HookEnter(t, a[1], a[2])
                          \/ HookStep(t)
    BY <1>4 DEF Open, HookNext
  <2>2. CASE \/ \E a \in Access : HookEnter(t, a[1], a[2])
             \/ HookRule(t)
    BY <1>u, <2>2 DEF HookEnter, HookRule
  <2>3. CASE HookLookup(t)
    <3>1. CASE ring' = ring
      BY <1>u, <3>1
    <3>2. ASSUME NEW r, ~r.submitted, ring' = Append(ring, r)
          PROVE  RecordInv'
      <4>1. /\ Len(ring') = Len(ring) + 1
            /\ \A i \in 1..Len(ring) : ring'[i] = ring[i]
            /\ ring'[Len(ring) + 1] = r
        BY <1>0, <3>2
      <4>2. \A i \in 1..Len(ring') : i = Len(ring) + 1 \/ i \in 1..Len(ring)
        BY <1>0, <4>1
      <4> QED BY <3>2, <4>1, <4>2 DEF RecordInv
    <3>3. \/ ring' = ring
          \/ \E r : ~r.submitted /\ ring' = Append(ring, r)
      <4>1. ASSUME NEW g \in StaleId, NEW n \in StaleRule,
                   ring' = Append(ring,
                        [tid |-> t, submitted |-> FALSE, res |-> hook[t].res,
                         proc |-> g, rule_id |-> n, action |-> "DENY",
                         reason |-> "UNKNOWN_PROCESS", exe |-> hook[t].exe,
                         seen |-> hook[t].seen, stale |-> hook[t].stale])
            PROVE  \E r : ~r.submitted /\ ring' = Append(ring, r)
        <5> DEFINE r == [tid |-> t, submitted |-> FALSE, res |-> hook[t].res,
                         proc |-> g, rule_id |-> n, action |-> "DENY",
                         reason |-> "UNKNOWN_PROCESS", exe |-> hook[t].exe,
                         seen |-> hook[t].seen, stale |-> hook[t].stale]
        <5>1. ~r.submitted /\ ring' = Append(ring, r)
          BY <4>1
        <5> QED BY <5>1
      <4> QED BY <2>3, <4>1 DEF HookLookup
    <3> QED BY <3>1, <3>2, <3>3
  <2>4. CASE HookReturn(t)
    <3>1. PICK v \in RuleRead(t) :
             ring' = [i \in 1..Len(ring) |->
                IF ring[i].tid = t /\ ~ring[i].submitted
                THEN [ring[i] EXCEPT
                         !.submitted = TRUE,
                         !.action = fg_decision(hook[t].exe, v).action,
                         !.reason = fg_decision(hook[t].exe, v).reason,
                         !.seen = hook[t].seen,
                         !.rule_id = IF v = NoRule THEN @
                            ELSE fg_decision(hook[t].exe, v).rule_id]
                ELSE ring[i]]
      BY <2>4 DEF HookReturn
    <3>2. Len(ring') = Len(ring)
      <4>1. ring' \in [1..Len(ring) -> {ring'[i] : i \in 1..Len(ring)}]
        BY <3>1
      <4> QED BY <1>0, <4>1, FunctionIsSeq
    <3>3. /\ InFlight(t) /\ hook[t].pc = "ret" /\ HookAt(t)
          /\ hook[t].res \in FileId /\ hook[t].exe \in FileId
      BY <1>0, <2>4 DEF HookReturn, InFlight, HookInv, HookType
    <3>4. ASSUME NEW c \in hook[t].seen, hook[t].seen = {c}, ~hook[t].stale
          PROVE  /\ c \in CompiledPolicy
                 /\ hook[t].res # ZeroId
                 /\ hook[t].res \in Listed(c)
                 /\ fg_decision(hook[t].exe, v).action
                      = Verdict(c, hook[t].res, hook[t].exe)
      <4>1. /\ c = Regime /\ c # Paused /\ hook[t].res # ZeroId
            /\ hook[t].res \in protected
            /\ ~Leftover(hook[t].res, hook[t].exe)
            /\ hook[t].rule = IF hook[t].exe = ZeroId THEN NoRule
                              ELSE rulesMap[<<hook[t].res, hook[t].exe>>]
        BY <3>3, <3>4 DEF HookAt
      <4>2. c = applied /\ config.enabled
        BY <4>1 DEF Regime
      <4>3. v = hook[t].rule
        BY <3>1, <4>1 DEF RuleRead
      <4>4. c \in CompiledPolicy /\ hook[t].res \in Listed(c)
        BY <4>1, <4>2 DEF CompleteWhenEnabled, Leftover
      <4>5. fg_decision(hook[t].exe, v).action
              = Verdict(c, hook[t].res, hook[t].exe)
        BY <3>3, <4>1, <4>2, <4>3, LookupIsVerdict
      <4> QED BY <4>1, <4>4, <4>5
    <3>5. ASSUME NEW i \in 1..Len(ring), ring'[i].submitted
          PROVE  Faithful(ring'[i])
      <4>1. CASE ring[i].tid = t /\ ~ring[i].submitted
        <5>1. /\ ring[i].res = hook[t].res /\ ring[i].exe = hook[t].exe
              /\ ring[i].stale = hook[t].stale
          BY <4>1 DEF BusyInv, Busy, OwnedAt
        <5>2. /\ ring'[i].seen = hook[t].seen
              /\ ring'[i].res = hook[t].res /\ ring'[i].exe = hook[t].exe
              /\ ring'[i].stale = hook[t].stale
              /\ ring'[i].action = fg_decision(hook[t].exe, v).action
          BY <1>0, <3>1, <4>1, <5>1 DEF RecordType
        <5> QED BY <3>4, <5>2 DEF Faithful
      <4>2. CASE ~(ring[i].tid = t /\ ~ring[i].submitted)
        <5>1. ring'[i] = ring[i]
          BY <3>1, <4>2
        <5> QED BY <3>5, <5>1 DEF RecordInv
      <4> QED BY <4>1, <4>2
    <3> QED BY <3>2, <3>5 DEF RecordInv
  <2> QED BY <2>1, <2>2, <2>3, <2>4 DEF HookStep
<1>5. CASE UNCHANGED vars
  BY <1>5, <1>u DEF vars
<1> QED BY <1>1, <1>2, <1>3, <1>4, <1>5 DEF Next

\* What is invariant of the ring and of status_, however many loads run at once.
ReportInv == BusyInv /\ RecordInv /\ StatusInv

\* ReportInv holds of every reachable state.
THEOREM Reporting == Spec => []ReportInv
<1>1. Init => ReportInv
  BY DEF Init, ReportInv, BusyInv, RecordInv, StatusInv
<1>2. IInv /\ ReportInv /\ [Next]_vars => ReportInv'
  <2> SUFFICES ASSUME IInv, ReportInv, [Next]_vars PROVE ReportInv'
    OBVIOUS
  <2>1. /\ TypeOK /\ LockInv /\ CompleteWhenEnabled /\ HookInv
        /\ BusyInv /\ RecordInv /\ StatusInv
    BY DEF IInv, ReportInv
  <2>2. BusyInv'
    BY <2>1, BusyStep
  <2>3. RecordInv'
    BY <2>1, RecordStep
  <2>4. StatusInv'
    BY <2>1, StatusStep
  <2> QED BY <2>2, <2>3, <2>4 DEF ReportInv
<1> QED BY <1>1, <1>2, Invariance, PTL DEF Spec

\* A record that blocks the reader of the ring always belongs to an open that
\* is still inside fg_file_open, one per open: every path of the program from
\* bpf_ringbuf_reserve reaches the submit.
THEOREM RingNeverAbandoned == Spec => []BusyRecordsOwned
<1>1. BusyInv => BusyRecordsOwned
  BY DEF BusyInv, Busy, OwnedAt, BusyRecordsOwned
<1> QED BY <1>1, Reporting, PTL DEF ReportInv

\* Whichever map calls fail, noticed or not, status() says "enforcing" only of an
\* attached program and with the version and sizes of the policy last enabled;
\* when it could read the config entry, the maps hold that policy, beside what
\* clear_map left.
THEOREM StatusIsTrue == Spec => []StatusTruthful
<1>1. TypeOK /\ CompleteWhenEnabled /\ StatusInv => StatusTruthful
  <2> SUFFICES ASSUME TypeOK, CompleteWhenEnabled, StatusInv,
                      NEW found \in BOOLEAN, status(found).enforcing
               PROVE  /\ attached
                      /\ status(found).policy_version = applied.version
                      /\ status(found).protected_count
                           = Len(applied.protected_resources)
                      /\ status(found).rule_count = Len(applied.rules)
                      /\ found => /\ Regime = applied
                                  /\ Cardinality(protected \ kept.files)
                                       <= status(found).protected_count
    BY DEF StatusTruthful
  <2>1. CASE found /\ skel = "loaded"
    <3>1. /\ status(found).enforcing = config.enabled
          /\ status(found).policy_version = config.policy_version
          /\ status(found).protected_count = status_.protected_count
          /\ status(found).rule_count = status_.rule_count
      BY <2>1 DEF status, TypeOK
    <3>2. config.enabled /\ attached
      BY <2>1, <3>1 DEF TypeOK
    <3>3. Regime = applied
      BY <3>2 DEF Regime
    <3>4. Cardinality(protected \ kept.files) <= Len(applied.protected_resources)
      BY <3>2, KeysBounded
    <3> QED BY <3>1, <3>2, <3>3, <3>4 DEF CompleteWhenEnabled, StatusInv
  <2>2. CASE ~(found /\ skel = "loaded")
    <3>1. status(found) = status_
      BY <2>2 DEF status
    <3>2. skel = "loaded" /\ attached
      BY <3>1 DEF StatusInv, TypeOK
    <3> QED BY <2>2, <3>1, <3>2 DEF StatusInv
  <2> QED BY <2>1, <2>2
<1>2. IInv /\ ReportInv => StatusTruthful
  BY <1>1 DEF IInv, ReportInv
<1> QED BY <1>2, Invariance, Reporting, PTL

-----------------------------------------------------------------------------
(* One load at a time: user space follows the kernel.                      *)

\* The order of load_policy keeps kernel, resolver and current policy in step.
LEMMA AgreeStep ==
    ASSUME OneLoader, TypeOK, LoadsCompile, LoopInv, AgreeInv, [Next]_vars
    PROVE  AgreeInv'
<1>0. ld \in [Loader -> LoaderType] /\ \A l \in Loader : ld[l] \in LoaderType
  BY DEF TypeOK
<1>u. ASSUME UNCHANGED <<config, applied, current, resolver, ld>>
      PROVE  AgreeInv'
  BY <1>u DEF AgreeInv, At, Compiled, PolicyOf
<1>1. CASE EnforcerLoad \/ Detach \/ RingPoll
  BY <1>1, <1>u DEF EnforcerLoad, Detach, RingPoll, loadVars
<1>2. CASE Open
  BY <1>2, <1>u, OpenKeepsMaps DEF Open
<1>3. ASSUME NEW l \in Loader, NEW p \in Policies, LoadBegin(l, p)
      PROVE  AgreeInv'
  <2>1. /\ ld[l].pc = "idle" /\ ld'[l].pc \in {"idle", "lock"}
        /\ UNCHANGED <<config, applied, current, resolver>>
    BY <1>0, <1>3 DEF LoadBegin, At, IdleLoader
  <2>2. \A k \in Loader : k = l
    BY DEF OneLoader
  <2> QED BY <2>1, <2>2 DEF AgreeInv, At
<1>4. ASSUME NEW l \in Loader, LoadStep(l)
      PROVE  AgreeInv'
  <2>1. \A k \in Loader : k = l
    BY DEF OneLoader
  <2>2. /\ ld[l].pc # "idle"
        /\ ld'[l].pc # "idle" =>
              PolicyOf(l)' = PolicyOf(l) /\ Compiled(l)' = Compiled(l)
    BY <1>0, <1>4, LoadStepLocal DEF PolicyOf, Compiled
  <2>3. CASE ApplyLock(l)
    <3>1. /\ ld[l].pc = "lock" /\ ld'[l].pc \in {"pause", "idle"}
          /\ UNCHANGED <<config, applied, current, resolver>>
      BY <1>0, <2>3 DEF ApplyLock, At, Goto, Return, LoaderType, IdleLoader
    <3> QED BY <2>1, <3>1 DEF AgreeInv, At
  <2>4. CASE ApplyFail(l)
    <3>1. /\ ld[l].pc \in Critical /\ ld'[l].pc = "idle"
          /\ UNCHANGED <<config, applied, current, resolver>>
      BY <1>0, <2>4
         DEF ApplyFail, MapError, At, Return, LoaderType, IdleLoader, Critical
    <3>2. ld[l].pc = "pause" \/ ~config.enabled
      BY <3>1 DEF LoopInv, LoopAt, Writing
    <3>3. ~At(l, "install") /\ ~At(l, "resolver")
      BY <3>1 DEF At, Critical
    <3> QED BY <2>1, <3>1, <3>2, <3>3 DEF AgreeInv, At
  <2>5. CASE ApplyPause(l)
    <3>1. /\ ld[l].pc = "pause" /\ ld'[l].pc = "clearp"
          /\ UNCHANGED <<applied, current, resolver>>
      BY <1>0, <2>5 DEF ApplyPause, At, Goto, LoaderType
    <3> QED BY <2>1, <3>1 DEF AgreeInv, At
  <2>6. CASE \/ ClearProtected(l) \/ ClearRules(l)
             \/ InsertProtected(l) \/ InsertRules(l)
    <3>1. /\ ld[l].pc \in Writing /\ ld'[l].pc \in Writing
          /\ UNCHANGED <<config, applied, current, resolver>>
      <4>1. CASE ClearProtected(l)
        BY <1>0, <4>1
           DEF ClearProtected, At, Goto, LoaderType, Writing, Critical
      <4>2. CASE ClearRules(l)
        BY <1>0, <4>2 DEF ClearRules, At, Goto, LoaderType, Writing, Critical
      <4>3. CASE InsertProtected(l)
        BY <1>0, <4>3
           DEF InsertProtected, At, Goto, LoaderType, Writing, Critical
      <4>4. CASE InsertRules(l)
        BY <1>0, <4>4 DEF InsertRules, At, Goto, LoaderType, Writing, Critical
      <4> QED BY <2>6, <4>1, <4>2, <4>3, <4>4
    <3> QED BY <2>1, <3>1 DEF AgreeInv, At, Writing, Critical
  <2>7. CASE ApplyEnable(l)
    <3>1. /\ ld[l].pc = "enable" /\ ld'[l].pc = "resolver"
          /\ applied' = Compiled(l)
          /\ UNCHANGED <<current, resolver>>
      BY <1>0, <2>7 DEF ApplyEnable, At, Goto, LoaderType
    <3> QED BY <2>1, <2>2, <3>1 DEF AgreeInv, At
  <2>8. CASE SwapResolver(l)
    <3>1. /\ ld[l].pc = "resolver" /\ ld'[l].pc = "install"
          /\ resolver' = Resolver(PolicyOf(l), Stat)
          /\ UNCHANGED <<config, applied, current>>
      BY <1>0, <2>8 DEF SwapResolver, At, Goto, LoaderType, PolicyOf
    <3> QED BY <2>1, <2>2, <3>1 DEF AgreeInv, At
  <2>9. CASE Install(l)
    <3>1. /\ ld[l].pc = "install" /\ ld'[l].pc = "idle"
          /\ current' = PolicyOf(l)
          /\ UNCHANGED <<config, applied, resolver>>
      BY <1>0, <2>9 DEF Install, At, Return, LoaderType, IdleLoader, PolicyOf
    <3>2. /\ PolicyOf(l) # NoPolicy /\ CanCompile(PolicyOf(l), Stat)
          /\ Compiled(l) = compile(PolicyOf(l), Stat)
      BY <2>2, UpdateAssumption, NoPolicyAssumption
         DEF LoadsCompile, Compiled, PolicyOf
    <3>3. applied = Compiled(l) /\ resolver = Resolver(PolicyOf(l), Stat)
      BY <3>1 DEF AgreeInv, At
    <3> QED BY <2>1, <3>1, <3>2, <3>3 DEF AgreeInv, At
  <2> QED BY <1>4, <2>3, <2>4, <2>5, <2>6, <2>7, <2>8, <2>9 DEF LoadStep
<1>5. CASE UNCHANGED vars
  BY <1>5, <1>u DEF vars
<1> QED BY <1>1, <1>2, <1>3, <1>4, <1>5 DEF Next

\* AgreeInv holds of every reachable state when loads do not overlap.
THEOREM Agreement == ASSUME OneLoader PROVE Spec => []AgreeInv
<1>1. Init => AgreeInv
  BY DEF Init, AgreeInv, At, IdleLoader
<1>2. IInv /\ AgreeInv /\ [Next]_vars => AgreeInv'
  BY AgreeStep DEF IInv
<1> QED BY <1>1, <1>2, Invariance, PTL DEF Spec

\* Between loads the resolver gives every file the kernel protects the name the
\* current policy has for it.
THEOREM ResolverFollows ==
    ASSUME OneLoader, OneName PROVE Spec => []ResolverMatches
<1>1. TypeOK /\ AgreeInv => ResolverMatches
  BY ResolverNames DEF ResolverMatches, Quiescent, At, AgreeInv, TypeOK
<1>2. IInv /\ AgreeInv => ResolverMatches
  BY <1>1 DEF IInv
<1> QED BY <1>2, Invariance, Agreement, PTL

\* Between loads the kernel decides every request for which clear_map left
\* nothing, by inode, as the DecisionEngine decides it, by path, with the current
\* policy.
THEOREM KernelAgrees ==
    ASSUME OneLoader, OneName, DenyByDefault PROVE Spec => []EngineAgrees
<1>1. TypeOK /\ CompleteWhenEnabled /\ AgreeInv => EngineAgrees
  <2> SUFFICES ASSUME TypeOK, CompleteWhenEnabled, AgreeInv,
                      Quiescent, attached, config.enabled
               PROVE  /\ current # NoPolicy
                      /\ \A p, x \in {q \in AbsPath : Resolves(Stat, q)} :
                            \/ Leftover(Stat[p], Stat[x])
                            \/ KernelDecision(Stat[p], Stat[x])
                                 = evaluate(current, p, x).action
    BY DEF EngineAgrees
  <2>1. /\ current # NoPolicy /\ applied = compile(current, Stat)
        /\ CanCompile(current, Stat)
    BY DEF AgreeInv, Quiescent, At
  <2>2. current \in Policies
    BY <2>1 DEF TypeOK
  <2>3. ASSUME NEW p \in AbsPath, NEW x \in AbsPath,
               Resolves(Stat, p), Resolves(Stat, x),
               ~Leftover(Stat[p], Stat[x])
        PROVE  KernelDecision(Stat[p], Stat[x]) = evaluate(current, p, x).action
    <3>1. /\ Stat[p] \in FileId /\ Stat[p] # ZeroId
          /\ Stat[x] \in FileId /\ Stat[x] # NoFile
      BY <2>3, PolicyAssumption, UpdateAssumption DEF Resolves
    <3>2. KernelDecision(Stat[p], Stat[x]) = Verdict(applied, Stat[p], Stat[x])
      BY <2>3, <3>1, LookupIsVerdict DEF KernelDecision
    <3>3. Verdict(applied, Stat[p], Stat[x]) = evaluate(current, p, x).action
      BY <2>1, <2>2, <2>3, <3>1, VerdictIsDecision
    <3> QED BY <3>2, <3>3
  <2> QED BY <2>1, <2>3
<1>2. IInv /\ AgreeInv => EngineAgrees
  BY <1>1 DEF IInv
<1> QED BY <1>2, Invariance, Agreement, PTL

\* What the poll thread emits between loads, of opens that met nothing that
\* clear_map left, tells the user what the DecisionEngine would have: the
\* configured name and the decided action.
THEOREM EventsExplain ==
    ASSUME OneLoader, OneName, DenyByDefault PROVE Spec => []EventExplains
<1>1. Init => EventExplains
  BY DEF Init, NoEvent, EventExplains
<1>2. ASSUME TypeOK, AgreeInv, RecordInv, EventExplains, [Next]_vars
      PROVE  EventExplains'
  <2>1. CASE emitted' = emitted
    BY <1>2, <2>1 DEF EventExplains
  <2>2. CASE RingPoll
    <3> DEFINE r == Head(ring)
    <3>1. /\ r \in RecordType /\ Faithful(r)
          /\ r.res \in FileId /\ r.exe \in FileId
      <4>1. ring \in Seq(RecordType) /\ ring # <<>> /\ ring[1].submitted
        BY <1>2, <2>2 DEF RingPoll, TypeOK, KernelTypeOK
      <4>2. 1 \in 1..Len(ring) /\ r = ring[1] /\ r \in RecordType
        BY <4>1
      <4> QED BY <1>2, <4>1, <4>2 DEF RecordInv, RecordType
    <3>2. emitted' = [res |-> resolver[r.res], exe |-> r.exe,
                      action |-> r.action, seen |-> r.seen,
                      stale |-> r.stale, calm |-> Quiescent, under |-> current]
      BY <2>2 DEF RingPoll
    <3> HIDE DEF r
    <3> SUFFICES ASSUME Quiescent, current # NoPolicy,
                        r.seen = {compile(current, Stat)}, ~r.stale
                 PROVE  /\ is_protected(current, resolver[r.res])
                        /\ \A x \in AbsPath : Stat[x] = r.exe =>
                              r.action = evaluate(current, resolver[r.res], x).action
      BY <3>2 DEF EventExplains
    <3> DEFINE c == compile(current, Stat)
    <3>3. /\ current \in Policies /\ CanCompile(current, Stat)
          /\ resolver = Resolver(current, Stat)
      BY <1>2 DEF TypeOK, AgreeInv, Quiescent, At
    <3>4. /\ r.res \in Listed(c)
          /\ r.action = Verdict(c, r.res, r.exe)
      BY <3>1 DEF Faithful
    <3>5. PICK j \in 1..Len(c.protected_resources) : c.protected_resources[j] = r.res
      BY <3>4 DEF Listed
    <3> DEFINE path == current.protected_resources[j]
    <3>6. /\ j \in 1..Len(current.protected_resources)
          /\ path \in AbsPath /\ Resolves(Stat, path) /\ r.res = Stat[path]
      BY <3>3, <3>5, CompiledParts
    <3>7. resolver[r.res] = path
      BY <3>3, <3>6, ResolverNames
    <3>8. is_protected(current, path)
      BY <3>6 DEF is_protected
    <3>9. ASSUME NEW x \in AbsPath, Stat[x] = r.exe
          PROVE  r.action = evaluate(current, path, x).action
      <4>1. Stat[x] # NoFile
        BY <3>1, <3>9, PolicyAssumption
      <4>2. Verdict(c, Stat[path], Stat[x]) = evaluate(current, path, x).action
        BY <3>3, <3>6, <4>1, VerdictIsDecision
      <4> QED BY <3>4, <3>6, <3>9, <4>2
    <3> QED BY <3>7, <3>8, <3>9
  <2>3. RingPoll \/ emitted' = emitted
    BY <1>2
       DEF Next, EnforcerLoad, Detach, LoadBegin, LoadStep, ApplyLock,
           ApplyFail, ApplyPause, ClearProtected, ClearRules, InsertProtected,
           InsertRules, ApplyEnable, SwapResolver, Install, Open, vars
  <2> QED BY <2>1, <2>2, <2>3
<1>3. IInv /\ AgreeInv /\ ReportInv /\ EventExplains /\ [Next]_vars => EventExplains'
  BY <1>2 DEF IInv, ReportInv
<1> QED BY <1>1, <1>3, Invariance, Agreement, Reporting, PTL DEF Spec

-----------------------------------------------------------------------------
\* What remains without OneLoader.  The kernel enforces a policy that some call
\* of load_policy was given and compiled.
AppliedInv ==
    config.enabled =>
        \E p \in Policies : CanCompile(p, Stat) /\ applied = compile(p, Stat)

\* However many loads are under way and at whatever step, while enforcement is
\* on there is one policy handed to load_policy by which the kernel decides
\* every request for which clear_map left nothing, as DecisionEngine::evaluate
\* does with that policy.
OnePolicyDecides ==
    config.enabled =>
        \E p \in Policies :
            /\ applied = compile(p, Stat)
            /\ \A f, x \in {q \in AbsPath : Resolves(Stat, q)} :
                  \/ Leftover(Stat[f], Stat[x])
                  \/ KernelDecision(Stat[f], Stat[x]) = evaluate(p, f, x).action

\* Only ApplyEnable turns enforcement on, with the policy of its own load.
LEMMA AppliedStep ==
    ASSUME IInv, AppliedInv, [Next]_vars
    PROVE  AppliedInv'
<1>1. ASSUME NEW l \in Loader, ApplyEnable(l)
      PROVE  AppliedInv'
  <2>1. ld[l].policy \in Policies /\ CanCompile(ld[l].policy, Stat)
    BY <1>1 DEF ApplyEnable, At, IInv, LoadsCompile, PolicyOf
  <2>2. applied' = compile(ld[l].policy, Stat)
    BY <1>1 DEF ApplyEnable, Compiled
  <2> QED BY <2>1, <2>2 DEF AppliedInv
<1>2. CASE \A l \in Loader : ~ApplyEnable(l)
  <2>1. ~config'.enabled \/ UNCHANGED <<config, applied>>
    <3>1. CASE EnforcerLoad \/ Detach
      BY <3>1 DEF EnforcerLoad, Detach
    <3>2. ASSUME NEW l \in Loader, NEW p \in Policies, LoadBegin(l, p)
          PROVE  UNCHANGED <<config, applied>>
      BY <3>2 DEF LoadBegin
    <3>3. ASSUME NEW l \in Loader, LoadStep(l)
          PROVE  ~config'.enabled \/ UNCHANGED <<config, applied>>
      <4>1. CASE ApplyPause(l)
        BY <4>1 DEF ApplyPause
      <4>2. CASE ApplyLock(l) \/ ApplyFail(l) \/ SwapResolver(l) \/ Install(l)
        BY <4>2 DEF ApplyLock, ApplyFail, SwapResolver, Install
      <4>3. CASE ClearProtected(l) \/ ClearRules(l)
        BY <4>3 DEF ClearProtected, ClearRules
      <4>4. CASE InsertProtected(l) \/ InsertRules(l)
        BY <4>4 DEF InsertProtected, InsertRules
      <4> QED BY <1>2, <3>3, <4>1, <4>2, <4>3, <4>4 DEF LoadStep
    <3>4. CASE RingPoll \/ Open
      BY <3>4, OpenKeepsMaps
    <3>5. CASE UNCHANGED vars
      BY <3>5 DEF vars
    <3> QED BY <3>1, <3>2, <3>3, <3>4, <3>5 DEF Next
  <2> QED BY <2>1 DEF AppliedInv
<1> QED BY <1>1, <1>2

\* Concurrent loads may leave user space with another policy than the kernel,
\* and an open in flight with a mixed verdict; the maps themselves never hold a
\* policy that nobody loaded, and mix two only where a delete that clear_map
\* does not check failed.
THEOREM OneLoadedPolicy ==
    ASSUME OneName, DenyByDefault PROVE Spec => []OnePolicyDecides
<1>1. Init => AppliedInv
  BY DEF Init, AppliedInv
<1>2. IInv /\ AppliedInv /\ [Next]_vars => AppliedInv'
  BY AppliedStep
<1>3. IInv /\ AppliedInv => OnePolicyDecides
  <2> SUFFICES ASSUME IInv, AppliedInv, config.enabled
               PROVE  \E p \in Policies :
                         /\ applied = compile(p, Stat)
                         /\ \A f, x \in {q \in AbsPath : Resolves(Stat, q)} :
                               \/ Leftover(Stat[f], Stat[x])
                               \/ KernelDecision(Stat[f], Stat[x])
                                    = evaluate(p, f, x).action
    BY DEF OnePolicyDecides
  <2>1. TypeOK /\ CompleteWhenEnabled
    BY DEF IInv
  <2>2. PICK p \in Policies : CanCompile(p, Stat) /\ applied = compile(p, Stat)
    BY DEF AppliedInv
  <2>3. ASSUME NEW f \in AbsPath, NEW x \in AbsPath,
               Resolves(Stat, f), Resolves(Stat, x),
               ~Leftover(Stat[f], Stat[x])
        PROVE  KernelDecision(Stat[f], Stat[x]) = evaluate(p, f, x).action
    <3>1. /\ Stat[f] \in FileId /\ Stat[f] # ZeroId
          /\ Stat[x] \in FileId /\ Stat[x] # NoFile
      BY <2>3, PolicyAssumption, UpdateAssumption DEF Resolves
    <3>2. KernelDecision(Stat[f], Stat[x]) = Verdict(applied, Stat[f], Stat[x])
      BY <2>1, <2>3, <3>1, LookupIsVerdict DEF KernelDecision
    <3>3. Verdict(applied, Stat[f], Stat[x]) = evaluate(p, f, x).action
      BY <2>2, <2>3, <3>1, VerdictIsDecision
    <3> QED BY <3>2, <3>3
  <2> QED BY <2>2, <2>3
<1> QED BY <1>1, <1>2, <1>3, Invariance, PTL DEF Spec
=============================================================================
