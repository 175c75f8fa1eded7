------------------------- MODULE PolicyUpdateProofs -------------------------
(***************************************************************************)
(* Proofs about PolicyUpdate, for any number of tasks and loaders, any set *)
(* of policies, any file system and any capacity of the maps.              *)
(***************************************************************************)
EXTENDS PolicyUpdate, TLAPS

\* Program points inside the critical section of apply_policy.
Critical == {"pause", "clearp", "clearr", "insp", "insr", "enable"}

\* The program points at which enforcement is paused by the loader.
Writing == Critical \ {"pause"}

PolicyOf(l) == ld[l].policy

\* A load past validation carries a policy that compiles.
LoadsCompile ==
    \A l \in Loader : ld[l].pc # "idle" =>
        PolicyOf(l) \in Policies /\ CanCompile(PolicyOf(l), Stat)

\* state_mu_ is held in the critical section, by one thread, and the enforcer
\* stays loaded there.
LockInv ==
    /\ \A l \in Loader : ld[l].pc \in Critical => mu = l /\ skel = "loaded"
    /\ config.enabled => skel # "none"

\* While the maps are rewritten enforcement is off, and what they hold is the
\* beginning of the compiled policy on top of what clear_map left.
LoopAt(l) ==
    /\ ld[l].pc \in Writing => ~config.enabled
    /\ ld[l].pc = "clearr" => protected = kept.files
    /\ ld[l].pc = "insp" =>
          /\ ld[l].i \in 1..(Len(PolicyOf(l).protected_resources) + 1)
          /\ protected = kept.files \cup {Compiled(l).protected_resources[j] :
                                            j \in 1..(ld[l].i - 1)}
          /\ HoldsFirst(rulesMap, kept.rules, Compiled(l).rules, 0)
    /\ ld[l].pc \in {"insr", "enable"} =>
          protected = kept.files \cup Listed(Compiled(l))
    /\ ld[l].pc = "insr" =>
          /\ ld[l].i \in 1..(Len(PolicyOf(l).rules) + 1)
          /\ HoldsFirst(rulesMap, kept.rules, Compiled(l).rules, ld[l].i - 1)
    /\ ld[l].pc = "enable" =>
          HoldsFirst(rulesMap, kept.rules, Compiled(l).rules,
                     Len(Compiled(l).rules))

LoopInv == \A l \in Loader : LoopAt(l)

\* An open in flight has seen the present regime and a policy; as long as it
\* has seen nothing else, what it read is what the maps still hold.
HookAt(t) ==
    InFlight(t) =>
        /\ Regime \in hook[t].seen
        /\ \E c \in hook[t].seen : c # Paused
        /\ hook[t].res # ZeroId
        /\ \A c \in hook[t].seen : hook[t].seen = {c} =>
              /\ hook[t].stale = Leftover(hook[t].res, hook[t].exe)
              /\ hook[t].pc \in {"rule", "ret"} => hook[t].res \in protected
              /\ hook[t].pc = "ret" =>
                    hook[t].rule = IF hook[t].exe = ZeroId THEN NoRule
                                   ELSE rulesMap[<<hook[t].res, hook[t].exe>>]

HookInv == \A t \in Task : HookAt(t)

\* UndisturbedOpen for one task.
FaithfulAt(t) ==
    \A c \in hook[t].seen :
        ~InFlight(t) /\ hook[t].seen = {c} /\ ~hook[t].stale =>
            hook[t].verdict = Verdict(c, hook[t].res, hook[t].exe)

IInv ==
    /\ TypeOK
    /\ LoadsCompile
    /\ LockInv
    /\ LoopInv
    /\ CompleteWhenEnabled
    /\ HookInv
    /\ UndisturbedOpen

-----------------------------------------------------------------------------
\* A function on an initial segment of the naturals is a sequence.
LEMMA SeqOfFunction ==
    ASSUME NEW S, NEW n \in Nat, NEW f \in [1..n -> S]
    PROVE  f \in Seq(S) /\ Len(f) = n
OBVIOUS

\* Compiling a policy that passed validation and stat(2) yields a well-formed
\* compiled policy with as many entries as the source.
LEMMA CompileType ==
    ASSUME NEW p \in Policies, CanCompile(p, Stat)
    PROVE  /\ compile(p, Stat) \in CompiledPolicy
           /\ Len(compile(p, Stat).protected_resources) = Len(p.protected_resources)
           /\ Len(compile(p, Stat).rules) = Len(p.rules)
<1>1. p \in PolicyType
  BY UpdateAssumption
<1>2. /\ Len(p.protected_resources) \in Nat
      /\ Len(p.rules) \in Nat
      /\ p.protected_resources \in Seq(Path)
      /\ p.rules \in Seq(PolicyRule)
      /\ p.version \in Int
  BY <1>1 DEF PolicyType
<1> DEFINE pr == [i \in 1..Len(p.protected_resources) |->
                    Stat[p.protected_resources[i]]]
           rs == [i \in 1..Len(p.rules) |->
                    [rule_id  |-> i,
                     resource |-> Stat[p.rules[i].resource],
                     process  |-> Stat[p.rules[i].process],
                     action   |-> p.rules[i].action]]
<1>3. \A i \in 1..Len(p.protected_resources) : Stat[p.protected_resources[i]] \in FileId
  BY <1>2, UpdateAssumption DEF CanCompile, Resolves
<1>4. pr \in Seq(FileId) /\ Len(pr) = Len(p.protected_resources)
  BY <1>2, <1>3
<1>5. ASSUME NEW i \in 1..Len(p.rules)
      PROVE  rs[i] \in CompiledRule
  <2>1. p.rules[i] \in PolicyRule
    BY <1>2
  <2>2. Stat[p.rules[i].process] \in FileId
    BY <2>1, UpdateAssumption DEF CanCompile, Resolves, PolicyRule
  <2>3. PICK j \in 1..Len(p.protected_resources) :
          p.protected_resources[j] = p.rules[i].resource
    BY DEF CanCompile, validate
  <2>4. Stat[p.rules[i].resource] \in FileId
    BY <1>3, <2>3
  <2> QED
    BY <1>2, <2>1, <2>2, <2>4 DEF CompiledRule, PolicyRule
<1>6. rs \in Seq(CompiledRule) /\ Len(rs) = Len(p.rules)
  <2>1. rs \in [1..Len(p.rules) -> CompiledRule]
    BY <1>5
  <2> HIDE DEF rs
  <2> QED BY <1>2, <2>1, SeqOfFunction
<1>7. compile(p, Stat) = [version |-> p.version, protected_resources |-> pr,
                          rules |-> rs]
  BY DEF compile
<1> HIDE DEF pr, rs
<1> QED
  BY <1>2, <1>4, <1>6, <1>7 DEF CompiledPolicy

\* Whatever policy it is built from, the reverse resolver maps identities to
\* paths.
LEMMA ResolverType ==
    ASSUME NEW p \in Policies
    PROVE  Resolver(p, Stat) \in [FileId -> Path]
<1>1. p \in PolicyType
  BY UpdateAssumption
<1> DEFINE procs == [i \in 1..Len(p.rules) |-> p.rules[i].process]
           names == p.protected_resources \o procs
           last(f) == {i \in 1..Len(names) :
                         /\ Stat[names[i]] = f
                         /\ \A j \in (i + 1)..Len(names) : Stat[names[j]] # f}
<1>2. procs \in Seq(Path)
  <2>1. p.rules \in Seq(PolicyRule) /\ Len(p.rules) \in Nat
    BY <1>1 DEF PolicyType
  <2>2. \A i \in 1..Len(p.rules) : p.rules[i] \in PolicyRule
    BY <2>1
  <2>3. \A i \in 1..Len(p.rules) : p.rules[i].process \in Path
    BY <2>2 DEF PolicyRule
  <2>4. procs \in [1..Len(p.rules) -> Path]
    BY <2>3
  <2> HIDE DEF procs
  <2> QED BY <2>1, <2>4, SeqOfFunction
<1>3. names \in Seq(Path)
  <2>1. p.protected_resources \in Seq(Path)
    BY <1>1 DEF PolicyType
  <2> HIDE DEF procs
  <2> QED BY <1>2, <2>1
<1>4. ASSUME NEW f \in FileId
      PROVE  (IF last(f) = {} THEN EmptyPath
              ELSE names[CHOOSE i \in last(f) : TRUE]) \in Path
  <2>1. CASE last(f) = {}
    BY <2>1, PolicyAssumption
  <2>2. CASE last(f) # {}
    <3>1. (CHOOSE i \in last(f) : TRUE) \in 1..Len(names)
      BY <2>2
    <3> HIDE DEF names, last
    <3> QED BY <2>2, <3>1, <1>3
  <2> QED BY <2>1, <2>2
<1>5. Resolver(p, Stat) = [f \in FileId |->
           IF last(f) = {} THEN EmptyPath ELSE names[CHOOSE i \in last(f) : TRUE]]
  BY DEF Resolver
<1> HIDE DEF names, last
<1> QED BY <1>4, <1>5

\* Inserting rule n + 1 with BPF_NOEXIST extends what the map holds by it.
LEMMA InsertExtends ==
    ASSUME NEW rs \in Seq(CompiledRule), NEW n \in Nat, n + 1 <= Len(rs),
           NEW m \in [RuleKey -> RuleVal \cup {NoRule}], NEW old,
           HoldsFirst(m, old, rs, n)
    PROVE  /\ m[KeyOf(rs[n + 1])] # NoRule => HoldsFirst(m, old, rs, n + 1)
           /\ m[KeyOf(rs[n + 1])] = NoRule =>
                HoldsFirst([m EXCEPT ![KeyOf(rs[n + 1])] = ValOf(rs[n + 1])],
                           old, rs, n + 1)
<1> DEFINE key == KeyOf(rs[n + 1])
           val == ValOf(rs[n + 1])
           none(k, c) == \A j \in 1..c : KeyOf(rs[j]) # k
           some(v, k, c) == \E j \in 1..c :
                               /\ KeyOf(rs[j]) = k
                               /\ v = ValOf(rs[j])
                               /\ \A h \in 1..(j - 1) : KeyOf(rs[h]) # k
<1>1. rs[n + 1] \in CompiledRule
  OBVIOUS
<1>2. key \in RuleKey /\ val # NoRule
  BY <1>1 DEF KeyOf, ValOf, RuleKey, NoRule, CompiledRule, Action
<1>3. ASSUME NEW j \in 1..n
      PROVE  ValOf(rs[j]) # NoRule
  <2>1. rs[j] \in CompiledRule
    OBVIOUS
  <2> QED BY <2>1 DEF ValOf, NoRule, CompiledRule, Action
<1>4. \A k \in RuleKey : \/ old[k] # NoRule /\ m[k] = old[k]
                         \/ old[k] = NoRule /\ m[k] = NoRule /\ none(k, n)
                         \/ old[k] = NoRule /\ some(m[k], k, n)
  BY DEF HoldsFirst
<1>5. ASSUME NEW k \in RuleKey, k # key, none(k, n)
      PROVE  none(k, n + 1)
  <2>1. \A j \in 1..(n + 1) : j \in 1..n \/ j = n + 1
    OBVIOUS
  <2> QED BY <1>5, <2>1
<1>6. \A k \in RuleKey : some(m[k], k, n) => some(m[k], k, n + 1)
  OBVIOUS
<1>7. ASSUME m[key] # NoRule PROVE HoldsFirst(m, old, rs, n + 1)
  <2>1. ASSUME NEW k \in RuleKey
        PROVE  \/ old[k] # NoRule /\ m[k] = old[k]
               \/ old[k] = NoRule /\ m[k] = NoRule /\ none(k, n + 1)
               \/ old[k] = NoRule /\ some(m[k], k, n + 1)
    <3> HIDE DEF none, some, key
    <3> QED BY <1>4, <1>5, <1>6, <1>7
  <2> QED BY <2>1 DEF HoldsFirst
<1>8. ASSUME m[key] = NoRule
      PROVE  HoldsFirst([m EXCEPT ![key] = val], old, rs, n + 1)
  <2> DEFINE mm == [m EXCEPT ![key] = val]
  <2>1. old[key] = NoRule /\ none(key, n)
    BY <1>2, <1>3, <1>4, <1>8
  <2>2. mm[key] = val /\ \A k \in RuleKey : k # key => mm[k] = m[k]
    BY <1>2
  <2>3. some(val, key, n + 1)
    <3>1. n + 1 \in 1..(n + 1) /\ (n + 1) - 1 = n
      OBVIOUS
    <3> QED BY <2>1, <3>1
  <2>4. ASSUME NEW k \in RuleKey
        PROVE  \/ old[k] # NoRule /\ mm[k] = old[k]
               \/ old[k] = NoRule /\ mm[k] = NoRule /\ none(k, n + 1)
               \/ old[k] = NoRule /\ some(mm[k], k, n + 1)
    <3> HIDE DEF none, some, key, val, mm
    <3>1. CASE k = key
      BY <2>1, <2>2, <2>3, <3>1
    <3>2. CASE k # key
      BY <1>4, <1>5, <1>6, <2>2, <3>2
    <3> QED BY <3>1, <3>2
  <2> HIDE DEF mm
  <2>5. HoldsFirst(mm, old, rs, n + 1)
    BY <2>4 DEF HoldsFirst
  <2> QED BY <2>5 DEF mm
<1> QED BY <1>7, <1>8

-----------------------------------------------------------------------------
\* The type invariant is preserved by every step of a hook.
LEMMA HookTypeStep ==
    ASSUME TypeOK, HookNext
    PROVE  KernelTypeOK'
<1> USE PolicyAssumption, HookAssumption
<1>1. PICK t \in Task : \/ \E a \in Access : HookEnter(t, a[1], a[2])
                        \/ HookStep(t)
  BY DEF HookNext
<1>2. KernelTypeOK /\ hook[t] \in HookType
  BY DEF TypeOK, KernelTypeOK
<1>3. ASSUME NEW h \in HookType, hook' = [hook EXCEPT ![t] = h]
      PROVE  hook' \in [Task -> HookType]
  BY <1>2, <1>3 DEF KernelTypeOK
<1>4. CASE \E a \in Access : HookEnter(t, a[1], a[2])
  <2>1. PICK a \in Access : HookEnter(t, a[1], a[2])
    BY <1>4
  <2>2. Regime \in CompiledPolicy \cup {Paused}
    BY <1>2 DEF Regime, KernelTypeOK
  <2>3. a[1] \in FileId /\ a[2] \in FileId /\ Leftover(a[1], a[2]) \in BOOLEAN
    BY DEF Leftover
  <2>4. [IdleHook EXCEPT
             !.res = a[1], !.exe = a[2], !.seen = {Regime},
             !.stale = Leftover(a[1], a[2]),
             !.pc = IF attached /\ config.enabled /\ a[1] # ZeroId
                    THEN "lookup" ELSE "idle"] \in HookType
    BY <2>2, <2>3 DEF HookType, IdleHook, Action
  <2> QED BY <1>2, <1>3, <2>1, <2>4 DEF HookEnter, KernelTypeOK
<1>5. CASE HookLookup(t)
  <2>1. hook' \in [Task -> HookType]
    <3>1. \/ hook' = [hook EXCEPT ![t].pc = "idle", ![t].verdict = "ALLOW"]
          \/ hook' = [hook EXCEPT ![t].pc = "rule", ![t].ev = TRUE]
          \/ hook' = [hook EXCEPT ![t].pc = "rule"]
      BY <1>5 DEF HookLookup
    <3> QED BY <1>2, <3>1 DEF HookType, KernelTypeOK, Action
  <2>2. ring' \in Seq(RecordType)
    <3>1. ASSUME NEW g \in StaleId, NEW n \in StaleRule
          PROVE  [tid |-> t, submitted |-> FALSE, res |-> hook[t].res,
                  proc |-> g, rule_id |-> n, action |-> "DENY",
                  reason |-> "UNKNOWN_PROCESS", exe |-> hook[t].exe,
                  seen |-> hook[t].seen, stale |-> hook[t].stale] \in RecordType
      BY <1>2 DEF RecordType, HookType, Action
    <3>2. ring \in Seq(RecordType)
      BY <1>2 DEF KernelTypeOK
    <3>3. \/ ring' = ring
          \/ \E r \in RecordType : ring' = Append(ring, r)
      BY <1>5, <3>1 DEF HookLookup
    <3> QED BY <3>2, <3>3
  <2> QED BY <1>2, <1>5, <2>1, <2>2 DEF HookLookup, KernelTypeOK
<1>6. CASE HookRule(t)
  <2>1. hook[t].exe # ZeroId =>
          rulesMap[<<hook[t].res, hook[t].exe>>] \in RuleVal \cup {NoRule}
    BY <1>2 DEF KernelTypeOK, HookType, RuleKey
  <2>2. hook' \in [Task -> HookType]
    BY <1>2, <1>6, <2>1 DEF HookRule, HookType, KernelTypeOK
  <2> QED BY <1>2, <1>6, <2>2 DEF HookRule, KernelTypeOK
<1>7. CASE HookReturn(t)
  <2>1. PICK v \in RuleRead(t), w \in RuleRead(t) :
          /\ hook' = [hook EXCEPT
                ![t].pc = "idle", ![t].ev = FALSE, ![t].rule = NoRule,
                ![t].verdict = fg_decision(hook[t].exe, w).action]
          /\ ring' = [i \in 1..Len(ring) |->
                IF ring[i].tid = t /\ ~ring[i].submitted
                THEN [ring[i] EXCEPT
                         !.submitted = TRUE,
                         !.action = fg_decision(hook[t].exe, v).action,
                         !.reason = fg_decision(hook[t].exe, v).reason,
                         !.seen = hook[t].seen,
                         !.rule_id = IF v = NoRule THEN @
                            ELSE fg_decision(hook[t].exe, v).rule_id]
                ELSE ring[i]]
    BY <1>7 DEF HookReturn
  <2>2. v \in RuleVal \cup {NoRule} /\ w \in RuleVal \cup {NoRule}
    <3>1. hook[t].rule \in RuleVal \cup {NoRule}
      BY <1>2 DEF HookType
    <3>2. \A k \in RuleKey : rulesMap[k] \in RuleVal \cup {NoRule}
      BY <1>2 DEF KernelTypeOK
    <3> QED BY <2>1, <3>1, <3>2 DEF RuleRead
  <2>3. /\ fg_decision(hook[t].exe, v).action \in Action
        /\ fg_decision(hook[t].exe, w).action \in Action
        /\ fg_decision(hook[t].exe, v).reason
             \in {"POLICY_RULE", "DEFAULT_DENY", "UNKNOWN_PROCESS"}
        /\ fg_decision(hook[t].exe, v).rule_id \in Nat
    BY <2>2 DEF fg_decision, Decision, RuleVal, Action
  <2> HIDE DEF fg_decision
  <2>4. hook' \in [Task -> HookType]
    BY <1>2, <2>1, <2>3 DEF HookType, KernelTypeOK
  <2>5. ring' \in Seq(RecordType)
    <3>1. ring \in Seq(RecordType) /\ Len(ring) \in Nat
      BY <1>2 DEF KernelTypeOK
    <3>2. ASSUME NEW i \in 1..Len(ring)
          PROVE  ring'[i] \in RecordType
      <4>1. ring[i] \in RecordType
        BY <3>1
      <4> QED BY <1>2, <2>1, <2>3, <4>1 DEF RecordType, HookType
    <3>3. ring' \in [1..Len(ring) -> RecordType]
      BY <2>1, <3>2
    <3> QED BY <3>1, <3>3, SeqOfFunction
  <2> QED BY <1>2, <1>7, <2>4, <2>5 DEF HookReturn, KernelTypeOK
<1> QED BY <1>1, <1>4, <1>5, <1>6, <1>7 DEF HookStep

\* A ghost witness keeps the type of the hooks.
LEMMA WitnessType ==
    ASSUME NEW r \in CompiledPolicy \cup {Paused}, hook \in [Task -> HookType]
    PROVE  Witness(hook, r) \in [Task -> HookType]
BY DEF Witness, HookType

\* Moving a loader keeps the type of its record.
LEMMA LoaderTypeStep ==
    ASSUME NEW l \in Loader, ld \in [Loader -> LoaderType]
    PROVE  /\ \A pc \in {"pause", "clearp", "clearr", "insp", "insr", "enable",
                         "resolver", "install"} :
                 Goto(l, pc) => ld' \in [Loader -> LoaderType]
           /\ \A r \in {"none", "rejected", "failed", "ok"} :
                 Return(l, r) => ld' \in [Loader -> LoaderType]
           /\ ld' = [ld EXCEPT ![l].i = @ + 1] => ld' \in [Loader -> LoaderType]
<1>1. ld[l] \in LoaderType /\ 1 \in Index /\ \A n \in Index : n + 1 \in Index
  BY DEF Index
<1>2. ASSUME NEW pc \in {"pause", "clearp", "clearr", "insp", "insr", "enable",
                         "resolver", "install"}
      PROVE  [ld[l] EXCEPT !.pc = pc, !.i = 1] \in LoaderType
  BY <1>1 DEF LoaderType
<1>3. ASSUME NEW r \in {"none", "rejected", "failed", "ok"}
      PROVE  [IdleLoader EXCEPT !.result = r] \in LoaderType
  BY <1>1 DEF LoaderType, IdleLoader
<1>4. [ld[l] EXCEPT !.i = @ + 1] \in LoaderType
  BY <1>1 DEF LoaderType
<1> QED BY <1>2, <1>3, <1>4 DEF Goto, Return

\* The type invariant is inductive, given that loads carry compilable policies.
LEMMA TypeStep ==
    ASSUME TypeOK, LoadsCompile, [Next]_vars
    PROVE  TypeOK'
<1> USE PolicyAssumption, HookAssumption, UpdateAssumption
<1>0. /\ KernelTypeOK
      /\ hook \in [Task -> HookType]
      /\ ld \in [Loader -> LoaderType]
  BY DEF TypeOK, KernelTypeOK
<1>c. ASSUME NEW l \in Loader, ld[l].pc # "idle"
      PROVE  /\ Compiled(l) \in CompiledPolicy
             /\ Compiled(l).version \in Int
             /\ Compiled(l).protected_resources \in Seq(FileId)
             /\ Compiled(l).rules \in Seq(CompiledRule)
  <2>1. Compiled(l) \in CompiledPolicy
    BY <1>c, CompileType DEF LoadsCompile, Compiled, PolicyOf
  <2> QED BY <2>1 DEF CompiledPolicy
<1>1. CASE EnforcerLoad
  <2>1. hook' \in [Task -> HookType]
    BY <1>0, <1>1, WitnessType DEF EnforcerLoad
  <2>2. status_' \in [attached : BOOLEAN, enforcing : BOOLEAN,
                      policy_version : Int, protected_count : Nat,
                      rule_count : Nat]
    BY <1>1 DEF EnforcerLoad, TypeOK
  <2> QED BY <1>1, <2>1, <2>2 DEF EnforcerLoad, TypeOK, KernelTypeOK
<1>2. CASE Detach
  <2>1. hook' \in [Task -> HookType]
    BY <1>0, <1>2, WitnessType DEF Detach
  <2>2. status_' \in [attached : BOOLEAN, enforcing : BOOLEAN,
                      policy_version : Int, protected_count : Nat,
                      rule_count : Nat]
    <3>1. status_.protected_count \in Nat /\ status_.rule_count \in Nat
      BY DEF TypeOK
    <3> QED BY <1>2, <3>1 DEF Detach
  <2> QED BY <1>2, <2>1, <2>2 DEF Detach, TypeOK, KernelTypeOK
<1>3. ASSUME NEW l \in Loader, NEW p \in Policies, LoadBegin(l, p)
      PROVE  TypeOK'
  <2>1. ld' \in [Loader -> LoaderType]
    <3>1. 1 \in Index
      BY DEF Index
    <3> QED BY <1>0, <1>3, <3>1 DEF LoadBegin, LoaderType, IdleLoader
  <2> QED BY <1>3, <2>1 DEF LoadBegin, TypeOK, KernelTypeOK
<1>4. ASSUME NEW l \in Loader, LoadStep(l)
      PROVE  TypeOK'
  <2>1. CASE ApplyLock(l)
    BY <1>0, <2>1, LoaderTypeStep DEF ApplyLock, TypeOK, KernelTypeOK
  <2>2. CASE ApplyFail(l)
    BY <1>0, <2>2, LoaderTypeStep DEF ApplyFail, TypeOK, KernelTypeOK
  <2>3. CASE ApplyPause(l)
    BY <1>0, <2>3, LoaderTypeStep, WitnessType
       DEF ApplyPause, TypeOK, KernelTypeOK
  <2>4. CASE ClearProtected(l)
    BY <1>0, <2>4, LoaderTypeStep DEF ClearProtected, TypeOK, KernelTypeOK
  <2>5. CASE ClearRules(l)
    BY <1>0, <2>5, LoaderTypeStep DEF ClearRules, TypeOK, KernelTypeOK
  <2>6. CASE InsertProtected(l)
    <3>1. Compiled(l).protected_resources \in Seq(FileId)
      BY <1>c, <2>6 DEF InsertProtected, At
    <3>2. protected' \subseteq FileId
      <4>1. ld[l].i \in Nat /\ ld[l].i >= 1
        BY <1>0 DEF LoaderType, Index
      <4>2. CASE ld[l].i > Len(Compiled(l).protected_resources)
        BY <2>6, <4>1, <4>2, <3>1 DEF InsertProtected, TypeOK, KernelTypeOK
      <4>3. CASE ld[l].i \in 1..Len(Compiled(l).protected_resources)
        BY <2>6, <4>3, <3>1 DEF InsertProtected, TypeOK, KernelTypeOK
      <4> QED BY <3>1, <4>1, <4>2, <4>3
    <3>3. ld' \in [Loader -> LoaderType]
      BY <1>0, <2>6, LoaderTypeStep DEF InsertProtected
    <3> QED BY <2>6, <3>2, <3>3 DEF InsertProtected, TypeOK, KernelTypeOK
  <2>7. CASE InsertRules(l)
    <3>1. Compiled(l).rules \in Seq(CompiledRule)
      BY <1>c, <2>7 DEF InsertRules, At
    <3>2. rulesMap' \in [RuleKey -> RuleVal \cup {NoRule}]
      <4>1. ld[l].i \in Nat /\ ld[l].i >= 1
        BY <1>0 DEF LoaderType, Index
      <4>2. CASE UNCHANGED rulesMap
        BY <4>2 DEF TypeOK, KernelTypeOK
      <4>3. CASE /\ ld[l].i \in 1..Len(Compiled(l).rules)
                 /\ rulesMap' = [rulesMap EXCEPT
                      ![KeyOf(Compiled(l).rules[ld[l].i])]
                         = ValOf(Compiled(l).rules[ld[l].i])]
        <5>1. Compiled(l).rules[ld[l].i] \in CompiledRule
          BY <3>1, <4>3
        <5>2. ValOf(Compiled(l).rules[ld[l].i]) \in RuleVal
          BY <5>1 DEF ValOf, RuleVal, CompiledRule
        <5> QED BY <4>3, <5>2 DEF TypeOK, KernelTypeOK
      <4> QED BY <2>7, <3>1, <4>1, <4>2, <4>3 DEF InsertRules
    <3> QED BY <1>0, <2>7, <3>2, LoaderTypeStep
               DEF InsertRules, TypeOK, KernelTypeOK
  <2>8. CASE ApplyEnable(l)
    <3>1. /\ Compiled(l) \in CompiledPolicy
          /\ Compiled(l).version \in Int
          /\ Len(Compiled(l).protected_resources) \in Nat
          /\ Len(Compiled(l).rules) \in Nat
      BY <1>c, <2>8 DEF ApplyEnable, At
    <3> QED BY <1>0, <2>8, <3>1, LoaderTypeStep, WitnessType
               DEF ApplyEnable, TypeOK, KernelTypeOK
  <2>9. CASE SwapResolver(l)
    <3>1. resolver' \in [FileId -> Path]
      BY <2>9, ResolverType DEF SwapResolver, LoadsCompile, At, PolicyOf
    <3> QED BY <1>0, <2>9, <3>1, LoaderTypeStep
               DEF SwapResolver, TypeOK, KernelTypeOK
  <2>10. CASE Install(l)
    BY <1>0, <2>10, LoaderTypeStep
       DEF Install, TypeOK, KernelTypeOK, LoadsCompile, At, PolicyOf
  <2> QED BY <1>4, <2>1, <2>2, <2>3, <2>4, <2>5, <2>6, <2>7, <2>8, <2>9, <2>10
             DEF LoadStep
<1>5. CASE RingPoll
  <2>1. Head(ring) \in RecordType /\ Tail(ring) \in Seq(RecordType)
    BY <1>0, <1>5 DEF RingPoll, KernelTypeOK
  <2>2. /\ resolver[Head(ring).res] \in Path
        /\ Quiescent \in BOOLEAN
        /\ current \in Policies \cup {NoPolicy}
    BY <2>1 DEF TypeOK, RecordType, Quiescent
  <2> QED BY <1>5, <2>1, <2>2
             DEF RingPoll, TypeOK, KernelTypeOK, loadVars, RecordType
<1>6. CASE Open
  <2>1. KernelTypeOK'
    BY <1>6, HookTypeStep DEF Open
  <2>2. attached' = attached
    BY <1>6
       DEF Open, HookNext, HookStep, HookEnter, HookLookup, HookRule, HookReturn
  <2> QED BY <1>6, <2>1, <2>2 DEF Open, TypeOK
<1>7. CASE UNCHANGED vars
  BY <1>7 DEF vars, TypeOK, KernelTypeOK
<1> QED BY <1>1, <1>2, <1>3, <1>4, <1>5, <1>6, <1>7 DEF Next

\* Opens, events and the life of the program leave loaders and maps alone.
LEMMA OpenKeepsMaps ==
    ASSUME Open \/ RingPoll
    PROVE  UNCHANGED <<config, protected, rulesMap, applied, kept, attached,
                       ld, mu, skel>>
BY DEF Open, RingPoll, loadVars, HookNext, HookStep, HookEnter, HookLookup,
       HookRule, HookReturn

\* A step of one load moves no other load and keeps the policy it carries.
LEMMA LoadStepLocal ==
    ASSUME NEW l \in Loader, LoadStep(l), ld \in [Loader -> LoaderType]
    PROVE  /\ ld[l].pc # "idle"
           /\ \A k \in Loader : k # l => ld'[k] = ld[k]
           /\ \A k \in Loader :
                 ld'[k].pc # "idle" => ld'[k].policy = ld[k].policy
<1>1. ld[l].pc # "idle"
  BY DEF LoadStep, ApplyLock, ApplyFail, MapError, ApplyPause, ClearProtected,
         ClearRules, InsertProtected, InsertRules, ApplyEnable, SwapResolver,
         Install, At
<1>2. \/ UNCHANGED ld
      \/ \E pc : Goto(l, pc)
      \/ \E r : Return(l, r)
      \/ ld' = [ld EXCEPT ![l].i = @ + 1]
  <2>1. CASE ApplyLock(l) \/ ApplyFail(l)
    BY <2>1, Zenon DEF ApplyLock, ApplyFail
  <2>2. CASE ApplyPause(l) \/ ApplyEnable(l) \/ SwapResolver(l) \/ Install(l)
    BY <2>2, Zenon DEF ApplyPause, ApplyEnable, SwapResolver, Install
  <2>3. CASE ClearProtected(l) \/ ClearRules(l)
    BY <2>3, Zenon DEF ClearProtected, ClearRules
  <2>4. CASE InsertProtected(l) \/ InsertRules(l)
    BY <2>4, Zenon DEF InsertProtected, InsertRules
  <2> QED BY <2>1, <2>2, <2>3, <2>4 DEF LoadStep
<1>3. \A k \in Loader : ld[k] \in LoaderType
  OBVIOUS
<1>4. \A k \in Loader : k # l => ld'[k] = ld[k]
  BY <1>2 DEF Goto, Return
<1>5. ld'[l].pc # "idle" => ld'[l].policy = ld[l].policy
  BY <1>2, <1>3 DEF Goto, Return, LoaderType, IdleLoader
<1> QED BY <1>1, <1>4, <1>5

\* Locking discipline and the validity of policies under load are inductive.
LEMMA LockStep ==
    ASSUME TypeOK, LoadsCompile, LockInv, LoopInv, [Next]_vars
    PROVE  LoadsCompile' /\ LockInv'
<1> USE UpdateAssumption
<1>0. ld \in [Loader -> LoaderType]
  BY DEF TypeOK
<1>1. CASE EnforcerLoad
  BY <1>1 DEF EnforcerLoad, LoadsCompile, LockInv, PolicyOf
<1>2. CASE Detach
  BY <1>2 DEF Detach, LoadsCompile, LockInv, PolicyOf
<1>3. ASSUME NEW l \in Loader, NEW p \in Policies, LoadBegin(l, p)
      PROVE  LoadsCompile' /\ LockInv'
  <2>1. LoadsCompile'
    BY <1>0, <1>3 DEF LoadBegin, LoadsCompile, PolicyOf, IdleLoader
  <2>2. LockInv'
    BY <1>0, <1>3 DEF LoadBegin, LockInv, IdleLoader, Critical
  <2> QED BY <2>1, <2>2
<1>4. ASSUME NEW l \in Loader, LoadStep(l)
      PROVE  LoadsCompile' /\ LockInv'
  <2>1. LoadsCompile'
    <3> QED BY <1>0, <1>4, LoadStepLocal DEF LoadsCompile, PolicyOf
  <2>2. CASE ApplyLock(l)
    <3>1. \A k \in Loader : ld[k].pc \notin Critical
      BY <2>2 DEF ApplyLock, LockInv
    <3> QED BY <1>0, <2>1, <2>2, <3>1
               DEF ApplyLock, LockInv, Goto, Return, LoaderType, IdleLoader,
                   Critical
  <2>3. CASE ApplyFail(l)
    <3>1. ld[l].pc \in Critical
      BY <2>3 DEF ApplyFail, MapError, At, Critical
    <3>2. \A k \in Loader : k # l => ld[k].pc \notin Critical
      BY <3>1 DEF LockInv
    <3> QED BY <1>0, <2>1, <2>3, <3>1, <3>2
               DEF ApplyFail, LockInv, Return, LoaderType, IdleLoader, Critical
  <2>4. CASE ApplyEnable(l)
    <3>1. \A k \in Loader : k # l => ld[k].pc \notin Critical
      BY <2>4 DEF ApplyEnable, At, LockInv, Critical
    <3>2. skel = "loaded"
      BY <2>4 DEF ApplyEnable, At, LockInv, Critical
    <3> QED BY <1>0, <2>1, <2>4, <3>1, <3>2
               DEF ApplyEnable, LockInv, Goto, LoaderType, Critical
  <2>5. CASE ApplyPause(l)
    BY <1>0, <2>1, <2>5 DEF ApplyPause, At, LockInv, Goto, LoaderType, Critical
  <2>6. CASE ClearProtected(l) \/ ClearRules(l)
    BY <1>0, <2>1, <2>6
       DEF ClearProtected, ClearRules, At, LockInv, Goto, LoaderType, Critical
  <2>7. CASE InsertProtected(l) \/ InsertRules(l)
    BY <1>0, <2>1, <2>7
       DEF InsertProtected, InsertRules, At, LockInv, Goto, LoaderType, Critical
  <2>8. CASE SwapResolver(l)
    BY <1>0, <2>1, <2>8
       DEF SwapResolver, At, LockInv, Goto, LoaderType, Critical
  <2>9. CASE Install(l)
    <3>1. ld'[l].pc \notin Critical
      BY <1>0, <2>9 DEF Install, Return, IdleLoader, LoaderType, Critical
    <3>2. \A k \in Loader : k # l => ld'[k] = ld[k]
      BY <1>0, <1>4, LoadStepLocal
    <3> QED BY <2>1, <2>9, <3>1, <3>2 DEF Install, LockInv
  <2> QED BY <1>4, <2>2, <2>3, <2>4, <2>5, <2>6, <2>7, <2>8, <2>9 DEF LoadStep
<1>5. CASE RingPoll \/ Open
  BY <1>5, OpenKeepsMaps DEF LoadsCompile, LockInv, PolicyOf
<1>6. CASE UNCHANGED vars
  BY <1>6 DEF vars, LoadsCompile, LockInv, PolicyOf
<1> QED BY <1>1, <1>2, <1>3, <1>4, <1>5, <1>6 DEF Next

\* While a loader rewrites the maps, what they hold is the beginning of its
\* policy; so when it enables enforcement they hold all of it.
LEMMA LoopStep ==
    ASSUME TypeOK, LoadsCompile, LockInv, LoopInv, CompleteWhenEnabled,
           [Next]_vars
    PROVE  LoopInv' /\ CompleteWhenEnabled'
<1> USE UpdateAssumption
<1>0. ld \in [Loader -> LoaderType]
  BY DEF TypeOK
<1>c. ASSUME NEW l \in Loader, ld[l].pc # "idle"
      PROVE  /\ Compiled(l) \in CompiledPolicy
             /\ Compiled(l).protected_resources \in Seq(FileId)
             /\ Compiled(l).rules \in Seq(CompiledRule)
             /\ Len(Compiled(l).protected_resources)
                  = Len(PolicyOf(l).protected_resources)
             /\ Len(Compiled(l).rules) = Len(PolicyOf(l).rules)
  <2>1. PolicyOf(l) \in Policies /\ CanCompile(PolicyOf(l), Stat)
    BY <1>c DEF LoadsCompile
  <2>2. Compiled(l) = compile(PolicyOf(l), Stat)
    BY DEF Compiled, PolicyOf
  <2>3. Compiled(l) \in CompiledPolicy
    BY <2>1, <2>2, CompileType
  <2> QED BY <2>1, <2>2, <2>3, CompileType DEF CompiledPolicy
<1>d. ASSUME NEW l \in Loader, ld[l].pc \in Critical, NEW k \in Loader, k # l
      PROVE  ld[k].pc \notin Critical
  BY <1>d DEF LockInv
<1>e. ASSUME NEW l \in Loader, ld[l].pc \in Critical,
             \A k \in Loader : k # l => ld'[k] = ld[k],
             ld'[l].pc \notin Critical
      PROVE  LoopInv'
  <2>1. \A k \in Loader : ld'[k].pc \notin Critical
    BY <1>d, <1>e
  <2> QED BY <2>1 DEF LoopInv, LoopAt, Critical, Writing
<1>g. ASSUME NEW k \in Loader, ld'[k] = ld[k],
             UNCHANGED <<config, protected, rulesMap, kept>>
      PROVE  LoopAt(k)'
  <2>1. LoopAt(k) /\ Compiled(k)' = Compiled(k) /\ PolicyOf(k)' = PolicyOf(k)
    BY <1>g DEF LoopInv, Compiled, PolicyOf
  <2> QED BY <1>g, <2>1 DEF LoopAt
<1>1. CASE UNCHANGED <<config, protected, rulesMap, applied, kept, ld>>
  <2>1. LoopInv'
    BY <1>1 DEF LoopInv, LoopAt, PolicyOf, Compiled
  <2> QED BY <1>1, <2>1 DEF CompleteWhenEnabled
<1>2. CASE \/ EnforcerLoad \/ Detach \/ RingPoll \/ Open \/ UNCHANGED vars
  BY <1>1, <1>2, OpenKeepsMaps DEF EnforcerLoad, Detach, vars
<1>3. ASSUME NEW l \in Loader, NEW p \in Policies, LoadBegin(l, p)
      PROVE  LoopInv' /\ CompleteWhenEnabled'
  <2>1. ld'[l].pc \notin Critical
    BY <1>0, <1>3 DEF LoadBegin, IdleLoader, Critical
  <2>2. \A k \in Loader : k # l => ld'[k] = ld[k]
    BY <1>0, <1>3 DEF LoadBegin
  <2>3. UNCHANGED <<config, protected, rulesMap, applied, kept>>
    BY <1>3 DEF LoadBegin
  <2>4. LoopInv'
    <3>1. \A k \in Loader : k # l => LoopAt(k)'
      BY <1>g, <2>2, <2>3
    <3>2. LoopAt(l)'
      BY <2>1 DEF LoopAt, Critical, Writing
    <3> QED BY <3>1, <3>2 DEF LoopInv
  <2> QED BY <2>3, <2>4 DEF CompleteWhenEnabled
<1>4. ASSUME NEW l \in Loader, LoadStep(l)
      PROVE  LoopInv' /\ CompleteWhenEnabled'
  <2>1. \A k \in Loader : k # l => ld'[k] = ld[k]
    BY <1>0, <1>4, LoadStepLocal
  <2>2. \A k \in Loader : ld'[k].pc # "idle" => ld'[k].policy = ld[k].policy
    BY <1>0, <1>4, LoadStepLocal
  <2>3. \A k \in Loader : ld'[k].pc # "idle" =>
           Compiled(k)' = Compiled(k) /\ PolicyOf(k)' = PolicyOf(k)
    BY <2>2 DEF Compiled, PolicyOf
  <2>i. ld[l].i \in Nat /\ ld[l].i >= 1
    BY <1>0 DEF LoaderType, Index
  <2>4. CASE ApplyLock(l)
    <3>1. UNCHANGED <<config, protected, rulesMap, applied, kept>>
      BY <2>4 DEF ApplyLock
    <3>2. ld'[l].pc \in {"pause", "idle"}
      BY <1>0, <2>4 DEF ApplyLock, Goto, Return, LoaderType, IdleLoader
    <3>3. LoopInv'
      <4>1. LoopAt(l)'
        BY <3>1, <3>2 DEF LoopAt, Critical, Writing
      <4> QED BY <1>g, <2>1, <3>1, <4>1 DEF LoopInv
    <3> QED BY <3>1, <3>3 DEF CompleteWhenEnabled
  <2>5. CASE ApplyFail(l)
    <3>1. ld[l].pc \in Critical
      BY <2>5 DEF ApplyFail, MapError, At, Critical
    <3>2. ld'[l].pc \notin Critical
      BY <1>0, <2>5 DEF ApplyFail, Return, LoaderType, IdleLoader, Critical
    <3>3. UNCHANGED <<config, protected, rulesMap, applied, kept>>
      BY <2>5 DEF ApplyFail
    <3> QED BY <1>e, <2>1, <3>1, <3>2, <3>3 DEF CompleteWhenEnabled
  <2>6. CASE ApplyPause(l)
    <3>1. ld[l].pc \in Critical /\ ld'[l].pc = "clearp" /\ ~config'.enabled
      BY <1>0, <2>6 DEF ApplyPause, At, Goto, LoaderType, Critical
    <3>2. \A k \in Loader : k # l => ld'[k].pc \notin Critical
      BY <1>d, <2>1, <3>1
    <3>3. LoopInv'
      BY <3>1, <3>2 DEF LoopInv, LoopAt, Critical, Writing
    <3> QED BY <3>1, <3>3 DEF CompleteWhenEnabled
  <2>7. CASE ClearProtected(l)
    <3>1. ld[l].pc = "clearp" /\ ~config'.enabled
      BY <2>7 DEF ClearProtected, At, LoopInv, LoopAt, Writing, Critical
    <3>2. \A k \in Loader : k # l => ld'[k].pc \notin Critical
      BY <1>d, <2>1, <3>1 DEF Critical
    <3>3. \/ ld'[l].pc = "clearp"
          \/ ld'[l].pc = "clearr" /\ protected' = kept'.files
      BY <1>0, <2>7, <3>1
         DEF ClearProtected, Goto, LoaderType, TypeOK, KernelTypeOK
    <3>4. LoopInv'
      BY <3>1, <3>2, <3>3 DEF LoopInv, LoopAt, Critical, Writing
    <3> QED BY <3>1, <3>4 DEF CompleteWhenEnabled
  <2>8. CASE ClearRules(l)
    <3>1. ld[l].pc = "clearr" /\ ~config'.enabled /\ protected' = kept'.files
      BY <2>8
         DEF ClearRules, At, LoopInv, LoopAt, Writing, Critical, TypeOK,
             KernelTypeOK
    <3>2. \A k \in Loader : k # l => ld'[k].pc \notin Critical
      BY <1>d, <2>1, <3>1 DEF Critical
    <3>3. \/ ld'[l].pc = "clearr"
          \/ /\ ld'[l].pc = "insp" /\ ld'[l].i = 1
             /\ rulesMap' = kept'.rules
      BY <1>0, <2>8, <3>1 DEF ClearRules, Goto, LoaderType, TypeOK, KernelTypeOK
    <3>4. Len(PolicyOf(l).protected_resources) \in Nat
      BY <1>c, <3>1
    <3>5. ld'[l].pc = "insp" =>
             /\ ld'[l].i \in 1..(Len(PolicyOf(l)'.protected_resources) + 1)
             /\ protected' = kept'.files
                   \cup {Compiled(l)'.protected_resources[j] :
                           j \in 1..(ld'[l].i - 1)}
             /\ HoldsFirst(rulesMap', kept'.rules, Compiled(l)'.rules, 0)
      BY <3>1, <3>3, <3>4, <2>3 DEF HoldsFirst
    <3>6. LoopInv'
      BY <3>1, <3>2, <3>3, <3>5 DEF LoopInv, LoopAt, Critical, Writing
    <3> QED BY <3>1, <3>6 DEF CompleteWhenEnabled
  <2>9. CASE InsertProtected(l)
    <3> DEFINE ids == Compiled(l).protected_resources
               n == ld[l].i
    <3>1. /\ ld[l].pc = "insp" /\ ~config.enabled /\ UNCHANGED config
          /\ UNCHANGED <<rulesMap, kept>>
          /\ n \in 1..(Len(ids) + 1)
          /\ protected = kept.files \cup {ids[j] : j \in 1..(n - 1)}
          /\ HoldsFirst(rulesMap, kept.rules, Compiled(l).rules, 0)
      BY <1>c, <2>9 DEF InsertProtected, At, LoopInv, LoopAt, Writing, Critical
    <3>2. \A k \in Loader : k # l => ld'[k].pc \notin Critical
      BY <1>d, <2>1, <3>1 DEF Critical
    <3>3. /\ Len(ids) \in Nat
          /\ Len(PolicyOf(l).protected_resources) = Len(ids)
          /\ Len(PolicyOf(l).rules) \in Nat
      BY <1>c, <3>1
    <3>4. CASE n > Len(ids)
      <4>1. /\ ld'[l].pc = "insr" /\ ld'[l].i = 1 /\ protected' = protected
        BY <1>0, <2>9, <3>3, <3>4, <2>i DEF InsertProtected, Goto, LoaderType
      <4>2. n - 1 = Len(ids)
        BY <3>1, <3>3, <3>4
      <4>3. protected' = kept.files \cup Listed(Compiled(l))
        BY <3>1, <4>1, <4>2 DEF Listed
      <4>4. ld'[l].i \in 1..(Len(PolicyOf(l).rules) + 1) /\ ld'[l].i - 1 = 0
        BY <3>3, <4>1
      <4>5. LoopAt(l)'
        BY <2>3, <3>1, <4>1, <4>3, <4>4 DEF LoopAt, Critical, Writing
      <4>6. LoopInv'
        BY <3>2, <4>5 DEF LoopInv, LoopAt, Critical, Writing
      <4> QED BY <3>1, <4>6 DEF CompleteWhenEnabled
    <3>5. CASE n <= Len(ids)
      <4>1. /\ ld'[l].pc = "insp" /\ ld'[l].i = n + 1
            /\ protected' = protected \cup {ids[n]}
        BY <1>0, <2>9, <3>1, <3>3, <3>5, <2>i DEF InsertProtected, LoaderType
      <4>2. 1..n = (1..(n - 1)) \cup {n} /\ (n + 1) - 1 = n
        BY <2>i
      <4>3. protected' = kept.files \cup {ids[j] : j \in 1..n}
        BY <3>1, <4>1, <4>2
      <4>4. ld'[l].i \in 1..(Len(PolicyOf(l).protected_resources) + 1)
        BY <3>1, <3>3, <3>5, <4>1
      <4>5. LoopAt(l)'
        BY <2>3, <3>1, <4>1, <4>2, <4>3, <4>4 DEF LoopAt, Critical, Writing
      <4>6. LoopInv'
        BY <3>2, <4>5 DEF LoopInv, LoopAt, Critical, Writing
      <4> QED BY <3>1, <4>6 DEF CompleteWhenEnabled
    <3> QED BY <2>i, <3>3, <3>4, <3>5
  <2>10. CASE InsertRules(l)
    <3> DEFINE rs == Compiled(l).rules
               n == ld[l].i
               old == kept.rules
    <3>1. /\ ld[l].pc = "insr" /\ ~config.enabled /\ UNCHANGED config
          /\ UNCHANGED <<protected, kept>>
          /\ n \in 1..(Len(rs) + 1)
          /\ protected = kept.files \cup Listed(Compiled(l))
          /\ HoldsFirst(rulesMap, old, rs, n - 1)
      BY <1>c, <2>10 DEF InsertRules, At, LoopInv, LoopAt, Writing, Critical
    <3>2. \A k \in Loader : k # l => ld'[k].pc \notin Critical
      BY <1>d, <2>1, <3>1 DEF Critical
    <3>3. /\ rs \in Seq(CompiledRule) /\ Len(rs) \in Nat
          /\ Len(PolicyOf(l).rules) = Len(rs)
      BY <1>c, <3>1
    <3>4. CASE n > Len(rs)
      <4>1. ld'[l].pc = "enable" /\ rulesMap' = rulesMap
        BY <1>0, <2>10, <3>3, <3>4, <2>i DEF InsertRules, Goto, LoaderType
      <4>2. n - 1 = Len(rs)
        BY <3>1, <3>3, <3>4
      <4>3. LoopInv'
        BY <2>3, <3>1, <3>2, <4>1, <4>2 DEF LoopInv, LoopAt, Critical, Writing
      <4> QED BY <3>1, <4>3 DEF CompleteWhenEnabled
    <3>5. CASE n <= Len(rs)
      <4>1. ld'[l].pc = "insr" /\ ld'[l].i = n + 1
        BY <1>0, <2>10, <3>1, <3>3, <3>5, <2>i DEF InsertRules, LoaderType
      <4>2. HoldsFirst(rulesMap', old, rs, n)
        <5>1. PICK m \in Nat : n = m + 1 /\ n - 1 = m
          BY <2>i
        <5>2. rulesMap \in [RuleKey -> RuleVal \cup {NoRule}]
          BY DEF TypeOK, KernelTypeOK
        <5>3. HoldsFirst(rulesMap, old, rs, m) /\ m + 1 <= Len(rs)
          BY <3>1, <3>5, <5>1
        <5>4. /\ rulesMap[KeyOf(rs[m + 1])] # NoRule =>
                   HoldsFirst(rulesMap, old, rs, m + 1)
              /\ rulesMap[KeyOf(rs[m + 1])] = NoRule =>
                   HoldsFirst([rulesMap EXCEPT
                                 ![KeyOf(rs[m + 1])] = ValOf(rs[m + 1])],
                              old, rs, m + 1)
          <6> HIDE DEF rs, n, old
          <6> QED BY <3>3, <5>2, <5>3, InsertExtends
        <5>5. \/ /\ rulesMap[KeyOf(rs[n])] # NoRule
                 /\ rulesMap' = rulesMap
              \/ /\ rulesMap[KeyOf(rs[n])] = NoRule
                 /\ rulesMap' = [rulesMap EXCEPT ![KeyOf(rs[n])] = ValOf(rs[n])]
          BY <2>10, <3>3, <3>5, <2>i DEF InsertRules
        <5> HIDE DEF rs, n, old
        <5> QED BY <5>1, <5>4, <5>5
      <4>3. (n + 1) - 1 = n /\ n + 1 \in 1..(Len(rs) + 1)
        <5> HIDE DEF rs, n
        <5> QED BY <3>1, <3>3, <3>5
      <4>4. LoopAt(l)'
        BY <2>3, <3>1, <3>3, <4>1, <4>2, <4>3 DEF LoopAt, Critical, Writing
      <4>5. LoopInv'
        BY <3>2, <4>4 DEF LoopInv, LoopAt, Critical, Writing
      <4> QED BY <3>1, <4>5 DEF CompleteWhenEnabled
    <3> QED BY <2>i, <3>3, <3>4, <3>5
  <2>11. CASE ApplyEnable(l)
    <3>1. ld[l].pc = "enable" /\ ld[l].pc \in Critical
      BY <2>11 DEF ApplyEnable, At, Critical
    <3>2. ld'[l].pc \notin Critical
      BY <1>0, <2>11 DEF ApplyEnable, Goto, LoaderType, Critical
    <3>3. LoopInv'
      BY <1>e, <2>1, <3>1, <3>2
    <3>4. /\ protected' = protected /\ rulesMap' = rulesMap /\ kept' = kept
          /\ applied' = Compiled(l)
          /\ config'.policy_version = Compiled(l).version
      BY <2>11 DEF ApplyEnable
    <3>5. Compiled(l) \in CompiledPolicy
      BY <1>c, <3>1
    <3>6. CompleteWhenEnabled'
      BY <3>1, <3>4, <3>5 DEF CompleteWhenEnabled, LoopInv, LoopAt, Listed
    <3> QED BY <3>3, <3>6
  <2>12. CASE SwapResolver(l) \/ Install(l)
    <3>1. UNCHANGED <<config, protected, rulesMap, applied, kept>>
      BY <2>12 DEF SwapResolver, Install
    <3>2. ld'[l].pc \notin Critical
      BY <1>0, <2>12
         DEF SwapResolver, Install, Goto, Return, LoaderType, IdleLoader,
             Critical
    <3>3. LoopInv'
      <4>1. LoopAt(l)'
        BY <3>1, <3>2 DEF LoopAt, Critical, Writing
      <4> QED BY <1>g, <2>1, <3>1, <4>1 DEF LoopInv
    <3> QED BY <3>1, <3>3 DEF CompleteWhenEnabled
  <2> QED BY <1>4, <2>4, <2>5, <2>6, <2>7, <2>8, <2>9, <2>10, <2>11, <2>12
             DEF LoadStep
<1> QED BY <1>2, <1>3, <1>4 DEF Next

-----------------------------------------------------------------------------
\* Looking up complete maps gives the verdict of the policy they hold, where
\* clear_map left nothing of an older one.
LEMMA LookupIsVerdict ==
    ASSUME TypeOK, CompleteWhenEnabled, config.enabled,
           NEW f \in FileId, NEW e \in FileId, f # ZeroId, ~Leftover(f, e)
    PROVE  /\ f \notin protected => Verdict(applied, f, e) = "ALLOW"
           /\ f \in protected =>
                fg_decision(e, IF e = ZeroId THEN NoRule ELSE rulesMap[<<f, e>>]).action
                  = Verdict(applied, f, e)
<1>1. /\ applied \in CompiledPolicy
      /\ f \in protected <=> f \in Listed(applied)
      /\ HoldsFirst(rulesMap, kept.rules, applied.rules, Len(applied.rules))
      /\ kept.rules[<<f, e>>] = NoRule
  BY DEF CompleteWhenEnabled, Leftover
<1>2. applied # Paused
  BY <1>1, HookAssumption
<1>3. applied.rules \in Seq(CompiledRule) /\ Len(applied.rules) \in Nat
  BY <1>1 DEF CompiledPolicy
<1>4. f \notin protected => Verdict(applied, f, e) = "ALLOW"
  BY <1>1, <1>2 DEF Verdict
<1>5. ASSUME f \in protected, e = ZeroId
      PROVE  fg_decision(e, NoRule).action = Verdict(applied, f, e)
  BY <1>1, <1>2, <1>5 DEF Verdict, fg_decision, Decision
<1>6. ASSUME f \in protected, e # ZeroId
      PROVE  fg_decision(e, rulesMap[<<f, e>>]).action = Verdict(applied, f, e)
  <2> DEFINE rs == applied.rules
             k == <<f, e>>
  <2>1. k \in RuleKey
    BY DEF RuleKey
  <2>2. Verdict(applied, f, e) =
           IF \E j \in 1..Len(rs) :
                 /\ KeyOf(rs[j]) = k
                 /\ rs[j].action = "ALLOW"
                 /\ \A h \in 1..(j - 1) : KeyOf(rs[h]) # k
           THEN "ALLOW" ELSE "DENY"
    BY <1>1, <1>2, <1>6 DEF Verdict
  <2>3. CASE rulesMap[k] = NoRule /\ \A j \in 1..Len(rs) : KeyOf(rs[j]) # k
    BY <1>6, <2>2, <2>3 DEF fg_decision, Decision
  <2>4. CASE \E j \in 1..Len(rs) :
                /\ KeyOf(rs[j]) = k
                /\ rulesMap[k] = ValOf(rs[j])
                /\ \A h \in 1..(j - 1) : KeyOf(rs[h]) # k
    <3>1. PICK j \in 1..Len(rs) :
                /\ KeyOf(rs[j]) = k
                /\ rulesMap[k] = ValOf(rs[j])
                /\ \A h \in 1..(j - 1) : KeyOf(rs[h]) # k
      BY <2>4
    <3>2. rs[j] \in CompiledRule
      BY <1>3
    <3>3. rs[j].action \in Action /\ ValOf(rs[j]) # NoRule
      BY <3>2 DEF CompiledRule, ValOf, NoRule, Action
    <3>4. fg_decision(e, rulesMap[k]).action = rs[j].action
      BY <1>6, <3>1, <3>3 DEF fg_decision, Decision, ValOf
    <3>5. ASSUME NEW i \in 1..Len(rs), KeyOf(rs[i]) = k,
                 \A h \in 1..(i - 1) : KeyOf(rs[h]) # k
          PROVE  i = j
      <4>1. ~(i < j) /\ ~(j < i)
        BY <1>3, <3>1, <3>5
      <4> QED BY <1>3, <4>1
    <3>6. CASE rs[j].action = "ALLOW"
      BY <2>2, <3>1, <3>4, <3>6
    <3>7. CASE rs[j].action = "DENY"
      BY <2>2, <3>4, <3>5, <3>7
    <3> QED BY <3>3, <3>6, <3>7 DEF Action
  <2> QED BY <1>1, <2>1, <2>3, <2>4 DEF HoldsFirst
<1> QED BY <1>4, <1>5, <1>6

\* An open that sees one policy reads that policy only.
LEMMA HookStepInv ==
    ASSUME TypeOK, TypeOK', LockInv, LoadsCompile, LoopInv, CompleteWhenEnabled,
           HookInv, UndisturbedOpen, [Next]_vars
    PROVE  HookInv' /\ UndisturbedOpen'
<1> USE HookAssumption
<1>0. \A t \in Task : HookAt(t) /\ FaithfulAt(t) /\ hook[t] \in HookType
  BY DEF HookInv, UndisturbedOpen, FaithfulAt, TypeOK, KernelTypeOK
<1>r. SUFFICES ASSUME NEW t \in Task PROVE HookAt(t)' /\ FaithfulAt(t)'
  BY DEF HookInv, UndisturbedOpen, FaithfulAt
<1>a. Regime # Paused => attached /\ config.enabled /\ Regime = applied
  BY DEF Regime
\* Paused and a policy both seen: nothing is claimed of the reads.
<1>v. ASSUME Regime' \in hook'[t].seen, Paused \in hook'[t].seen,
             \E c \in hook'[t].seen : c # Paused, hook'[t].res # ZeroId
      PROVE  HookAt(t)'
  BY <1>v DEF HookAt
\* A regime is witnessed in a state where Paused was or becomes in force.
<1>w. ASSUME NEW r, hook' = Witness(hook, r), Regime' = r,
             r = Paused \/ Regime = Paused
      PROVE  HookAt(t)' /\ FaithfulAt(t)'
  <2>1. CASE InFlight(t)
    <3>1. /\ hook'[t].pc = hook[t].pc /\ hook'[t].res = hook[t].res
          /\ hook'[t].seen = hook[t].seen \cup {r}
      BY <1>0, <1>w, <2>1 DEF Witness, InFlight, HookType
    <3>2. HookAt(t)'
      BY <1>0, <1>v, <1>w, <2>1, <3>1 DEF HookAt
    <3> QED BY <2>1, <3>1, <3>2 DEF FaithfulAt, InFlight
  <2>2. CASE ~InFlight(t)
    <3>1. hook'[t] = hook[t]
      BY <1>w, <2>2 DEF Witness, InFlight
    <3> QED BY <1>0, <2>2, <3>1 DEF HookAt, FaithfulAt, InFlight
  <2> QED BY <2>1, <2>2
\* The maps are only written while enforcement is off.
<1>m. ASSUME ~config.enabled, UNCHANGED <<attached, config, applied, hook>>
      PROVE  HookAt(t)' /\ FaithfulAt(t)'
  <2>1. Regime = Paused /\ Regime' = Paused
    BY <1>m DEF Regime
  <2>2. HookAt(t)'
    BY <1>0, <1>m, <2>1 DEF HookAt, InFlight
  <2> QED BY <1>0, <1>m, <2>2 DEF FaithfulAt, InFlight
<1>u. ASSUME UNCHANGED <<attached, config, applied, protected, rulesMap, kept>>,
             hook'[t] = hook[t]
      PROVE  HookAt(t)' /\ FaithfulAt(t)'
  <2>1. Regime' = Regime /\ \A f, e : Leftover(f, e)' = Leftover(f, e)
    BY <1>u DEF Regime, Leftover
  <2> QED BY <1>0, <1>u, <2>1 DEF HookAt, FaithfulAt, InFlight
<1>1. CASE EnforcerLoad
  <2>1. ~config.enabled
    BY <1>1 DEF EnforcerLoad, LockInv
  <2>2. Regime = Paused /\ Regime' = Paused /\ hook' = Witness(hook, Paused)
    BY <1>1, <2>1 DEF EnforcerLoad, Regime
  <2> QED BY <1>w, <2>2
<1>2. CASE Detach
  <2>1. Regime' = Paused /\ hook' = Witness(hook, Paused)
    BY <1>2 DEF Detach, Regime
  <2> QED BY <1>w, <2>1
<1>3. ASSUME NEW l \in Loader, NEW p \in Policies, LoadBegin(l, p)
      PROVE  HookAt(t)' /\ FaithfulAt(t)'
  BY <1>3, <1>u DEF LoadBegin
<1>4. ASSUME NEW l \in Loader, LoadStep(l)
      PROVE  HookAt(t)' /\ FaithfulAt(t)'
  <2>1. CASE ApplyLock(l) \/ ApplyFail(l) \/ SwapResolver(l) \/ Install(l)
    BY <1>u, <2>1 DEF ApplyLock, ApplyFail, SwapResolver, Install
  <2>2. CASE ApplyPause(l)
    <3>1. Regime' = Paused /\ hook' = Witness(hook, Paused)
      BY <2>2 DEF ApplyPause, Regime
    <3> QED BY <1>w, <3>1
  <2>3. CASE \/ ClearProtected(l) \/ ClearRules(l)
             \/ InsertProtected(l) \/ InsertRules(l)
    <3>1. ~config.enabled
      BY <2>3
         DEF ClearProtected, ClearRules, InsertProtected, InsertRules, At,
             LoopInv, LoopAt, Writing, Critical
    <3>2. UNCHANGED <<attached, config, applied, hook>>
      BY <2>3 DEF ClearProtected, ClearRules, InsertProtected, InsertRules
    <3> QED BY <1>m, <3>1, <3>2
  <2>4. CASE ApplyEnable(l)
    <3>1. ~config.enabled /\ skel = "loaded"
      BY <2>4 DEF ApplyEnable, At, LoopInv, LoopAt, Writing, Critical, LockInv
    <3>2. Regime = Paused
      BY <3>1 DEF Regime
    <3>3. Regime' = Compiled(l) /\ hook' = Witness(hook, Compiled(l))
      BY <2>4, <3>1 DEF ApplyEnable, Regime, TypeOK
    <3> QED BY <1>w, <3>2, <3>3
  <2> QED BY <1>4, <2>1, <2>2, <2>3, <2>4 DEF LoadStep
<1>5. CASE RingPoll
  BY <1>5, <1>u DEF RingPoll
<1>6. CASE Open
  <2>1. PICK s \in Task : \/ \E a \in Access : HookEnter(s, a[1], a[2])
                          \/ HookStep(s)
    BY <1>6 DEF Open, HookNext
  <2>2. UNCHANGED <<attached, config, applied, protected, rulesMap, kept>>
    BY <1>6, OpenKeepsMaps
  <2>3. Regime' = Regime /\ \A f, e : Leftover(f, e)' = Leftover(f, e)
    BY <2>2 DEF Regime, Leftover
  <2>4. hook \in [Task -> HookType] /\ hook[t] \in HookType
    BY DEF TypeOK, KernelTypeOK
  <2>5. CASE s # t
    <3>1. hook'[t] = hook[t]
      BY <2>1, <2>4, <2>5
         DEF HookEnter, HookStep, HookLookup, HookRule, HookReturn
    <3> QED BY <1>u, <2>2, <3>1
  <2>6. ASSUME s = t, NEW a \in Access, HookEnter(t, a[1], a[2])
        PROVE  HookAt(t)' /\ FaithfulAt(t)'
    <3>1. /\ hook'[t].res = a[1] /\ hook'[t].exe = a[2]
          /\ hook'[t].seen = {Regime} /\ hook'[t].verdict = "ALLOW"
          /\ hook'[t].stale = Leftover(a[1], a[2])
          /\ hook'[t].pc = IF attached /\ config.enabled /\ a[1] # ZeroId
                           THEN "lookup" ELSE "idle"
      BY <2>4, <2>6 DEF HookEnter, IdleHook
    <3>2. CASE attached /\ config.enabled /\ a[1] # ZeroId
      <4>1. Regime = applied /\ applied # Paused
        BY <3>2 DEF Regime, CompleteWhenEnabled
      <4> QED BY <2>3, <3>1, <3>2, <4>1 DEF HookAt, FaithfulAt, InFlight
    <3>3. CASE ~(attached /\ config.enabled /\ a[1] # ZeroId)
      <4>1. Verdict(Regime, a[1], a[2]) = "ALLOW"
        BY <3>3 DEF Regime, Verdict
      <4> QED BY <3>1, <3>3, <4>1 DEF HookAt, FaithfulAt, InFlight
    <3> QED BY <3>2, <3>3
  <2>o. ASSUME InFlight(t), NEW c \in hook[t].seen, hook[t].seen = {c}
        PROVE  /\ c = applied /\ config.enabled /\ hook[t].res # ZeroId
               /\ hook[t].stale = Leftover(hook[t].res, hook[t].exe)
               /\ hook[t].res \in FileId /\ hook[t].exe \in FileId
    BY <1>0, <1>a, <2>o, <2>4 DEF HookAt, HookType
  <2>7. CASE s = t /\ HookLookup(t)
    <3>1. InFlight(t)
      BY <2>7 DEF HookLookup, InFlight
    <3>2. /\ hook'[t].res = hook[t].res /\ hook'[t].exe = hook[t].exe
          /\ hook'[t].seen = hook[t].seen /\ hook'[t].stale = hook[t].stale
          /\ \/ /\ hook'[t].pc = "idle" /\ hook'[t].verdict = "ALLOW"
                /\ hook[t].res \notin protected
             \/ hook'[t].pc = "rule" /\ hook[t].res \in protected
      BY <2>4, <2>7 DEF HookLookup, HookType
    <3>3. HookAt(t)'
      BY <1>0, <2>2, <2>3, <3>1, <3>2 DEF HookAt, InFlight
    <3>4. FaithfulAt(t)'
      <4>1. ASSUME NEW c \in hook[t].seen, hook[t].seen = {c}, ~hook[t].stale,
                   hook[t].res \notin protected
            PROVE  Verdict(c, hook[t].res, hook[t].exe) = "ALLOW"
        <5>1. /\ c = applied /\ config.enabled /\ hook[t].res # ZeroId
              /\ ~Leftover(hook[t].res, hook[t].exe)
              /\ hook[t].res \in FileId /\ hook[t].exe \in FileId
          BY <2>o, <3>1, <4>1
        <5> QED BY <4>1, <5>1, LookupIsVerdict
      <4> QED BY <3>2, <4>1 DEF FaithfulAt, InFlight
    <3> QED BY <3>3, <3>4
  <2>8. CASE s = t /\ HookRule(t)
    <3>1. InFlight(t) /\ hook[t].pc = "rule"
      BY <2>8 DEF HookRule, InFlight
    <3>2. /\ hook'[t].res = hook[t].res /\ hook'[t].exe = hook[t].exe
          /\ hook'[t].seen = hook[t].seen /\ hook'[t].pc = "ret"
          /\ hook'[t].stale = hook[t].stale
          /\ hook'[t].rule = IF hook[t].exe = ZeroId THEN NoRule
                             ELSE rulesMap[<<hook[t].res, hook[t].exe>>]
      BY <2>4, <2>8 DEF HookRule, HookType
    <3> QED BY <1>0, <2>2, <2>3, <3>1, <3>2 DEF HookAt, FaithfulAt, InFlight
  <2>9. CASE s = t /\ HookReturn(t)
    <3>1. InFlight(t) /\ hook[t].pc = "ret"
      BY <2>9 DEF HookReturn, InFlight
    <3>p. PICK v \in RuleRead(t) :
             hook' = [hook EXCEPT
                ![t].pc = "idle", ![t].ev = FALSE, ![t].rule = NoRule,
                ![t].verdict = fg_decision(hook[t].exe, v).action]
      BY <2>9 DEF HookReturn
    <3>2. /\ hook'[t].pc = "idle"
          /\ hook'[t].verdict = fg_decision(hook[t].exe, v).action
          /\ hook'[t].res = hook[t].res /\ hook'[t].exe = hook[t].exe
          /\ hook'[t].seen = hook[t].seen /\ hook'[t].stale = hook[t].stale
      BY <2>4, <3>p DEF HookType
    <3>3. ASSUME NEW c \in hook[t].seen, hook[t].seen = {c}, ~hook[t].stale
          PROVE  hook'[t].verdict = Verdict(c, hook[t].res, hook[t].exe)
      <4>1. /\ hook[t].res \in protected
            /\ hook[t].rule = IF hook[t].exe = ZeroId THEN NoRule
                              ELSE rulesMap[<<hook[t].res, hook[t].exe>>]
        BY <1>0, <3>1, <3>3 DEF HookAt
      <4>2. v = hook[t].rule
        BY <3>2, <4>1 DEF RuleRead
      <4> QED BY <2>o, <3>1, <3>2, <3>3, <4>1, <4>2, LookupIsVerdict
    <3> QED BY <3>2, <3>3 DEF HookAt, FaithfulAt, InFlight
  <2> QED BY <2>1, <2>5, <2>6, <2>7, <2>8, <2>9 DEF HookStep
<1>7. CASE UNCHANGED vars
  BY <1>7, <1>u DEF vars
<1> QED BY <1>1, <1>2, <1>3, <1>4, <1>5, <1>6, <1>7 DEF Next

-----------------------------------------------------------------------------
\* The initial state satisfies the inductive invariant.
LEMMA InitInv == Init => IInv
<1> SUFFICES ASSUME Init PROVE IInv
  OBVIOUS
<1> USE PolicyAssumption, HookAssumption, UpdateAssumption
<1>1. TypeOK
  <2>1. hook \in [Task -> HookType]
    BY DEF Init, IdleHook, HookType, Action
  <2>2. ld \in [Loader -> LoaderType]
    BY DEF Init, IdleLoader, LoaderType, Index
  <2>3. rulesMap \in [RuleKey -> RuleVal \cup {NoRule}]
    BY DEF Init
  <2>4. resolver \in [FileId -> Path]
    BY DEF Init, NoResolver
  <2>5. KernelTypeOK
    <3>1. ring \in Seq(RecordType)
      BY DEF Init
    <3>2. config \in [enabled : BOOLEAN, policy_version : Int]
      BY DEF Init
    <3>3. kept \in [files : SUBSET FileId,
                    rules : [RuleKey -> RuleVal \cup {NoRule}]]
      BY DEF Init
    <3> QED BY <2>1, <2>3, <3>1, <3>2, <3>3 DEF Init, KernelTypeOK
  <2>6. emitted \in [res : Path, exe : FileId, action : Action,
                    seen : SUBSET (CompiledPolicy \cup {Paused}),
                    stale : BOOLEAN, calm : BOOLEAN, under : Policies \cup {NoPolicy}]
    BY DEF Init, NoEvent, Action
  <2>7. status_ \in [attached : BOOLEAN, enforcing : BOOLEAN,
                     policy_version : Int, protected_count : Nat,
                     rule_count : Nat]
    BY DEF Init
  <2> QED BY <2>2, <2>4, <2>5, <2>6, <2>7 DEF Init, TypeOK
<1>2. LoadsCompile /\ LockInv /\ LoopInv
  BY DEF Init, IdleLoader, LoadsCompile, LockInv, LoopInv, LoopAt, Critical,
         Writing
<1>3. CompleteWhenEnabled
  BY DEF Init, CompleteWhenEnabled
<1>4. HookInv /\ UndisturbedOpen
  BY DEF Init, HookInv, HookAt, UndisturbedOpen, InFlight, IdleHook, Verdict
<1> QED BY <1>1, <1>2, <1>3, <1>4 DEF IInv

\* IInv holds of every reachable state.
THEOREM Invariance == Spec => []IInv
<1>1. IInv /\ [Next]_vars => IInv'
  <2> SUFFICES ASSUME IInv, [Next]_vars PROVE IInv'
    OBVIOUS
  <2> USE DEF IInv
  <2>1. TypeOK'
    BY TypeStep
  <2>2. LoadsCompile' /\ LockInv'
    BY LockStep
  <2>3. LoopInv' /\ CompleteWhenEnabled'
    BY LoopStep
  <2>4. HookInv' /\ UndisturbedOpen'
    BY <2>1, HookStepInv
  <2> QED BY <2>1, <2>2, <2>3, <2>4
<1> QED BY InitInv, <1>1, PTL DEF Spec

\* The types of the state hold for every instance of the constants.
THEOREM TypeCorrect == Spec => []TypeOK
<1>1. IInv => TypeOK
  BY DEF IInv
<1> QED BY Invariance, <1>1, PTL

\* Whenever the kernel enforces, its maps hold one whole policy and, beyond it,
\* exactly what the deletes that clear_map does not check left behind: no
\* interleaving of loaders, error returns and capacity limits enables a partial
\* one.
THEOREM EnabledIsComplete == Spec => []CompleteWhenEnabled
<1>1. IInv => CompleteWhenEnabled
  BY DEF IInv
<1> QED BY Invariance, <1>1, PTL

\* The maps hold the policy last enabled and nothing else.
ExactlyThePolicy ==
    config.enabled =>
        /\ protected = Listed(applied)
        /\ HoldsFirst(rulesMap, [k \in RuleKey |-> NoRule], applied.rules,
                      Len(applied.rules))

NothingKept == kept.files = {} /\ \A k \in RuleKey : kept.rules[k] = NoRule

\* Where no delete fails, whatever the capacity of the maps and however many
\* loads contend, what the kernel enforces is one policy and nothing else.
THEOREM CleanIsExact ==
    ASSUME ~MapsMayFail PROVE Spec => []ExactlyThePolicy
<1>1. Init => NothingKept
  BY DEF Init, NothingKept
<1>2. ASSUME TypeOK, NothingKept, [Next]_vars
      PROVE  NothingKept'
  <2>0. kept \in [files : SUBSET FileId, rules : [RuleKey -> RuleVal \cup {NoRule}]]
    BY <1>2 DEF TypeOK, KernelTypeOK
  <2>1. ASSUME NEW l \in Loader, ClearProtected(l)
        PROVE  NothingKept'
    BY <1>2, <2>0, <2>1 DEF ClearProtected, NothingKept
  <2>2. ASSUME NEW l \in Loader, ClearRules(l)
        PROVE  NothingKept'
    <3>1. \/ kept' = kept
          \/ RuleKeys = {} /\ kept' = [kept EXCEPT !.rules = rulesMap]
      BY <2>2 DEF ClearRules
    <3> QED BY <1>2, <2>0, <3>1 DEF NothingKept, RuleKeys
  <2>3. CASE UNCHANGED kept
    BY <1>2, <2>3 DEF NothingKept
  <2>4. CASE EnforcerLoad \/ Detach \/ RingPoll \/ Open \/ UNCHANGED vars
    BY <2>3, <2>4, OpenKeepsMaps DEF EnforcerLoad, Detach, vars
  <2>5. ASSUME NEW l \in Loader, NEW p \in Policies, LoadBegin(l, p)
        PROVE  UNCHANGED kept
    BY <2>5 DEF LoadBegin
  <2>6. ASSUME NEW l \in Loader, LoadStep(l)
        PROVE  NothingKept'
    BY <2>1, <2>2, <2>3, <2>6
       DEF LoadStep, ApplyLock, ApplyFail, ApplyPause, InsertProtected,
           InsertRules, ApplyEnable, SwapResolver, Install
  <2> QED BY <1>2, <2>3, <2>4, <2>5, <2>6 DEF Next
<1>3. IInv /\ NothingKept /\ [Next]_vars => NothingKept'
  BY <1>2 DEF IInv
<1>4. IInv /\ NothingKept => ExactlyThePolicy
  BY DEF IInv, NothingKept, CompleteWhenEnabled, ExactlyThePolicy, HoldsFirst
<1> QED BY <1>1, <1>3, <1>4, Invariance, PTL DEF Spec

\* Every open that no policy update overlaps, and for whose file and executable
\* clear_map left nothing, is decided by the policy in force.
THEOREM OpensFollowPolicy == Spec => []UndisturbedOpen
<1>1. IInv => UndisturbedOpen
  BY DEF IInv
<1> QED BY Invariance, <1>1, PTL

-----------------------------------------------------------------------------
\* What a step may do to the kernel's copy of the policy.  The maps are never
\* touched while enforcement is on; one policy follows another only through a
\* pause; and only inside apply_policy's critical section does any of it move.
MapWrite ==
    /\ config.enabled => UNCHANGED <<protected, rulesMap>>
    /\ config.enabled /\ config'.enabled => UNCHANGED <<config, applied>>
    /\ mu = NoLoader => UNCHANGED <<config, protected, rulesMap, applied, kept>>

PausedWrites == [][MapWrite]_vars

\* Every write is a step of a loader that holds state_mu_, and the loader has
\* overwritten the config entry with {0, 0} before it reaches the maps.
LEMMA MapWriteStep ==
    ASSUME IInv, [Next]_vars
    PROVE  MapWrite
<1>0. /\ NoLoader \notin Loader
      /\ \A l \in Loader : ld[l].pc \in Critical => mu = l
      /\ \A l \in Loader : ld[l].pc \in Writing => ~config.enabled
  BY UpdateAssumption DEF IInv, LockInv, LoopInv, LoopAt
<1>1. CASE EnforcerLoad \/ Detach
  BY <1>1 DEF EnforcerLoad, Detach, MapWrite
<1>2. ASSUME NEW l \in Loader, NEW p \in Policies, LoadBegin(l, p)
      PROVE  MapWrite
  BY <1>2 DEF LoadBegin, MapWrite
<1>3. ASSUME NEW l \in Loader, LoadStep(l)
      PROVE  MapWrite
  <2>1. CASE ApplyLock(l) \/ ApplyFail(l) \/ SwapResolver(l) \/ Install(l)
    BY <2>1 DEF ApplyLock, ApplyFail, SwapResolver, Install, MapWrite
  <2>2. CASE ApplyPause(l)
    <3>1. mu # NoLoader
      BY <1>0, <2>2 DEF ApplyPause, At, Critical
    <3> QED BY <2>2, <3>1 DEF ApplyPause, MapWrite
  <2>3. ASSUME ld[l].pc \in Writing
        PROVE  mu # NoLoader /\ ~config.enabled
    BY <1>0, <2>3 DEF Writing
  <2>4. CASE ClearProtected(l)
    BY <2>3, <2>4 DEF ClearProtected, At, Critical, Writing, MapWrite
  <2>5. CASE ClearRules(l)
    BY <2>3, <2>5 DEF ClearRules, At, Critical, Writing, MapWrite
  <2>6. CASE InsertProtected(l)
    BY <2>3, <2>6 DEF InsertProtected, At, Critical, Writing, MapWrite
  <2>7. CASE InsertRules(l)
    BY <2>3, <2>7 DEF InsertRules, At, Critical, Writing, MapWrite
  <2>8. CASE ApplyEnable(l)
    BY <2>3, <2>8 DEF ApplyEnable, At, Critical, Writing, MapWrite
  <2> QED BY <1>3, <2>1, <2>2, <2>4, <2>5, <2>6, <2>7, <2>8 DEF LoadStep
<1>4. CASE RingPoll \/ Open
  BY <1>4, OpenKeepsMaps DEF MapWrite
<1>5. CASE UNCHANGED vars
  BY <1>5 DEF vars, MapWrite
<1> QED BY <1>1, <1>2, <1>3, <1>4, <1>5 DEF Next

\* apply_policy's three phases, whoever else runs: the maps are rewritten only
\* under state_mu_ and only while the program answers ALLOW without them.
THEOREM WritesWhilePaused == Spec => PausedWrites
<1>1. IInv /\ [Next]_vars => [MapWrite]_vars
  BY MapWriteStep
<1> QED BY Invariance, <1>1, PTL DEF Spec, PausedWrites
=============================================================================
