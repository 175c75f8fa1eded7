------------------------------- MODULE Policy -------------------------------
(***************************************************************************)
(* The policy as the operator writes it and as the kernel reads it:        *)
(* Policy::validate, the DecisionEngine, the PolicyCompiler, the           *)
(* PathResolver and what the BPF hash maps hold once a compiled policy has *)
(* been inserted.  Everything here is a pure operator.                     *)
(*                                                                         *)
(* Paths are opaque names.  AbsPath are the names that begin with '/', and *)
(* EmptyPath is the empty string.  A FileId stands for (major, minor, ino) *)
(* and ZeroId for any identity whose inode number is zero.  Operation and  *)
(* ProcessIdentityType have a single enumerator each, so neither is a      *)
(* field of the records below.                                             *)
(***************************************************************************)
EXTENDS Integers, Sequences, FiniteSets, SequencesExt

CONSTANTS
    Path,        \* names a policy or a request may carry
    AbsPath,     \* the absolute ones
    EmptyPath,   \* the empty string
    RuleId,      \* textual rule ids
    EmptyId,     \* the empty rule id
    FileId,      \* identities of inodes
    ZeroId,      \* the identity that means "unknown"
    NoFile,      \* what stat(2) yields for a path it cannot stat
    NoPolicy     \* the null policy pointer

ASSUME PolicyAssumption ==
    /\ AbsPath \subseteq Path
    /\ EmptyPath \in Path \ AbsPath
    /\ EmptyId \in RuleId
    /\ ZeroId \in FileId
    /\ NoFile \notin FileId

Action == {"ALLOW", "DENY"}

PolicyRule == [id : RuleId, resource : Path, process : Path, action : Action]

PolicyType ==
    [version : Int, default_action : Action,
     protected_resources : Seq(Path), rules : Seq(PolicyRule)]

CompiledRule ==
    [rule_id : Nat, resource : FileId, process : FileId, action : Action]

CompiledPolicy ==
    [version : Int, protected_resources : Seq(FileId),
     rules : Seq(CompiledRule)]

ASSUME NoPolicyAssumption == NoPolicy \notin PolicyType

-----------------------------------------------------------------------------
(* Policy::validate and the userspace decision procedure.                  *)

validate(p) ==
    /\ p.version >= 0
    /\ \A i \in 1..Len(p.protected_resources) :
          p.protected_resources[i] \in AbsPath
    /\ IsInjective(p.protected_resources)
    /\ IsInjective([i \in 1..Len(p.rules) |-> p.rules[i].id])
    /\ \A i \in 1..Len(p.rules) :
          /\ p.rules[i].id # EmptyId
          /\ p.rules[i].resource \in AbsPath
          /\ \E j \in 1..Len(p.protected_resources) :
                p.protected_resources[j] = p.rules[i].resource
          /\ p.rules[i].process # EmptyPath

is_protected(p, path) ==
    \E i \in 1..Len(p.protected_resources) : p.protected_resources[i] = path

\* Mutant: the last matching rule is returned.
find_rule_Last(p, path, exe) ==
    SelectLastInSeq(p.rules, LAMBDA r : r.resource = path /\ r.process = exe)

\* Index of the first rule that matches, 0 for the null pointer.
find_rule(p, path, exe) ==
    SelectInSeq(p.rules, LAMBDA r : r.resource = path /\ r.process = exe)

Decision(action, reason, rule_id) ==
    [action |-> action, reason |-> reason, rule_id |-> rule_id]

\* DecisionEngine::evaluate; matched_rule_id is given as the rule's position.
evaluate(p, path, exe) ==
    LET i == find_rule(p, path, exe) IN
    IF ~is_protected(p, path)
    THEN Decision("ALLOW", "RESOURCE_UNPROTECTED", 0)
    ELSE IF i # 0 THEN Decision(p.rules[i].action, "POLICY_RULE", i)
                  ELSE Decision(p.default_action, "DEFAULT_DENY", 0)

-----------------------------------------------------------------------------
(* PolicyCompiler::compile over a file system fs : Path -> FileId or       *)
(* NoFile (resolve_path_with_stat).                                        *)

Resolves(fs, path) == fs[path] \notin {NoFile, ZeroId}

CanCompile(p, fs) ==
    /\ validate(p)
    /\ \A i \in 1..Len(p.protected_resources) :
          Resolves(fs, p.protected_resources[i])
    /\ \A i \in 1..Len(p.rules) : Resolves(fs, p.rules[i].process)

compile(p, fs) ==
    [version |-> p.version,
     protected_resources |->
        [i \in 1..Len(p.protected_resources) |-> fs[p.protected_resources[i]]],
     rules |->
        [i \in 1..Len(p.rules) |->
            [rule_id  |-> i,
             resource |-> fs[p.rules[i].resource],
             process  |-> fs[p.rules[i].process],
             action   |-> p.rules[i].action]]]

\* The resolver load_policy builds: every compiled identity with the path it
\* came from, a later add() overwriting an earlier one; EmptyPath stands for
\* the textual form of an identity the resolver does not know.
Resolver(p, fs) ==
    LET names == p.protected_resources
                   \o [i \in 1..Len(p.rules) |-> p.rules[i].process]
        last(f) == {i \in 1..Len(names) :
                      /\ fs[names[i]] = f
                      /\ \A j \in (i + 1)..Len(names) : fs[names[j]] # f}
    IN  [f \in FileId |-> IF last(f) = {} THEN EmptyPath
                          ELSE names[CHOOSE i \in last(f) : TRUE]]

-----------------------------------------------------------------------------
(* The contents of fileguard_rules, as a total function on its keys.       *)

RuleKey == FileId \X FileId

NoRule == [rule_id |-> 0, action |-> "NONE"]

RuleVal == [rule_id : Nat, action : Action]

KeyOf(r) == <<r.resource, r.process>>

ValOf(r) == [rule_id |-> r.rule_id, action |-> r.action]

\* m is what inserting the first n of the rules rs with BPF_NOEXIST makes of
\* a map that held old: a key of old keeps its value, and every other key has
\* the value of its first rule.
HoldsFirst(m, old, rs, n) ==
    \A k \in RuleKey :
        \/ old[k] # NoRule /\ m[k] = old[k]
        \/ old[k] = NoRule /\ m[k] = NoRule /\ \A j \in 1..n : KeyOf(rs[j]) # k
        \/ old[k] = NoRule /\ \E j \in 1..n :
              /\ KeyOf(rs[j]) = k
              /\ m[k] = ValOf(rs[j])
              /\ \A h \in 1..(j - 1) : KeyOf(rs[h]) # k
=============================================================================
