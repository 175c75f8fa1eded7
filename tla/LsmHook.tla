------------------------------ MODULE LsmHook ------------------------------
(***************************************************************************)
(* The kernel side: the three BPF maps, the event ring buffer and the LSM  *)
(* program fg_file_open, run by any number of tasks at once.  A step of a  *)
(* task reads or writes one shared object, because user space may write    *)
(* the maps between any two of them:                                       *)
(*                                                                         *)
(*    HookEnter    fg_enabled() and the identity of the file               *)
(*    HookLookup   the protected map, then the reservation of an event     *)
(*    HookRule     the executable's identity and the rules map             *)
(*    HookReturn   reading the rule found, submitting the event, returning *)
(*                                                                         *)
(* Ghosts of an open: seen, the policies (or Paused) that were in force at *)
(* some moment of it; stale, whether the maps held, for its file and       *)
(* executable, what clear_map had failed to delete.                        *)
(***************************************************************************)
EXTENDS Policy

CONSTANTS
    Task,        \* tasks that open files
    Access,      \* the (file, executable) pairs they open with
    RingCap,     \* records the ring buffer can hold (fileguard_events)
    StaleId,     \* identities that unwritten bytes of a record may spell
    StaleRule,   \* rule numbers that unwritten bytes of a record may spell
    Paused       \* ghost: the regime in which nothing is enforced

ASSUME HookAssumption ==
    /\ Access \subseteq FileId \X FileId
    /\ RingCap \in Nat
    /\ StaleId \subseteq FileId
    /\ StaleRule \subseteq Nat
    /\ Paused \notin CompiledPolicy

VARIABLES
    attached,    \* the program is attached to security_file_open
    config,      \* fileguard_config[0]
    protected,   \* fileguard_protected: the keys present
    rulesMap,    \* fileguard_rules
    ring,        \* fileguard_events: the records between consumer and producer
    hook,        \* per task: where its latest open is, and what it returned
    applied,     \* ghost: the compiled policy last enabled
    kept         \* ghost: what the last clear_map of each map left in it

kernelVars == <<attached, config, protected, rulesMap>>
hookVars == <<attached, config, protected, rulesMap, ring, hook, applied, kept>>

\* What the kernel enforces at this moment.
Regime == IF attached /\ config.enabled THEN applied ELSE Paused

\* The files that a compiled policy protects.
Listed(c) == {c.protected_resources[i] : i \in 1..Len(c.protected_resources)}

\* What the maps say of f, or of f and e, may be left from an older policy.
Leftover(f, e) ==
    config.enabled /\ \/ f \in kept.files \ Listed(applied)
                      \/ kept.rules[<<f, e>>] # NoRule

\* The verdict a complete policy c gives for an open of f by executable e.
Verdict(c, f, e) ==
    IF \/ c = Paused
       \/ f = ZeroId
       \/ f \notin Listed(c)
    THEN "ALLOW"
    ELSE IF /\ e # ZeroId
            /\ \E j \in 1..Len(c.rules) :
                  /\ KeyOf(c.rules[j]) = <<f, e>>
                  /\ c.rules[j].action = "ALLOW"
                  /\ \A h \in 1..(j - 1) : KeyOf(c.rules[h]) # <<f, e>>
         THEN "ALLOW" ELSE "DENY"

IdleHook ==
    [pc |-> "idle", res |-> ZeroId, exe |-> ZeroId, ev |-> FALSE,
     rule |-> NoRule, verdict |-> "ALLOW", seen |-> {Paused}, stale |-> FALSE]

InFlight(t) == hook[t].pc # "idle"

\* Ghost: every open in flight witnesses a new regime r.
Witness(h, r) ==
    [t \in Task |-> IF h[t].pc # "idle"
                    THEN [h[t] EXCEPT !.seen = @ \cup {r}] ELSE h[t]]

-----------------------------------------------------------------------------
\* fg_file_open up to the identity of the file; without the program attached,
\* or with enforcement paused, the open goes through.
HookEnter(t, f, e) ==
    /\ hook[t].pc = "idle"
    /\ hook' = [hook EXCEPT ![t] =
          [IdleHook EXCEPT
             !.res = f, !.exe = e, !.seen = {Regime}, !.stale = Leftover(f, e),
             !.pc = IF attached /\ config.enabled /\ f # ZeroId
                    THEN "lookup" ELSE "idle"]]
    /\ UNCHANGED <<attached, config, protected, rulesMap, ring, applied, kept>>

\* The membership test and, for a protected file, bpf_ringbuf_reserve: ring
\* memory is not cleared, so proc and rule_id start with whatever was there.
HookLookup(t) ==
    /\ hook[t].pc = "lookup"
    /\ \/ /\ hook[t].res \notin protected
          /\ hook' = [hook EXCEPT ![t].pc = "idle", ![t].verdict = "ALLOW"]
          /\ UNCHANGED ring
       \/ /\ hook[t].res \in protected
          /\ Len(ring) < RingCap
          /\ \E g \in StaleId, n \in StaleRule :
                ring' = Append(ring,
                   [tid |-> t, submitted |-> FALSE, res |-> hook[t].res,
                    proc |-> g, rule_id |-> n, action |-> "DENY",
                    reason |-> "UNKNOWN_PROCESS", exe |-> hook[t].exe,
                    seen |-> hook[t].seen, stale |-> hook[t].stale])
          /\ hook' = [hook EXCEPT ![t].pc = "rule", ![t].ev = TRUE]
       \/ /\ hook[t].res \in protected
          /\ Len(ring) >= RingCap
          /\ hook' = [hook EXCEPT ![t].pc = "rule"]
          /\ UNCHANGED ring
    /\ UNCHANGED <<attached, config, protected, rulesMap, applied, kept>>

\* fg_process_exe_id and the lookup in fileguard_rules: NoRule is a null
\* pointer, and an unknown executable does not even look.
HookRule(t) ==
    /\ hook[t].pc = "rule"
    /\ hook' = [hook EXCEPT
          ![t].pc = "ret",
          ![t].rule = IF hook[t].exe = ZeroId THEN NoRule
                      ELSE rulesMap[<<hook[t].res, hook[t].exe>>]]
    /\ UNCHANGED <<attached, config, protected, rulesMap, ring, applied, kept>>

\* What a pointer into the rules map reads: the element it was found in, or,
\* if that element has been deleted since, any element that may have taken
\* its preallocated place.
RuleRead(t) ==
    IF \/ hook[t].rule = NoRule
       \/ rulesMap[<<hook[t].res, hook[t].exe>>] = hook[t].rule
    THEN {hook[t].rule}
    ELSE {hook[t].rule} \cup ({rulesMap[k] : k \in RuleKey} \ {NoRule})

\* Mutant: an executable that cannot be identified is let in.
fg_decision_UnknownAllowed(e, v) ==
    IF e = ZeroId THEN Decision("ALLOW", "UNKNOWN_PROCESS", 0)
    ELSE IF v = NoRule THEN Decision("DENY", "DEFAULT_DENY", 0)
    ELSE Decision(v.action, "POLICY_RULE", v.rule_id)

\* The rest of fg_decision, bpf_ringbuf_submit and the return.
fg_decision(e, v) ==
    IF e = ZeroId THEN Decision("DENY", "UNKNOWN_PROCESS", 0)
    ELSE IF v = NoRule THEN Decision("DENY", "DEFAULT_DENY", 0)
    ELSE Decision(v.action, "POLICY_RULE", v.rule_id)

\* Mutant: the early return for an unknown executable forgets to submit.
HookReturn_NoSubmit(t) ==
    /\ hook[t].pc = "ret"
    /\ \E v \in RuleRead(t) :
          LET d == fg_decision(hook[t].exe, v) IN
          /\ hook' = [hook EXCEPT ![t].pc = "idle", ![t].verdict = d.action,
                                  ![t].ev = FALSE, ![t].rule = NoRule]
          /\ ring' = [i \in 1..Len(ring) |->
                IF /\ ring[i].tid = t /\ ~ring[i].submitted
                   /\ hook[t].exe # ZeroId
                THEN [ring[i] EXCEPT !.submitted = TRUE, !.action = d.action]
                ELSE ring[i]]
    /\ UNCHANGED <<attached, config, protected, rulesMap, applied, kept>>

\* Mutant: the action a rule decides is not copied into the event.
HookReturn_ActionUnset(t) ==
    /\ hook[t].pc = "ret"
    /\ \E v \in RuleRead(t) :
          /\ hook' = [hook EXCEPT
                ![t].pc = "idle", ![t].ev = FALSE, ![t].rule = NoRule,
                ![t].verdict = fg_decision(hook[t].exe, v).action]
          /\ ring' = [i \in 1..Len(ring) |->
                IF ring[i].tid = t /\ ~ring[i].submitted
                THEN [ring[i] EXCEPT !.submitted = TRUE, !.seen = hook[t].seen]
                ELSE ring[i]]
    /\ UNCHANGED <<attached, config, protected, rulesMap, applied, kept>>

\* The action is read from the map twice, for the event and for the return.
HookReturn(t) ==
    /\ hook[t].pc = "ret"
    /\ \E v, w \in RuleRead(t) :
          LET d == fg_decision(hook[t].exe, v) IN
          /\ hook' = [hook EXCEPT
                ![t].pc = "idle", ![t].ev = FALSE, ![t].rule = NoRule,
                ![t].verdict = fg_decision(hook[t].exe, w).action]
          /\ ring' = [i \in 1..Len(ring) |->
                IF ring[i].tid = t /\ ~ring[i].submitted
                THEN [ring[i] EXCEPT
                         !.submitted = TRUE, !.action = d.action,
                         !.reason = d.reason, !.seen = hook[t].seen,
                         !.rule_id = IF v = NoRule THEN @ ELSE d.rule_id]
                ELSE ring[i]]
    /\ UNCHANGED <<attached, config, protected, rulesMap, applied, kept>>

HookStep(t) ==
    \/ HookLookup(t)
    \/ HookRule(t)
    \/ HookReturn(t)

HookNext ==
    \E t \in Task :
        \/ \E a \in Access : HookEnter(t, a[1], a[2])
        \/ HookStep(t)

-----------------------------------------------------------------------------
HookType ==
    [pc : {"idle", "lookup", "rule", "ret"}, res : FileId, exe : FileId,
     ev : BOOLEAN, rule : RuleVal \cup {NoRule}, verdict : Action,
     seen : SUBSET (CompiledPolicy \cup {Paused}), stale : BOOLEAN]

RecordType ==
    [tid : Task, submitted : BOOLEAN, res : FileId, proc : FileId,
     rule_id : Nat, action : Action,
     reason : {"POLICY_RULE", "DEFAULT_DENY", "UNKNOWN_PROCESS"},
     exe : FileId, seen : SUBSET (CompiledPolicy \cup {Paused}),
     stale : BOOLEAN]

KernelTypeOK ==
    /\ attached \in BOOLEAN
    /\ config \in [enabled : BOOLEAN, policy_version : Int]
    /\ protected \subseteq FileId
    /\ rulesMap \in [RuleKey -> RuleVal \cup {NoRule}]
    /\ applied \in CompiledPolicy \cup {Paused}
    /\ kept \in [files : SUBSET FileId,
                rules : [RuleKey -> RuleVal \cup {NoRule}]]
    /\ hook \in [Task -> HookType]
    /\ ring \in Seq(RecordType)
=============================================================================
