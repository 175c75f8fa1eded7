---------------------------- MODULE PolicyUpdate ----------------------------
(***************************************************************************)
(* Replacing the policy while files are being opened.  Threads of the      *)
(* daemon call Controller::load_policy, which compiles the policy, has the *)
(* LinuxEBPFEnforcer write it into the kernel maps under state_mu_         *)
(* (pause, clear, insert, enable), and then, under other locks, swaps the  *)
(* reverse resolver and the userspace policy.  The hook of LsmHook runs    *)
(* between any two of those writes, and the poll thread takes submitted    *)
(* events out of the ring.                                                 *)
(***************************************************************************)
EXTENDS LsmHook

CONSTANTS
    Loader,      \* threads that may be inside Controller::load_policy
    NoLoader,    \* state_mu_ is free
    Policies,    \* policies handed to load_policy
    Stat,        \* what stat(2) answers for each path
    MapEntries,  \* max_entries of the two hash maps (cfg_.map_entries)
    MapsMayFail, \* whether a bpf(2) map operation may fail
    MaxLoads     \* bound: calls of load_policy

ASSUME UpdateAssumption ==
    /\ NoLoader \notin Loader
    /\ Policies \subseteq PolicyType
    /\ Stat \in [Path -> FileId \cup {NoFile}]
    /\ MapEntries \in Nat \ {0}
    /\ MapsMayFail \in BOOLEAN
    /\ MaxLoads \in Nat

VARIABLES
    skel,        \* skel_: "none" before load(), "loaded", "gone" after detach()
    mu,          \* holder of LinuxEBPFEnforcer::state_mu_
    ld,          \* per loader: where its call is
    status_,     \* LinuxEBPFEnforcer::status_
    current,     \* PolicyManager::current_
    resolver,    \* Controller::resolver_
    emitted,     \* the last event handed to emit_event, with ghosts
    loads        \* calls of load_policy so far

loadVars == <<skel, mu, ld, status_, current, resolver, loads>>
vars == <<attached, config, protected, rulesMap, ring, hook, applied, kept,
          skel, mu, ld, status_, current, resolver, emitted, loads>>

NoResolver == [f \in FileId |-> EmptyPath]

NoEvent == [res |-> EmptyPath, exe |-> ZeroId, action |-> "ALLOW",
            seen |-> {Paused}, stale |-> FALSE, calm |-> FALSE,
            under |-> NoPolicy]

IdleLoader == [pc |-> "idle", policy |-> NoPolicy, i |-> 1, result |-> "none"]

Init ==
    /\ attached = FALSE
    /\ config = [enabled |-> FALSE, policy_version |-> 0]
    /\ protected = {}
    /\ rulesMap = [k \in RuleKey |-> NoRule]
    /\ ring = <<>>
    /\ hook = [t \in Task |-> IdleHook]
    /\ applied = Paused
    /\ kept = [files |-> {}, rules |-> [k \in RuleKey |-> NoRule]]
    /\ skel = "none"
    /\ mu = NoLoader
    /\ ld = [l \in Loader |-> IdleLoader]
    /\ status_ = [attached |-> FALSE, enforcing |-> FALSE, policy_version |-> 0,
                  protected_count |-> 0, rule_count |-> 0]
    /\ current = NoPolicy
    /\ resolver = NoResolver
    /\ emitted = NoEvent
    /\ loads = 0

-----------------------------------------------------------------------------
(* The enforcer's life: load() from Controller::start, detach() from       *)
(* Controller::request_stop.                                               *)

\* load() opens, loads and attaches the program, with fresh maps; when a step
\* of it fails the controller does not start and nothing changes here.
EnforcerLoad ==
    /\ mu = NoLoader
    /\ skel = "none"
    /\ skel' = "loaded"
    /\ attached' = TRUE
    /\ status_' = [status_ EXCEPT !.attached = TRUE, !.enforcing = FALSE]
    /\ hook' = Witness(hook, Paused)
    /\ UNCHANGED <<config, protected, rulesMap, ring, applied, kept, mu, ld,
                   current, resolver, emitted, loads>>

\* Mutant: skel_ is dropped without detaching the program.
Detach_StaysAttached ==
    /\ mu = NoLoader
    /\ skel = "loaded"
    /\ skel' = "gone"
    /\ status_' = [status_ EXCEPT !.attached = FALSE, !.enforcing = FALSE,
                                  !.policy_version = 0]
    /\ UNCHANGED <<attached, hook, config, protected, rulesMap, ring, applied,
                   kept, mu, ld, current, resolver, emitted, loads>>

\* detach(): no open enters the program any more; those inside it keep the
\* maps alive until they return, but their events have lost their reader.
Detach ==
    /\ mu = NoLoader
    /\ skel = "loaded"
    /\ skel' = "gone"
    /\ attached' = FALSE
    /\ hook' = Witness(hook, Paused)
    /\ status_' = [attached |-> FALSE, enforcing |-> FALSE, policy_version |-> 0,
                   protected_count |-> status_.protected_count,
                   rule_count |-> status_.rule_count]
    /\ UNCHANGED <<config, protected, rulesMap, ring, applied, kept, mu, ld,
                   current, resolver, emitted, loads>>

-----------------------------------------------------------------------------
(* Controller::load_policy and LinuxEBPFEnforcer::apply_policy.            *)

Compiled(l) == compile(ld[l].policy, Stat)

At(l, pc) == ld[l].pc = pc

Goto(l, pc) == ld' = [ld EXCEPT ![l].pc = pc, ![l].i = 1]

Return(l, result) == ld' = [ld EXCEPT ![l] = [IdleLoader EXCEPT !.result = result]]

\* validate() and compile(), outside any lock.
LoadBegin(l, p) ==
    /\ At(l, "idle")
    /\ skel # "none"
    /\ loads < MaxLoads
    /\ loads' = loads + 1
    /\ ld' = [ld EXCEPT ![l] =
          [IdleLoader EXCEPT
             !.pc = IF CanCompile(p, Stat) THEN "lock" ELSE "idle",
             !.policy = p,
             !.result = IF CanCompile(p, Stat) THEN "none" ELSE "rejected"]]
    /\ UNCHANGED <<attached, config, protected, rulesMap, ring, hook, applied,
                   kept, skel, mu, status_, current, resolver, emitted>>

\* Mutant: apply_policy does not take state_mu_.
ApplyLock_NoLock(l) ==
    /\ At(l, "lock")
    /\ IF skel = "loaded" THEN Goto(l, "pause") ELSE Return(l, "rejected")
    /\ UNCHANGED <<attached, config, protected, rulesMap, ring, hook, applied,
                   kept, skel, mu, status_, current, resolver, emitted,
                   loads>>

\* lock_guard(state_mu_) and the check of skel_.
ApplyLock(l) ==
    /\ At(l, "lock")
    /\ mu = NoLoader
    /\ IF skel = "loaded" THEN mu' = l /\ Goto(l, "pause")
                          ELSE mu' = mu /\ Return(l, "rejected")
    /\ UNCHANGED <<attached, config, protected, rulesMap, ring, hook, applied,
                   kept, skel, status_, current, resolver, emitted, loads>>

\* The keys present in fileguard_rules.
RuleKeys == {k \in RuleKey : rulesMap[k] # NoRule}

\* A bpf(2) call whose result apply_policy looks at fails: an update of the
\* config entry, the iteration of clear_map, an insert; a hash map with
\* max_entries elements refuses a new key (E2BIG).
MapError(l) ==
    \/ MapsMayFail /\ ld[l].pc \in {"pause", "clearp", "clearr", "enable"}
    \/ /\ At(l, "insp") /\ ld[l].i <= Len(Compiled(l).protected_resources)
       /\ Compiled(l).protected_resources[ld[l].i] \notin protected
       /\ MapsMayFail \/ Cardinality(protected) >= MapEntries
    \/ /\ At(l, "insr") /\ ld[l].i <= Len(Compiled(l).rules)
       /\ rulesMap[KeyOf(Compiled(l).rules[ld[l].i])] = NoRule
       /\ MapsMayFail \/ Cardinality(RuleKeys) >= MapEntries

\* Mutant: an error return leaves state_mu_ locked.
ApplyFail_KeepsLock(l) ==
    /\ MapError(l)
    /\ Return(l, "failed")
    /\ UNCHANGED <<attached, config, protected, rulesMap, ring, hook, applied,
                   kept, skel, mu, status_, current, resolver, emitted,
                   loads>>

\* An early return of apply_policy: the error reaches the caller, the lock is
\* released, and whatever the maps hold by then stays.
ApplyFail(l) ==
    /\ MapError(l)
    /\ mu' = NoLoader
    /\ Return(l, "failed")
    /\ UNCHANGED <<attached, config, protected, rulesMap, ring, hook, applied,
                   kept, skel, status_, current, resolver, emitted, loads>>

\* Phase 1: the config entry is overwritten with {0, 0}.
ApplyPause(l) ==
    /\ At(l, "pause")
    /\ config' = [enabled |-> FALSE, policy_version |-> 0]
    /\ hook' = Witness(hook, Paused)
    /\ Goto(l, "clearp")
    /\ UNCHANGED <<attached, protected, rulesMap, ring, applied, kept, skel,
                   mu, status_, current, resolver, emitted, loads>>

\* Phase 2: clear_map deletes one element after the other, in hash order.  It
\* does not look at what bpf_map_delete_elem returns: an element whose delete
\* fails stays.  A delete that works starts the iteration over, so the loop
\* ends with a pass in which every delete failed, or at once in an empty map.
ClearProtected(l) ==
    /\ At(l, "clearp")
    /\ \/ /\ \E f \in protected : protected' = protected \ {f}
          /\ UNCHANGED <<ld, kept>>
       \/ /\ protected = {} \/ MapsMayFail
          /\ kept' = [kept EXCEPT !.files = protected]
          /\ Goto(l, "clearr")
          /\ UNCHANGED protected
    /\ UNCHANGED <<attached, config, rulesMap, ring, hook, applied, skel, mu,
                   status_, current, resolver, emitted, loads>>

\* Mutant: only the protected map is cleared.
ClearRules_Forgotten(l) ==
    /\ At(l, "clearr")
    /\ Goto(l, "insp")
    /\ UNCHANGED <<attached, config, protected, rulesMap, ring, hook, applied,
                   kept, skel, mu, status_, current, resolver, emitted,
                   loads>>

ClearRules(l) ==
    /\ At(l, "clearr")
    /\ \/ /\ \E k \in RuleKeys : rulesMap' = [rulesMap EXCEPT ![k] = NoRule]
          /\ UNCHANGED <<ld, kept>>
       \/ /\ RuleKeys = {} \/ MapsMayFail
          /\ kept' = [kept EXCEPT !.rules = rulesMap]
          /\ Goto(l, "insp")
          /\ UNCHANGED rulesMap
    /\ UNCHANGED <<attached, config, protected, ring, hook, applied, skel, mu,
                   status_, current, resolver, emitted, loads>>

\* One bpf_map_update_elem(BPF_NOEXIST) per step; EEXIST is not an error.
InsertProtected(l) ==
    /\ At(l, "insp")
    /\ LET ids == Compiled(l).protected_resources
           i   == ld[l].i
       IN  \/ /\ i > Len(ids)
              /\ Goto(l, "insr")
              /\ UNCHANGED protected
           \/ /\ i <= Len(ids)
              /\ ids[i] \in protected \/ Cardinality(protected) < MapEntries
              /\ protected' = protected \cup {ids[i]}
              /\ ld' = [ld EXCEPT ![l].i = @ + 1]
    /\ UNCHANGED <<attached, config, rulesMap, ring, hook, applied, kept,
                   skel, mu, status_, current, resolver, emitted, loads>>

InsertRules(l) ==
    /\ At(l, "insr")
    /\ LET rs == Compiled(l).rules
           i  == ld[l].i
       IN  \/ /\ i > Len(rs)
              /\ Goto(l, "enable")
              /\ UNCHANGED rulesMap
           \/ /\ i <= Len(rs)
              /\ rulesMap[KeyOf(rs[i])] # NoRule
              /\ ld' = [ld EXCEPT ![l].i = @ + 1]
              /\ UNCHANGED rulesMap
           \/ /\ i <= Len(rs)
              /\ rulesMap[KeyOf(rs[i])] = NoRule
              /\ Cardinality(RuleKeys) < MapEntries
              /\ rulesMap' = [rulesMap EXCEPT ![KeyOf(rs[i])] = ValOf(rs[i])]
              /\ ld' = [ld EXCEPT ![l].i = @ + 1]
    /\ UNCHANGED <<attached, config, protected, ring, hook, applied, kept,
                   skel, mu, status_, current, resolver, emitted, loads>>

\* Phase 3, the bookkeeping in status_, and the end of the critical section.
ApplyEnable(l) ==
    /\ At(l, "enable")
    /\ config' = [enabled |-> TRUE, policy_version |-> Compiled(l).version]
    /\ applied' = Compiled(l)
    /\ hook' = Witness(hook, Compiled(l))
    /\ status_' = [attached |-> status_.attached, enforcing |-> TRUE,
                   policy_version |-> Compiled(l).version,
                   protected_count |-> Len(Compiled(l).protected_resources),
                   rule_count |-> Len(Compiled(l).rules)]
    /\ mu' = NoLoader
    /\ Goto(l, "resolver")
    /\ UNCHANGED <<attached, protected, rulesMap, kept, ring, skel, current,
                   resolver, emitted, loads>>

\* Mutant: the resolver is rebuilt from the policy being replaced.
SwapResolver_FromOld(l) ==
    /\ At(l, "resolver")
    /\ resolver' = IF current = NoPolicy THEN resolver ELSE Resolver(current, Stat)
    /\ Goto(l, "install")
    /\ UNCHANGED <<attached, config, protected, rulesMap, ring, hook, applied,
                   kept, skel, mu, status_, current, emitted, loads>>

\* The new reverse resolver, under resolver_mu_.
SwapResolver(l) ==
    /\ At(l, "resolver")
    /\ resolver' = Resolver(ld[l].policy, Stat)
    /\ Goto(l, "install")
    /\ UNCHANGED <<attached, config, protected, rulesMap, ring, hook, applied,
                   kept, skel, mu, status_, current, emitted, loads>>

\* PolicyManager::install, under its own mutex; the policy is already valid.
Install(l) ==
    /\ At(l, "install")
    /\ current' = ld[l].policy
    /\ Return(l, "ok")
    /\ UNCHANGED <<attached, config, protected, rulesMap, ring, hook, applied,
                   kept, skel, mu, status_, resolver, emitted, loads>>

LoadStep(l) ==
    \/ ApplyLock(l)
    \/ ApplyFail(l)
    \/ ApplyPause(l)
    \/ ClearProtected(l)
    \/ ClearRules(l)
    \/ InsertProtected(l)
    \/ InsertRules(l)
    \/ ApplyEnable(l)
    \/ SwapResolver(l)
    \/ Install(l)

-----------------------------------------------------------------------------
(* The poll thread: ring_buffer__poll hands the oldest record, once it is  *)
(* submitted, to ring_callback, and emit_event names its files.            *)

Quiescent == \A l \in Loader : At(l, "idle")

RingPoll ==
    /\ skel = "loaded"
    /\ ring # <<>>
    /\ Head(ring).submitted
    /\ ring' = Tail(ring)
    /\ emitted' = [res    |-> resolver[Head(ring).res],
                   exe    |-> Head(ring).exe,
                   action |-> Head(ring).action,
                   seen   |-> Head(ring).seen,
                   stale  |-> Head(ring).stale,
                   calm   |-> Quiescent,
                   under  |-> current]
    /\ UNCHANGED <<attached, config, protected, rulesMap, hook, applied,
                   kept>>
    /\ UNCHANGED loadVars

Open ==
    /\ HookNext
    /\ UNCHANGED <<skel, mu, ld, status_, current, resolver, emitted, loads>>

Next ==
    \/ EnforcerLoad
    \/ Detach
    \/ \E l \in Loader, p \in Policies : LoadBegin(l, p)
    \/ \E l \in Loader : LoadStep(l)
    \/ RingPoll
    \/ Open

Spec == Init /\ [][Next]_vars

\* A thread inside load_policy runs on, and a blocked lock() is served.
FairSpec == Spec /\ \A l \in Loader : SF_vars(LoadStep(l))

-----------------------------------------------------------------------------
Index == {n \in Nat : n >= 1}

LoaderType ==
    [pc : {"idle", "lock", "pause", "clearp", "clearr", "insp", "insr",
           "enable", "resolver", "install"},
     policy : Policies \cup {NoPolicy}, i : Index,
     result : {"none", "rejected", "failed", "ok"}]

\* The types of the state, and which threads are inside the critical section.
TypeOK ==
    /\ KernelTypeOK
    /\ skel \in {"none", "loaded", "gone"}
    /\ attached <=> skel = "loaded"
    /\ mu \in Loader \cup {NoLoader}
    /\ ld \in [Loader -> LoaderType]
    /\ status_ \in [attached : BOOLEAN, enforcing : BOOLEAN,
                    policy_version : Int, protected_count : Nat,
                    rule_count : Nat]
    /\ current \in Policies \cup {NoPolicy}
    /\ resolver \in [FileId -> Path]
    /\ emitted \in [res : Path, exe : FileId, action : Action,
                    seen : SUBSET (CompiledPolicy \cup {Paused}),
                    stale : BOOLEAN, calm : BOOLEAN, under : Policies \cup {NoPolicy}]
    /\ loads \in Nat

\* When enforcement is enabled the maps hold the policy last enabled, every
\* protected resource and, per (resource, process), its first rule, on top of
\* exactly those elements that clear_map could not delete.
CompleteWhenEnabled ==
    config.enabled =>
        /\ applied \in CompiledPolicy
        /\ config.policy_version = applied.version
        /\ protected = kept.files \cup Listed(applied)
        /\ HoldsFirst(rulesMap, kept.rules, applied.rules, Len(applied.rules))

\* An open during which the enforced policy did not change, of a file and an
\* executable for which clear_map left nothing, got the verdict of that policy,
\* whatever the loaders did before or after it.
UndisturbedOpen ==
    \A t \in Task : \A c \in hook[t].seen :
        ~InFlight(t) /\ hook[t].seen = {c} /\ ~hook[t].stale =>
            hook[t].verdict = Verdict(c, hook[t].res, hook[t].exe)

\* What fg_file_open answers for a file and an executable if nothing moves.
KernelDecision(f, e) ==
    IF ~config.enabled \/ f = ZeroId \/ f \notin protected THEN "ALLOW"
    ELSE fg_decision(e, IF e = ZeroId THEN NoRule ELSE rulesMap[<<f, e>>]).action

\* With no load under way and enforcement on, the kernel decides every request
\* as DecisionEngine::evaluate does with the current policy, save those for
\* which clear_map left an element of an older policy.
EngineAgrees ==
    Quiescent /\ attached /\ config.enabled =>
        /\ current # NoPolicy
        /\ \A p, x \in {q \in AbsPath : Resolves(Stat, q)} :
              \/ Leftover(Stat[p], Stat[x])
              \/ KernelDecision(Stat[p], Stat[x])
                   = evaluate(current, p, x).action

\* With no load under way and enforcement on, the resolver gives every
\* protected resource of the current policy its configured name.
ResolverMatches ==
    Quiescent /\ attached /\ config.enabled /\ current # NoPolicy =>
        \A i \in 1..Len(current.protected_resources) :
            resolver[Stat[current.protected_resources[i]]]
                = current.protected_resources[i]

\* LinuxEBPFEnforcer::status(), which takes state_mu_: what the config entry
\* says, or what status_ last recorded when the lookup fails.
status(found) ==
    IF skel = "loaded" /\ found
    THEN [status_ EXCEPT !.enforcing = config.enabled,
                         !.policy_version = config.policy_version]
    ELSE status_

\* Whenever status() can run, "enforcing" means that the program is attached
\* and describes the policy last enabled by its version and its sizes.  When
\* the lookup of the config entry worked, that policy is in force, and only
\* what clear_map left is protected beyond the count shown; when it failed, a
\* load that broke off after its pause may have left enforcement off.
StatusTruthful ==
    mu = NoLoader => \A found \in BOOLEAN :
        status(found).enforcing =>
            /\ attached
            /\ status(found).policy_version = applied.version
            /\ status(found).protected_count = Len(applied.protected_resources)
            /\ status(found).rule_count = Len(applied.rules)
            /\ found => /\ Regime = applied
                        /\ Cardinality(protected \ kept.files)
                              <= status(found).protected_count

\* An event read while no load is under way, of an open that saw one policy
\* only, the current one, and nothing that clear_map left, carries the
\* resource's configured name and the action the DecisionEngine computes.
EventExplains ==
    emitted.calm /\ emitted.under # NoPolicy =>
        (emitted.seen = {compile(emitted.under, Stat)} /\ ~emitted.stale =>
            /\ is_protected(emitted.under, emitted.res)
            /\ \A x \in AbsPath :
                  Stat[x] = emitted.exe =>
                      emitted.action
                        = evaluate(emitted.under, emitted.res, x).action)

\* Every call of load_policy returns: the pause of enforcement is bounded.
LoadTerminates ==
    \A l \in Loader : ld[l].pc # "idle" ~> ld[l].pc = "idle"

\* A record that is reserved and not submitted blocks the reader of the ring:
\* it always belongs to an open still inside the program, one per open.
BusyRecordsOwned ==
    \A i \in 1..Len(ring) : ~ring[i].submitted =>
        /\ hook[ring[i].tid].ev
        /\ hook[ring[i].tid].pc \in {"rule", "ret"}
        /\ \A j \in 1..Len(ring) :
              ring[j].tid = ring[i].tid /\ ~ring[j].submitted => i = j

-----------------------------------------------------------------------------
(* What the repository's comments and documents say of the program and the *)
(* code does not do.                                                       *)

\* "a half-updated map never makes a wrong decision"
\* (src/ebpf_manager_linux.cpp:158): the verdict of an open is the one some
\* policy in force during the open gives, a pause counting as ALLOW.
NoWrongDecision ==
    \A t \in Task : ~InFlight(t) =>
        \E c \in hook[t].seen :
            hook[t].verdict = Verdict(c, hook[t].res, hook[t].exe)
=============================================================================
