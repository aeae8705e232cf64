---------------------------- MODULE PolicyLifecycle ----------------------------
(***************************************************************************)
(* PolicyLifecycleManager (governance/lifecycle.py): the versions of one      *)
(* policy on their way from a draft to the environments they are deployed    *)
(* in.  Everything the manager keeps is keyed by the policy, so policies do   *)
(* not meet.                                                                 *)
(*                                                                           *)
(* A call that raises before it assigns anything changes nothing and is left  *)
(* out.  But an operation checks its `reason' only when it records its event,  *)
(* after it has changed the state: with a blank reason it raises and has the  *)
(* same effect.  Only rollback() has more to do after its first event.  The   *)
(* events are not modelled: nothing reads them.                              *)
(*                                                                           *)
(* A simulation is reduced to its existence, a canary report to what deploy   *)
(* can do with it: the version it was compared with, if it passed.  Reports   *)
(* on other environments than production are recorded and never read; they    *)
(* are left out.  What a canary finds depends on policies and cases that are  *)
(* not modelled, so it may pass or fail.                                     *)
(*                                                                           *)
(* A definition whose comment starts with `Mutated' is a likely bug in the   *)
(* one that follows it, for the properties to catch; no action uses it.      *)
(***************************************************************************)
EXTENDS Naturals, FiniteSets

CONSTANTS
    Versions,
    NoVersion,
    Compiles,       \* the versions whose bundles compile
    ExpiresAt,      \* ExpiresAt[v]: the expiry the owner drafts v with, or Never
    Never,          \* `expires_at=None'
    Environments,
    Production,     \* the environment "production"
    People,
    Roles,
    Ballots,        \* the votes people try to cast
    ApproverRoles,  \* PolicyLifecycleManager.approver_roles
    Threshold,      \* production_approval_threshold
    Reasons,        \* the reasons callers give
    MaxTime         \* bound on the clock

ASSUME PolicyLifecycleAssumption ==
    /\ NoVersion \notin Versions
    /\ Compiles \subseteq Versions
    /\ Never \notin Nat
    /\ ExpiresAt \in [Versions -> Nat \cup {Never}]
    /\ Production \in Environments
    /\ IsFiniteSet(People)
    /\ IsFiniteSet(Roles)
    /\ Ballots \subseteq [in : Environments, who : People, role : Roles]
    /\ ApproverRoles \subseteq Roles
    /\ Threshold \in Nat \ {0}
    /\ Reasons \subseteq {"given", "blank"}
    /\ MaxTime \in Nat

\* PolicyLifecycleState; an environment a version never was in has none.
States == {"draft", "validated", "approved", "deployed", "superseded",
           "rolled_back", "expired"}

VARIABLES
    now,      \* the manager's clock
    drafted,  \* the versions that have an entry
    state,    \* _LifecycleEntry.state, the aggregate over the environments
    env,      \* _LifecycleEntry.environment_states, by version
    simulated,\* the versions with a simulation report
    canary,   \* the version each version's last production canary passed against
    votes,    \* _approvals, by version and environment
    active,   \* _active, by environment
    served    \* output: the version evaluate() used in the last step, if any

entries == <<drafted, state, env, simulated, canary>>
vars == <<now, entries, votes, active, served>>

Vote == [who : People, role : Roles]

Init ==
    /\ now = 0
    /\ drafted = {}
    /\ state = [v \in Versions |-> "draft"]
    /\ env = [v \in Versions |-> [e \in Environments |-> "none"]]
    /\ simulated = {}
    /\ canary = [v \in Versions |-> NoVersion]
    /\ votes = [v \in Versions |-> [e \in Environments |-> {}]]
    /\ active = [e \in Environments |-> NoVersion]
    /\ served = NoVersion

Tick ==
    /\ now < MaxTime
    /\ now' = now + 1
    /\ served' = NoVersion
    /\ UNCHANGED <<entries, votes, active>>

-----------------------------------------------------------------------------
(* On the way to an environment.                                            *)

\* A version can be drafted only before its expiry.
Draft(v) ==
    /\ v \notin drafted
    /\ ExpiresAt[v] \in Nat => now < ExpiresAt[v]
    /\ drafted' = drafted \cup {v}
    /\ served' = NoVersion
    /\ UNCHANGED <<now, state, env, simulated, canary, votes, active>>

\* Mutated: a state of its own.
ValidateAsValid(v) ==
    /\ v \in drafted /\ v \in Compiles /\ state[v] = "draft"
    /\ state' = [state EXCEPT ![v] = "valid"]
    /\ served' = NoVersion
    /\ UNCHANGED <<now, drafted, env, simulated, canary, votes, active>>

Validate(v) ==
    /\ v \in drafted
    /\ state[v] = "draft"
    /\ v \in Compiles
    /\ state' = [state EXCEPT ![v] = "validated"]
    /\ served' = NoVersion
    /\ UNCHANGED <<now, drafted, env, simulated, canary, votes, active>>

Simulate(v) ==
    /\ state[v] = "validated"
    /\ simulated' = simulated \cup {v}
    /\ served' = NoVersion
    /\ UNCHANGED <<now, drafted, state, env, canary, votes, active>>

\* Against a bundle the caller supplies, or the active one.
Canary(v, baseline, passed) ==
    /\ state[v] \in {"validated", "approved"}
    /\ canary' = [canary EXCEPT ![v] = IF passed THEN baseline ELSE NoVersion]
    /\ served' = NoVersion
    /\ UNCHANGED <<now, drafted, state, env, simulated, votes, active>>

ThresholdOf(e) == IF e = Production THEN Threshold ELSE 1

\* Everyone votes once, and in production every configured role does.
MayVote(v, e, who, role) ==
    /\ state[v] \in States \ {"draft", "expired"}
    /\ v \in simulated
    /\ ApproverRoles # {} => role \in ApproverRoles
    /\ \A vote \in votes[v][e] :
          /\ vote.who # who
          /\ e = Production /\ ApproverRoles # {} => vote.role # role

\* approve(): the quorum of any environment makes a validated version approved.
Approve(v, e, who, role) ==
    LET cast == votes[v][e] \cup {[who |-> who, role |-> role]}
    IN  /\ MayVote(v, e, who, role)
        /\ votes' = [votes EXCEPT ![v][e] = cast]
        /\ state' = [state EXCEPT ![v] =
              IF @ = "validated" /\ Cardinality(cast) >= ThresholdOf(e)
              THEN "approved" ELSE @]
        /\ served' = NoVersion
        /\ UNCHANGED <<now, drafted, env, simulated, canary, active>>

-----------------------------------------------------------------------------
(* In the environments.                                                     *)

\* Mutated: the environments' states rank in the order they are reached.
AggregateByAge(old, envs) ==
    LET some(s) == \E e \in Environments : envs[e] = s
    IN  IF some("deployed") THEN "deployed"
        ELSE IF some("superseded") THEN "superseded"
        ELSE IF some("rolled_back") THEN "rolled_back"
        ELSE IF some("expired") THEN "expired"
        ELSE old

\* _recompute_state.
Aggregate(old, envs) ==
    LET some(s) == \E e \in Environments : envs[e] = s
    IN  IF some("deployed") THEN "deployed"
        ELSE IF some("expired") THEN "expired"
        ELSE IF some("rolled_back") THEN "rolled_back"
        ELSE IF some("superseded") THEN "superseded"
        ELSE old

\* Mutated: the expiry itself is still within the term.
DuePast == {e \in Environments : /\ active[e] # NoVersion
                                 /\ ExpiresAt[active[e]] \in Nat
                                 /\ ExpiresAt[active[e]] < now}

\* The environments monitor() takes their expired versions out of.
Due == {e \in Environments : /\ active[e] # NoVersion
                             /\ ExpiresAt[active[e]] \in Nat
                             /\ ExpiresAt[active[e]] <= now}

\* What monitor() makes of the environments' states, the aggregates and _active.
MonitoredEnv == [v \in Versions |-> [e \in Environments |->
    IF e \in Due /\ active[e] = v THEN "expired" ELSE env[v][e]]]
MonitoredState == [v \in Versions |->
    IF \E e \in Due : active[e] = v THEN Aggregate(state[v], MonitoredEnv[v])
                                    ELSE state[v]]
Without(map, envs) ==
    [e \in Environments |-> IF e \in envs THEN NoVersion ELSE map[e]]

\* evaluate(), through current(), and with no answer monitor() itself: the
\* expired versions go first, then the active one is looked up.
Evaluate(e) ==
    /\ env' = MonitoredEnv
    /\ state' = MonitoredState
    /\ active' = Without(active, Due)
    /\ served' = active'[e]
    /\ UNCHANGED <<now, drafted, simulated, canary, votes>>

\* _require_production_approval.
Approved(v, e) == Cardinality(votes[v][e]) >= ThresholdOf(e)

\* Mutated: the canary may have been made for another baseline.
EvidencedBySome(v, e, previous) ==
    e = Production /\ previous # NoVersion => canary[v] # NoVersion

\* The evidence deploy() asks for: in production, what replaces a version has
\* passed a canary against that very version.
Evidenced(v, e, previous) ==
    e = Production /\ previous # NoVersion =>
        canary[v] = previous

\* Mutated: the state says that the version was approved.
MayDeployByState(v, e, states, previous) ==
    /\ states[v] \in {"approved", "deployed", "superseded", "rolled_back"}
    /\ previous # v
    /\ Evidenced(v, e, previous)

\* The checks of deploy(); to deploy what is active already does nothing.
MayDeploy(v, e, states, previous) ==
    /\ states[v] \in {"approved", "deployed", "superseded", "rolled_back"}
    /\ previous # v
    /\ Approved(v, e)
    /\ Evidenced(v, e, previous)

\* Mutated: the version that is replaced is not marked.
DeployOnly(v, e, envs, states, act) ==
    /\ active' = [act EXCEPT ![e] = v]
    /\ env' = [envs EXCEPT ![v][e] = "deployed"]
    /\ state' = [states EXCEPT ![v] = "deployed"]

\* What deploy() changes.
DeployOver(v, e, envs, states, act) ==
    /\ active' = [act EXCEPT ![e] = v]
    /\ IF act[e] = NoVersion
       THEN /\ env' = [envs EXCEPT ![v][e] = "deployed"]
            /\ state' = [states EXCEPT ![v] = "deployed"]
       ELSE /\ env' = [envs EXCEPT ![v][e] = "deployed", ![act[e]][e] = "superseded"]
            /\ state' = [states EXCEPT ![v] = "deployed",
                             ![act[e]] = Aggregate(@, env'[act[e]])]

Deploy(v, e) ==
    /\ MayDeploy(v, e, state, active[e])
    /\ DeployOver(v, e, env, state, active)
    /\ served' = NoVersion
    /\ UNCHANGED <<now, drafted, simulated, canary, votes>>

\* promote(): current() of the source environment, then deploy().
Promote(v, from, to) ==
    LET act == Without(active, Due)
    IN  /\ act[from] = v
        /\ MayDeploy(v, to, MonitoredState, act[to])
        /\ DeployOver(v, to, MonitoredEnv, MonitoredState, act)
        /\ served' = NoVersion
        /\ UNCHANGED <<now, drafted, simulated, canary, votes>>

\* The checks of rollback().
MayRollBack(target, e) ==
    /\ target \in drafted
    /\ active[e] \notin {NoVersion, target}
    /\ state[target] # "expired"
    /\ Approved(target, e)

\* rollback(): one with a blank reason raises at its first event, halfway.
RollBack(target, e, reason) ==
    LET current == active[e]
        left == [env EXCEPT ![current][e] = "rolled_back"]
        states == [state EXCEPT ![current] = Aggregate(@, left[current])]
    IN  /\ MayRollBack(target, e)
        /\ active' = [active EXCEPT ![e] = target]
        /\ \/ /\ reason = "given"
              /\ env' = [left EXCEPT ![target][e] = "deployed"]
              /\ state' = [states EXCEPT ![target] = "deployed"]
           \/ /\ reason = "blank"
              /\ env' = left
              /\ state' = states
        /\ served' = NoVersion
        /\ UNCHANGED <<now, drafted, simulated, canary, votes>>

Next ==
    \/ Tick
    \/ \E v \in Versions :
          \/ Draft(v) \/ Validate(v) \/ Simulate(v)
          \/ \E baseline \in Compiles, passed \in BOOLEAN : Canary(v, baseline, passed)
          \/ \E b \in Ballots : Approve(v, b.in, b.who, b.role)
          \/ \E e \in Environments :
                \/ Deploy(v, e)
                \/ \E from \in Environments : Promote(v, from, e)
                \/ \E reason \in Reasons : RollBack(v, e, reason)
    \/ \E e \in Environments : Evaluate(e)

Spec == Init /\ [][Next]_vars

-----------------------------------------------------------------------------
(* Properties.                                                              *)

\* Every variable has its type.
TypeOK ==
    /\ now \in Nat
    /\ drafted \subseteq Versions
    /\ state \in [Versions -> States]
    /\ env \in [Versions -> [Environments ->
                    {"none", "deployed", "superseded", "rolled_back", "expired"}]]
    /\ simulated \subseteq Versions
    /\ canary \in [Versions -> Versions \cup {NoVersion}]
    /\ votes \in [Versions -> [Environments -> SUBSET Vote]]
    /\ active \in [Environments -> Versions \cup {NoVersion}]
    /\ served \in Versions \cup {NoVersion}

\* policy-lifecycle.md: "Invalid policies remain in `draft`. Production
\* deployment requires the configured number of distinct approvals".  Whatever
\* is active anywhere, by deployment, promotion or rollback, compiles, was
\* simulated, and was approved for that very environment by as many different
\* people, with as many different roles where roles are configured.
ActiveIsApproved ==
    \A e \in Environments : active[e] # NoVersion =>
        LET cast == votes[active[e]][e]
        IN  /\ active[e] \in Compiles \cap simulated
            /\ Cardinality({vote.who : vote \in cast}) >= ThresholdOf(e)
            /\ e = Production /\ ApproverRoles # {} =>
                  Cardinality({vote.role : vote \in cast} \cap ApproverRoles) >= Threshold

\* policy-lifecycle.md: "Expired active policies are removed".  A decision is
\* never made with a version at or past its expiry, although deploy() and
\* rollback() put versions past their expiry in place, nor with one that was
\* not approved.
ServedIsLive ==
    served # NoVersion =>
        /\ ExpiresAt[served] \in Nat => now < ExpiresAt[served]
        /\ \E e \in Environments : active[e] = served /\ Approved(served, e)

\* "cannot roll back to an expired policy": a version that expired in one
\* environment is out of all of them and stays out, although the check looks
\* at an aggregate over environments in which it fared differently.
ExpiredStaysOut ==
    \A v \in Versions :
        (\E e \in Environments : env[v][e] = "expired") =>
            \A e \in Environments : active[e] # v

\* _recompute_state: "Derive the aggregate state without hiding active
\* environments."  The aggregate says deployed when and only when an
\* environment does, and an environment says it of its active version only.
StatesAgree ==
    \A v \in Versions :
        /\ state[v] = "deployed" <=> \E e \in Environments : env[v][e] = "deployed"
        /\ \A e \in Environments : env[v][e] = "deployed" => active[e] = v

\* The evidence for a change of production stays on record: a version that was
\* superseded there has a successor, and the successor's report still says that
\* it passed a canary against that very version, whatever was validated,
\* canaried, promoted or rolled back since.
SupersededForEvidence ==
    \A v \in Versions : env[v][Production] = "superseded" =>
        \E w \in Versions \ {v} :
            /\ canary[w] = v
            /\ env[w][Production] # "none"
=============================================================================
