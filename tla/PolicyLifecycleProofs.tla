------------------------- MODULE PolicyLifecycleProofs -------------------------
(***************************************************************************)
(* Proofs about PolicyLifecycle for any versions, environments, people and   *)
(* roles, any threshold and any expiry.                                      *)
(*                                                                           *)
(* The invariant has three parts.  Places is about the environments: their   *)
(* states, the aggregates and the active versions fit each other.  Quorums   *)
(* is about the votes: each is of another person, and whatever is active     *)
(* has enough of them.  Evidence is about the canary reports of what was     *)
(* superseded.                                                               *)
(***************************************************************************)
EXTENDS PolicyLifecycle, FiniteSetTheorems, FunctionTheorems, TLAPS

EnvStates == {"none", "deployed", "superseded", "rolled_back", "expired"}

\* The aggregates of versions that have been in an environment.
Entered == {"deployed", "superseded", "rolled_back", "expired"}

\* How the states of the environments, the aggregates and the active versions
\* fit each other, at the end of a call and between monitor() and deploy().
PlacedType(envs, states, act) ==
    /\ envs \in [Versions -> [Environments -> EnvStates]]
    /\ states \in [Versions -> States]
    /\ act \in [Environments -> Versions \cup {NoVersion}]

DeployedIsActive(envs, act) ==
    \A w \in Versions, f \in Environments : envs[w][f] = "deployed" => act[f] = w

DeployedSomewhere(envs, states) ==
    \A w \in Versions :
        states[w] = "deployed" => \E f \in Environments : envs[w][f] = "deployed"

AggregateFits(envs, states) ==
    \A w \in Versions, f \in Environments :
        /\ envs[w][f] # "none" => states[w] \in Entered
        /\ envs[w][f] = "deployed" => states[w] = "deployed"
        /\ envs[w][f] = "expired" => states[w] = "expired"

ExpiredIsOut(envs, act) ==
    \A w \in Versions, f, g \in Environments : envs[w][f] = "expired" => act[g] # w

Placed(envs, states, act) ==
    /\ PlacedType(envs, states, act)
    /\ DeployedIsActive(envs, act)
    /\ DeployedSomewhere(envs, states)
    /\ AggregateFits(envs, states)
    /\ ExpiredIsOut(envs, act)

-----------------------------------------------------------------------------
(* Lemmas about the aggregate and the changes of the environments.          *)

\* _recompute_state on a version that has been in an environment.
LEMMA AggregateOfEntered ==
    ASSUME NEW old \in States, NEW envs \in [Environments -> EnvStates],
           NEW f \in Environments, envs[f] # "none"
    PROVE  /\ Aggregate(old, envs) \in Entered
           /\ Aggregate(old, envs) = "deployed" <=>
                \E g \in Environments : envs[g] = "deployed"
           /\ /\ \A g \in Environments : envs[g] # "deployed"
              /\ \E g \in Environments : envs[g] = "expired"
              => Aggregate(old, envs) = "expired"
  BY DEF Aggregate, EnvStates, Entered

\* What deploy() does to the environments, as a relation.
Moved(v, e, envs, states, act, envs2, states2, act2) ==
    /\ act2 = [act EXCEPT ![e] = v]
    /\ IF act[e] = NoVersion
       THEN /\ envs2 = [envs EXCEPT ![v][e] = "deployed"]
            /\ states2 = [states EXCEPT ![v] = "deployed"]
       ELSE /\ envs2 = [envs EXCEPT ![v][e] = "deployed", ![act[e]][e] = "superseded"]
            /\ states2 = [states EXCEPT ![v] = "deployed",
                             ![act[e]] = Aggregate(@, envs2[act[e]])]

LEMMA MovedKeepsPlaces ==
    ASSUME NEW envs, NEW states, NEW act, NEW envs2, NEW states2, NEW act2,
           NEW v \in Versions, NEW e \in Environments,
           Placed(envs, states, act),
           act[e] # v, states[v] # "expired",
           Moved(v, e, envs, states, act, envs2, states2, act2)
    PROVE  Placed(envs2, states2, act2)
  <1> DEFINE p == act[e]
  <1>0. /\ PlacedType(envs, states, act)
        /\ NoVersion \notin Versions
    BY PolicyLifecycleAssumption DEF Placed
  <1>1. \A f \in Environments : envs[v][f] # "expired"
    BY DEF Placed, AggregateFits
  <1>2. /\ act2 \in [Environments -> Versions \cup {NoVersion}]
        /\ act2[e] = v
        /\ \A f \in Environments \ {e} : act2[f] = act[f]
    BY <1>0 DEF Moved, PlacedType
  <1>3. CASE p = NoVersion
    <2>1. /\ envs2 = [envs EXCEPT ![v][e] = "deployed"]
          /\ states2 = [states EXCEPT ![v] = "deployed"]
      BY <1>3 DEF Moved
    <2>2. PlacedType(envs2, states2, act2)
      BY <1>0, <1>2, <2>1 DEF PlacedType, EnvStates, States
    <2>3. /\ envs2[v][e] = "deployed"
          /\ states2[v] = "deployed"
          /\ \A w \in Versions \ {v} : envs2[w] = envs[w] /\ states2[w] = states[w]
          /\ \A f \in Environments \ {e} : envs2[v][f] = envs[v][f]
      BY <1>0, <2>1 DEF PlacedType
    <2>4. \A w \in Versions : envs[w][e] # "deployed"
      BY <1>0, <1>3 DEF Placed, DeployedIsActive
    <2>5. DeployedIsActive(envs2, act2)
      BY <1>2, <2>3, <2>4 DEF Placed, DeployedIsActive
    <2>6. DeployedSomewhere(envs2, states2)
      BY <2>3 DEF Placed, DeployedSomewhere
    <2>7. AggregateFits(envs2, states2)
      BY <1>1, <2>3 DEF Placed, AggregateFits, Entered
    <2>8. ExpiredIsOut(envs2, act2)
      BY <1>1, <1>2, <2>3 DEF Placed, ExpiredIsOut
    <2> QED
      BY <2>2, <2>5, <2>6, <2>7, <2>8 DEF Placed
  <1>4. CASE p # NoVersion
    <2>0. p \in Versions /\ p # v
      BY <1>0, <1>4 DEF PlacedType
    <2>1. /\ envs2 = [envs EXCEPT ![v][e] = "deployed", ![p][e] = "superseded"]
          /\ states2 = [states EXCEPT ![v] = "deployed",
                                      ![p] = Aggregate(@, envs2[p])]
      BY <1>4 DEF Moved
    <2>2. /\ envs2 \in [Versions -> [Environments -> EnvStates]]
          /\ envs2[v][e] = "deployed"
          /\ envs2[p][e] = "superseded"
          /\ \A w \in Versions \ {v, p} : envs2[w] = envs[w]
          /\ \A w \in {v, p}, f \in Environments \ {e} : envs2[w][f] = envs[w][f]
      BY <1>0, <2>0, <2>1 DEF PlacedType, EnvStates
    <2>3. /\ states2[v] = "deployed"
          /\ states2[p] = Aggregate(states[p], envs2[p])
          /\ \A w \in Versions \ {v, p} : states2[w] = states[w]
          /\ DOMAIN states2 = Versions
          /\ states2 = [w \in Versions |-> states2[w]]
      BY <1>0, <2>0, <2>1 DEF PlacedType
    <2>4. /\ states2[p] \in Entered
          /\ states2[p] = "deployed" <=>
                \E g \in Environments : envs2[p][g] = "deployed"
      BY <1>0, <2>0, <2>2, <2>3, AggregateOfEntered DEF PlacedType
    <2>5. PlacedType(envs2, states2, act2)
      <3>1. \A w \in Versions : states2[w] \in States
        BY <1>0, <2>3, <2>4 DEF PlacedType, States, Entered
      <3> QED
        BY <1>2, <2>2, <2>3, <3>1 DEF PlacedType
    <2>6. \A w \in Versions \ {p} : envs[w][e] # "deployed"
      BY <1>0 DEF Placed, DeployedIsActive
    <2>7. DeployedIsActive(envs2, act2)
      BY <1>2, <2>0, <2>2, <2>6 DEF Placed, DeployedIsActive
    <2>8. DeployedSomewhere(envs2, states2)
      BY <2>2, <2>3, <2>4 DEF Placed, DeployedSomewhere
    <2>9. \A f \in Environments : envs[p][f] # "expired"
      BY <2>0 DEF Placed, ExpiredIsOut
    <2>10. AggregateFits(envs2, states2)
      BY <1>1, <2>0, <2>2, <2>3, <2>4, <2>9 DEF Placed, AggregateFits, Entered
    <2>11. ExpiredIsOut(envs2, act2)
      BY <1>1, <1>2, <2>0, <2>2, <2>9 DEF Placed, ExpiredIsOut
    <2> QED
      BY <2>5, <2>7, <2>8, <2>10, <2>11 DEF Placed
  <1> QED
    BY <1>3, <1>4

\* monitor() keeps the places consistent: a version is due wherever it is active.
LEMMA MonitorKeepsPlaces ==
    ASSUME Placed(env, state, active)
    PROVE  Placed(MonitoredEnv, MonitoredState, Without(active, Due))
  <1> DEFINE envs == MonitoredEnv
             states == MonitoredState
             act == Without(active, Due)
  <1>0. /\ PlacedType(env, state, active)
        /\ NoVersion \notin Versions
    BY PolicyLifecycleAssumption DEF Placed
  <1>1. Due \subseteq Environments
    BY DEF Due
  <1>2. \A e \in Environments :
            act[e] = IF e \in Due THEN NoVersion ELSE active[e]
    BY DEF Without
  <1>3. act \in [Environments -> Versions \cup {NoVersion}]
    BY <1>0 DEF Without, PlacedType
  <1>4. \A w \in Versions, f \in Environments :
            envs[w][f] = IF f \in Due /\ active[f] = w THEN "expired" ELSE env[w][f]
    BY DEF MonitoredEnv
  <1>5. envs \in [Versions -> [Environments -> EnvStates]]
    BY <1>0 DEF PlacedType, MonitoredEnv, EnvStates
  <1> DEFINE IsDue(w) == \E e \in Due : active[e] = w
  <1>6. \A w \in Versions : states[w] =
            IF IsDue(w) THEN Aggregate(state[w], envs[w]) ELSE state[w]
    BY DEF MonitoredState
  <1>7. \A w \in Versions : ~IsDue(w) => envs[w] = env[w]
    <2> TAKE w \in Versions
    <2> HAVE ~IsDue(w)
    <2>1. envs[w] \in [Environments -> EnvStates] /\ env[w] \in [Environments -> EnvStates]
      BY <1>0, <1>5 DEF PlacedType
    <2>2. \A f \in Environments : envs[w][f] = env[w][f]
      BY <1>4
    <2> QED
      BY <2>1, <2>2
  <1>8. \A w \in Versions : IsDue(w) =>
            /\ \A f \in Environments : active[f] = w => f \in Due
            /\ \E f \in Environments : envs[w][f] = "expired"
            /\ \A f \in Environments : envs[w][f] # "deployed"
    <2> TAKE w \in Versions
    <2> HAVE IsDue(w)
    <2>1. PICK e \in Due : active[e] = w
      OBVIOUS
    <2>2. \A f \in Environments : active[f] = w => f \in Due
      BY <2>1 DEF Due
    <2>3. e \in Environments /\ envs[w][e] = "expired"
      BY <1>1, <1>4, <2>1
    <2>4. \A f \in Environments : envs[w][f] # "deployed"
      BY <1>4, <2>2 DEF Placed, DeployedIsActive
    <2> QED
      BY <2>2, <2>3, <2>4
  <1>9. \A w \in Versions : IsDue(w) => states[w] = "expired"
    <2> TAKE w \in Versions
    <2> HAVE IsDue(w)
    <2>1. PICK f \in Environments : envs[w][f] = "expired"
      BY <1>8
    <2>2. envs[w] \in [Environments -> EnvStates] /\ state[w] \in States
      BY <1>0, <1>5 DEF PlacedType
    <2>3. Aggregate(state[w], envs[w]) = "expired"
      BY <1>8, <2>1, <2>2, AggregateOfEntered
    <2> QED
      BY <1>6, <2>3
  <1> HIDE DEF envs, states, act
  <1>10. \A w \in Versions : ~IsDue(w) => states[w] = state[w]
    BY <1>6
  <1>11. PlacedType(envs, states, act)
    <2>1. states \in [Versions -> States]
      <3>1. \A w \in Versions : states[w] \in States
        BY <1>0, <1>9, <1>10 DEF PlacedType, States
      <3>2. states = [w \in Versions |-> states[w]]
        BY DEF states, MonitoredState
      <3> QED
        BY <3>1, <3>2
    <2> QED
      BY <1>3, <1>5, <2>1 DEF PlacedType
  <1>12. DeployedIsActive(envs, act)
    BY <1>2, <1>7, <1>8 DEF Placed, DeployedIsActive
  <1>13. DeployedSomewhere(envs, states)
    BY <1>7, <1>9, <1>10 DEF Placed, DeployedSomewhere
  <1>14. AggregateFits(envs, states)
    BY <1>5, <1>7, <1>8, <1>9, <1>10 DEF Placed, AggregateFits, Entered
  <1>15. ExpiredIsOut(envs, act)
    <2> SUFFICES ASSUME NEW w \in Versions, NEW f \in Environments,
                        NEW g \in Environments, envs[w][f] = "expired"
                 PROVE  act[g] # w
      BY DEF ExpiredIsOut
    <2>1. CASE IsDue(w)
      BY <1>0, <1>2, <1>8, <2>1
    <2>2. CASE ~IsDue(w)
      BY <1>0, <1>2, <1>7, <2>2 DEF Placed, ExpiredIsOut
    <2> QED
      BY <2>1, <2>2
  <1>16. Placed(envs, states, act)
    BY <1>11, <1>12, <1>13, <1>14, <1>15 DEF Placed
  <1> QED
    BY <1>16 DEF envs, states, act

\* What rollback() does to the environments: in full, or up to its first event.
LEMMA RollBackKeepsPlaces ==
    ASSUME Placed(env, state, active),
           NEW target \in Versions, NEW e \in Environments, NEW reason \in Reasons,
           RollBack(target, e, reason)
    PROVE  Placed(env, state, active)'
  <1> DEFINE p == active[e]
             left == [env EXCEPT ![p][e] = "rolled_back"]
             states == [state EXCEPT ![p] = Aggregate(@, left[p])]
  <1>0. /\ PlacedType(env, state, active)
        /\ NoVersion \notin Versions
    BY PolicyLifecycleAssumption DEF Placed
  <1>1. /\ p \in Versions /\ p # target
        /\ state[target] # "expired"
        /\ active' = [active EXCEPT ![e] = target]
        /\ \/ /\ env' = [left EXCEPT ![target][e] = "deployed"]
              /\ state' = [states EXCEPT ![target] = "deployed"]
           \/ env' = left /\ state' = states
    BY <1>0 DEF RollBack, MayRollBack, PlacedType
  <1>2. /\ active' \in [Environments -> Versions \cup {NoVersion}]
        /\ active'[e] = target
        /\ \A f \in Environments \ {e} : active'[f] = active[f]
    BY <1>0, <1>1 DEF PlacedType
  <1>3. /\ left \in [Versions -> [Environments -> EnvStates]]
        /\ left[p][e] = "rolled_back"
        /\ \A f \in Environments \ {e} : left[p][f] = env[p][f]
        /\ \A w \in Versions \ {p} : left[w] = env[w]
    BY <1>0, <1>1 DEF PlacedType, EnvStates
  <1>4. /\ Aggregate(state[p], left[p]) \in Entered
        /\ Aggregate(state[p], left[p]) = "deployed" <=>
              \E g \in Environments : left[p][g] = "deployed"
    <2>1. left[p] \in [Environments -> EnvStates] /\ state[p] \in States
      BY <1>0, <1>1, <1>3 DEF PlacedType
    <2>2. left[p][e] # "none"
      BY <1>3
    <2> HIDE DEF left
    <2> QED
      BY <2>1, <2>2, AggregateOfEntered
  <1>5. /\ states \in [Versions -> States]
        /\ states[p] = Aggregate(state[p], left[p])
        /\ \A w \in Versions \ {p} : states[w] = state[w]
    BY <1>0, <1>1, <1>4 DEF PlacedType, States, Entered
  <1>6. \A f \in Environments : env[p][f] # "expired"
    BY <1>1 DEF Placed, ExpiredIsOut
  <1>7. \A f \in Environments : env[target][f] # "expired"
    BY DEF Placed, AggregateFits, RollBack, MayRollBack
  <1>8. \A w \in Versions \ {p} : env[w][e] # "deployed"
    BY <1>0 DEF Placed, DeployedIsActive
  <1> HIDE DEF left, states
  <1>9. CASE env' = left /\ state' = states
    <2>1. PlacedType(env, state, active)'
      BY <1>2, <1>3, <1>5, <1>9 DEF PlacedType
    <2>2. DeployedIsActive(env, active)'
      BY <1>1, <1>2, <1>3, <1>8, <1>9 DEF Placed, DeployedIsActive
    <2>3. DeployedSomewhere(env, state)'
      BY <1>1, <1>3, <1>4, <1>5, <1>9 DEF Placed, DeployedSomewhere
    <2>4. AggregateFits(env, state)'
      BY <1>1, <1>3, <1>4, <1>5, <1>6, <1>9 DEF Placed, AggregateFits, Entered
    <2>5. ExpiredIsOut(env, active)'
      BY <1>1, <1>2, <1>3, <1>6, <1>7, <1>9 DEF Placed, ExpiredIsOut
    <2> QED
      BY <2>1, <2>2, <2>3, <2>4, <2>5 DEF Placed
  <1>10. CASE /\ env' = [left EXCEPT ![target][e] = "deployed"]
              /\ state' = [states EXCEPT ![target] = "deployed"]
    <2>0. /\ env' \in [Versions -> [Environments -> EnvStates]]
          /\ env'[target][e] = "deployed"
          /\ \A f \in Environments \ {e} : env'[target][f] = env[target][f]
          /\ env'[p] = left[p]
          /\ \A w \in Versions \ {p, target} : env'[w] = env[w]
      BY <1>1, <1>3, <1>10 DEF EnvStates
    <2>1. /\ state' \in [Versions -> States]
          /\ state'[target] = "deployed"
          /\ state'[p] = states[p]
          /\ \A w \in Versions \ {p, target} : state'[w] = state[w]
      BY <1>1, <1>5, <1>10 DEF States
    <2>2. PlacedType(env, state, active)'
      BY <1>2, <2>0, <2>1 DEF PlacedType
    <2>3. DeployedIsActive(env, active)'
      BY <1>1, <1>2, <1>3, <1>8, <2>0 DEF Placed, DeployedIsActive
    <2>4. DeployedSomewhere(env, state)'
      BY <1>1, <1>4, <1>5, <2>0, <2>1 DEF Placed, DeployedSomewhere
    <2>5. AggregateFits(env, state)'
      BY <1>1, <1>3, <1>4, <1>5, <1>6, <1>7, <2>0, <2>1
      DEF Placed, AggregateFits, Entered
    <2>6. ExpiredIsOut(env, active)'
      BY <1>1, <1>2, <1>3, <1>6, <1>7, <2>0 DEF Placed, ExpiredIsOut
    <2> QED
      BY <2>2, <2>3, <2>4, <2>5, <2>6 DEF Placed
  <1> QED
    BY <1>1, <1>9, <1>10

-----------------------------------------------------------------------------
(* The invariant.                                                           *)

Places == Placed(env, state, active)

\* Every vote is of another person, and in production, where roles are
\* configured, of another of these roles; only what was simulated, and hence
\* compiles, is voted for; and what is active has a quorum.
VotesAreDistinct ==
    \A v \in Versions, e \in Environments : \A x, y \in votes[v][e] :
        /\ x.who = y.who => x = y
        /\ ApproverRoles # {} => x.role \in ApproverRoles
        /\ e = Production /\ ApproverRoles # {} /\ x.role = y.role => x = y

SimulatedCompiles ==
    /\ simulated \subseteq Compiles
    /\ \A v \in Versions : state[v] = "validated" => v \in Compiles

VotedIsSimulated ==
    \A v \in Versions, e \in Environments : votes[v][e] # {} => v \in simulated

ActiveHasQuorum ==
    \A e \in Environments : active[e] # NoVersion => Approved(active[e], e)

Quorums ==
    /\ VotesAreDistinct
    /\ SimulatedCompiles
    /\ VotedIsSimulated
    /\ ActiveHasQuorum

IInv ==
    /\ TypeOK
    /\ Places
    /\ Quorums
    /\ SupersededForEvidence
    /\ ServedIsLive

\* The actions that leave the environments alone.
Preparation ==
    \/ Tick
    \/ \E v \in Versions :
          \/ Draft(v) \/ Validate(v) \/ Simulate(v)
          \/ \E baseline \in Compiles, passed \in BOOLEAN : Canary(v, baseline, passed)
          \/ \E b \in Ballots : Approve(v, b.in, b.who, b.role)

\* The actions that change them.
Placement ==
    \/ \E v \in Versions, e \in Environments :
          \/ Deploy(v, e)
          \/ \E from \in Environments : Promote(v, from, e)
          \/ \E reason \in Reasons : RollBack(v, e, reason)
    \/ \E e \in Environments : Evaluate(e)

LEMMA StepsSplit == Next => Preparation \/ Placement
  BY DEF Next, Preparation, Placement

\* Every change of the environments is one of three, and leaves the rest alone.
LEMMA PlacementKeepsPlaces ==
    ASSUME TypeOK, Places, Placement
    PROVE  /\ Places'
           /\ UNCHANGED <<now, drafted, simulated, canary, votes>>
  <1>0. NoVersion \notin Versions /\ Placed(env, state, active)
    BY PolicyLifecycleAssumption DEF Places
  <1>1. CASE \E v \in Versions, e \in Environments : Deploy(v, e)
    <2>1. PICK v \in Versions, e \in Environments : Deploy(v, e)
      BY <1>1
    <2>2. /\ active[e] # v /\ state[v] # "expired"
          /\ Moved(v, e, env, state, active, env', state', active')
      BY <2>1 DEF Deploy, MayDeploy, DeployOver, Moved
    <2>3. Placed(env', state', active')
      BY <1>0, <2>2, MovedKeepsPlaces
    <2> QED
      BY <2>1, <2>3 DEF Places, Deploy, Placed, PlacedType, DeployedIsActive,
         DeployedSomewhere, AggregateFits, ExpiredIsOut
  <1>2. CASE \E v \in Versions, from, e \in Environments : Promote(v, from, e)
    <2>1. PICK v \in Versions, from \in Environments, e \in Environments :
                  Promote(v, from, e)
      BY <1>2
    <2>2. PICK envs, states, act :
             envs = MonitoredEnv /\ states = MonitoredState /\ act = Without(active, Due)
      OBVIOUS
    <2>3. Placed(envs, states, act)
      BY <1>0, <2>2, MonitorKeepsPlaces
    <2>4. /\ act[e] # v /\ states[v] # "expired"
          /\ Moved(v, e, envs, states, act, env', state', active')
      BY <2>1, <2>2 DEF Promote, MayDeploy, DeployOver, Moved
    <2>5. Placed(env', state', active')
      BY <2>3, <2>4, MovedKeepsPlaces
    <2> QED
      BY <2>1, <2>5 DEF Places, Promote, Placed, PlacedType, DeployedIsActive,
         DeployedSomewhere, AggregateFits, ExpiredIsOut
  <1>3. CASE \E v \in Versions, e \in Environments, reason \in Reasons :
                RollBack(v, e, reason)
    <2>1. PICK v \in Versions, e \in Environments, reason \in Reasons :
                  RollBack(v, e, reason)
      BY <1>3
    <2> QED
      BY <1>0, <2>1, RollBackKeepsPlaces DEF Places, RollBack
  <1>4. CASE \E e \in Environments : Evaluate(e)
    <2>1. PICK e \in Environments : Evaluate(e)
      BY <1>4
    <2>2. PICK envs, states, act :
             envs = MonitoredEnv /\ states = MonitoredState /\ act = Without(active, Due)
      OBVIOUS
    <2>3. Placed(envs, states, act)
      BY <1>0, <2>2, MonitorKeepsPlaces
    <2>4. env' = envs /\ state' = states /\ active' = act
      BY <2>1, <2>2 DEF Evaluate
    <2> QED
      BY <2>1, <2>3, <2>4 DEF Places, Evaluate, Placed, PlacedType, DeployedIsActive,
         DeployedSomewhere, AggregateFits, ExpiredIsOut
  <1> QED
    BY <1>1, <1>2, <1>3, <1>4 DEF Placement

\* Validation and approval move a version that was never placed; the other
\* preparations do not touch the states.
LEMMA PreparationKeepsPlaces ==
    ASSUME TypeOK, Places, Preparation
    PROVE  Places' /\ UNCHANGED <<env, active>>
  <1>0. PlacedType(env, state, active)
    BY DEF Places, Placed
  <1>1. UNCHANGED <<env, active>>
    BY DEF Preparation, Tick, Draft, Validate, Simulate, Canary, Approve, entries
  <1>2. ASSUME NEW v \in Versions, NEW new \in {"validated", "approved"},
               state[v] \in {"draft", "validated"},
               state' = [state EXCEPT ![v] = new]
        PROVE  Places'
    <2>1. /\ state' \in [Versions -> States]
          /\ state'[v] = new
          /\ \A w \in Versions \ {v} : state'[w] = state[w]
      BY <1>0, <1>2 DEF PlacedType, States
    <2>2. \A f \in Environments : env[v][f] = "none"
      BY <1>0, <1>2 DEF Places, Placed, AggregateFits, Entered
    <2>3. PlacedType(env, state, active)'
      BY <1>0, <1>1, <2>1 DEF PlacedType
    <2>4. DeployedSomewhere(env, state)'
      BY <1>1, <1>2, <2>1 DEF Places, Placed, DeployedSomewhere
    <2>5. AggregateFits(env, state)'
      BY <1>1, <2>1, <2>2 DEF Places, Placed, AggregateFits
    <2>6. DeployedIsActive(env, active)' /\ ExpiredIsOut(env, active)'
      BY <1>1 DEF Places, Placed, DeployedIsActive, ExpiredIsOut
    <2> QED
      BY <2>3, <2>4, <2>5, <2>6 DEF Places, Placed
  <1>3. CASE UNCHANGED state
    BY <1>1, <1>3 DEF Places, Placed, PlacedType, DeployedIsActive,
       DeployedSomewhere, AggregateFits, ExpiredIsOut
  <1>4. CASE \E v \in Versions : Validate(v)
    BY <1>2, <1>4 DEF Validate
  <1>5. ASSUME NEW v \in Versions, NEW b \in Ballots, Approve(v, b.in, b.who, b.role)
        PROVE  Places'
    <2>1. CASE state' = [state EXCEPT ![v] = "approved"] /\ state[v] = "validated"
      BY <1>2, <2>1
    <2>2. CASE state' = [state EXCEPT ![v] = state[v]]
      <3>1. UNCHANGED state
        BY <1>0, <2>2 DEF PlacedType
      <3> QED
        BY <1>3, <3>1
    <2> QED
      BY <1>5, <2>1, <2>2 DEF Approve
  <1>6. UNCHANGED state \/ (\E v \in Versions : Validate(v))
            \/ (\E v \in Versions, b \in Ballots : Approve(v, b.in, b.who, b.role))
    BY DEF Preparation, Tick, Draft, Simulate, Canary, entries
  <1> QED
    BY <1>1, <1>3, <1>4, <1>5, <1>6

LEMMA InitPlaces == Init => Places
  BY PolicyLifecycleAssumption
  DEF Init, Places, Placed, PlacedType, DeployedIsActive, DeployedSomewhere,
      AggregateFits, ExpiredIsOut, EnvStates, States

\* Everything a step of Next does to the places, and the frame of the others.
LEMMA PlacesStep ==
    ASSUME TypeOK, Places, [Next]_vars
    PROVE  Places'
  <1>1. CASE Next
    BY <1>1, StepsSplit, PreparationKeepsPlaces, PlacementKeepsPlaces
  <1>2. CASE UNCHANGED vars
    BY <1>2 DEF vars, entries, Places, Placed, PlacedType, DeployedIsActive,
       DeployedSomewhere, AggregateFits, ExpiredIsOut
  <1> QED
    BY <1>1, <1>2

-----------------------------------------------------------------------------
(* Types.                                                                   *)

LEMMA InitTypeOK == Init => TypeOK
  BY DEF Init, TypeOK, States

LEMMA TypeOKStep ==
    ASSUME TypeOK, Places, [Next]_vars
    PROVE  TypeOK'
  <1>1. PlacedType(env, state, active)'
    BY PlacesStep DEF Places, Placed
  <1>2. served' \in Versions \cup {NoVersion}
    <2>1. CASE Preparation
      BY <2>1 DEF Preparation, Tick, Draft, Validate, Simulate, Canary, Approve
    <2>2. CASE Placement
      BY <1>1, <2>2 DEF Placement, Deploy, Promote, RollBack, Evaluate, PlacedType
    <2>3. CASE UNCHANGED vars
      BY <2>3 DEF vars, TypeOK
    <2> QED
      BY <2>1, <2>2, <2>3, StepsSplit
  <1>3. /\ now' \in Nat
        /\ drafted' \subseteq Versions
        /\ simulated' \subseteq Versions
        /\ canary' \in [Versions -> Versions \cup {NoVersion}]
        /\ votes' \in [Versions -> [Environments -> SUBSET Vote]]
    <2>1. CASE Tick
      BY <2>1 DEF Tick, TypeOK, entries
    <2>2. CASE \E v \in Versions : Draft(v) \/ Validate(v) \/ Simulate(v)
      BY <2>2 DEF Draft, Validate, Simulate, TypeOK
    <2>3. CASE \E v \in Versions, baseline \in Compiles, passed \in BOOLEAN :
                  Canary(v, baseline, passed)
      BY <2>3, PolicyLifecycleAssumption DEF Canary, TypeOK
    <2>4. CASE \E v \in Versions, b \in Ballots : Approve(v, b.in, b.who, b.role)
      <3>1. PICK v \in Versions, b \in Ballots : Approve(v, b.in, b.who, b.role)
        BY <2>4
      <3>2. b.in \in Environments /\ [who |-> b.who, role |-> b.role] \in Vote
        BY PolicyLifecycleAssumption DEF Vote
      <3> QED
        BY <3>1, <3>2 DEF Approve, TypeOK
    <2>5. CASE Placement
      BY <2>5, PlacementKeepsPlaces DEF TypeOK
    <2>6. CASE UNCHANGED vars
      BY <2>6 DEF vars, entries, TypeOK
    <2> QED
      BY <2>1, <2>2, <2>3, <2>4, <2>5, <2>6, StepsSplit DEF Preparation
  <1> QED
    BY <1>1, <1>2, <1>3 DEF TypeOK, PlacedType, EnvStates

-----------------------------------------------------------------------------
(* Votes.                                                                   *)

\* A set whose members a function into a finite set tells apart is as large as
\* the set of its values.
LEMMA AsManyValues ==
    ASSUME NEW S, NEW T, IsFiniteSet(T), NEW f \in [S -> T],
           \A x, y \in S : f[x] = f[y] => x = y
    PROVE  IsFiniteSet(S) /\ Cardinality(S) = Cardinality({f[x] : x \in S})
  <1> DEFINE R == {f[x] : x \in S}
  <1>1. R \subseteq T
    OBVIOUS
  <1>2. IsFiniteSet(R)
    BY <1>1, FS_Subset
  <1>3. f \in Bijection(S, R)
    BY DEF Bijection, Injection, Surjection, IsInjective
  <1>4. ExistsBijection(R, S)
    BY <1>3, Fun_ExistsBijSymmetric DEF ExistsBijection
  <1> QED
    BY <1>2, <1>4, FS_Bijection

\* Distinct votes are as many as the people, and in production the configured
\* roles, that cast them.
LEMMA VotesCount ==
    ASSUME NEW S \in SUBSET Vote, \A x, y \in S : x.who = y.who => x = y
    PROVE  /\ IsFiniteSet(S)
           /\ Cardinality({x.who : x \in S}) = Cardinality(S)
           /\ (\A x, y \in S : x.role = y.role => x = y) =>
                Cardinality({x.role : x \in S}) = Cardinality(S)
  <1> DEFINE who == [x \in S |-> x.who]
             role == [x \in S |-> x.role]
  <1>1. who \in [S -> People] /\ role \in [S -> Roles]
    BY DEF Vote
  <1>2. IsFiniteSet(People) /\ IsFiniteSet(Roles)
    BY PolicyLifecycleAssumption
  <1>3. \A x, y \in S : who[x] = who[y] => x = y
    OBVIOUS
  <1>4. {who[x] : x \in S} = {x.who : x \in S} /\ {role[x] : x \in S} = {x.role : x \in S}
    OBVIOUS
  <1>5. IsFiniteSet(S) /\ Cardinality(S) = Cardinality({who[x] : x \in S})
    <2> HIDE DEF who
    <2> QED
      BY <1>1, <1>2, <1>3, AsManyValues
  <1>6. ASSUME \A x, y \in S : x.role = y.role => x = y
        PROVE  Cardinality(S) = Cardinality({role[x] : x \in S})
    <2>1. \A x, y \in S : role[x] = role[y] => x = y
      BY <1>6
    <2> HIDE DEF role
    <2> QED
      BY <1>1, <1>2, <2>1, AsManyValues
  <1> QED
    BY <1>4, <1>5, <1>6

\* A placement leaves the state of a version alone or makes it one of a version
\* that has been in an environment.
EntersOrStays(states, states2) ==
    \A w \in Versions : states2[w] \in Entered \cup {states[w]}

LEMMA MovedStates ==
    ASSUME NEW envs, NEW states, NEW act, NEW envs2, NEW states2, NEW act2,
           NEW v \in Versions, NEW e \in Environments,
           states \in [Versions -> States], act[e] # v,
           Moved(v, e, envs, states, act, envs2, states2, act2)
    PROVE  EntersOrStays(states, states2)
  <1>1. \A old, es : Aggregate(old, es) \in Entered \cup {old}
    BY DEF Aggregate, Entered
  <1>2. CASE act[e] = NoVersion
    BY <1>2 DEF Moved, Entered, EntersOrStays
  <1>3. CASE act[e] # NoVersion
    <2>1. PICK new : new = Aggregate(states[act[e]], envs2[act[e]])
      OBVIOUS
    <2>2. states2 = [states EXCEPT ![v] = "deployed", ![act[e]] = new]
      BY <1>3, <2>1 DEF Moved
    <2>3. new \in Entered \cup {states[act[e]]}
      BY <1>1, <2>1
    <2> QED
      BY <2>2, <2>3 DEF Entered, EntersOrStays
  <1> QED
    BY <1>2, <1>3

LEMMA PlacementStates ==
    ASSUME TypeOK, Placement
    PROVE  \A w \in Versions : state'[w] \in Entered \cup {state[w]}
  <1>0. state \in [Versions -> States]
    BY DEF TypeOK
  <1>1. \A old, es : Aggregate(old, es) \in Entered \cup {old}
    BY DEF Aggregate, Entered
  <1>2. /\ MonitoredState \in [Versions -> States]
        /\ \A w \in Versions : MonitoredState[w] \in Entered \cup {state[w]}
    <2>1. \A w \in Versions : MonitoredState[w] \in Entered \cup {state[w]}
      BY <1>1 DEF MonitoredState
    <2>2. \A w \in Versions : MonitoredState[w] \in States
      BY <1>0, <2>1 DEF Entered, States
    <2>3. MonitoredState = [w \in Versions |-> MonitoredState[w]]
      BY DEF MonitoredState
    <2> QED
      BY <2>1, <2>2, <2>3
  <1>3. CASE \E v \in Versions, e \in Environments : Deploy(v, e)
    <2>1. PICK v \in Versions, e \in Environments : Deploy(v, e)
      BY <1>3
    <2>2. active[e] # v /\ Moved(v, e, env, state, active, env', state', active')
      BY <2>1 DEF Deploy, MayDeploy, DeployOver, Moved
    <2>3. EntersOrStays(state, state')
      BY <1>0, <2>2, MovedStates
    <2> QED
      BY <2>3 DEF EntersOrStays
  <1>4. CASE \E v \in Versions, from, e \in Environments : Promote(v, from, e)
    <2>1. PICK v \in Versions, from \in Environments, e \in Environments :
                  Promote(v, from, e)
      BY <1>4
    <2>2. PICK envs, states, act :
             envs = MonitoredEnv /\ states = MonitoredState /\ act = Without(active, Due)
      OBVIOUS
    <2>3. act[e] # v /\ Moved(v, e, envs, states, act, env', state', active')
      BY <2>1, <2>2 DEF Promote, MayDeploy, DeployOver, Moved
    <2>4. EntersOrStays(states, state')
      BY <1>2, <2>2, <2>3, MovedStates
    <2> QED
      BY <1>2, <2>2, <2>4 DEF EntersOrStays
  <1>5. ASSUME NEW target \in Versions, NEW e \in Environments, NEW reason \in Reasons,
               RollBack(target, e, reason)
        PROVE  \A w \in Versions : state'[w] \in Entered \cup {state[w]}
    <2>1. PICK new : /\ new \in Entered \cup {state[active[e]]}
                     /\ \/ state' = [state EXCEPT ![active[e]] = new]
                        \/ state' = [[state EXCEPT ![active[e]] = new]
                                        EXCEPT ![target] = "deployed"]
      BY <1>1, <1>5 DEF RollBack
    <2> QED
      BY <1>0, <2>1 DEF Entered
  <1>6. CASE \E e \in Environments : Evaluate(e)
    BY <1>2, <1>6 DEF Evaluate
  <1> QED
    BY <1>3, <1>4, <1>5, <1>6 DEF Placement

LEMMA InitQuorums == Init => Quorums
  BY DEF Init, Quorums, VotesAreDistinct, SimulatedCompiles, VotedIsSimulated,
     ActiveHasQuorum

\* A vote is only added when it differs from all there are.
LEMMA VotesStep ==
    ASSUME TypeOK, Places, VotesAreDistinct, [Next]_vars
    PROVE  VotesAreDistinct'
  <1>1. CASE \E v \in Versions, b \in Ballots : Approve(v, b.in, b.who, b.role)
    <2>1. PICK v \in Versions, b \in Ballots : Approve(v, b.in, b.who, b.role)
      BY <1>1
    <2> DEFINE new == [who |-> b.who, role |-> b.role]
    <2>2. b.in \in Environments
      BY PolicyLifecycleAssumption
    <2>3. votes' = [votes EXCEPT ![v][b.in] = votes[v][b.in] \cup {new}]
      BY <2>1 DEF Approve
    <2>4. MayVote(v, b.in, b.who, b.role)
      BY <2>1 DEF Approve
    <2>5. \A w \in Versions, e \in Environments : votes'[w][e] =
              IF w = v /\ e = b.in THEN votes[v][b.in] \cup {new} ELSE votes[w][e]
      BY <2>2, <2>3 DEF TypeOK
    <2>6. new.who = b.who /\ new.role = b.role
      OBVIOUS
    <2> HIDE DEF new
    <2> QED
      BY <2>4, <2>5, <2>6 DEF VotesAreDistinct, MayVote
  <1>2. CASE UNCHANGED votes
    BY <1>2 DEF VotesAreDistinct
  <1>3. CASE Preparation
    BY <1>1, <1>2, <1>3 DEF Preparation, Tick, Draft, Validate, Simulate, Canary
  <1> QED
    BY <1>2, <1>3, StepsSplit, PlacementKeepsPlaces DEF vars

\* Votes are only added, so that a quorum, once reached, stays.
LEMMA QuorumStays ==
    ASSUME TypeOK, TypeOK', Places, VotesAreDistinct', [Next]_vars,
           NEW v \in Versions, NEW e \in Environments, Approved(v, e)
    PROVE  Approved(v, e)'
  <1>1. votes[v][e] \subseteq votes'[v][e]
    <2>1. CASE \E w \in Versions, b \in Ballots : Approve(w, b.in, b.who, b.role)
      <3>1. PICK w \in Versions, b \in Ballots : Approve(w, b.in, b.who, b.role)
        BY <2>1
      <3>2. PICK cast : /\ cast = votes[w][b.in] \cup {[who |-> b.who, role |-> b.role]}
                        /\ votes' = [votes EXCEPT ![w][b.in] = cast]
        BY <3>1 DEF Approve
      <3> QED
        BY <3>2 DEF TypeOK
    <2>2. CASE UNCHANGED votes
      BY <2>2
    <2>3. CASE Preparation
      BY <2>1, <2>2, <2>3 DEF Preparation, Tick, Draft, Validate, Simulate, Canary
    <2> QED
      BY <2>2, <2>3, StepsSplit, PlacementKeepsPlaces DEF vars
  <1>2. votes'[v][e] \in SUBSET Vote
    BY DEF TypeOK
  <1>3. IsFiniteSet(votes'[v][e])
    BY <1>2, VotesCount DEF VotesAreDistinct
  <1>4. /\ Cardinality(votes[v][e]) \in Nat
        /\ Cardinality(votes'[v][e]) \in Nat
        /\ Cardinality(votes[v][e]) <= Cardinality(votes'[v][e])
    BY <1>1, <1>3, FS_Subset, FS_CardinalityType
  <1>5. ThresholdOf(e) \in Nat
    BY PolicyLifecycleAssumption DEF ThresholdOf
  <1> QED
    BY <1>4, <1>5 DEF Approved, ThresholdOf

\* What becomes active has the quorum; nothing else becomes active.
LEMMA ActivatedHasQuorum ==
    ASSUME TypeOK, [Next]_vars, NEW e \in Environments, active'[e] # NoVersion
    PROVE  active'[e] = active[e] \/ Approved(active'[e], e)
  <1>1. CASE Preparation \/ UNCHANGED vars
    BY <1>1 DEF Preparation, Tick, Draft, Validate, Simulate, Canary, Approve, vars,
       entries
  <1>2. CASE \E v \in Versions, f \in Environments : Deploy(v, f)
    BY <1>2 DEF Deploy, MayDeploy, DeployOver, TypeOK
  <1>3. CASE \E v \in Versions, f \in Environments, reason \in Reasons :
                RollBack(v, f, reason)
    BY <1>3 DEF RollBack, MayRollBack, TypeOK
  <1>4. CASE \E f \in Environments : Evaluate(f)
    BY <1>4 DEF Evaluate, Without
  <1>5. CASE \E v \in Versions, from, f \in Environments : Promote(v, from, f)
    <2>1. PICK v \in Versions, from \in Environments, f \in Environments :
                  Promote(v, from, f)
      BY <1>5
    <2>2. PICK act : act = Without(active, Due)
      OBVIOUS
    <2>3. active' = [act EXCEPT ![f] = v] /\ Approved(v, f)
      BY <2>1, <2>2 DEF Promote, MayDeploy, DeployOver
    <2>4. act[e] = IF e \in Due THEN NoVersion ELSE active[e]
      BY <2>2 DEF Without
    <2>5. DOMAIN act = Environments
      BY <2>2 DEF Without
    <2> QED
      BY <2>3, <2>4, <2>5
  <1> QED
    BY <1>1, <1>2, <1>3, <1>4, <1>5, StepsSplit DEF Placement

LEMMA QuorumsStep ==
    ASSUME TypeOK, TypeOK', Places, Quorums, [Next]_vars
    PROVE  Quorums'
  <1>1. VotesAreDistinct'
    BY VotesStep DEF Quorums
  <1>2. SimulatedCompiles'
    <2>1. CASE Preparation
      <3>1. CASE \E v \in Versions : Validate(v) \/ Simulate(v)
        BY <3>1 DEF Validate, Simulate, Quorums, SimulatedCompiles, TypeOK
      <3>2. CASE \E v \in Versions, b \in Ballots : Approve(v, b.in, b.who, b.role)
        BY <3>2 DEF Approve, Quorums, SimulatedCompiles, TypeOK
      <3> QED
        BY <2>1, <3>1, <3>2 DEF Preparation, Tick, Draft, Canary, entries,
           Quorums, SimulatedCompiles
    <2>2. CASE Placement
      BY <2>2, PlacementKeepsPlaces, PlacementStates
      DEF Quorums, SimulatedCompiles, Entered
    <2> QED
      BY <2>1, <2>2, StepsSplit DEF vars, entries, Quorums, SimulatedCompiles
  <1>3. VotedIsSimulated'
    <2>1. CASE Preparation
      BY <2>1 DEF Preparation, Tick, Draft, Validate, Simulate, Canary, Approve,
         MayVote, entries, Quorums, VotedIsSimulated, TypeOK
    <2> QED
      BY <2>1, StepsSplit, PlacementKeepsPlaces
      DEF vars, entries, Quorums, VotedIsSimulated
  <1>4. ActiveHasQuorum'
    <2> SUFFICES ASSUME NEW e \in Environments, active'[e] # NoVersion
                 PROVE  Approved(active[e], e)'
      BY DEF ActiveHasQuorum
    <2>1. PICK v \in Versions : v = active'[e]
      BY DEF TypeOK
    <2>2. Approved(v, e)
      BY <2>1, ActivatedHasQuorum DEF Quorums, ActiveHasQuorum
    <2>3. Approved(v, e)'
      BY <1>1, <2>2, QuorumStays
    <2> QED
      BY <2>1, <2>3 DEF Approved
  <1> QED
    BY <1>1, <1>2, <1>3, <1>4 DEF Quorums

-----------------------------------------------------------------------------
(* Evidence.                                                                *)

\* Placing v in e: no environment forgets a version, and the one thing that is
\* newly superseded in production is what v replaces there.
Succeeds(v, e, envs, act, envs2) ==
    /\ envs2[v][e] = "deployed"
    /\ \A w \in Versions, f \in Environments :
          envs[w][f] # "none" => envs2[w][f] # "none"
    /\ \A w \in Versions : envs2[w][Production] = "superseded" =>
          \/ envs[w][Production] = "superseded"
          \/ e = Production /\ w = act[e] /\ w # v

LEMMA MovedSucceeds ==
    ASSUME NEW envs, NEW states, NEW act, NEW envs2, NEW states2, NEW act2,
           NEW v \in Versions, NEW e \in Environments,
           PlacedType(envs, states, act), act[e] # v,
           Moved(v, e, envs, states, act, envs2, states2, act2)
    PROVE  Succeeds(v, e, envs, act, envs2)
  <1>1. /\ envs \in [Versions -> [Environments -> EnvStates]]
        /\ act[e] \in Versions \cup {NoVersion}
        /\ NoVersion \notin Versions
        /\ Production \in Environments
    BY PolicyLifecycleAssumption DEF PlacedType
  <1>2. CASE act[e] = NoVersion
    <2>1. envs2 = [envs EXCEPT ![v][e] = "deployed"]
      BY <1>2 DEF Moved
    <2> QED
      BY <1>1, <2>1 DEF Succeeds
  <1>3. CASE act[e] # NoVersion
    <2>1. envs2 = [envs EXCEPT ![v][e] = "deployed", ![act[e]][e] = "superseded"]
      BY <1>3 DEF Moved
    <2> QED
      BY <1>1, <1>3, <2>1 DEF Succeeds
  <1> QED
    BY <1>2, <1>3

\* A successor keeps its report: once a version is in an environment no canary
\* is made for it, and no environment forgets it.
LEMMA EvidenceStep ==
    ASSUME TypeOK, Places, SupersededForEvidence, [Next]_vars
    PROVE  SupersededForEvidence'
  <1>0. /\ PlacedType(env, state, active)
        /\ Production \in Environments
        /\ NoVersion \notin Versions
    BY PolicyLifecycleAssumption DEF Places, Placed
  <1>1. CASE UNCHANGED <<env, canary>>
    BY <1>1 DEF SupersededForEvidence
  <1>2. CASE \E v \in Versions, baseline \in Compiles, passed \in BOOLEAN :
                Canary(v, baseline, passed)
    <2>0. PICK v \in Versions, baseline \in Compiles, passed \in BOOLEAN :
                  Canary(v, baseline, passed)
      BY <1>2
    <2>1. /\ state[v] \in {"validated", "approved"}
          /\ canary' = [canary EXCEPT ![v] = IF passed THEN baseline ELSE NoVersion]
          /\ env' = env
      BY <2>0 DEF Canary
    <2>2. env[v][Production] = "none"
      BY <1>0, <2>1 DEF Places, Placed, AggregateFits, Entered
    <2>3. \A w \in Versions \ {v} : canary'[w] = canary[w]
      BY <2>1 DEF TypeOK
    <2> QED
      BY <2>1, <2>2, <2>3 DEF SupersededForEvidence
  <1>3. ASSUME NEW v \in Versions, NEW e \in Environments,
               NEW envs, NEW act,
               Succeeds(v, e, envs, act, env'),
               Evidenced(v, e, act[e]),
               \A w \in Versions, f \in Environments :
                  env[w][f] # "none" => envs[w][f] # "none",
               \A w \in Versions :
                  envs[w][Production] = "superseded" => env[w][Production] = "superseded",
               canary' = canary
        PROVE  SupersededForEvidence'
    <2> SUFFICES ASSUME NEW w \in Versions, env'[w][Production] = "superseded"
                 PROVE  \E u \in Versions \ {w} :
                           canary[u] = w /\ env'[u][Production] # "none"
      BY <1>3 DEF SupersededForEvidence
    <2>1. CASE envs[w][Production] = "superseded"
      BY <1>0, <1>3, <2>1 DEF SupersededForEvidence, Succeeds
    <2>2. CASE e = Production /\ w = act[e] /\ w # v
      BY <1>0, <1>3, <2>2 DEF Evidenced, Succeeds
    <2> QED
      BY <1>3, <2>1, <2>2 DEF Succeeds
  <1>4. /\ \A w \in Versions, f \in Environments :
              env[w][f] # "none" => MonitoredEnv[w][f] # "none"
        /\ \A w \in Versions : MonitoredEnv[w][Production] = "superseded" =>
              env[w][Production] = "superseded"
    BY <1>0 DEF MonitoredEnv
  <1>5. CASE \E v \in Versions, e \in Environments : Deploy(v, e)
    <2>1. PICK v \in Versions, e \in Environments : Deploy(v, e)
      BY <1>5
    <2>2. /\ active[e] # v /\ Evidenced(v, e, active[e]) /\ canary' = canary
          /\ Moved(v, e, env, state, active, env', state', active')
      BY <2>1 DEF Deploy, MayDeploy, DeployOver, Moved
    <2>3. Succeeds(v, e, env, active, env')
      BY <1>0, <2>2, MovedSucceeds
    <2> QED
      BY <1>3, <2>2, <2>3
  <1>6. CASE \E v \in Versions, from, e \in Environments : Promote(v, from, e)
    <2>1. PICK v \in Versions, from \in Environments, e \in Environments :
                  Promote(v, from, e)
      BY <1>6
    <2>2. PICK envs, states, act :
             envs = MonitoredEnv /\ states = MonitoredState /\ act = Without(active, Due)
      OBVIOUS
    <2>3. PlacedType(envs, states, act)
      BY <2>2, MonitorKeepsPlaces DEF Places, Placed
    <2>4. /\ act[e] # v /\ Evidenced(v, e, act[e]) /\ canary' = canary
          /\ Moved(v, e, envs, states, act, env', state', active')
      BY <2>1, <2>2 DEF Promote, MayDeploy, DeployOver, Moved
    <2>5. Succeeds(v, e, envs, act, env')
      BY <2>3, <2>4, MovedSucceeds
    <2> QED
      BY <1>3, <1>4, <2>2, <2>4, <2>5
  <1>7. CASE \E v \in Versions, e \in Environments, reason \in Reasons :
                RollBack(v, e, reason)
    <2>1. PICK v \in Versions, e \in Environments, reason \in Reasons :
                  RollBack(v, e, reason)
      BY <1>7
    <2>2. active[e] \in Versions
      BY <1>0, <2>1 DEF RollBack, MayRollBack, PlacedType
    <2>3. PICK left :
             /\ canary' = canary
             /\ left = [env EXCEPT ![active[e]][e] = "rolled_back"]
             /\ env' = left \/ env' = [left EXCEPT ![v][e] = "deployed"]
      BY <2>1 DEF RollBack
    <2>4. /\ left \in [Versions -> [Environments -> EnvStates]]
          /\ \A w \in Versions, f \in Environments :
                left[w][f] \in {env[w][f], "rolled_back"}
      BY <1>0, <2>2, <2>3 DEF PlacedType, EnvStates
    <2>5. \A w \in Versions, f \in Environments :
                env'[w][f] \in {left[w][f], "deployed"}
      BY <2>3, <2>4
    <2>6. /\ \A w \in Versions, f \in Environments :
                env[w][f] # "none" => env'[w][f] # "none"
          /\ \A w \in Versions : env'[w][Production] = "superseded" =>
                env[w][Production] = "superseded"
      <3>1. \A w \in Versions, f \in Environments :
                env'[w][f] \in {env[w][f], "rolled_back", "deployed"}
        BY <2>4, <2>5
      <3> QED
        BY <1>0, <3>1
    <2> QED
      BY <1>0, <2>3, <2>6 DEF SupersededForEvidence
  <1>8. CASE \E e \in Environments : Evaluate(e)
    <2>1. env' = MonitoredEnv /\ canary' = canary
      BY <1>8 DEF Evaluate
    <2> QED
      BY <1>0, <1>4, <2>1 DEF SupersededForEvidence
  <1>9. CASE Preparation
    BY <1>1, <1>2, <1>9 DEF Preparation, Tick, Draft, Validate, Simulate, Approve, entries
  <1> QED
    BY <1>1, <1>5, <1>6, <1>7, <1>8, <1>9, StepsSplit DEF Placement, vars, entries

-----------------------------------------------------------------------------
(* What is served.                                                          *)

LEMMA ServedStep ==
    ASSUME TypeOK, TypeOK', ServedIsLive, Quorums', [Next]_vars
    PROVE  ServedIsLive'
  <1>1. CASE served' = NoVersion
    BY <1>1 DEF ServedIsLive
  <1>2. CASE UNCHANGED vars
    BY <1>2 DEF vars, entries, ServedIsLive, Approved
  <1>3. ASSUME NEW e \in Environments, Evaluate(e), served' # NoVersion
        PROVE  ServedIsLive'
    <2>1. /\ served' = active'[e] /\ now' = now
          /\ e \notin Due /\ active'[e] = active[e]
      BY <1>3 DEF Evaluate, Without
    <2>2. served' \in Versions
      BY <1>3 DEF TypeOK
    <2>3. ExpiresAt[served'] \in Nat => now < ExpiresAt[served']
      BY <1>3, <2>1, <2>2 DEF Due, TypeOK
    <2>4. Approved(served, e)'
      BY <1>3, <2>1 DEF Quorums, ActiveHasQuorum, Approved
    <2> QED
      BY <2>1, <2>3, <2>4 DEF ServedIsLive
  <1>4. Next => served' = NoVersion \/ \E e \in Environments : Evaluate(e)
    BY DEF Next, Tick, Draft, Validate, Simulate, Canary, Approve, Deploy, Promote,
       RollBack
  <1> QED
    BY <1>1, <1>2, <1>3, <1>4

-----------------------------------------------------------------------------
(* Theorems.                                                                *)

\* The invariant is one: it holds initially, and every step keeps it.
THEOREM Invariance == Spec => []IInv
  <1>1. Init => IInv
    <2>1. Init => SupersededForEvidence /\ ServedIsLive
      BY PolicyLifecycleAssumption DEF Init, SupersededForEvidence, ServedIsLive
    <2> QED
      BY <2>1, InitTypeOK, InitPlaces, InitQuorums DEF IInv
  <1>2. IInv /\ [Next]_vars => IInv'
    <2> SUFFICES ASSUME IInv, [Next]_vars
                 PROVE  IInv'
      OBVIOUS
    <2>1. TypeOK' /\ Places'
      BY TypeOKStep, PlacesStep DEF IInv
    <2>2. Quorums'
      BY <2>1, QuorumsStep DEF IInv
    <2>3. SupersededForEvidence' /\ ServedIsLive'
      BY <2>1, <2>2, EvidenceStep, ServedStep DEF IInv
    <2> QED
      BY <2>1, <2>2, <2>3 DEF IInv
  <1> QED
    BY <1>1, <1>2, PTL DEF Spec

\* Every variable of the manager keeps its type: among others, the aggregate
\* that _recompute_state derives is always one of the lifecycle's states.
THEOREM TypeCorrect == Spec => []TypeOK
  <1>1. IInv => TypeOK
    BY DEF IInv
  <1> QED
    BY <1>1, Invariance, PTL

\* Whatever deploy(), promote() or rollback() made active compiles, was
\* simulated and has its quorum of different people and roles.
THEOREM OnlyApprovedIsActive == Spec => []ActiveIsApproved
  <1>1. TypeOK /\ Quorums => ActiveIsApproved
    <2> SUFFICES ASSUME TypeOK, Quorums, NEW e \in Environments, active[e] # NoVersion
                 PROVE  LET cast == votes[active[e]][e]
                        IN  /\ active[e] \in Compiles \cap simulated
                            /\ Cardinality({vote.who : vote \in cast}) >= ThresholdOf(e)
                            /\ e = Production /\ ApproverRoles # {} =>
                                  Cardinality({vote.role : vote \in cast}
                                                \cap ApproverRoles) >= Threshold
      BY DEF ActiveIsApproved
    <2>1. PICK v \in Versions : v = active[e]
      BY DEF TypeOK
    <2>2. PICK cast \in SUBSET Vote : cast = votes[v][e]
      BY DEF TypeOK
    <2>3. Cardinality(cast) >= ThresholdOf(e)
      BY <2>1, <2>2 DEF Quorums, ActiveHasQuorum, Approved
    <2>4. /\ \A x, y \in cast : x.who = y.who => x = y
          /\ ApproverRoles # {} => \A x \in cast : x.role \in ApproverRoles
          /\ e = Production /\ ApproverRoles # {} =>
                \A x, y \in cast : x.role = y.role => x = y
      BY <2>2 DEF Quorums, VotesAreDistinct
    <2>5. /\ Cardinality({x.who : x \in cast}) = Cardinality(cast)
          /\ (\A x, y \in cast : x.role = y.role => x = y) =>
                Cardinality({x.role : x \in cast}) = Cardinality(cast)
      BY <2>4, VotesCount
    <2>6. ThresholdOf(e) \in Nat \ {0}
      BY PolicyLifecycleAssumption DEF ThresholdOf
    <2>7. cast # {}
      BY <2>3, <2>6, FS_EmptySet
    <2>8. v \in Compiles \cap simulated
      BY <2>2, <2>7 DEF Quorums, VotedIsSimulated, SimulatedCompiles
    <2>9. ASSUME e = Production, ApproverRoles # {}
          PROVE  Cardinality({x.role : x \in cast} \cap ApproverRoles) >= Threshold
      <3>1. {x.role : x \in cast} \cap ApproverRoles = {x.role : x \in cast}
        BY <2>4, <2>9
      <3>2. Cardinality({x.role : x \in cast}) = Cardinality(cast)
        BY <2>4, <2>5, <2>9
      <3>3. ThresholdOf(e) = Threshold
        BY <2>9 DEF ThresholdOf
      <3> QED
        BY <2>3, <3>1, <3>2, <3>3
    <2> QED
      BY <2>1, <2>2, <2>3, <2>5, <2>8, <2>9
  <1>2. IInv => ActiveIsApproved
    BY <1>1 DEF IInv
  <1> QED
    BY <1>2, Invariance, PTL

\* evaluate() never decides with a version at or past its expiry, nor with one
\* that has no quorum where it is active.
THEOREM OnlyLiveIsServed == Spec => []ServedIsLive
  <1>1. IInv => ServedIsLive
    BY DEF IInv
  <1> QED
    BY <1>1, Invariance, PTL

\* A version that expired in one environment is active in none, and by no
\* sequence of deployments, promotions and rollbacks becomes so again.
THEOREM ExpiredIsNeverBack == Spec => []ExpiredStaysOut
  <1>1. Places => ExpiredStaysOut
    BY DEF Places, Placed, ExpiredIsOut, ExpiredStaysOut
  <1>2. IInv => ExpiredStaysOut
    BY <1>1 DEF IInv
  <1> QED
    BY <1>2, Invariance, PTL

\* The aggregate is deployed exactly while an environment has the version
\* deployed, and what an environment has deployed is active there.
THEOREM AggregateHidesNothing == Spec => []StatesAgree
  <1>1. Places => StatesAgree
    BY DEF Places, Placed, DeployedIsActive, DeployedSomewhere, AggregateFits, StatesAgree
  <1>2. IInv => StatesAgree
    BY <1>1 DEF IInv
  <1> QED
    BY <1>2, Invariance, PTL

\* What was superseded in production has a successor that passed its canary
\* against it, on a report that no later call replaces.
THEOREM SupersessionIsEvidenced == Spec => []SupersededForEvidence
  <1>1. IInv => SupersededForEvidence
    BY DEF IInv
  <1> QED
    BY <1>1, Invariance, PTL
=============================================================================
