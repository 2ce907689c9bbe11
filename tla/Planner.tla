------------------------------- MODULE Planner -------------------------------
(***************************************************************************)
(* The reconciler's planner and its dispatch gates                         *)
(* (crates/nixfleet-reconciler): pure functions of a snapshot of the       *)
(* control plane's tables.  A snapshot fs is the record                    *)
(*   fs.m   verified manifest set: channel -> its current rollout          *)
(*   fs.ro  rollouts table        fs.hs  host_rollout_records table        *)
(*   fs.jn  rollout -> hosts that have a row in host_rollout_records       *)
(*   fs.fl  probe_failures: rollout -> hosts with outstanding failures     *)
(* The record of a host without a row reads as a fresh Pending one, which  *)
(* no gate tells from a missing row.                                       *)
(* A rollout is in the snapshot's `rollouts` map when it is its channel's  *)
(* current one and has a row (build_fleet_state).                          *)
(***************************************************************************)
EXTENDS HostReducer, RolloutReducer, FiniteSets

CONSTANTS Hosts, Channels, Rollouts, NoRollout,
          ChannelOf,     \* rollout -> channel
          HostChannel,   \* host -> channel
          TargetOf,      \* rollout -> host -> declared target closure
          NumWaves,      \* channel -> number of waves, 0 when it declares none
          WaveOf,        \* host -> index of its wave, Unstaged if in none
          HostEdges,     \* <<gating host, gated host>>
          ChannelEdges,  \* <<predecessor channel, successor channel>>
          Budgets        \* disruption budgets [hosts, max]

Unstaged == -1

ASSUME TopologyAssumption ==
    /\ NoRollout \notin Rollouts
    /\ ChannelOf \in [Rollouts -> Channels]
    /\ HostChannel \in [Hosts -> Channels]
    /\ TargetOf \in [Rollouts -> [Hosts -> Closures]]
    /\ NumWaves \in [Channels -> Nat]
    /\ WaveOf \in [Hosts -> Nat \cup {Unstaged}]
    /\ \A h \in Hosts : WaveOf[h] < NumWaves[HostChannel[h]]
    /\ HostEdges \subseteq Hosts \X Hosts
    /\ ChannelEdges \subseteq Channels \X Channels
    /\ \A b \in Budgets : b.hosts \subseteq Hosts /\ b.max \in Nat

\* The manifest's host_set.
HostSet(r) == {h \in Hosts : HostChannel[h] = ChannelOf[r]}

WaveHosts(c, w) == {h \in Hosts : HostChannel[h] = c /\ WaveOf[h] = w}

\* build_fleet_state's rollouts map.
Planned(fs) == {r \in Rollouts : /\ fs.m[ChannelOf[r]] = r
                                 /\ fs.ro[r].st # "Absent"}

OrderingEligible(s) == s.st \in {"Converged", "Deferred"}

QuarantineGate(quarantines, r, h) ==
    TargetOf[r][h] \notin quarantines[ChannelOf[r]]

ChannelEdgesGate(fs, r) ==
    \A c \in Channels :
        /\ <<c, ChannelOf[r]>> \in ChannelEdges
        /\ fs.m[c] # NoRollout
        => fs.m[c] \in Planned(fs) /\ fs.ro[fs.m[c]].terminal

\* Mutant of WavePromotionGate: off by one wave.
WavePromotionGateOffByOne(fs, r, h) ==
    NumWaves[ChannelOf[r]] > 0 =>
        /\ WaveOf[h] # Unstaged
        /\ WaveOf[h] <= (IF r \in Planned(fs) THEN fs.ro[r].wave ELSE 0) + 1

WavePromotionGate(fs, r, h) ==
    NumWaves[ChannelOf[r]] > 0 =>
        /\ WaveOf[h] # Unstaged
        /\ WaveOf[h] <= (IF r \in Planned(fs) THEN fs.ro[r].wave ELSE 0)

\* Mutant of HostEdgesGate: the gating host only has to have been dispatched.
HostEdgesGateDispatched(fs, r, h) ==
    \A g \in HostSet(r) :
        <<g, h>> \in HostEdges => r \in Planned(fs) /\ fs.hs[r][g].st # "Pending"

HostEdgesGate(fs, r, h) ==
    \A g \in HostSet(r) :
        <<g, h>> \in HostEdges =>
            r \in Planned(fs) /\ OrderingEligible(fs.hs[r][g])

ComplianceWaveGate(fs, r, h) ==
    WaveOf[h] # Unstaged =>
        \A g \in HostSet(r) :
            WaveOf[g] # Unstaged /\ WaveOf[g] < WaveOf[h] => g \notin fs.fl[r]

InFlight(fs, b) ==
    {p \in Planned(fs) \X b.hosts :
        /\ p[2] \in HostSet(p[1])
        /\ fs.hs[p[1]][p[2]].st \in {"Activating", "Soaking"}}

\* Mutant of BudgetGate: the plan's own dispatches are not counted.
BudgetGateSnapshot(fs, r, h, tick) ==
    r \in Planned(fs) =>
        \A b \in Budgets :
            h \in b.hosts => Cardinality(InFlight(fs, b)) < b.max

\* The budget gate, given the dispatches `tick` this plan already queued.
BudgetGate(fs, r, h, tick) ==
    r \in Planned(fs) =>
        \A b \in Budgets :
            h \in b.hosts =>
                Cardinality(InFlight(fs, b))
                  + Cardinality({p \in tick : p[2] \in b.hosts}) < b.max

\* Every gate but the budget, which also depends on the rest of the plan.
StaticGates(fs, quarantines, r, h) ==
    /\ QuarantineGate(quarantines, r, h)
    /\ ChannelEdgesGate(fs, r)
    /\ WavePromotionGate(fs, r, h)
    /\ HostEdgesGate(fs, r, h)
    /\ ComplianceWaveGate(fs, r, h)

\* evaluate_for_dispatch returns None.
EvaluateForDispatch(fs, quarantines, r, h, tick) ==
    StaticGates(fs, quarantines, r, h) /\ BudgetGate(fs, r, h, tick)

\* Mutant of ToOpen: the channel-keyed predicate, "no rollout of this channel
\* is in flight", instead of the rollout-keyed one.
ToOpenByChannel(fs) ==
    {r \in Rollouts : /\ fs.m[ChannelOf[r]] = r
                      /\ fs.ro[r].st \notin {"Opening", "Active"}}

ToOpen(fs) == {r \in Rollouts : /\ fs.m[ChannelOf[r]] = r
                                /\ fs.ro[r].st = "Absent"}

Dispatchable(fs, quarantines) ==
    {p \in Rollouts \X Hosts :
        /\ p[1] \in Planned(fs)
        /\ p[2] \in fs.jn[p[1]]
        /\ ~fs.ro[p[1]].terminal
        /\ fs.hs[p[1]][p[2]].st = "Pending"
        /\ StaticGates(fs, quarantines, p[1], p[2])}

(***************************************************************************)
(* The sets of dispatches plan_next may queue.  It walks a hash map, so    *)
(* the order is arbitrary; a set is the outcome of some order exactly when *)
(* it fits every budget and no further candidate does.                     *)
(***************************************************************************)
PlanNext(fs, quarantines) ==
    {D \in SUBSET Dispatchable(fs, quarantines) :
        /\ \A p \in D : BudgetGate(fs, p[1], p[2], D \ {p})
        /\ \A p \in Dispatchable(fs, quarantines) \ D :
               ~BudgetGate(fs, p[1], p[2], D)}
=============================================================================
