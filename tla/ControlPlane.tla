----------------------------- MODULE ControlPlane -----------------------------
(***************************************************************************)
(* The control plane's reducer task and applier                            *)
(* (crates/nixfleet-control-plane/src/runtime) over its SQLite tables,     *)
(* with the hosts as their environment: what a host can make the control   *)
(* plane observe is a dispatch it received and acknowledges, the closure   *)
(* it runs, and the lifecycle events its agent reports.                    *)
(*                                                                         *)
(* The reducer task handles one input at a time, so each input is one      *)
(* action; the dispatch route reads its queue between inputs.  An input    *)
(* writes its rows one by one, without a transaction: the Interrupted...   *)
(* operators are the crashes between two of these writes.                  *)
(***************************************************************************)
EXTENDS Planner, HostRecovery

CONSTANT BaseClosure    \* what every host runs before the first rollout

ASSUME ControlPlaneAssumption == BaseClosure \in Closures

VARIABLES
    primed,       \* ReducerState.manifests is Some
    manifest,     \* and its rollouts: channel -> current rollout, if verified
    rollouts,     \* table rollouts
    joined,       \* table host_rollout_records: rollout -> hosts with a row
    hrr,          \* and the row's content
    queue,        \* table dispatch_queue: host -> rollouts with a row
    quarantined,  \* table quarantined_closures: channel -> closures
    failures,     \* table probe_failures: rollout -> hosts
    offered,      \* rollouts each host was sent a dispatch of
    ran,          \* closures each host has run so far
    running       \* the closure each host's /run/current-system points to

dbVars   == <<rollouts, joined, hrr, queue, quarantined, failures>>
hostVars == <<offered, ran, running>>
cacheVars == <<primed, manifest>>
vars     == <<cacheVars, dbVars, hostVars>>

\* A verified set names the current rollout of every channel but the ones
\* whose rollout manifest could not be fetched or verified at that poll.
ManifestSets ==
    {m \in [Channels -> Rollouts \cup {NoRollout}] :
        \A c \in Channels : m[c] # NoRollout => ChannelOf[m[c]] = c}

NoManifests == [c \in Channels |-> NoRollout]

TypeOK ==
    /\ primed \in BOOLEAN
    /\ manifest \in ManifestSets
    /\ rollouts \in [Rollouts -> RolloutRow]
    /\ joined \in [Rollouts -> SUBSET Hosts]
    /\ hrr \in [Rollouts -> [Hosts -> HostRecord]]
    /\ queue \in [Hosts -> SUBSET Rollouts]
    /\ quarantined \in [Channels -> SUBSET Closures]
    /\ failures \in [Rollouts -> SUBSET Hosts]
    /\ offered \in [Hosts -> SUBSET Rollouts]
    /\ ran \in [Hosts -> SUBSET Closures]
    /\ running \in [Hosts -> Closures]

\* The hosts' rows of a rollout that has just been opened, or has none.  The
\* model's clock is the one of the hosts: soak deadlines are 0.
FreshRecords(r) == [h \in Hosts |-> NewPending(TargetOf[r][h], 0)]

Init ==
    /\ primed = FALSE
    /\ manifest = NoManifests
    /\ rollouts = [r \in Rollouts |-> NoRow]
    /\ joined = [r \in Rollouts |-> {}]
    /\ hrr = [r \in Rollouts |-> FreshRecords(r)]
    /\ queue = [h \in Hosts |-> {}]
    /\ quarantined = [c \in Channels |-> {}]
    /\ failures = [r \in Rollouts |-> {}]
    /\ offered = [h \in Hosts |-> {}]
    /\ ran = [h \in Hosts |-> {BaseClosure}]
    /\ running = [h \in Hosts |-> BaseClosure]

Fleet(m, ro, hs) ==
    [m |-> m, ro |-> ro, hs |-> hs, jn |-> joined, fl |-> failures]

\* The process ends: the tables survive, the manifest cache does not.
CacheLost ==
    /\ primed' = FALSE
    /\ manifest' = NoManifests

\* ReducerState.quarantines: created empty, and no input writes it.
CachedQuarantines == [c \in Channels |-> {}]

-----------------------------------------------------------------------------
(* run_plan: advance the wave cursors, plan, apply the plan. *)

\* Mutant of WaveComplete: the last wave is never promoted to.
WaveCompleteOffByOne(fs, r) ==
    LET c == ChannelOf[r]
        w == WaveHosts(c, fs.ro[r].wave)
    IN  /\ ~fs.ro[r].terminal
        /\ fs.ro[r].wave + 2 < NumWaves[c]
        /\ w # {}
        /\ \A h \in w : OrderingEligible(fs.hs[r][h])

WaveComplete(fs, r) ==
    LET c == ChannelOf[r]
        w == WaveHosts(c, fs.ro[r].wave)
    IN  /\ ~fs.ro[r].terminal
        /\ fs.ro[r].wave + 1 < NumWaves[c]
        /\ w # {}
        /\ \A h \in w : OrderingEligible(fs.hs[r][h])

AdvanceCurrentWaves(fs) ==
    [r \in Rollouts |-> IF r \in Planned(fs) /\ WaveComplete(fs, r)
                        THEN [fs.ro[r] EXCEPT !.wave = @ + 1]
                        ELSE fs.ro[r]]

\* open_rollout: insert the row, supersede the channel's other live
\* rollouts, then join every host of the manifest.
OpenRollouts(opened, ro) ==
    [r \in Rollouts |->
        IF r \in opened
        THEN IF HostSet(r) # {} THEN OnHostJoined(OpenedRow) ELSE OpenedRow
        ELSE IF \E o \in opened : ChannelOf[o] = ChannelOf[r]
             THEN OnSuccessorOpened(ro[r])
             ELSE ro[r]]

RunPlan(m) ==
    LET ro     == AdvanceCurrentWaves(Fleet(m, rollouts, hrr))
        fs     == Fleet(m, ro, hrr)
        opened == ToOpen(fs)
    IN  \E D \in PlanNext(fs, CachedQuarantines) :
            /\ rollouts' = OpenRollouts(opened, ro)
            /\ joined' = [r \in Rollouts |-> IF r \in opened THEN HostSet(r)
                                                             ELSE joined[r]]
            /\ hrr' = [r \in Rollouts |-> IF r \in opened THEN FreshRecords(r)
                                                          ELSE hrr[r]]
            /\ queue' = [h \in Hosts |->
                            queue[h] \cup {r \in Rollouts : <<r, h>> \in D}]
            /\ UNCHANGED <<quarantined, failures, hostVars>>

(***************************************************************************)
(* A crash in open_rollout: r has its row, the live rollouts S of the      *)
(* channel are superseded and the hosts J have their records.  Rollouts    *)
(* opened before r in the same plan are as good as opened by a plan of     *)
(* their own; what else is lost (wave bumps, queue rows) the next plan     *)
(* writes again.                                                           *)
(***************************************************************************)
InterruptedPlan(m) ==
    LET ro     == AdvanceCurrentWaves(Fleet(m, rollouts, hrr))
        live(r) == {q \in Rollouts : /\ ChannelOf[q] = ChannelOf[r]
                                     /\ ro[q].st \in Live}
    IN  \E r \in ToOpen(Fleet(m, ro, hrr)) :
        \E S \in SUBSET live(r), J \in SUBSET HostSet(r) :
            /\ J # {} => S = live(r)
            /\ rollouts' = [q \in Rollouts |->
                   IF q = r THEN IF J # {} THEN OnHostJoined(OpenedRow)
                                           ELSE OpenedRow
                   ELSE IF q \in S THEN OnSuccessorOpened(ro[q]) ELSE ro[q]]
            /\ joined' = [joined EXCEPT ![r] = J]
            /\ hrr' = [hrr EXCEPT ![r] = FreshRecords(r)]
            /\ CacheLost
            /\ UNCHANGED <<queue, quarantined, failures, hostVars>>

\* The 15 s ticker, or a PlanTick input.
PlanTick ==
    /\ primed
    /\ \/ RunPlan(manifest) /\ UNCHANGED cacheVars
       \/ InterruptedPlan(manifest)

\* manifest_poll delivers the verified set m.
ManifestSetUpdated(m) ==
    \/ /\ primed' = TRUE
       /\ manifest' = m
       /\ RunPlan(m)
    \/ InterruptedPlan(m)

-----------------------------------------------------------------------------
(* handle_host_event: one event for the record of (r, h). *)

\* Mutant of AfterHostChange: one Converged host closes the rollout.
AfterHostChangeAny(row, r, hs, from, to) ==
    IF from = to THEN row
    ELSE LET row1 == OnHostStateChanged(row, to)
         IN  IF to = "Converged" THEN OnRolloutTerminal(row1) ELSE row1

\* The rollout row after host h's record moved from `from` to `to`; hs is the
\* table with the move.
AfterHostChange(row, r, hs, from, to) ==
    IF from = to THEN row
    ELSE LET row1 == OnHostStateChanged(row, to)
         IN  IF to = "Converged" /\ \A h \in joined[r] : hs[h].st = "Converged"
             THEN OnRolloutTerminal(row1)
             ELSE row1

QuarantinedBy(r, h, e) ==
    [quarantined EXCEPT ![ChannelOf[r]] =
        IF InsertsQuarantine(e) THEN @ \cup {hrr[r][h].target} ELSE @]

FailuresBy(r, h, e) ==
    [failures EXCEPT ![r] =
        IF e.kind = "ProbeResult" /\ e.status = "Fail"
           /\ e.probe \in EnforceProbes THEN @ \cup {h} ELSE @]

\* The event is accepted and the record written.
Recorded(r, h, e) ==
    /\ primed
    /\ h \in joined[r]
    /\ Accepts(hrr[r][h], e)
    /\ hrr' = [hrr EXCEPT ![r][h] = Step(@, e)]
    /\ UNCHANGED <<joined, queue, hostVars>>

HandleHostEvent(r, h, e) ==
    /\ Recorded(r, h, e)
    /\ quarantined' = QuarantinedBy(r, h, e)
    /\ failures' = FailuresBy(r, h, e)
    /\ rollouts' = [rollouts EXCEPT ![r] =
           AfterHostChange(@, r, hrr'[r], hrr[r][h].st, hrr'[r][h].st)]
    /\ UNCHANGED cacheVars

\* A crash after the record is written: the effects, then HostStateChanged
\* may or may not have been applied; RolloutTerminal has not.
InterruptedHostEvent(r, h, e) ==
    /\ Recorded(r, h, e)
    /\ \/ UNCHANGED <<quarantined, failures, rollouts>>
       \/ /\ quarantined' = QuarantinedBy(r, h, e)
          /\ failures' = FailuresBy(r, h, e)
          /\ \/ UNCHANGED rollouts
             \/ rollouts' = [rollouts EXCEPT ![r] =
                                OnHostStateChanged(@, hrr'[r][h].st)]
    /\ CacheLost

Delivered(r, h, e) == HandleHostEvent(r, h, e) \/ InterruptedHostEvent(r, h, e)

(***************************************************************************)
(* What the agents report.  An event waits in the agent's outbound queue   *)
(* until it is delivered, so it may describe the host as it was; one the   *)
(* control plane does not accept is dropped, which changes nothing.        *)
(***************************************************************************)

\* An agent acknowledges a dispatch it was sent, naming what it ran then.
ReportDispatchAck(r, h) ==
    /\ r \in offered[h]
    /\ \E c \in ran[h] : Delivered(r, h, Event("DispatchAck", c))

ReportActivationCompleted(r, h) ==
    /\ TargetOf[r][h] \in ran[h]
    /\ Delivered(r, h, Event("ActivationCompleted", TargetOf[r][h]))

\* The route and the reducer take this event; the agent's with_seq gives it no
\* seq of its own, so it only gets here from an agent that does.
ReportActivationDeferred(r, h) == Delivered(r, h, Event("ActivationDeferred", NoClosure))

ReportActivationFailed(r, h) == Delivered(r, h, Event("ActivationFailed", NoClosure))

\* A result that tells the control plane something new.
ReportProbeResult(r, h, p, status) ==
    /\ hrr[r][h].probes[p] # status
    /\ Delivered(r, h,
           [Event("ProbeResult", NoClosure)
              EXCEPT !.probe = p, !.status = status])

ReportFailed(r, h) == Delivered(r, h, Event("Failed", NoClosure))

ReportConverged(r, h) == Delivered(r, h, Event("Converged", TargetOf[r][h]))

\* The closure it names is only displayed.
ReportRollbackComplete(r, h) ==
    /\ Policy = "RollbackAndHalt"
    /\ Delivered(r, h, Event("RollbackComplete", running[h]))

-----------------------------------------------------------------------------
(* handle_heartbeat: the recovery events it synthesises, for every active  *)
(* record of the host, from the closure the host runs.  Records of one     *)
(* host belong to different rollouts of its channel and only the channel's *)
(* current one is in the planner's snapshot, so the records are updated    *)
(* independently of each other.                                            *)

\* The host's rows; all but the ones in a final state are recovered.
RecordsOf(h) == {r \in Rollouts : h \in joined[r]}

\* Mutant of SynthGates: a host that runs its target is let through.
SynthGatesOpen(r, h) == TRUE

SynthGates(r, h) ==
    EvaluateForDispatch(Fleet(manifest, rollouts, hrr), CachedQuarantines, r, h, {})

Recovered(r, h) == SynthRecord(hrr[r][h], running[h], SynthGates(r, h))

\* The tables once the records of h in the rollouts R are recovered.
RecordsAfter(R, h) ==
    [r \in Rollouts |-> IF r \in R THEN [hrr[r] EXCEPT ![h] = Recovered(r, h)]
                                    ELSE hrr[r]]

RowsAfter(R, h) ==
    [r \in Rollouts |->
        IF r \in R THEN AfterHostChange(rollouts[r], r, RecordsAfter(R, h)[r],
                                        hrr[r][h].st, Recovered(r, h).st)
                   ELSE rollouts[r]]

QuarantinedAfter(R, h) ==
    [c \in Channels |-> quarantined[c] \cup
        {hrr[r][h].target : r \in {x \in R :
            /\ ChannelOf[x] = c
            /\ hrr[x][h].st = "Failed"
            /\ Recovered(x, h).st = "Reverted"}}]

HandleHeartbeat(h) ==
    LET R == RecordsOf(h)
    IN  /\ hrr' = RecordsAfter(R, h)
        /\ rollouts' = RowsAfter(R, h)
        /\ quarantined' = QuarantinedAfter(R, h)
        /\ UNCHANGED <<cacheVars, joined, queue, failures, hostVars>>

\* A crash while the record of r is recovered, when the ones in R already are:
\* the chain of a Pending record may stop half way, and the last event is
\* interrupted like any other.
InterruptedHeartbeat(h) ==
    \E r \in RecordsOf(h) : \E R \in SUBSET (RecordsOf(h) \ {r}) :
        LET old   == hrr[r][h]
            ack   == SynthAck(old)
            chain == {Recovered(r, h)} \cup
                     IF old.st = "Pending" /\ Recovered(r, h) # old
                     THEN {ack, SynthComplete(ack, running[h])} ELSE {}
        IN  \E s \in chain :
            /\ s # old
            /\ hrr' = [RecordsAfter(R, h) EXCEPT ![r][h] = s]
            /\ \/ /\ quarantined' = QuarantinedAfter(R, h)
                  /\ rollouts' = RowsAfter(R, h)
               \/ /\ quarantined' = QuarantinedAfter(R \cup {r}, h)
                  /\ \/ rollouts' = RowsAfter(R, h)
                     \/ rollouts' = [RowsAfter(R, h) EXCEPT ![r] =
                                        OnHostStateChanged(@, s.st)]
            /\ CacheLost
            /\ UNCHANGED <<joined, queue, failures, hostVars>>

Heartbeat(h) ==
    /\ primed
    /\ HandleHeartbeat(h) \/ InterruptedHeartbeat(h)

-----------------------------------------------------------------------------
(* The dispatch route, the hosts, the prune timer and the process. *)

\* take_for_host deletes the row before the response is written; the response
\* may never reach the host.  enqueued_at is wall-clock time, so either of
\* two rows may be the older one.
TakeDispatch(r, h) ==
    /\ r \in queue[h]
    /\ queue' = [queue EXCEPT ![h] = @ \ {r}]
    /\ offered' \in {offered, [offered EXCEPT ![h] = @ \cup {r}]}
    /\ UNCHANGED <<cacheVars, rollouts, joined, hrr, quarantined, failures>>
    /\ UNCHANGED <<ran, running>>

\* Host h now runs closure c.
Runs(h, c) ==
    /\ running' = [running EXCEPT ![h] = c]
    /\ ran' = [ran EXCEPT ![h] = @ \cup {c}]
    /\ UNCHANGED <<cacheVars, dbVars, offered>>

\* The detached switch of a dispatch the host was sent takes effect.
HostSwitches(r, h) ==
    /\ r \in offered[h]
    /\ Runs(h, TargetOf[r][h])

\* The agent rolls back to the previous generation of the system profile,
\* whatever closure that is.
HostRollsBack(r, h) ==
    /\ Policy = "RollbackAndHalt"
    /\ r \in offered[h]
    /\ \E c \in Closures : Runs(h, c)

\* prune_finished_rollouts, 90 days after the row was closed: by then no row
\* is queued for the rollout and the agents are done with its dispatches.
Prune(r) ==
    /\ rollouts[r].st \in {"Superseded", "Terminal", "Failed", "Reverted"}
    /\ rollouts[r].superseded \/ rollouts[r].terminal
    /\ \A h \in Hosts : r \notin queue[h]
    /\ rollouts' = [rollouts EXCEPT ![r] = NoRow]
    /\ joined' = [joined EXCEPT ![r] = {}]
    /\ hrr' = [hrr EXCEPT ![r] = FreshRecords(r)]
    /\ offered' = [h \in Hosts |-> offered[h] \ {r}]
    /\ UNCHANGED <<cacheVars, queue, quarantined, failures, ran, running>>

\* The process ends and starts between two inputs.
Restart == CacheLost /\ UNCHANGED <<dbVars, hostVars>>

HostNext(r, h) ==
    \/ ReportDispatchAck(r, h)
    \/ ReportActivationCompleted(r, h)
    \/ ReportActivationDeferred(r, h)
    \/ ReportActivationFailed(r, h)
    \/ \E p \in Probes, status \in {"Pass", "Fail"} :
           ReportProbeResult(r, h, p, status)
    \/ ReportFailed(r, h)
    \/ ReportConverged(r, h)
    \/ ReportRollbackComplete(r, h)
    \/ TakeDispatch(r, h)
    \/ HostSwitches(r, h)
    \/ HostRollsBack(r, h)

Next ==
    \/ PlanTick
    \/ \E m \in ManifestSets : ManifestSetUpdated(m)
    \/ \E r \in Rollouts, h \in Hosts : HostNext(r, h)
    \/ \E h \in Hosts : Heartbeat(h)
    \/ \E r \in Rollouts : Prune(r)
    \/ Restart

Spec == Init /\ [][Next]_vars

-----------------------------------------------------------------------------
(* Properties *)

Past(s) == s.st \notin {"Pending", "Activating"}

\* Staged promotion: when a host's record has left Pending, every host of an
\* earlier wave of the same rollout is past activation, whatever the order in
\* which ticks, acknowledgements, heartbeats, restarts and lost dispatches
\* happen (the wave cursor of advance_current_waves and the wave gate).
WaveOrder ==
    \A r \in Rollouts : \A h, g \in HostSet(r) :
        /\ NumWaves[ChannelOf[r]] > 0
        /\ rollouts[r].st # "Absent"
        /\ hrr[r][h].st # "Pending"
        /\ WaveOf[g] # Unstaged /\ WaveOf[g] < WaveOf[h]
        => Past(hrr[r][g])

\* Host edges: when a host's record has left Pending, the host that gates it
\* within the rollout is past activation (the host_edges gate).
HostEdgeOrder ==
    \A r \in Rollouts : \A g, h \in HostSet(r) :
        /\ <<g, h>> \in HostEdges
        /\ rollouts[r].st # "Absent"
        /\ hrr[r][h].st # "Pending"
        => Past(hrr[r][g])

\* terminal_at, which releases the channel's successors, is only set on a
\* rollout all of whose recorded hosts are Converged, and stays true to it when
\* hosts keep reporting, heartbeat or are dispatched again and when the process
\* dies in the middle of an event.
TerminalIsConverged ==
    \A r \in Rollouts : rollouts[r].terminal =>
        \A h \in joined[r] : hrr[r][h].st = "Converged"

\* A channel has at most one rollout that hosts have joined and that is not
\* superseded: opening one supersedes every other live one of the channel
\* before its hosts join, even if a crash cut earlier openings short.
OneLiveRollout ==
    \A r, q \in Rollouts :
        /\ ChannelOf[r] = ChannelOf[q]
        /\ rollouts[r].st \in Started
        /\ rollouts[q].st \in Started
        => r = q

\* Re-planning never clobbers a record: while the rollout's row exists, a host
\* that was acknowledged is never put back to Pending by an OpenRollout for
\* the same ref (the rollout-keyed predicate of plan_next).
NoClobber ==
    [][\A r \in Rollouts, h \in Hosts :
          /\ rollouts[r].st # "Absent"
          /\ rollouts'[r].st # "Absent"
          /\ hrr[r][h].st # "Pending"
          => hrr'[r][h].st # "Pending"]_vars

NewlyQueued(r, h) == r \in queue'[h] \ queue[h]

QueuedUnder(b) == {p \in Rollouts \X b.hosts : NewlyQueued(p[1], p[2])}

\* No tick over-commits a disruption budget: the hosts it sees in flight and the
\* dispatches it queues together stay within max_in_flight, in whatever order it
\* walks the hosts and however many of them are Pending at once (the gate and
\* the tick_dispatched accumulator of plan_next).
TickWithinBudget ==
    [][\A b \in Budgets :
          QueuedUnder(b) # {} =>
              Cardinality(InFlight(Fleet(manifest', rollouts, hrr), b))
                + Cardinality(QueuedUnder(b)) <= b.max]_vars

-----------------------------------------------------------------------------
(* The control plane implements the abstract staged deployment. *)

Staged(r, g, h) ==
    /\ g \in HostSet(r) /\ h \in HostSet(r)
    /\ \/ <<g, h>> \in HostEdges
       \/ /\ NumWaves[ChannelOf[r]] > 0
          /\ WaveOf[g] # Unstaged /\ WaveOf[g] < WaveOf[h]

StageOrder == [r \in Rollouts |-> {p \in Hosts \X Hosts : Staged(r, p[1], p[2])}]

StageOf(s) == IF s.st = "Pending" THEN "waiting"
              ELSE IF s.st = "Activating" THEN "started" ELSE "done"

Deployment == INSTANCE StagedDeployment
                WITH Order <- StageOrder,
                     stage <- [r \in Rollouts |-> [h \in Hosts |-> StageOf(hrr[r][h])]]

\* Every step of the tables is a step of the abstract deployment: ticks,
\* reports, the heartbeats' synthesised acknowledgements, crashes and prunes
\* only ever start a host whose predecessors are past activation, and never
\* start one twice.
ImplementsDeployment == Deployment!Spec

-----------------------------------------------------------------------------
(***************************************************************************)
(* Liveness.  The ticker keeps planning; a host keeps long-polling, so a   *)
(* dispatch that keeps being queued is delivered at last; an agent         *)
(* acknowledges what it receives, heartbeats and reports convergence.      *)
(* Nothing is assumed of failures, deferrals, probes, restarts, manifest   *)
(* updates and switches: an agent may die between its acknowledgement and  *)
(* its switch, so that the switch happens is a premise of Convergence.     *)
(***************************************************************************)
DispatchArrives(r, h) == TakeDispatch(r, h) /\ r \in offered'[h]

Fairness ==
    /\ WF_vars(PlanTick)
    /\ \A h \in Hosts : WF_vars(Heartbeat(h))
    /\ \A r \in Rollouts, h \in Hosts :
           /\ SF_vars(DispatchArrives(r, h))
           /\ WF_vars(ReportDispatchAck(r, h))
           /\ WF_vars(ReportConverged(r, h))

LiveSpec == Spec /\ Fairness

\* The channel keeps pointing at r, which it had not left before, no host of r
\* fails, waits for a reboot or has an enforce probe failure on record, and no
\* crash hit the opening of r or the event that converged its last host.
Undisturbed(r) ==
    /\ primed
    /\ manifest[ChannelOf[r]] = r
    /\ ~rollouts[r].superseded
    /\ failures[r] = {}
    /\ \A h \in HostSet(r) :
           /\ hrr[r][h].st \notin {"Deferred", "Failed", "Reverted"}
           /\ FailingEnforceProbes(hrr[r][h].probes) = {}
    /\ rollouts[r].st # "Absent" => joined[r] = HostSet(r)
    /\ (\A h \in HostSet(r) : hrr[r][h].st = "Converged") => rollouts[r].terminal

\* Every host that has acknowledged r's dispatch and is not past activation runs
\* r's target.
Carried(r) ==
    \A h \in HostSet(r) :
        hrr[r][h].st = "Activating" => running[h] = TargetOf[r][h]

\* A rollout that is left undisturbed, and whose acknowledged hosts switch in the
\* end, reaches Terminal: the waves and a budget over their hosts never wait on
\* each other for ever, a lost dispatch is queued again, and a host that already
\* runs its target converges without a dispatch.  (Not so for a topology with a
\* host edge against the waves: the two gates then wait for each other.)
Convergence ==
    \A r \in Rollouts :
        <>[](Undisturbed(r) /\ Carried(r)) => <>rollouts[r].terminal

=============================================================================
