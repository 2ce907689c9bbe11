------------------------- MODULE ControlPlane_proofs -------------------------
(***************************************************************************)
(* Safety of the control plane for every fleet topology, number of hosts,  *)
(* channels, rollouts and probes.                                          *)
(***************************************************************************)
EXTENDS ControlPlane, HostRecovery_proofs, FiniteSetTheorems

-----------------------------------------------------------------------------
(* The host reducer. *)

\* An accepted event never takes a record back (transitions/mod.rs): it stays
\* out of Pending, stays past activation, and a Converged record accepts none.
LEMMA StepForward ==
    ASSUME NEW s \in HostRecord, NEW e \in HostEvent, Accepts(s, e)
    PROVE  /\ Step(s, e).st # "Pending"
           /\ Past(s) => Past(Step(s, e))
           /\ s.st # "Converged"
           /\ s.st = "Pending" => e.kind = "DispatchAck"
  BY DEF Accepts, Legal, PendingArms, ActivatingArms, DeferredArms, SoakingArms,
         FailedArms, Step, StateAfter, Past, HostRecord, HostStates

\* What the heartbeat's synthesis does to one record
\* (maybe_synthesize_recovery_completion): it moves it forward, and it takes
\* one out of Pending only when the dispatch gates pass.
LEMMA SynthForward ==
    ASSUME NEW s \in HostRecord, NEW c \in Closures, NEW g \in BOOLEAN
    PROVE  LET n == SynthRecord(s, c, g)
           IN  /\ n \in HostRecord
               /\ n # s => /\ n.st # "Pending"
                           /\ Past(s) => Past(n)
                           /\ s.st # "Converged"
                           /\ s.st = "Pending" => g
               /\ SynthAck(s) \in HostRecord
               /\ SynthAck(s).st = "Activating"
               /\ SynthComplete(SynthAck(s), c) \in HostRecord
               /\ SynthComplete(SynthAck(s), c).st = "Soaking"
<1> DEFINE E(k, x) == Event(k, x)
           soaking == SynthComplete(SynthAck(s), c)
<1>1. \A k \in EventKinds, x \in MaybeClosure : E(k, x) \in HostEvent
      BY PolicyAssumption DEF Event, HostEvent
<1>2. /\ E("DispatchAck", NoClosure) \in HostEvent
      /\ E("ActivationCompleted", c) \in HostEvent
      /\ E("Converged", c) \in HostEvent
      /\ E("RollbackComplete", c) \in HostEvent
      BY <1>1 DEF EventKinds, MaybeClosure
<1> HIDE DEF E
<1>3. /\ SynthAck(s) \in HostRecord
      /\ SynthAck(s).st = "Activating"
      BY <1>2, StepType, Zenon DEF SynthAck, E, Event, Step, StateAfter, HostRecord
<1>4. \A t \in HostRecord :
         /\ SynthComplete(t, c) \in HostRecord
         /\ SynthComplete(t, c).st = "Soaking"
         /\ Step(t, E("Converged", c)) \in HostRecord
         /\ Step(t, E("Converged", c)).st = "Converged"
         /\ Step(t, E("RollbackComplete", c)) \in HostRecord
         /\ Step(t, E("RollbackComplete", c)).st = "Reverted"
  <2> TAKE t \in HostRecord
  <2>1. /\ SynthComplete(t, c) \in HostRecord
        /\ Step(t, E("Converged", c)) \in HostRecord
        /\ Step(t, E("RollbackComplete", c)) \in HostRecord
        BY <1>2, StepType DEF SynthComplete, E
  <2>2. /\ SynthComplete(t, c).st = "Soaking"
        /\ Step(t, E("Converged", c)).st = "Converged"
        /\ Step(t, E("RollbackComplete", c)).st = "Reverted"
        BY DEF SynthComplete, E, Event, Step, StateAfter, HostRecord
  <2> QED BY <2>1, <2>2
<1> HIDE DEF soaking
<1>5. SynthRecord(s, c, g) =
        IF s.st \in {"Activating", "Deferred"} /\ s.target = c
        THEN SynthComplete(s, c)
        ELSE IF s.st = "Pending" /\ s.target = c /\ g
        THEN Step(soaking, E("Converged", c))
        ELSE IF s.st = "Failed" /\ s.atDispatch = c
        THEN Step(s, E("RollbackComplete", c))
        ELSE s
      BY DEF SynthRecord, E, soaking
<1>6. soaking \in HostRecord /\ soaking.st = "Soaking"
      BY <1>3, <1>4 DEF soaking
<1>7. LET n == SynthRecord(s, c, g)
      IN  /\ n \in HostRecord
          /\ n # s => /\ n.st # "Pending"
                      /\ Past(s) => Past(n)
                      /\ s.st # "Converged"
                      /\ s.st = "Pending" => g
      BY <1>4, <1>5, <1>6 DEF Past
<1> QED BY <1>3, <1>6, <1>7 DEF soaking

-----------------------------------------------------------------------------
(* What a step of the control plane does, as far as the invariants care. *)

Present(r) == rollouts[r].st # "Absent"

\* Only hosts of the manifest have records, and only under a row.
JoinedInv ==
    \A r \in Rollouts : /\ joined[r] \subseteq HostSet(r)
                        /\ joined[r] # {} => Present(r)

\* The two gates that order the hosts of one rollout let h through.
Cleared(m, ro, r, h) ==
    /\ WavePromotionGate(Fleet(m, ro, hrr), r, h)
    /\ HostEdgesGate(Fleet(m, ro, hrr), r, h)

\* n is a successor of a rollout's row: the cursor stays, no row appears or
\* starts, and terminal_at needs every recorded host Converged in hs.
RowForward(row, n, r, hs) ==
    /\ n \in RolloutRow
    /\ n.wave = row.wave
    /\ n.st = "Absent" <=> row.st = "Absent"
    /\ n.st \in Started => row.st \in Started
    /\ n.terminal => \/ row.terminal
                     \/ \A h \in joined[r] : hs[h].st = "Converged"

\* The record of (r, h) stays or moves forward, and out of Pending only for a
\* dispatch the host was sent or with the gates' consent.
RecordForward(r, h) ==
    \/ hrr'[r][h] = hrr[r][h]
    \/ /\ h \in joined[r]
       /\ hrr'[r][h].st # "Pending"
       /\ Past(hrr[r][h]) => Past(hrr'[r][h])
       /\ hrr[r][h].st # "Converged"
       /\ hrr[r][h].st = "Pending" =>
             r \in offered[h] \/ Cleared(manifest, rollouts, r, h)

Forward ==
    /\ joined' = joined
    /\ \A r \in Rollouts : RowForward(rollouts[r], rollouts'[r], r, hrr'[r])
    /\ \A r \in Rollouts, h \in Hosts : RecordForward(r, h)
    /\ \A h \in Hosts : queue'[h] \cup offered'[h] \subseteq queue[h] \cup offered[h]

\* The row after a host's move, whether RolloutTerminal was reached or not
\* (process_rollout_event).
LEMMA RowAfter ==
    ASSUME NEW row \in RolloutRow, NEW r \in Rollouts,
           NEW hs \in [Hosts -> HostRecord],
           NEW from \in HostStates, NEW to \in HostStates
    PROVE  /\ RowForward(row, row, r, hs)
           /\ RowForward(row, OnHostStateChanged(row, to), r, hs)
           /\ RowForward(row, AfterHostChange(row, r, hs, from, to), r, hs)
<1>1. RowForward(row, row, r, hs)
      BY DEF RowForward
<1>2. RowForward(row, OnHostStateChanged(row, to), r, hs)
      BY DEF RowForward, OnHostStateChanged, RolloutRow, RolloutStates, Started, Live
<1>3. RowForward(row, AfterHostChange(row, r, hs, from, to), r, hs)
      BY DEF RowForward, AfterHostChange, OnHostStateChanged, OnRolloutTerminal,
             RolloutRow, RolloutStates, Started, Live
<1> QED BY <1>1, <1>2, <1>3

\* The cache after a crash is a cache.
LEMMA CacheType ==
    ASSUME TypeOK, CacheLost \/ UNCHANGED cacheVars
    PROVE  primed' \in BOOLEAN /\ manifest' \in ManifestSets
  BY DEF TypeOK, CacheLost, NoManifests, ManifestSets, cacheVars

\* An event handled to the end or cut short by a crash moves one record, and
\* out of Pending only on an acknowledgement (handle_host_event).
LEMMA HostEventForward ==
    ASSUME TypeOK, NEW r \in Rollouts, NEW h \in Hosts, NEW e \in HostEvent,
           Delivered(r, h, e),
           e.kind = "DispatchAck" => r \in offered[h]
    PROVE  TypeOK' /\ Forward
<1> USE TopologyAssumption
<1> DEFINE n == Step(hrr[r][h], e)
           row == AfterHostChange(rollouts[r], r, hrr'[r], hrr[r][h].st, n.st)
           half == OnHostStateChanged(rollouts[r], n.st)
<1>0. Recorded(r, h, e)
      BY DEF Delivered, HandleHostEvent, InterruptedHostEvent
<1>1. /\ hrr[r][h] \in HostRecord
      /\ hrr[r][h].st \in HostStates
      /\ rollouts[r] \in RolloutRow
      BY DEF TypeOK, HostRecord
<1>2. n \in HostRecord /\ n.st \in HostStates
      BY <1>1, StepType DEF HostRecord
<1>3. /\ n.st # "Pending"
      /\ Past(hrr[r][h]) => Past(n)
      /\ hrr[r][h].st # "Converged"
      /\ hrr[r][h].st = "Pending" => e.kind = "DispatchAck"
      BY <1>0, <1>1, StepForward DEF Recorded
<1> HIDE DEF n
<1>4. /\ hrr' = [hrr EXCEPT ![r][h] = n]
      /\ hrr' \in [Rollouts -> [Hosts -> HostRecord]]
      /\ hrr'[r][h] = n
      BY <1>0, <1>1, <1>2 DEF Recorded, n, TypeOK
<1>5. \E x \in {rollouts[r], half, row} : rollouts' = [rollouts EXCEPT ![r] = x]
  <2>1. CASE HandleHostEvent(r, h, e)
        BY <1>4, <2>1 DEF HandleHostEvent
  <2>2. CASE rollouts' = [rollouts EXCEPT ![r] = OnHostStateChanged(@, hrr'[r][h].st)]
        BY <1>4, <2>2
  <2>3. CASE UNCHANGED rollouts
    <3>1. rollouts' = [rollouts EXCEPT ![r] = rollouts[r]]
          BY <2>3 DEF TypeOK
    <3> QED BY <3>1
  <2> QED BY <2>1, <2>2, <2>3 DEF Delivered, InterruptedHostEvent
<1>6. hrr'[r] \in [Hosts -> HostRecord]
      BY <1>4
<1>7. \A x \in {rollouts[r], half, row} : RowForward(rollouts[r], x, r, hrr'[r])
      BY <1>1, <1>2, <1>6, RowAfter
<1> HIDE DEF row, half
<1>8. \A q \in Rollouts : RowForward(rollouts[q], rollouts'[q], q, hrr'[q])
  <2> TAKE q \in Rollouts
  <2>1. CASE q = r
        BY <1>5, <1>7, <2>1 DEF TypeOK
  <2>2. CASE q # r
    <3>1. rollouts'[q] = rollouts[q] /\ rollouts[q] \in RolloutRow
          BY <1>5, <2>2 DEF TypeOK
    <3> QED BY <3>1 DEF RowForward
  <2> QED BY <2>1, <2>2
<1>9. TypeOK'
  <2>1. rollouts' \in [Rollouts -> RolloutRow]
    <3>1. \A x \in {rollouts[r], half, row} : x \in RolloutRow
          BY <1>7 DEF RowForward
    <3> QED BY <1>5, <3>1 DEF TypeOK
  <2>2. hrr[r][h].target \in Closures
        BY <1>1 DEF HostRecord
  <2>3. /\ QuarantinedBy(r, h, e) \in [Channels -> SUBSET Closures]
        /\ FailuresBy(r, h, e) \in [Rollouts -> SUBSET Hosts]
        BY <2>2 DEF QuarantinedBy, FailuresBy, TypeOK
  <2>4. /\ quarantined' \in [Channels -> SUBSET Closures]
        /\ failures' \in [Rollouts -> SUBSET Hosts]
        BY <2>3 DEF Delivered, HandleHostEvent, InterruptedHostEvent, TypeOK
  <2>5. CacheLost \/ UNCHANGED cacheVars
        BY DEF Delivered, HandleHostEvent, InterruptedHostEvent
  <2>6. primed' \in BOOLEAN /\ manifest' \in ManifestSets
        BY <2>5, CacheType
  <2> QED BY <1>0, <1>4, <2>1, <2>4, <2>6
          DEF Recorded, TypeOK, hostVars, ManifestSets
<1>10. \A q \in Rollouts, x \in Hosts : RecordForward(q, x)
  <2> TAKE q \in Rollouts, x \in Hosts
  <2>1. CASE q = r /\ x = h
        BY <1>0, <1>3, <1>4, <2>1 DEF Recorded, RecordForward
  <2>2. CASE q # r \/ x # h
    <3>1. hrr'[q][x] = hrr[q][x]
          BY <1>4, <2>2 DEF TypeOK
    <3> QED BY <3>1 DEF RecordForward
  <2> QED BY <2>1, <2>2
<1>11. /\ joined' = joined
       /\ \A x \in Hosts : queue'[x] \cup offered'[x] \subseteq queue[x] \cup offered[x]
      BY <1>0 DEF Recorded, hostVars
<1> QED BY <1>8, <1>9, <1>10, <1>11 DEF Forward

\* A step that leaves rows and records alone and hands dispatches on.
LEMMA QuietForward ==
    ASSUME TypeOK, UNCHANGED <<rollouts, joined, hrr>>,
           \A h \in Hosts : queue'[h] \cup offered'[h] \subseteq queue[h] \cup offered[h]
    PROVE  Forward
<1>1. \A r \in Rollouts : rollouts[r] \in RolloutRow
      BY DEF TypeOK
<1> QED BY <1>1 DEF Forward, RowForward, RecordForward

\* Every report, delivery, switch and rollback of a host moves records
\* forward (routes/events.rs, routes/dispatch.rs).
LEMMA HostForward ==
    ASSUME TypeOK, NEW r \in Rollouts, NEW h \in Hosts, HostNext(r, h)
    PROVE  TypeOK' /\ Forward
<1> USE ControlPlaneAssumption, PolicyAssumption, TopologyAssumption
<1>1. /\ running[h] \in Closures
      /\ TargetOf[r][h] \in Closures
      /\ running[h] \in MaybeClosure
      /\ TargetOf[r][h] \in MaybeClosure
      /\ NoClosure \in MaybeClosure
      BY DEF TypeOK, MaybeClosure
<1>2. ASSUME NEW e \in HostEvent, Delivered(r, h, e),
             e.kind # "DispatchAck"
      PROVE  TypeOK' /\ Forward
      BY <1>2, HostEventForward
<1>3. CASE ReportDispatchAck(r, h)
  <2>1. PICK c \in ran[h] : Delivered(r, h, Event("DispatchAck", c))
        BY <1>3 DEF ReportDispatchAck
  <2>2. c \in MaybeClosure
        BY DEF TypeOK, MaybeClosure
  <2>3. /\ Event("DispatchAck", c) \in HostEvent
        /\ Event("DispatchAck", c).kind = "DispatchAck"
        BY <2>2, EventType DEF EventKinds
  <2>4. r \in offered[h]
        BY <1>3 DEF ReportDispatchAck
  <2> QED BY <2>1, <2>3, <2>4, HostEventForward
<1>4. CASE ReportActivationCompleted(r, h)
  <2>1. Event("ActivationCompleted", TargetOf[r][h]) \in HostEvent
        /\ Event("ActivationCompleted", TargetOf[r][h]).kind = "ActivationCompleted"
        BY <1>1, EventType DEF EventKinds
  <2> QED BY <1>2, <1>4, <2>1 DEF ReportActivationCompleted
<1>5. CASE ReportActivationDeferred(r, h)
  <2>1. Event("ActivationDeferred", NoClosure) \in HostEvent
        /\ Event("ActivationDeferred", NoClosure).kind = "ActivationDeferred"
        BY <1>1, EventType DEF EventKinds
  <2> QED BY <1>2, <1>5, <2>1 DEF ReportActivationDeferred
<1>6. CASE ReportActivationFailed(r, h)
  <2>1. Event("ActivationFailed", NoClosure) \in HostEvent
        /\ Event("ActivationFailed", NoClosure).kind = "ActivationFailed"
        BY <1>1, EventType DEF EventKinds
  <2> QED BY <1>2, <1>6, <2>1 DEF ReportActivationFailed
<1>7. CASE \E p \in Probes, status \in {"Pass", "Fail"} :
              ReportProbeResult(r, h, p, status)
  <2>1. PICK p \in Probes, status \in {"Pass", "Fail"} :
              ReportProbeResult(r, h, p, status)
        BY <1>7
  <2> DEFINE e == [Event("ProbeResult", NoClosure)
                     EXCEPT !.probe = p, !.status = status]
  <2>2. e \in HostEvent /\ e.kind = "ProbeResult"
        BY DEF Event, EventKinds, HostEvent, MaybeClosure
  <2>3. Delivered(r, h, e)
        BY <2>1 DEF ReportProbeResult
  <2> QED BY <1>2, <2>2, <2>3
<1>8. CASE ReportFailed(r, h)
  <2>1. Event("Failed", NoClosure) \in HostEvent
        /\ Event("Failed", NoClosure).kind = "Failed"
        BY <1>1, EventType DEF EventKinds
  <2> QED BY <1>2, <1>8, <2>1 DEF ReportFailed
<1>9. CASE ReportConverged(r, h)
  <2>1. Event("Converged", TargetOf[r][h]) \in HostEvent
        /\ Event("Converged", TargetOf[r][h]).kind = "Converged"
        BY <1>1, EventType DEF EventKinds
  <2> QED BY <1>2, <1>9, <2>1 DEF ReportConverged
<1>10. CASE ReportRollbackComplete(r, h)
  <2>1. Event("RollbackComplete", running[h]) \in HostEvent
        /\ Event("RollbackComplete", running[h]).kind = "RollbackComplete"
        BY <1>1, EventType DEF EventKinds
  <2> QED BY <1>2, <1>10, <2>1 DEF ReportRollbackComplete
<1>11. CASE TakeDispatch(r, h)
  <2>1. TypeOK'
    <3>1. queue' \in [Hosts -> SUBSET Rollouts]
          BY <1>11 DEF TakeDispatch, TypeOK
    <3>2. [offered EXCEPT ![h] = @ \cup {r}] \in [Hosts -> SUBSET Rollouts]
          BY DEF TypeOK
    <3>3. offered' \in [Hosts -> SUBSET Rollouts]
          BY <1>11, <3>2 DEF TakeDispatch, TypeOK
    <3> QED BY <1>11, <3>1, <3>3 DEF TakeDispatch, TypeOK, cacheVars, ManifestSets
  <2>2. \A x \in Hosts : queue'[x] \cup offered'[x] \subseteq queue[x] \cup offered[x]
        BY <1>11 DEF TakeDispatch, TypeOK
  <2>3. UNCHANGED <<rollouts, joined, hrr>>
        BY <1>11 DEF TakeDispatch
  <2> QED BY <2>1, <2>2, <2>3, QuietForward
<1>12. ASSUME NEW c \in Closures, Runs(h, c)
       PROVE  TypeOK' /\ Forward
  <2>1. TypeOK'
        BY <1>12 DEF Runs, TypeOK, cacheVars, dbVars, ManifestSets
  <2> QED BY <1>12, <2>1, QuietForward DEF Runs, dbVars
<1>13. CASE HostSwitches(r, h) \/ HostRollsBack(r, h)
      BY <1>1, <1>12, <1>13 DEF HostSwitches, HostRollsBack
<1> QED BY <1>3, <1>4, <1>5, <1>6, <1>7, <1>8, <1>9, <1>10, <1>11, <1>13
        DEF HostNext

\* The heartbeat's synthesis, finished or cut short by a crash, moves the
\* records of its host forward (handle_heartbeat).
LEMMA HeartbeatForward ==
    ASSUME TypeOK, NEW h \in Hosts, Heartbeat(h)
    PROVE  TypeOK' /\ Forward
<1> USE TopologyAssumption
<1>1. ASSUME NEW r \in Rollouts
      PROVE  LET n == Recovered(r, h)
                 ack == SynthAck(hrr[r][h])
                 soaking == SynthComplete(ack, running[h])
             IN  /\ n \in HostRecord
                 /\ n # hrr[r][h] =>
                       /\ n.st # "Pending"
                       /\ Past(hrr[r][h]) => Past(n)
                       /\ hrr[r][h].st # "Converged"
                       /\ hrr[r][h].st = "Pending" => SynthGates(r, h)
                 /\ ack \in HostRecord /\ ack.st = "Activating"
                 /\ soaking \in HostRecord /\ soaking.st = "Soaking"
  <2>1. hrr[r][h] \in HostRecord /\ running[h] \in Closures
        BY DEF TypeOK
  <2>2. SynthGates(r, h) \in BOOLEAN
        BY DEF SynthGates, EvaluateForDispatch, StaticGates, BudgetGate,
               QuarantineGate, ChannelEdgesGate, WavePromotionGate, HostEdgesGate,
               ComplianceWaveGate
  <2> QED BY <2>1, <2>2, SynthForward DEF Recovered
<1>2. ASSUME NEW r \in Rollouts
      PROVE  SynthGates(r, h) => Cleared(manifest, rollouts, r, h)
      BY DEF SynthGates, EvaluateForDispatch, StaticGates, Cleared
\* A record that was recovered, or whose chain was cut, moved forward.
<1> DEFINE Good(r, s) ==
       /\ s \in HostRecord
       /\ s.st # "Pending"
       /\ Past(hrr[r][h]) => Past(s)
       /\ hrr[r][h].st # "Converged"
       /\ hrr[r][h].st = "Pending" => Cleared(manifest, rollouts, r, h)
<1>3. ASSUME NEW r \in Rollouts
      PROVE  Recovered(r, h) = hrr[r][h] \/ Good(r, Recovered(r, h))
      BY <1>1, <1>2
<1>4. ASSUME NEW r \in Rollouts, Recovered(r, h) # hrr[r][h], hrr[r][h].st = "Pending"
      PROVE  /\ Good(r, SynthAck(hrr[r][h]))
             /\ Good(r, SynthComplete(SynthAck(hrr[r][h]), running[h]))
      BY <1>1, <1>2, <1>4 DEF Past
<1> HIDE DEF Good
<1>5. ASSUME NEW R \in SUBSET Rollouts
      PROVE  /\ RecordsAfter(R, h) \in [Rollouts -> [Hosts -> HostRecord]]
             /\ \A r \in Rollouts, x \in Hosts :
                   \/ RecordsAfter(R, h)[r][x] = hrr[r][x]
                   \/ /\ x = h
                      /\ r \in R
                      /\ RecordsAfter(R, h)[r][x] = Recovered(r, h)
             /\ \A r \in R : RecordsAfter(R, h)[r][h] = Recovered(r, h)
  <2>1. \A r \in Rollouts : Recovered(r, h) \in HostRecord
        BY <1>1
  <2> QED BY <2>1 DEF RecordsAfter, TypeOK
<1>6. ASSUME NEW R \in SUBSET Rollouts
      PROVE  QuarantinedAfter(R, h) \in [Channels -> SUBSET Closures]
  <2> DEFINE new(c) == {hrr[r][h].target : r \in {x \in R :
                           /\ ChannelOf[x] = c
                           /\ hrr[x][h].st = "Failed"
                           /\ Recovered(x, h).st = "Reverted"}}
  <2>1. \A r \in Rollouts : hrr[r][h].target \in Closures
        BY DEF TypeOK, HostRecord
  <2>2. \A c \in Channels : new(c) \subseteq Closures
        BY <2>1
  <2>3. QuarantinedAfter(R, h) = [c \in Channels |-> quarantined[c] \cup new(c)]
        BY DEF QuarantinedAfter
  <2> HIDE DEF new
  <2> QED BY <2>2, <2>3 DEF TypeOK
\* The row of a rollout in R, or outside it.
<1>7. ASSUME NEW R \in SUBSET Rollouts, NEW r \in Rollouts
      PROVE  RowForward(rollouts[r], RowsAfter(R, h)[r], r, RecordsAfter(R, h)[r])
  <2> DEFINE hs == RecordsAfter(R, h)[r]
  <2>1. /\ rollouts[r] \in RolloutRow
        /\ hs \in [Hosts -> HostRecord]
        /\ hrr[r][h].st \in HostStates
        /\ Recovered(r, h).st \in HostStates
    <3>1. Recovered(r, h) \in HostRecord /\ hrr[r][h] \in HostRecord
          BY <1>1 DEF TypeOK
    <3>2. RecordsAfter(R, h) \in [Rollouts -> [Hosts -> HostRecord]]
          BY <1>5
    <3> QED BY <3>1, <3>2 DEF TypeOK, HostRecord
  <2> HIDE DEF hs
  <2>2. /\ RowForward(rollouts[r], rollouts[r], r, hs)
        /\ RowForward(rollouts[r],
              AfterHostChange(rollouts[r], r, hs, hrr[r][h].st, Recovered(r, h).st),
              r, hs)
        BY <2>1, RowAfter
  <2> QED BY <2>2 DEF RowsAfter, hs
<1>8. RecordsOf(h) \in SUBSET Rollouts
      BY DEF RecordsOf
<1>9. CASE HandleHeartbeat(h)
  <2> DEFINE R == RecordsOf(h)
  <2>1. /\ hrr' = RecordsAfter(R, h)
        /\ rollouts' = RowsAfter(R, h)
        /\ quarantined' = QuarantinedAfter(R, h)
        /\ UNCHANGED <<cacheVars, joined, queue, failures, hostVars>>
        BY <1>9 DEF HandleHeartbeat
  <2>2. \A r \in Rollouts : RowForward(rollouts[r], rollouts'[r], r, hrr'[r])
        BY <1>7, <1>8, <2>1
  <2>3. TypeOK'
    <3>1. rollouts' \in [Rollouts -> RolloutRow]
          BY <2>1, <2>2 DEF RowsAfter, RowForward
    <3> QED BY <1>5, <1>6, <1>8, <2>1, <3>1
            DEF TypeOK, cacheVars, hostVars, ManifestSets
  <2>4. \A r \in Rollouts, x \in Hosts : RecordForward(r, x)
    <3> TAKE r \in Rollouts, x \in Hosts
    <3>1. \/ hrr'[r][x] = hrr[r][x]
          \/ x = h /\ h \in joined[r] /\ hrr'[r][x] = Recovered(r, h)
          BY <1>5, <1>8, <2>1 DEF RecordsOf
    <3>2. Recovered(r, h) = hrr[r][h] \/ Good(r, Recovered(r, h))
          BY <1>3
    <3> QED BY <3>1, <3>2 DEF RecordForward, Good
  <2> QED BY <2>1, <2>2, <2>3, <2>4 DEF Forward, hostVars
<1>10. CASE InterruptedHeartbeat(h)
  <2> DEFINE Cut(r, R, s) ==
            /\ s # Recovered(r, h) =>
                  hrr[r][h].st = "Pending" /\ Recovered(r, h) # hrr[r][h]
            /\ s # hrr[r][h]
            /\ hrr' = [RecordsAfter(R, h) EXCEPT ![r][h] = s]
            /\ quarantined' \in {QuarantinedAfter(R, h), QuarantinedAfter(R \cup {r}, h)}
            /\ \/ rollouts' = RowsAfter(R, h)
               \/ rollouts' = [RowsAfter(R, h) EXCEPT ![r] =
                                 OnHostStateChanged(@, s.st)]
            /\ CacheLost
            /\ UNCHANGED <<joined, queue, failures, hostVars>>
         Chain(r) == {Recovered(r, h)} \cup
                        IF hrr[r][h].st = "Pending" /\ Recovered(r, h) # hrr[r][h]
                        THEN {SynthAck(hrr[r][h]),
                              SynthComplete(SynthAck(hrr[r][h]), running[h])}
                        ELSE {}
         Writes(r, R, s) ==
            /\ s # hrr[r][h]
            /\ hrr' = [RecordsAfter(R, h) EXCEPT ![r][h] = s]
            /\ \/ /\ quarantined' = QuarantinedAfter(R, h)
                  /\ rollouts' = RowsAfter(R, h)
               \/ /\ quarantined' = QuarantinedAfter(R \cup {r}, h)
                  /\ \/ rollouts' = RowsAfter(R, h)
                     \/ rollouts' = [RowsAfter(R, h) EXCEPT ![r] =
                                        OnHostStateChanged(@, s.st)]
            /\ CacheLost
            /\ UNCHANGED <<joined, queue, failures, hostVars>>
  <2>1. PICK r \in RecordsOf(h) : \E R \in SUBSET (RecordsOf(h) \ {r}) :
          \E s \in Chain(r) : Writes(r, R, s)
        BY <1>10, Zenon DEF InterruptedHeartbeat
  <2>2a. PICK R \in SUBSET (RecordsOf(h) \ {r}) : \E s \in Chain(r) : Writes(r, R, s)
        BY <2>1, Zenon
  <2>2b. PICK s \in Chain(r) : Writes(r, R, s)
        BY <2>2a, Zenon
  <2>2. Cut(r, R, s) /\ s \in {Recovered(r, h), SynthAck(hrr[r][h]),
                               SynthComplete(SynthAck(hrr[r][h]), running[h])}
    <3>1. /\ s \in {Recovered(r, h), SynthAck(hrr[r][h]),
                    SynthComplete(SynthAck(hrr[r][h]), running[h])}
          /\ s # Recovered(r, h) =>
                hrr[r][h].st = "Pending" /\ Recovered(r, h) # hrr[r][h]
          BY <2>2b
    <3>2. quarantined' \in {QuarantinedAfter(R, h), QuarantinedAfter(R \cup {r}, h)}
          BY <2>2b, Zenon
    <3> QED BY <2>2b, <3>1, <3>2, Zenon
  <2>3. /\ r \in Rollouts
        /\ h \in joined[r]
        /\ R \in SUBSET Rollouts
        /\ R \cup {r} \in SUBSET Rollouts
        /\ r \notin R
        /\ \A q \in R : h \in joined[q]
        BY <2>1 DEF RecordsOf
  <2>4. Good(r, s)
        BY <1>3, <1>4, <2>2, <2>3
  <2>5. s \in HostRecord /\ s.st \in HostStates
        BY <2>4 DEF Good, HostRecord
  <2>6. /\ hrr' \in [Rollouts -> [Hosts -> HostRecord]]
        /\ hrr'[r][h] = s
        /\ \A x \in Hosts : x # h => hrr'[r][x] = hrr[r][x]
        /\ \A q \in Rollouts : q # r => hrr'[q] = RecordsAfter(R, h)[q]
    <3>1. RecordsAfter(R, h) \in [Rollouts -> [Hosts -> HostRecord]]
          BY <1>5, <2>3
    <3>2. RecordsAfter(R, h)[r] = hrr[r]
          BY <2>3 DEF RecordsAfter
    <3> QED BY <2>2, <2>3, <2>5, <3>1, <3>2
  <2>7. RowsAfter(R, h)[r] = rollouts[r]
        BY <2>3 DEF RowsAfter
  <2>8. \A q \in Rollouts : RowForward(rollouts[q], rollouts'[q], q, hrr'[q])
    <3> TAKE q \in Rollouts
    <3>1. CASE q # r
      <4>1. rollouts'[q] = RowsAfter(R, h)[q]
            BY <2>2, <3>1 DEF RowsAfter
      <4> QED BY <1>7, <2>3, <2>6, <3>1, <4>1
    <3>2. CASE q = r
      <4>1. rollouts'[r] \in {rollouts[r], OnHostStateChanged(rollouts[r], s.st)}
            BY <2>2, <2>3, <2>7 DEF RowsAfter
      <4>2. /\ rollouts[r] \in RolloutRow
            /\ hrr'[r] \in [Hosts -> HostRecord]
            BY <2>3, <2>6 DEF TypeOK
      <4>3. /\ RowForward(rollouts[r], rollouts[r], r, hrr'[r])
            /\ RowForward(rollouts[r], OnHostStateChanged(rollouts[r], s.st), r, hrr'[r])
            BY <2>3, <2>5, <4>2, RowAfter
      <4> QED BY <3>2, <4>1, <4>3
    <3> QED BY <3>1, <3>2
  <2>9. TypeOK'
    <3>1. rollouts' \in [Rollouts -> RolloutRow]
      <4>1. \A q \in Rollouts : rollouts'[q] \in RolloutRow
            BY <2>8 DEF RowForward
      <4>2. rollouts' = [q \in Rollouts |-> rollouts'[q]]
            BY <2>2 DEF RowsAfter
      <4> QED BY <4>1, <4>2
    <3>2. quarantined' \in [Channels -> SUBSET Closures]
          BY <1>6, <2>2, <2>3
    <3>3. primed' \in BOOLEAN /\ manifest' \in ManifestSets
          BY <2>2, CacheType
    <3> QED BY <2>2, <2>6, <3>1, <3>2, <3>3 DEF TypeOK, hostVars, ManifestSets
  <2>10. \A q \in Rollouts, x \in Hosts : RecordForward(q, x)
    <3> TAKE q \in Rollouts, x \in Hosts
    <3>1. CASE q = r
          BY <2>3, <2>4, <2>6, <3>1 DEF RecordForward, Good
    <3>2. CASE q # r
      <4>1. \/ hrr'[q][x] = hrr[q][x]
            \/ x = h /\ h \in joined[q] /\ hrr'[q][x] = Recovered(q, h)
            BY <1>5, <2>3, <2>6, <3>2
      <4>2. Recovered(q, h) = hrr[q][h] \/ Good(q, Recovered(q, h))
            BY <1>3
      <4> QED BY <4>1, <4>2 DEF RecordForward, Good
    <3> QED BY <3>1, <3>2
  <2> QED BY <2>2, <2>8, <2>9, <2>10 DEF Forward, hostVars
<1> QED BY <1>9, <1>10 DEF Heartbeat

-----------------------------------------------------------------------------
(* run_plan. *)

\* h may be dispatched for r as the tables stand after the step: its wave is
\* reached and the hosts that gate it are past activation.
MaySend(r, h) ==
    /\ Present(r)
    /\ h \in HostSet(r)
    /\ NumWaves[ChannelOf[r]] > 0 =>
          WaveOf[h] # Unstaged /\ WaveOf[h] <= rollouts[r].wave
    /\ \A g \in HostSet(r) : <<g, h>> \in HostEdges => Past(hrr[r][g])

\* r gets its row now, and once hosts have joined it every other rollout of
\* the channel that has hosts is closed.
Opened(r) ==
    /\ rollouts[r].st = "Absent"
    /\ rollouts'[r].st # "Absent"
    /\ rollouts'[r].wave = 0
    /\ ~rollouts'[r].terminal
    /\ hrr'[r] = FreshRecords(r)
    /\ joined'[r] \subseteq HostSet(r)
    /\ rollouts'[r].st \in Started =>
          \A q \in Rollouts : /\ ChannelOf[q] = ChannelOf[r]
                              /\ rollouts'[q].st \in Started
                              => q = r

\* r keeps its records; its cursor moves at most over a completed wave.
Kept(r) ==
    /\ rollouts'[r].st = "Absent" <=> rollouts[r].st = "Absent"
    /\ rollouts'[r].st \in Started => rollouts[r].st \in Started
    /\ rollouts'[r].terminal = rollouts[r].terminal
    /\ joined'[r] = joined[r]
    /\ hrr'[r] = hrr[r]
    /\ \/ rollouts'[r].wave = rollouts[r].wave
       \/ /\ rollouts'[r].wave = rollouts[r].wave + 1
          /\ \A h \in WaveHosts(ChannelOf[r], rollouts[r].wave) :
                Past(hrr[r][h])

Replanned ==
    /\ \A r \in Rollouts : Opened(r) \/ Kept(r)
    /\ \A h \in Hosts : \A r \in queue'[h] :
          r \in queue[h] \/ MaySend(r, h)'
    /\ offered' = offered

\* Advancing the wave cursors changes nothing but the cursor, by one, over a
\* wave whose hosts are all past activation (advance_current_waves).
LEMMA AdvanceWaves ==
    ASSUME TypeOK, NEW m \in ManifestSets, NEW r \in Rollouts
    PROVE  LET n == AdvanceCurrentWaves(Fleet(m, rollouts, hrr))[r]
           IN  /\ n \in RolloutRow
               /\ n.st = rollouts[r].st
               /\ n.terminal = rollouts[r].terminal
               /\ \/ n.wave = rollouts[r].wave
                  \/ /\ n.wave = rollouts[r].wave + 1
                     /\ \A h \in WaveHosts(ChannelOf[r], rollouts[r].wave) :
                           Past(hrr[r][h])
<1> DEFINE fs == Fleet(m, rollouts, hrr)
           n  == AdvanceCurrentWaves(fs)[r]
<1>1. rollouts[r] \in RolloutRow
      BY DEF TypeOK
<1>2. fs.ro = rollouts /\ fs.hs = hrr
      BY DEF Fleet
<1> HIDE DEF fs
<1>3. CASE r \in Planned(fs) /\ WaveComplete(fs, r)
  <2>1. n = [rollouts[r] EXCEPT !.wave = @ + 1]
        BY <1>2, <1>3 DEF AdvanceCurrentWaves
  <2>2. \A h \in WaveHosts(ChannelOf[r], rollouts[r].wave) : Past(hrr[r][h])
        BY <1>2, <1>3 DEF WaveComplete, OrderingEligible, Past
  <2> QED BY <1>1, <2>1, <2>2 DEF RolloutRow, fs
<1>4. CASE ~(r \in Planned(fs) /\ WaveComplete(fs, r))
  <2>1. n = rollouts[r]
        BY <1>2, <1>4 DEF AdvanceCurrentWaves
  <2> QED BY <1>1, <2>1 DEF fs
<1> QED BY <1>3, <1>4

\* The records of a newly opened rollout are well-formed and Pending.
LEMMA FreshType ==
    ASSUME NEW r \in Rollouts
    PROVE  /\ FreshRecords(r) \in [Hosts -> HostRecord]
           /\ \A h \in Hosts : FreshRecords(r)[h].st = "Pending"
  BY TopologyAssumption
     DEF FreshRecords, NewPending, HostRecord, HostStates, MaybeClosure, Time

\* Opening rollouts writes rows of the right shape, gives the opened ones a
\* fresh row and closes the live ones beside them (open_rollout).
LEMMA OpeningRows ==
    ASSUME NEW ro \in [Rollouts -> RolloutRow], NEW O \in SUBSET Rollouts,
           NEW r \in Rollouts
    PROVE  LET n == OpenRollouts(O, ro)[r]
           IN  /\ n \in RolloutRow
               /\ r \in O => n.st # "Absent" /\ n.wave = 0 /\ ~n.terminal
               /\ r \notin O =>
                     /\ n.st = "Absent" <=> ro[r].st = "Absent"
                     /\ n.st \in Started => ro[r].st \in Started
                     /\ n.terminal = ro[r].terminal
                     /\ n.wave = ro[r].wave
                     /\ n.st \in Started =>
                           \A o \in O : ChannelOf[o] # ChannelOf[r]
<1>1. ro[r] \in RolloutRow
      OBVIOUS
<1>2. /\ OpenedRow \in RolloutRow
      /\ OnHostJoined(OpenedRow) \in RolloutRow
      /\ OpenedRow.st # "Absent" /\ OpenedRow.wave = 0 /\ ~OpenedRow.terminal
      /\ OnHostJoined(OpenedRow).st # "Absent"
      /\ OnHostJoined(OpenedRow).wave = 0 /\ ~OnHostJoined(OpenedRow).terminal
      BY DEF OpenedRow, NoRow, OnHostJoined, RolloutRow, RolloutStates
<1>3. LET s == OnSuccessorOpened(ro[r])
      IN  /\ s \in RolloutRow
          /\ s.st = "Absent" <=> ro[r].st = "Absent"
          /\ s.st \notin Started
          /\ s.terminal = ro[r].terminal
          /\ s.wave = ro[r].wave
      BY <1>1 DEF OnSuccessorOpened, RolloutRow, RolloutStates, Started, Live
<1>4. CASE r \in O
      BY <1>2, <1>4 DEF OpenRollouts
<1>5. CASE r \notin O
      BY <1>1, <1>3, <1>5 DEF OpenRollouts
<1> QED BY <1>4, <1>5

\* A whole run_plan: rows, records and queue (plan_next and its application).
LEMMA PlanForward ==
    ASSUME TypeOK, JoinedInv, NEW m \in ManifestSets, RunPlan(m),
           primed' \in BOOLEAN, manifest' \in ManifestSets
    PROVE  TypeOK' /\ Replanned
<1> USE ControlPlaneAssumption, PolicyAssumption, TopologyAssumption
<1> DEFINE ro == AdvanceCurrentWaves(Fleet(m, rollouts, hrr))
           fs == Fleet(m, ro, hrr)
           O  == ToOpen(fs)
<1>1. PICK D \in PlanNext(fs, CachedQuarantines) :
         /\ rollouts' = OpenRollouts(O, ro)
         /\ joined' = [r \in Rollouts |-> IF r \in O THEN HostSet(r)
                                                     ELSE joined[r]]
         /\ hrr' = [r \in Rollouts |-> IF r \in O THEN FreshRecords(r)
                                                  ELSE hrr[r]]
         /\ queue' = [h \in Hosts |->
                         queue[h] \cup {r \in Rollouts : <<r, h>> \in D}]
         /\ UNCHANGED <<quarantined, failures, hostVars>>
      BY DEF RunPlan
<1>2. \A r \in Rollouts :
         /\ ro[r] \in RolloutRow
         /\ ro[r].st = rollouts[r].st
         /\ ro[r].terminal = rollouts[r].terminal
         /\ \/ ro[r].wave = rollouts[r].wave
            \/ /\ ro[r].wave = rollouts[r].wave + 1
               /\ \A h \in WaveHosts(ChannelOf[r], rollouts[r].wave) :
                     Past(hrr[r][h])
      BY AdvanceWaves
<1>3. ro \in [Rollouts -> RolloutRow]
      BY <1>2 DEF AdvanceCurrentWaves
<1>4. fs.m = m /\ fs.ro = ro /\ fs.hs = hrr /\ fs.jn = joined
      BY DEF Fleet
<1>5. D \subseteq Dispatchable(fs, CachedQuarantines)
      BY <1>1 DEF PlanNext
<1> HIDE DEF ro, fs
<1>6. \A r \in O : m[ChannelOf[r]] = r /\ rollouts[r].st = "Absent"
      BY <1>2, <1>4 DEF ToOpen
<1>7. O \in SUBSET Rollouts
      BY DEF ToOpen
<1> HIDE DEF O
<1>8. \A r \in Rollouts :
         LET n == rollouts'[r]
         IN  /\ n \in RolloutRow
             /\ r \in O => n.st # "Absent" /\ n.wave = 0 /\ ~n.terminal
             /\ r \notin O =>
                   /\ n.st = "Absent" <=> ro[r].st = "Absent"
                   /\ n.st \in Started => ro[r].st \in Started
                   /\ n.terminal = ro[r].terminal
                   /\ n.wave = ro[r].wave
                   /\ n.st \in Started => \A o \in O : ChannelOf[o] # ChannelOf[r]
  <2>1. rollouts' = OpenRollouts(O, ro)
        BY <1>1
  <2> TAKE r \in Rollouts
  <2>2. rollouts'[r] = OpenRollouts(O, ro)[r]
        BY <2>1
  <2> QED BY ONLY <1>3, <1>7, <2>2, OpeningRows
<1>9. TypeOK'
  <2>1. rollouts' \in [Rollouts -> RolloutRow]
        BY <1>1, <1>8 DEF OpenRollouts
  <2>2. hrr' \in [Rollouts -> [Hosts -> HostRecord]]
        BY <1>1, FreshType DEF TypeOK
  <2>3. queue' \in [Hosts -> SUBSET Rollouts]
        BY <1>1 DEF TypeOK
  <2>4. joined' \in [Rollouts -> SUBSET Hosts]
    <3>1. \A r \in Rollouts : HostSet(r) \in SUBSET Hosts
          BY DEF HostSet
    <3>2. joined' = [r \in Rollouts |-> IF r \in O THEN HostSet(r) ELSE joined[r]]
          BY <1>1
    <3> QED BY <3>1, <3>2 DEF TypeOK
  <2> QED BY <1>1, <2>1, <2>2, <2>3, <2>4 DEF TypeOK, hostVars, ManifestSets
<1>10. ASSUME NEW r \in Rollouts
       PROVE  Opened(r) \/ Kept(r)
  <2>1. CASE r \in O
    <3>1. hrr'[r] = FreshRecords(r) /\ joined'[r] = HostSet(r)
          BY <1>1, <2>1
    <3>2. ASSUME NEW q \in Rollouts, ChannelOf[q] = ChannelOf[r],
                 rollouts'[q].st \in Started
          PROVE  q = r
      <4>1. q \in O
            BY <1>8, <2>1, <3>2
      <4> QED BY <1>6, <2>1, <3>2, <4>1
    <3> QED BY <1>6, <1>8, <2>1, <3>1, <3>2 DEF Opened
  <2>2. CASE r \notin O
    <3>1. hrr'[r] = hrr[r] /\ joined'[r] = joined[r]
          BY <1>1, <2>2
    <3> QED BY <1>2, <1>8, <2>2, <3>1 DEF Kept
  <2> QED BY <2>1, <2>2
<1>11. ASSUME NEW h \in Hosts, NEW r \in queue'[h], r \notin queue[h]
       PROVE  MaySend(r, h)'
  <2>1. r \in Rollouts /\ <<r, h>> \in D
        BY <1>1, <1>11
  <2>2. /\ r \in Planned(fs)
        /\ h \in HostSet(r)
        /\ StaticGates(fs, CachedQuarantines, r, h)
        BY <1>4, <1>5, <2>1 DEF Dispatchable, JoinedInv
  <2>3. r \notin O
        BY <1>2, <1>4, <1>6, <2>2 DEF Planned
  <2>4. /\ hrr'[r] = hrr[r]
        /\ rollouts'[r].st # "Absent"
        /\ rollouts'[r].wave = ro[r].wave
        BY <1>1, <1>2, <1>4, <1>8, <2>1, <2>2, <2>3 DEF Planned
  <2>5. NumWaves[ChannelOf[r]] > 0 =>
           WaveOf[h] # Unstaged /\ WaveOf[h] <= rollouts'[r].wave
        BY <1>4, <2>2, <2>4 DEF StaticGates, WavePromotionGate
  <2>6. \A g \in HostSet(r) : <<g, h>> \in HostEdges => Past(hrr'[r][g])
        BY <1>4, <2>2, <2>4 DEF StaticGates, HostEdgesGate, OrderingEligible, Past
  <2> QED BY <2>2, <2>4, <2>5, <2>6 DEF MaySend, Present, HostSet
<1> QED BY <1>1, <1>9, <1>10, <1>11 DEF Replanned, hostVars

\* A plan cut short in the middle of open_rollout.
LEMMA InterruptedForward ==
    ASSUME TypeOK, NEW m \in ManifestSets, InterruptedPlan(m)
    PROVE  TypeOK' /\ Replanned
<1> USE ControlPlaneAssumption, PolicyAssumption, TopologyAssumption
<1> DEFINE ro == AdvanceCurrentWaves(Fleet(m, rollouts, hrr))
           live(r) == {q \in Rollouts : /\ ChannelOf[q] = ChannelOf[r]
                                        /\ ro[q].st \in Live}
           Cut(r, S, J) ==
               /\ J # {} => S = live(r)
               /\ rollouts' = [q \in Rollouts |->
                      IF q = r THEN IF J # {} THEN OnHostJoined(OpenedRow)
                                              ELSE OpenedRow
                      ELSE IF q \in S THEN OnSuccessorOpened(ro[q]) ELSE ro[q]]
               /\ joined' = [joined EXCEPT ![r] = J]
               /\ hrr' = [hrr EXCEPT ![r] = FreshRecords(r)]
               /\ CacheLost
               /\ UNCHANGED <<queue, quarantined, failures, hostVars>>
<1>1. PICK r \in ToOpen(Fleet(m, ro, hrr)) :
         \E S \in SUBSET live(r), J \in SUBSET HostSet(r) : Cut(r, S, J)
      BY DEF InterruptedPlan
<1>2. PICK S \in SUBSET live(r), J \in SUBSET HostSet(r) : Cut(r, S, J)
      BY <1>1
<1>3. \A q \in Rollouts :
         /\ ro[q] \in RolloutRow
         /\ ro[q].st = rollouts[q].st
         /\ ro[q].terminal = rollouts[q].terminal
         /\ \/ ro[q].wave = rollouts[q].wave
            \/ /\ ro[q].wave = rollouts[q].wave + 1
               /\ \A h \in WaveHosts(ChannelOf[q], rollouts[q].wave) :
                     Past(hrr[q][h])
      BY AdvanceWaves
<1> HIDE DEF ro
<1>4. r \in Rollouts /\ rollouts[r].st = "Absent"
      BY <1>1, <1>3 DEF ToOpen, Fleet
<1>5. /\ OpenedRow \in RolloutRow
      /\ OnHostJoined(OpenedRow) \in RolloutRow
      /\ OpenedRow.st = "Opening" /\ OpenedRow.wave = 0 /\ ~OpenedRow.terminal
      /\ OnHostJoined(OpenedRow).st = "Active"
      /\ OnHostJoined(OpenedRow).wave = 0 /\ ~OnHostJoined(OpenedRow).terminal
      BY DEF OpenedRow, NoRow, OnHostJoined, RolloutRow, RolloutStates
<1>6. \A q \in Rollouts :
         LET s == OnSuccessorOpened(ro[q])
         IN  /\ s \in RolloutRow
             /\ s.st = "Absent" <=> ro[q].st = "Absent"
             /\ s.st \notin Started
             /\ s.terminal = ro[q].terminal
             /\ s.wave = ro[q].wave
  <2> TAKE q \in Rollouts
  <2>1. ro[q] \in RolloutRow
        BY <1>3
  <2>2. CASE ro[q].st \in Live
        BY <2>1, <2>2 DEF OnSuccessorOpened, RolloutRow, RolloutStates, Started, Live
  <2>3. CASE ro[q].st \notin Live
        BY <2>1, <2>3 DEF OnSuccessorOpened, Started
  <2> QED BY <2>2, <2>3
<1>7. /\ J = {} => rollouts'[r] = OpenedRow
      /\ J # {} => rollouts'[r] = OnHostJoined(OpenedRow)
      /\ hrr'[r] = FreshRecords(r)
      /\ joined'[r] = J
      BY <1>2, <1>4 DEF TypeOK
<1>8. \A q \in Rollouts : q # r =>
         /\ q \notin S => rollouts'[q] = ro[q]
         /\ q \in S => rollouts'[q] = OnSuccessorOpened(ro[q])
         /\ hrr'[q] = hrr[q]
         /\ joined'[q] = joined[q]
      BY <1>2 DEF TypeOK
<1>9. TypeOK'
  <2>1. \A q \in Rollouts : rollouts'[q] \in RolloutRow
    <3> TAKE q \in Rollouts
    <3>1. CASE q = r
          BY <1>5, <1>7, <3>1
    <3>2. CASE q # r
          BY <1>3, <1>6, <1>8, <3>2
    <3> QED BY <3>1, <3>2
  <2>2. rollouts' = [q \in Rollouts |-> rollouts'[q]]
        BY <1>2
  <2>3. hrr' \in [Rollouts -> [Hosts -> HostRecord]]
        BY <1>2, <1>4, FreshType DEF TypeOK
  <2>4. joined' \in [Rollouts -> SUBSET Hosts]
        BY <1>2 DEF TypeOK, HostSet
  <2>5. primed' \in BOOLEAN /\ manifest' \in ManifestSets
        BY <1>2, CacheType
  <2>6. rollouts' \in [Rollouts -> RolloutRow]
        BY <2>1, <2>2
  <2> QED BY <1>2, <2>3, <2>4, <2>5, <2>6 DEF TypeOK, hostVars, ManifestSets
<1>10. Opened(r)
  <2>1. ASSUME J # {}, NEW q \in Rollouts, ChannelOf[q] = ChannelOf[r],
               rollouts'[q].st \in Started
        PROVE  q = r
    <3>1. ASSUME q # r PROVE FALSE
      <4>1. S = live(r)
            BY <1>2, <2>1
      <4>2. CASE q \in S
            BY <1>6, <1>8, <2>1, <3>1, <4>2
      <4>3. CASE q \notin S
            BY <1>8, <2>1, <3>1, <4>1, <4>3 DEF Started
      <4> QED BY <4>2, <4>3
    <3> QED BY <3>1
  <2>2. rollouts'[r].st \in Started => J # {}
        BY <1>5, <1>7 DEF Started
  <2> QED BY <1>4, <1>5, <1>7, <2>1, <2>2 DEF Opened
<1>11. ASSUME NEW q \in Rollouts, q # r
       PROVE  Kept(q)
      BY <1>3, <1>6, <1>8, <1>11 DEF Kept
<1>12. UNCHANGED <<queue, offered>>
      BY <1>2 DEF hostVars
<1> QED BY <1>9, <1>10, <1>11, <1>12 DEF Replanned

-----------------------------------------------------------------------------
(* The inductive invariant. *)

\* The cursor of a staged rollout is beyond no host that is not past
\* activation, and no host beyond it has left Pending.
CursorInv ==
    \A r \in Rollouts : \A h \in HostSet(r) :
        /\ Present(r)
        /\ NumWaves[ChannelOf[r]] > 0
        => /\ WaveOf[h] # Unstaged /\ WaveOf[h] < rollouts[r].wave =>
                 Past(hrr[r][h])
           /\ hrr[r][h].st # "Pending" =>
                 WaveOf[h] # Unstaged /\ WaveOf[h] <= rollouts[r].wave

\* A dispatch that is queued or in a host's hands, however old, was cleared by
\* the gates and still would be.
SentInv ==
    \A h \in Hosts : \A r \in queue[h] \cup offered[h] : MaySend(r, h)

Inv ==
    /\ TypeOK
    /\ JoinedInv
    /\ CursorInv
    /\ SentInv
    /\ HostEdgeOrder
    /\ TerminalIsConverged
    /\ OneLiveRollout

\* The initial state has no row and no dispatch.
LEMMA InitInv == Init => Inv
<1> SUFFICES ASSUME Init PROVE Inv
    OBVIOUS
<1> USE ControlPlaneAssumption, PolicyAssumption, TopologyAssumption
<1>1. /\ NoRow \in RolloutRow
      /\ NoRow.st = "Absent"
      /\ ~NoRow.terminal
      BY DEF NoRow, RolloutRow, RolloutStates
<1>2. \A r \in Rollouts : rollouts[r] = NoRow
      BY DEF Init
<1>3. TypeOK
  <2>1. hrr \in [Rollouts -> [Hosts -> HostRecord]]
        BY FreshType DEF Init
  <2>2. manifest \in ManifestSets
        BY DEF Init, NoManifests, ManifestSets
  <2> QED BY <1>1, <2>1, <2>2 DEF Init, TypeOK
<1>4. CursorInv /\ HostEdgeOrder
      BY <1>1, <1>2 DEF CursorInv, HostEdgeOrder, Present
<1>5. SentInv
      BY DEF SentInv, Init
<1>6. TerminalIsConverged
      BY <1>1, <1>2 DEF TerminalIsConverged
<1>7. OneLiveRollout
      BY <1>1, <1>2 DEF OneLiveRollout, Started, Live
<1>8. JoinedInv
      BY DEF JoinedInv, Init
<1> QED BY <1>3, <1>4, <1>5, <1>6, <1>7, <1>8 DEF Inv

\* A step that only moves records forward keeps the invariant: whoever leaves
\* Pending was cleared, and what was past activation stays so.
LEMMA ForwardInv ==
    ASSUME Inv, TypeOK', Forward
    PROVE  Inv'
<1> USE TopologyAssumption
<1>a. \A r \in Rollouts : RowForward(rollouts[r], rollouts'[r], r, hrr'[r])
      BY DEF Forward
<1>b. \A r \in Rollouts, h \in Hosts : RecordForward(r, h)
      BY DEF Forward
<1>1. ASSUME NEW r \in Rollouts, NEW h \in Hosts,
             hrr[r][h].st = "Pending", hrr'[r][h].st # "Pending"
      PROVE  MaySend(r, h)
  <2>1. CASE r \in offered[h]
        BY <2>1 DEF Inv, SentInv
  <2>2. CASE Cleared(manifest, rollouts, r, h)
    <3>1. Present(r) /\ h \in HostSet(r)
          BY <1>1, <1>b DEF RecordForward, Inv, JoinedInv
    <3>2. /\ Fleet(manifest, rollouts, hrr).ro = rollouts
          /\ Fleet(manifest, rollouts, hrr).hs = hrr
          BY DEF Fleet
    <3>3. rollouts[r].wave \in Nat
          BY DEF Inv, TypeOK, RolloutRow
    <3>4. NumWaves[ChannelOf[r]] > 0 =>
             WaveOf[h] # Unstaged /\ WaveOf[h] <= rollouts[r].wave
          BY <2>2, <3>2, <3>3 DEF Cleared, WavePromotionGate, Unstaged
    <3>5. \A g \in HostSet(r) : <<g, h>> \in HostEdges => Past(hrr[r][g])
          BY <2>2, <3>2 DEF Cleared, HostEdgesGate, OrderingEligible, Past
    <3> QED BY <3>1, <3>4, <3>5 DEF MaySend
  <2> QED BY <1>1, <1>b, <2>1, <2>2 DEF RecordForward
<1>2. \A r \in Rollouts : \A h \in HostSet(r) :
         h \in Hosts /\ (Past(hrr[r][h]) => Past(hrr'[r][h]))
      BY <1>b DEF RecordForward, HostSet
<1>3. CursorInv'
  <2> SUFFICES ASSUME NEW r \in Rollouts, NEW h \in HostSet(r),
                      Present(r)', NumWaves[ChannelOf[r]] > 0
               PROVE  /\ WaveOf[h] # Unstaged /\ WaveOf[h] < rollouts'[r].wave =>
                            Past(hrr'[r][h])
                      /\ hrr'[r][h].st # "Pending" =>
                            WaveOf[h] # Unstaged /\ WaveOf[h] <= rollouts'[r].wave
      BY DEF CursorInv, HostSet
  <2>1. /\ Present(r)
        /\ rollouts'[r].wave = rollouts[r].wave
        /\ h \in Hosts
        BY <1>a DEF RowForward, Present, HostSet
  <2>2. /\ WaveOf[h] # Unstaged /\ WaveOf[h] < rollouts[r].wave => Past(hrr[r][h])
        /\ hrr[r][h].st # "Pending" =>
              WaveOf[h] # Unstaged /\ WaveOf[h] <= rollouts[r].wave
        BY <2>1 DEF Inv, CursorInv
  <2>3. ASSUME hrr'[r][h].st # "Pending"
        PROVE  WaveOf[h] # Unstaged /\ WaveOf[h] <= rollouts[r].wave
    <3>1. CASE hrr[r][h].st = "Pending"
          BY <1>1, <2>1, <2>3, <3>1 DEF MaySend
    <3> QED BY <2>2, <3>1
  <2> QED BY <1>2, <2>1, <2>2, <2>3
<1>4. SentInv'
  <2> SUFFICES ASSUME NEW h \in Hosts, NEW r \in queue'[h] \cup offered'[h]
               PROVE  MaySend(r, h)'
      BY DEF SentInv
  <2>1. MaySend(r, h) /\ r \in Rollouts
        BY DEF Forward, Inv, SentInv, TypeOK
  <2>2. /\ rollouts'[r].wave = rollouts[r].wave
        /\ rollouts'[r].st = "Absent" <=> rollouts[r].st = "Absent"
        BY <1>a, <2>1 DEF RowForward
  <2> QED BY <1>2, <2>1, <2>2 DEF MaySend, Present, HostSet
<1>5. HostEdgeOrder'
  <2> SUFFICES ASSUME NEW r \in Rollouts, NEW g \in HostSet(r), NEW h \in HostSet(r),
                      <<g, h>> \in HostEdges, rollouts'[r].st # "Absent",
                      hrr'[r][h].st # "Pending"
               PROVE  Past(hrr'[r][g])
      BY DEF HostEdgeOrder, HostSet, Past
  <2>1. rollouts[r].st # "Absent" /\ h \in Hosts
        BY <1>a DEF RowForward, HostSet
  <2>2. CASE hrr[r][h].st = "Pending"
        BY <1>1, <1>2, <2>1, <2>2 DEF MaySend
  <2>3. CASE hrr[r][h].st # "Pending"
        BY <1>2, <2>1, <2>3 DEF Inv, HostEdgeOrder
  <2> QED BY <2>2, <2>3
<1>6. TerminalIsConverged'
  <2> SUFFICES ASSUME NEW r \in Rollouts, rollouts'[r].terminal, NEW h \in joined[r]
               PROVE  hrr'[r][h].st = "Converged"
      BY DEF TerminalIsConverged, Forward
  <2>1. CASE rollouts[r].terminal
    <3>1. hrr[r][h].st = "Converged" /\ h \in Hosts
          BY <2>1 DEF Inv, TerminalIsConverged, TypeOK
    <3> QED BY <1>b, <3>1 DEF RecordForward
  <2>2. CASE ~rollouts[r].terminal
        BY <1>a, <2>2 DEF RowForward
  <2> QED BY <2>1, <2>2
<1>7. OneLiveRollout'
      BY <1>a DEF Inv, OneLiveRollout, RowForward
<1>8. JoinedInv'
      BY <1>a DEF Inv, JoinedInv, Forward, RowForward, Present, HostSet
<1> QED BY <1>3, <1>4, <1>5, <1>6, <1>7, <1>8 DEF Inv

\* run_plan keeps the invariant.
LEMMA ReplannedInv ==
    ASSUME Inv, TypeOK', Replanned
    PROVE  Inv'
<1> USE TopologyAssumption
<1>1. \A r \in Rollouts : Opened(r) \/ Kept(r)
      BY DEF Replanned
<1>2. \A r \in Rollouts : \A h \in Hosts :
         Opened(r) => hrr'[r][h].st = "Pending"
      BY FreshType DEF Opened
<1>3. \A r \in Rollouts : rollouts[r].wave \in Nat
      BY DEF Inv, TypeOK, RolloutRow
<1>4. CursorInv'
  <2> SUFFICES ASSUME NEW r \in Rollouts, NEW h \in HostSet(r),
                      Present(r)', NumWaves[ChannelOf[r]] > 0
               PROVE  /\ WaveOf[h] # Unstaged /\ WaveOf[h] < rollouts'[r].wave =>
                            Past(hrr'[r][h])
                      /\ hrr'[r][h].st # "Pending" =>
                            WaveOf[h] # Unstaged /\ WaveOf[h] <= rollouts'[r].wave
      BY DEF CursorInv, HostSet
  <2>1. h \in Hosts /\ HostChannel[h] = ChannelOf[r]
        BY DEF HostSet
  <2>2. WaveOf[h] \in Nat \cup {Unstaged}
        BY <2>1
  <2>3. CASE Opened(r)
        BY <1>2, <2>1, <2>2, <2>3 DEF Opened
  <2>4. CASE Kept(r)
    <3>1. /\ WaveOf[h] # Unstaged /\ WaveOf[h] < rollouts[r].wave =>
                Past(hrr[r][h])
          /\ hrr[r][h].st # "Pending" =>
                WaveOf[h] # Unstaged /\ WaveOf[h] <= rollouts[r].wave
          BY <2>4 DEF Inv, CursorInv, Kept, Present
    <3>2. WaveOf[h] = rollouts[r].wave /\ rollouts'[r].wave # rollouts[r].wave =>
             Past(hrr[r][h])
          BY <2>1, <2>4 DEF Kept, WaveHosts
    <3>3. hrr'[r] = hrr[r] /\ rollouts'[r].wave \in
             {rollouts[r].wave, rollouts[r].wave + 1}
          BY <2>4 DEF Kept
    <3>4. rollouts[r].wave \in Nat /\ WaveOf[h] \in Int
          BY <1>3, <2>2 DEF Unstaged
    <3>5. WaveOf[h] < rollouts'[r].wave =>
             \/ WaveOf[h] < rollouts[r].wave
             \/ /\ WaveOf[h] = rollouts[r].wave
                /\ rollouts'[r].wave # rollouts[r].wave
      <4>1. CASE rollouts'[r].wave = rollouts[r].wave
            BY <4>1
      <4>2. CASE rollouts'[r].wave = rollouts[r].wave + 1
        <5>1. \A w \in Int, n \in Nat : w < n + 1 => w < n \/ (w = n /\ n + 1 # n)
              OBVIOUS
        <5> QED BY <3>4, <4>2, <5>1
      <4> QED BY <3>3, <4>1, <4>2
    <3>6. WaveOf[h] <= rollouts[r].wave => WaveOf[h] <= rollouts'[r].wave
          BY <3>3, <3>4
    <3> QED BY <3>1, <3>2, <3>3, <3>5, <3>6
  <2> QED BY <1>1, <2>3, <2>4
<1>5. SentInv'
  <2> SUFFICES ASSUME NEW h \in Hosts, NEW r \in queue'[h] \cup offered'[h]
               PROVE  MaySend(r, h)'
      BY DEF SentInv
  <2>1. CASE r \notin queue[h] \cup offered[h]
        BY <2>1 DEF Replanned
  <2>2. CASE r \in queue[h] \cup offered[h]
    <3>1. MaySend(r, h) /\ r \in Rollouts
          BY <2>2 DEF Inv, SentInv, TypeOK
    <3>2. Kept(r)
          BY <1>1, <3>1 DEF Opened, MaySend, Present
    <3>3. /\ hrr'[r] = hrr[r]
          /\ rollouts'[r].st # "Absent"
          /\ rollouts'[r].wave \in {rollouts[r].wave, rollouts[r].wave + 1}
          BY <3>1, <3>2 DEF Kept, MaySend, Present
    <3>4. NumWaves[ChannelOf[r]] > 0 =>
             WaveOf[h] # Unstaged /\ WaveOf[h] <= rollouts'[r].wave
          BY <1>3, <3>1, <3>3 DEF MaySend, Unstaged
    <3> QED BY <3>1, <3>3, <3>4 DEF MaySend, Present, HostSet
  <2> QED BY <2>1, <2>2
<1>6. HostEdgeOrder'
  <2> SUFFICES ASSUME NEW r \in Rollouts, NEW g \in HostSet(r), NEW h \in HostSet(r),
                      <<g, h>> \in HostEdges, rollouts'[r].st # "Absent",
                      hrr'[r][h].st # "Pending"
               PROVE  Past(hrr'[r][g])
      BY DEF HostEdgeOrder, HostSet, Past
  <2>1. Kept(r)
        BY <1>1, <1>2 DEF HostSet
  <2> QED BY <2>1 DEF Kept, Inv, HostEdgeOrder
<1>7. TerminalIsConverged'
  <2> SUFFICES ASSUME NEW r \in Rollouts, rollouts'[r].terminal, NEW h \in joined'[r]
               PROVE  hrr'[r][h].st = "Converged"
      BY DEF TerminalIsConverged
  <2>1. Kept(r)
        BY <1>1 DEF Opened
  <2> QED BY <2>1 DEF Kept, Inv, TerminalIsConverged
<1>8. OneLiveRollout'
  <2> SUFFICES ASSUME NEW r \in Rollouts, NEW q \in Rollouts,
                      ChannelOf[r] = ChannelOf[q],
                      rollouts'[r].st \in Started, rollouts'[q].st \in Started
               PROVE  r = q
      BY DEF OneLiveRollout
  <2>1. CASE Opened(r) \/ Opened(q)
        BY <2>1 DEF Opened
  <2>2. CASE Kept(r) /\ Kept(q)
        BY <2>2 DEF Kept, Inv, OneLiveRollout
  <2> QED BY <1>1, <2>1, <2>2
<1>9. JoinedInv'
  <2> SUFFICES ASSUME NEW r \in Rollouts
               PROVE  /\ joined'[r] \subseteq HostSet(r)
                      /\ joined'[r] # {} => Present(r)'
      BY DEF JoinedInv, HostSet
  <2>1. CASE Opened(r)
        BY <2>1 DEF Opened, Present
  <2>2. CASE Kept(r)
        BY <2>2 DEF Kept, Present, Inv, JoinedInv
  <2> QED BY <1>1, <2>1, <2>2
<1> QED BY <1>4, <1>5, <1>6, <1>7, <1>8, <1>9 DEF Inv

\* Deleting a closed rollout nobody has a dispatch of keeps the invariant.
LEMMA PruneInv ==
    ASSUME Inv, NEW r \in Rollouts, Prune(r)
    PROVE  Inv'
<1> USE TopologyAssumption
<1>1. /\ rollouts' = [rollouts EXCEPT ![r] = NoRow]
      /\ joined' = [joined EXCEPT ![r] = {}]
      /\ hrr' = [hrr EXCEPT ![r] = FreshRecords(r)]
      /\ offered' = [h \in Hosts |-> offered[h] \ {r}]
      /\ UNCHANGED <<cacheVars, queue, quarantined, failures, ran, running>>
      /\ \A h \in Hosts : r \notin queue[h]
      BY DEF Prune
<1>2. NoRow \in RolloutRow /\ NoRow.st = "Absent" /\ ~NoRow.terminal
      BY DEF NoRow, RolloutRow, RolloutStates
<1>3. TypeOK'
  <2>1. rollouts' \in [Rollouts -> RolloutRow]
        BY <1>1, <1>2 DEF Inv, TypeOK
  <2>2. hrr' \in [Rollouts -> [Hosts -> HostRecord]]
        BY <1>1, FreshType DEF Inv, TypeOK
  <2> QED BY <1>1, <2>1, <2>2
          DEF Inv, TypeOK, cacheVars, ManifestSets
<1>4. \A q \in Rollouts :
         \/ q = r /\ rollouts'[q] = NoRow /\ joined'[q] = {}
         \/ /\ q # r
            /\ rollouts'[q] = rollouts[q]
            /\ joined'[q] = joined[q]
            /\ hrr'[q] = hrr[q]
      BY <1>1 DEF Inv, TypeOK
<1>5. CursorInv'
  <2> SUFFICES ASSUME NEW q \in Rollouts, NEW h \in HostSet(q),
                      Present(q)', NumWaves[ChannelOf[q]] > 0
               PROVE  /\ WaveOf[h] # Unstaged /\ WaveOf[h] < rollouts'[q].wave =>
                            Past(hrr'[q][h])
                      /\ hrr'[q][h].st # "Pending" =>
                            WaveOf[h] # Unstaged /\ WaveOf[h] <= rollouts'[q].wave
      BY DEF CursorInv, HostSet
  <2>1. Present(q) /\ rollouts'[q] = rollouts[q] /\ hrr'[q] = hrr[q]
        BY <1>2, <1>4 DEF Present
  <2> QED BY <2>1 DEF Inv, CursorInv
<1>6. SentInv'
  <2> SUFFICES ASSUME NEW h \in Hosts, NEW q \in queue'[h] \cup offered'[h]
               PROVE  MaySend(q, h)'
      BY DEF SentInv
  <2>1. MaySend(q, h) /\ q \in Rollouts /\ q # r
        BY <1>1 DEF Inv, SentInv, TypeOK
  <2>2. rollouts'[q] = rollouts[q] /\ hrr'[q] = hrr[q]
        BY <1>4, <2>1
  <2> QED BY <2>1, <2>2 DEF MaySend, Present, HostSet
<1>7. HostEdgeOrder'
  <2> SUFFICES ASSUME NEW q \in Rollouts, NEW g \in HostSet(q), NEW h \in HostSet(q),
                      <<g, h>> \in HostEdges, rollouts'[q].st # "Absent",
                      hrr'[q][h].st # "Pending"
               PROVE  Past(hrr'[q][g])
      BY DEF HostEdgeOrder, HostSet, Past
  <2>1. rollouts'[q] = rollouts[q] /\ hrr'[q] = hrr[q]
        BY <1>2, <1>4
  <2> QED BY <2>1 DEF Inv, HostEdgeOrder
<1>8. TerminalIsConverged'
  <2> SUFFICES ASSUME NEW q \in Rollouts, rollouts'[q].terminal, NEW h \in joined'[q]
               PROVE  hrr'[q][h].st = "Converged"
      BY DEF TerminalIsConverged
  <2>1. rollouts'[q] = rollouts[q] /\ hrr'[q] = hrr[q] /\ joined'[q] = joined[q]
        BY <1>2, <1>4
  <2> QED BY <2>1 DEF Inv, TerminalIsConverged
<1>9. OneLiveRollout'
  <2>1. \A q \in Rollouts : rollouts'[q].st \in Started => rollouts'[q] = rollouts[q]
        BY <1>2, <1>4 DEF Started, Live
  <2> QED BY <2>1 DEF Inv, OneLiveRollout
<1>10. JoinedInv'
      BY <1>4 DEF Inv, JoinedInv, Present, HostSet
<1> QED BY <1>3, <1>5, <1>6, <1>7, <1>8, <1>9, <1>10 DEF Inv

\* A restart and a stuttering step leave every table alone.
LEMMA QuietInv ==
    ASSUME Inv, Restart \/ UNCHANGED vars
    PROVE  Inv'
<1>0. primed' \in BOOLEAN /\ manifest' \in ManifestSets
      BY CacheType DEF Inv, Restart, vars
<1>1. /\ UNCHANGED <<rollouts, joined, hrr, queue, offered>>
      /\ TypeOK'
      BY <1>0 DEF Inv, Restart, TypeOK, vars, dbVars, hostVars, ManifestSets
<1>2. Forward
      BY <1>1, QuietForward DEF Inv
<1> QED BY <1>1, <1>2, ForwardInv

\* What any step does: it moves records forward, re-plans, or prunes.
LEMMA StepCases ==
    ASSUME TypeOK, JoinedInv, Next
    PROVE  \/ TypeOK' /\ Forward
           \/ TypeOK' /\ Replanned
           \/ \E r \in Rollouts : Prune(r)
           \/ Restart
<1>1. CASE PlanTick
  <2>1. manifest \in ManifestSets
        BY DEF TypeOK
  <2>2. CASE RunPlan(manifest) /\ UNCHANGED cacheVars
        BY <2>1, <2>2, CacheType, PlanForward
  <2>3. CASE InterruptedPlan(manifest)
        BY <2>1, <2>3, InterruptedForward
  <2> QED BY <1>1, <2>2, <2>3 DEF PlanTick
<1>2. CASE \E m \in ManifestSets : ManifestSetUpdated(m)
  <2>1. PICK m \in ManifestSets : ManifestSetUpdated(m)
        BY <1>2
  <2>2. CASE primed' = TRUE /\ manifest' = m /\ RunPlan(m)
    <3>1. primed' \in BOOLEAN /\ manifest' \in ManifestSets
          BY <2>1, <2>2 DEF ManifestSets
    <3> QED BY <2>1, <2>2, <3>1, PlanForward
  <2>3. CASE InterruptedPlan(m)
        BY <2>1, <2>3, InterruptedForward
  <2> QED BY <2>1, <2>2, <2>3 DEF ManifestSetUpdated
<1>3. CASE \E r \in Rollouts, h \in Hosts : HostNext(r, h)
      BY <1>3, HostForward
<1>4. CASE \E h \in Hosts : Heartbeat(h)
      BY <1>4, HeartbeatForward
<1> QED BY <1>1, <1>2, <1>3, <1>4 DEF Next

\* Every step of the control plane and its hosts keeps the invariant.
LEMMA NextInv == Inv /\ [Next]_vars => Inv'
<1> SUFFICES ASSUME Inv, [Next]_vars PROVE Inv'
    OBVIOUS
<1>1. TypeOK /\ JoinedInv
      BY DEF Inv
<1>2. CASE Next
      BY <1>1, <1>2, StepCases, ForwardInv, ReplannedInv, PruneInv, QuietInv
<1>3. CASE UNCHANGED vars
      BY <1>3, QuietInv
<1> QED BY <1>2, <1>3

\* A host that has left Pending was at most in the cursor's wave, and every
\* host of an earlier wave is past activation.
LEMMA InvWaveOrder == Inv => WaveOrder
<1> SUFFICES ASSUME Inv, NEW r \in Rollouts, NEW h \in HostSet(r), NEW g \in HostSet(r),
                    NumWaves[ChannelOf[r]] > 0, rollouts[r].st # "Absent",
                    hrr[r][h].st # "Pending",
                    WaveOf[g] # Unstaged, WaveOf[g] < WaveOf[h]
             PROVE  Past(hrr[r][g])
    BY DEF WaveOrder
<1>1. WaveOf[h] <= rollouts[r].wave
      BY DEF Inv, CursorInv, Present
<1>2. /\ WaveOf[g] \in Int
      /\ WaveOf[h] \in Int
      /\ rollouts[r].wave \in Int
      BY TopologyAssumption DEF Inv, TypeOK, RolloutRow, HostSet, Unstaged
<1>3. WaveOf[g] < rollouts[r].wave
      BY <1>1, <1>2
<1> QED BY <1>3 DEF Inv, CursorInv, Present

-----------------------------------------------------------------------------
(* The theorems. *)

\* The tables, the queue and the hosts always have their types: no handler of
\* the control plane writes a state a reader would not understand.
THEOREM TypeCorrect == Spec => []TypeOK
<1>1. Inv => TypeOK
      BY DEF Inv
<1> QED BY <1>1, InitInv, NextInv, PTL DEF Spec

\* Staged promotion for any fleet: no host is activated before every host of
\* the earlier waves is past activation (wave_promotion.rs,
\* advance_current_waves).
THEOREM StagedPromotion == Spec => []WaveOrder
  BY InitInv, NextInv, InvWaveOrder, PTL DEF Spec

\* Host edges hold for any fleet: no host is activated before the hosts that
\* gate it are past activation (host_edges.rs).
THEOREM HostEdgesHold == Spec => []HostEdgeOrder
<1>1. Inv => HostEdgeOrder
      BY DEF Inv
<1> QED BY <1>1, InitInv, NextInv, PTL DEF Spec

\* A rollout whose terminal_at is set has only Converged hosts, and they stay
\* so (process_rollout_event, handle_host_event, handle_heartbeat).
THEOREM TerminalHolds == Spec => []TerminalIsConverged
<1>1. Inv => TerminalIsConverged
      BY DEF Inv
<1> QED BY <1>1, InitInv, NextInv, PTL DEF Spec

\* A channel never has two rollouts that hosts have joined and that are not
\* superseded (open_rollout).
THEOREM OneRolloutLives == Spec => []OneLiveRollout
<1>1. Inv => OneLiveRollout
      BY DEF Inv
<1> QED BY <1>1, InitInv, NextInv, PTL DEF Spec

\* No re-plan, heartbeat or late report puts a host that was acknowledged back
\* to Pending while its rollout has a row (plan_next).
THEOREM NeverClobbered == Spec => NoClobber
<1> DEFINE Kind(r, h) ==
              /\ rollouts[r].st # "Absent"
              /\ rollouts'[r].st # "Absent"
              /\ hrr[r][h].st # "Pending"
              => hrr'[r][h].st # "Pending"
<1>1. ASSUME Inv, Next, NEW r \in Rollouts, NEW h \in Hosts
      PROVE  Kind(r, h)
  <2>1. TypeOK /\ JoinedInv
        BY <1>1 DEF Inv
  <2>2. CASE Forward
        BY <2>2 DEF Forward, RecordForward
  <2>3. CASE Replanned
        BY <2>3 DEF Replanned, Opened, Kept
  <2>4. CASE \E q \in Rollouts : Prune(q)
    <3>1. PICK q \in Rollouts : Prune(q)
          BY <2>4
    <3>2. CASE r = q
          BY <2>1, <3>1, <3>2 DEF Prune, TypeOK, NoRow
    <3>3. CASE r # q
          BY <2>1, <3>1, <3>3 DEF Prune, TypeOK
    <3> QED BY <3>2, <3>3
  <2>5. CASE Restart
        BY <2>5 DEF Restart, dbVars
  <2> QED BY <1>1, <2>1, <2>2, <2>3, <2>4, <2>5, StepCases
<1>2. Inv /\ [Next]_vars => [\A r \in Rollouts, h \in Hosts : Kind(r, h)]_vars
      BY <1>1
<1> QED BY <1>2, InitInv, NextInv, PTL DEF Spec, NoClobber

-----------------------------------------------------------------------------
(* Disruption budgets. *)

\* What plan_next promises of one budget that it dispatches under: the last
\* dispatch it adds still finds room for itself beside all the others.
LEMMA PlanWithinBudget ==
    ASSUME IsFiniteSet(Hosts), IsFiniteSet(Rollouts),
           NEW fs, NEW quarantines, NEW D \in PlanNext(fs, quarantines),
           NEW b \in Budgets, NEW p \in D, p[2] \in b.hosts
    PROVE  /\ IsFiniteSet({x \in D : x[2] \in b.hosts})
           /\ Cardinality(InFlight(fs, b))
                + Cardinality({x \in D : x[2] \in b.hosts}) <= b.max
           /\ Cardinality(InFlight(fs, b)) \in Nat /\ b.max \in Nat
<1> DEFINE S == {x \in D : x[2] \in b.hosts}
           T == {x \in D \ {p} : x[2] \in b.hosts}
<1>1. b.hosts \in SUBSET Hosts /\ b.max \in Nat
      BY TopologyAssumption
<1>2. D \subseteq Dispatchable(fs, quarantines)
      /\ BudgetGate(fs, p[1], p[2], D \ {p})
      BY DEF PlanNext
<1>3. D \in SUBSET (Rollouts \X Hosts) /\ p[1] \in Planned(fs)
      BY <1>2 DEF Dispatchable
<1>4. IsFiniteSet(Rollouts \X Hosts)
      BY FS_Product
<1>5. S \in SUBSET (Rollouts \X Hosts)
      BY <1>3
<1>6. IsFiniteSet(S)
      BY <1>4, <1>5, FS_Subset
<1>7. Cardinality(S) \in Nat
      BY <1>6, FS_CardinalityType
<1>8. InFlight(fs, b) \in SUBSET (Rollouts \X Hosts)
      BY <1>1 DEF InFlight, Planned
<1>9. IsFiniteSet(InFlight(fs, b))
      BY <1>4, <1>8, FS_Subset
<1>10. Cardinality(InFlight(fs, b)) \in Nat
      BY <1>9, FS_CardinalityType
<1>11. T = S \ {p} /\ p \in S
      OBVIOUS
<1>12. Cardinality(T) = Cardinality(S) - 1
      BY <1>6, <1>11, FS_RemoveElement
<1>13. Cardinality(InFlight(fs, b)) + Cardinality(T) < b.max
      BY <1>2, <1>3 DEF BudgetGate
<1> HIDE DEF S, T
<1>14. Cardinality(InFlight(fs, b)) + Cardinality(S) <= b.max
      BY <1>1, <1>7, <1>10, <1>12, <1>13
<1> QED BY <1>1, <1>6, <1>10, <1>14 DEF S

\* The plan is made after the wave cursors have moved, which no budget sees.
LEMMA RunPlanBudget ==
    ASSUME IsFiniteSet(Hosts), IsFiniteSet(Rollouts), TypeOK,
           NEW m \in ManifestSets, RunPlan(m), NEW b \in Budgets,
           QueuedUnder(b) # {}
    PROVE  Cardinality(InFlight(Fleet(m, rollouts, hrr), b))
             + Cardinality(QueuedUnder(b)) <= b.max
<1> DEFINE ro == AdvanceCurrentWaves(Fleet(m, rollouts, hrr))
           fs == Fleet(m, ro, hrr)
           seen == Fleet(m, rollouts, hrr)
<1>1. PICK D \in PlanNext(fs, CachedQuarantines) :
         queue' = [h \in Hosts |-> queue[h] \cup {r \in Rollouts : <<r, h>> \in D}]
      BY DEF RunPlan
<1>2. \A r \in Rollouts : ro[r].st = rollouts[r].st
      BY AdvanceWaves
<1>3. /\ fs.m = m /\ fs.ro = ro /\ fs.hs = hrr
      /\ seen.m = m /\ seen.ro = rollouts /\ seen.hs = hrr
      BY DEF Fleet
<1> HIDE DEF ro, fs, seen
<1>4. Planned(fs) = Planned(seen)
      BY <1>2, <1>3 DEF Planned
<1>5. InFlight(fs, b) = InFlight(seen, b)
      BY <1>3, <1>4 DEF InFlight
<1> DEFINE S == {x \in D : x[2] \in b.hosts}
<1>6. b.hosts \subseteq Hosts
      BY TopologyAssumption
<1>7. QueuedUnder(b) \in SUBSET S
  <2> SUFFICES ASSUME NEW p \in QueuedUnder(b) PROVE p \in S
      OBVIOUS
  <2>1. PICK r \in Rollouts, h \in b.hosts : p = <<r, h>> /\ NewlyQueued(r, h)
        BY DEF QueuedUnder
  <2>2. <<r, h>> \in D
        BY <1>1, <1>6, <2>1 DEF NewlyQueued
  <2> QED BY <2>1, <2>2
<1>8. PICK p \in D : p[2] \in b.hosts
      BY <1>7
<1>9. /\ IsFiniteSet(S)
      /\ Cardinality(InFlight(fs, b)) + Cardinality(S) <= b.max
      /\ Cardinality(InFlight(fs, b)) \in Nat /\ b.max \in Nat
      BY <1>8, PlanWithinBudget
<1> HIDE DEF S
<1>10. Cardinality(QueuedUnder(b)) <= Cardinality(S) /\ IsFiniteSet(QueuedUnder(b))
      BY <1>7, <1>9, FS_Subset
<1>11. Cardinality(QueuedUnder(b)) \in Nat /\ Cardinality(S) \in Nat
      BY <1>9, <1>10, FS_CardinalityType
<1>12. Cardinality(InFlight(fs, b)) + Cardinality(QueuedUnder(b)) <= b.max
      BY <1>9, <1>10, <1>11
<1> QED BY <1>5, <1>12 DEF seen

\* Only a whole run_plan adds rows to dispatch_queue.
LEMMA OnlyPlansQueue ==
    ASSUME TypeOK, [Next]_vars, NEW b \in Budgets, QueuedUnder(b) # {}
    PROVE  RunPlan(manifest') /\ manifest' \in ManifestSets
<1>1. PICK r \in Rollouts, h \in b.hosts : NewlyQueued(r, h)
      BY DEF QueuedUnder
<1>2. h \in Hosts
      BY TopologyAssumption
<1>3. ~(queue'[h] \subseteq queue[h])
      BY <1>1 DEF NewlyQueued
<1>4. \A m \in ManifestSets : ~InterruptedPlan(m)
  <2>1. \A m \in ManifestSets : InterruptedPlan(m) => queue' = queue
        BY Zenon DEF InterruptedPlan
  <2> QED BY <1>3, <2>1
<1>5. \A q \in Rollouts, g \in Hosts : ~HostNext(q, g)
  <2> SUFFICES ASSUME NEW q \in Rollouts, NEW g \in Hosts, HostNext(q, g) PROVE FALSE
      OBVIOUS
  <2>1. \A e : ~Delivered(q, g, e)
        BY <1>3 DEF Delivered, HandleHostEvent, InterruptedHostEvent, Recorded
  <2>2. ~TakeDispatch(q, g)
        BY <1>2, <1>3 DEF TakeDispatch, TypeOK
  <2>3. \A c : ~Runs(g, c)
        BY <1>3 DEF Runs, dbVars
  <2> QED BY <2>1, <2>2, <2>3, Zenon DEF HostNext, ReportDispatchAck, ReportActivationCompleted,
             ReportActivationDeferred, ReportActivationFailed, ReportProbeResult,
             ReportFailed, ReportConverged, ReportRollbackComplete, HostSwitches,
             HostRollsBack
<1>6. \A g \in Hosts : ~Heartbeat(g)
  <2>1. \A g \in Hosts : HandleHeartbeat(g) => queue' = queue
        BY DEF HandleHeartbeat
  <2>2. ASSUME NEW g \in Hosts, InterruptedHeartbeat(g) PROVE queue' = queue
    <3>1. UNCHANGED <<joined, queue, failures, hostVars>>
          BY <2>2, Zenon DEF InterruptedHeartbeat
    <3> QED BY <3>1
  <2> QED BY <1>3, <2>1, <2>2 DEF Heartbeat
<1>7. /\ \A q \in Rollouts : ~Prune(q)
      /\ ~Restart
      /\ ~UNCHANGED vars
      BY <1>3 DEF Prune, Restart, dbVars, vars
<1>8. manifest \in ManifestSets
      BY DEF TypeOK
<1>9. \/ PlanTick
      \/ \E m \in ManifestSets : ManifestSetUpdated(m)
      BY <1>5, <1>6, <1>7 DEF Next
<1>10. CASE PlanTick
      BY <1>4, <1>8, <1>10 DEF PlanTick, cacheVars
<1>11. CASE \E m \in ManifestSets : ManifestSetUpdated(m)
      BY <1>4, <1>11 DEF ManifestSetUpdated
<1> QED BY <1>9, <1>10, <1>11

\* No tick over-commits a disruption budget, in a fleet of any size: however
\* many hosts are Pending under it, what a tick queues and what it sees in
\* flight stay within max_in_flight (disruption_budget.rs, plan_next).
THEOREM BudgetKept ==
    ASSUME IsFiniteSet(Hosts), IsFiniteSet(Rollouts)
    PROVE  Spec => TickWithinBudget
<1> DEFINE Fits(b) ==
              QueuedUnder(b) # {} =>
                  Cardinality(InFlight(Fleet(manifest', rollouts, hrr), b))
                    + Cardinality(QueuedUnder(b)) <= b.max
<1>1. ASSUME Inv, [Next]_vars, NEW b \in Budgets
      PROVE  Fits(b)
  <2>1. TypeOK
        BY <1>1 DEF Inv
  <2> SUFFICES ASSUME QueuedUnder(b) # {}
               PROVE  Cardinality(InFlight(Fleet(manifest', rollouts, hrr), b))
                        + Cardinality(QueuedUnder(b)) <= b.max
      OBVIOUS
  <2>2. RunPlan(manifest') /\ manifest' \in ManifestSets
        BY <1>1, <2>1, OnlyPlansQueue
  <2> QED BY <2>1, <2>2, RunPlanBudget
<1>2. Inv /\ [Next]_vars => [\A b \in Budgets : Fits(b)]_vars
      BY <1>1
<1> QED BY <1>2, InitInv, NextInv, PTL DEF Spec, TickWithinBudget

-----------------------------------------------------------------------------
(* The control plane implements StagedDeployment. *)

\* A rollout without a row has no record that has left Pending.
AbsentInv ==
    \A r \in Rollouts : ~Present(r) => \A h \in Hosts : hrr[r][h].st = "Pending"

\* No record exists without its row: rows are opened with fresh records and
\* pruned with them (open_rollout, prune_finished_rollouts).
LEMMA AbsentHolds ==
    /\ Init => AbsentInv
    /\ Inv /\ AbsentInv /\ [Next]_vars => AbsentInv'
<1>1. Init => AbsentInv
      BY FreshType DEF Init, AbsentInv
<1>2. ASSUME Inv, AbsentInv, [Next]_vars PROVE AbsentInv'
  <2>1. TypeOK /\ JoinedInv
        BY <1>2 DEF Inv
  <2>2. CASE Forward
        BY <1>2, <2>1, <2>2 DEF Forward, RowForward, RecordForward, JoinedInv,
           AbsentInv, Present
  <2>3. CASE Replanned
        BY <1>2, <2>3 DEF Replanned, Opened, Kept, AbsentInv, Present
  <2>4. CASE \E q \in Rollouts : Prune(q)
    <3>1. PICK q \in Rollouts : Prune(q)
          BY <2>4
    <3>2. /\ hrr' = [hrr EXCEPT ![q] = FreshRecords(q)]
          /\ rollouts' = [rollouts EXCEPT ![q] = NoRow]
          BY <3>1 DEF Prune
    <3> QED BY <1>2, <2>1, <3>2, FreshType DEF TypeOK, AbsentInv, Present
  <2>5. CASE Restart \/ UNCHANGED vars
        BY <1>2, <2>5 DEF Restart, dbVars, vars, AbsentInv, Present
  <2> QED BY <1>2, <2>1, <2>2, <2>3, <2>4, <2>5, StepCases
<1> QED BY <1>1, <1>2

\* A host that leaves Pending finds every host staged before it past
\* activation: its dispatch was cleared, or the gates are (handle_heartbeat).
LEMMA StartsInOrder ==
    ASSUME Inv, NEW r \in Rollouts, NEW h \in Hosts, NEW g \in Hosts,
           h \in joined[r], r \in offered[h] \/ Cleared(manifest, rollouts, r, h),
           Staged(r, g, h)
    PROVE  Past(hrr[r][g])
<1> USE TopologyAssumption
<1>1. /\ g \in HostSet(r) /\ h \in HostSet(r)
      /\ Present(r)
      /\ WaveOf[g] \in Int /\ WaveOf[h] \in Int /\ rollouts[r].wave \in Nat
      /\ rollouts[r].st \in RolloutStates
      BY DEF Staged, Inv, JoinedInv, TypeOK, RolloutRow, Unstaged
<1>2. CASE r \in offered[h]
  <2>1. MaySend(r, h)
        BY <1>2 DEF Inv, SentInv
  <2>2. CASE <<g, h>> \in HostEdges
        BY <1>1, <2>1, <2>2 DEF MaySend
  <2>3. CASE /\ NumWaves[ChannelOf[r]] > 0
             /\ WaveOf[g] # Unstaged /\ WaveOf[g] < WaveOf[h]
    <3>1. WaveOf[h] <= rollouts[r].wave
          BY <2>1, <2>3 DEF MaySend
    <3>2. WaveOf[g] < rollouts[r].wave
          BY <1>1, <2>3, <3>1
    <3> QED BY <1>1, <2>3, <3>2 DEF Inv, CursorInv
  <2> QED BY <2>2, <2>3 DEF Staged
<1>3. CASE Cleared(manifest, rollouts, r, h)
  <2> DEFINE fs == Fleet(manifest, rollouts, hrr)
  <2>1. fs.ro = rollouts /\ fs.hs = hrr
        BY DEF Fleet
  <2>2. /\ WavePromotionGate(fs, r, h)
        /\ HostEdgesGate(fs, r, h)
        BY <1>3 DEF Cleared
  <2> HIDE DEF fs
  <2>3. CASE <<g, h>> \in HostEdges
    <3>1. OrderingEligible(hrr[r][g])
          BY <1>1, <2>1, <2>2, <2>3 DEF HostEdgesGate
    <3> QED BY <3>1 DEF OrderingEligible, Past
  <2>4. CASE /\ NumWaves[ChannelOf[r]] > 0
             /\ WaveOf[g] # Unstaged /\ WaveOf[g] < WaveOf[h]
    <3>1. WaveOf[h] <= rollouts[r].wave
          BY <1>1, <2>1, <2>2, <2>4 DEF WavePromotionGate
    <3>2. WaveOf[g] < rollouts[r].wave
          BY <1>1, <2>4, <3>1
    <3> QED BY <1>1, <2>4, <3>2 DEF Inv, CursorInv
  <2> QED BY <2>3, <2>4 DEF Staged
<1> QED BY <1>2, <1>3

\* Every step of the control plane is a step of the abstract deployment, for
\* every topology: the waves, edges, queue and heartbeats implement the order,
\* wherever the process crashes (runtime/reducer.rs, planner_gates).
THEOREM Implements == Spec => ImplementsDeployment
<1> DEFINE st == [r \in Rollouts |-> [h \in Hosts |-> StageOf(hrr[r][h])]]
           Waits(r) == [h \in Hosts |-> "waiting"]
<1>1. Init => Deployment!Init
  <2> SUFFICES ASSUME Init PROVE st = [r \in Rollouts |-> Waits(r)]
      BY DEF Deployment!Init, Deployment!Waiting
  <2>1. \A r \in Rollouts, h \in Hosts : StageOf(hrr[r][h]) = "waiting"
        BY FreshType DEF Init, StageOf
  <2> QED BY <2>1
<1>2. ASSUME Inv, AbsentInv, [Next]_vars PROVE [Deployment!Next]_st
  <2>1. TypeOK /\ JoinedInv
        BY <1>2 DEF Inv
  <2>a. ASSUME NEW s PROVE StageOf(s) \in {"waiting", "started", "done"}
        BY DEF StageOf
  <2>b. st' \in [Rollouts -> [Hosts -> {"waiting", "started", "done"}]]
        BY <2>a
  <2>2. CASE Forward
    <3>1. ASSUME NEW r \in Rollouts, NEW h \in Hosts
          PROVE  \/ st'[r][h] = st[r][h]
                 \/ /\ st[r][h] = "waiting"
                    /\ \A g \in Hosts : <<g, h>> \in StageOrder[r] => st[r][g] = "done"
                 \/ st[r][h] = "started" /\ st'[r][h] = "done"
      <4>0. RecordForward(r, h)
            BY <2>2 DEF Forward
      <4>1. CASE hrr'[r][h] = hrr[r][h]
            BY <4>1
      <4>2. CASE hrr'[r][h] # hrr[r][h] /\ hrr[r][h].st = "Pending"
        <5>1. h \in joined[r] /\ (r \in offered[h] \/ Cleared(manifest, rollouts, r, h))
              BY <4>0, <4>2 DEF RecordForward
        <5>2. ASSUME NEW g \in Hosts, <<g, h>> \in StageOrder[r] PROVE st[r][g] = "done"
          <6>1. Staged(r, g, h)
                BY <5>2 DEF StageOrder
          <6>2. Past(hrr[r][g])
                BY <1>2, <5>1, <6>1, StartsInOrder
          <6> QED BY <6>2 DEF Past, StageOf
        <5>3. st[r][h] = "waiting"
              BY <4>2 DEF StageOf
        <5> QED BY <5>2, <5>3
      <4>3. CASE hrr'[r][h] # hrr[r][h] /\ hrr[r][h].st # "Pending"
            BY <4>0, <4>3 DEF RecordForward, Past, StageOf
      <4> QED BY <4>1, <4>2, <4>3
    <3> QED BY <2>b, <3>1 DEF Deployment!Next, Deployment!Advance, Deployment!Advances,
                          Deployment!MayStart, Deployment!TypeOK, Deployment!Stages
  <2>3. CASE Replanned
    <3>1. ASSUME NEW r \in Rollouts, NEW h \in Hosts
          PROVE  StageOf(hrr'[r][h]) = StageOf(hrr[r][h])
      <4>1. CASE Opened(r)
        <5>1. hrr'[r][h].st = "Pending"
              BY <4>1, FreshType DEF Opened
        <5>2. hrr[r][h].st = "Pending"
              BY <1>2, <4>1 DEF Opened, AbsentInv, Present
        <5> QED BY <5>1, <5>2 DEF StageOf
      <4>2. CASE Kept(r)
            BY <4>2 DEF Kept
      <4> QED BY <2>3, <4>1, <4>2 DEF Replanned
    <3> QED BY <3>1
  <2>4. CASE \E q \in Rollouts : Prune(q)
    <3>1. PICK q \in Rollouts : Prune(q)
          BY <2>4
    <3>2. hrr' = [hrr EXCEPT ![q] = FreshRecords(q)]
          BY <3>1 DEF Prune
    <3>3. \A h \in Hosts : StageOf(hrr'[q][h]) = "waiting"
          BY <2>1, <3>2, FreshType DEF TypeOK, StageOf
    <3>4. \A r \in Rollouts : r # q => hrr'[r] = hrr[r]
          BY <2>1, <3>2 DEF TypeOK
    <3>5. st' = [st EXCEPT ![q] = Waits(q)]
          BY <3>3, <3>4
    <3> QED BY <3>5 DEF Deployment!Next, Deployment!Forget, Deployment!Waiting
  <2>5. CASE Restart \/ UNCHANGED vars
        BY <2>5 DEF Restart, dbVars, vars
  <2> QED BY <1>2, <2>1, <2>2, <2>3, <2>4, <2>5, StepCases
<1> HIDE DEF st
<1>3. Inv /\ AbsentInv /\ [Next]_vars => [Deployment!Next]_st
      BY <1>2
<1> QED BY <1>1, <1>3, InitInv, NextInv, AbsentHolds, PTL
        DEF Spec, ImplementsDeployment, Deployment!Spec, st
=============================================================================
