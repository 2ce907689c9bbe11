-------------------------------- MODULE Agent --------------------------------
(***************************************************************************)
(* One host's agent (crates/nixfleet-agent) and the control plane's record *)
(* of that host, for one rollout.  The agent's reducer runs the same       *)
(* step() as the control plane's on a copy of the record that lives in     *)
(* memory; its workers switch the system, run the probes, post the events  *)
(* of a durable queue and heartbeat.  Both processes crash at any point;   *)
(* requests and responses are lost; a detached switch unit outlives the    *)
(* agent that started it.                                                  *)
(*                                                                         *)
(* The reducer takes one input at a time from a channel; a worker's send   *)
(* and the reducer's handling of it are one step here, except for the      *)
(* snapshots of a heartbeat response, whose age matters.                   *)
(***************************************************************************)
EXTENDS HostRecovery, Sequences, FiniteSets

CONSTANTS Target,      \* the closure the rollout's manifest gives this host
          History,     \* generations of the system profile, the last one runs
          SoakDue,     \* soak_due_at
          FailAfter,   \* SUSTAINED_FAILURE_THRESHOLD_SECS
          IntentCapacity,  \* of the channel to the activation worker
          MaxTime,         \* bound of the clock
          MaxSeq,          \* bound of the agent's event counter
          MaxDispatches,   \* bound of the dispatch_queue rows ever inserted
          MaxFaults        \* bound of crashes, losses and refusals

ASSUME AgentAssumption ==
    /\ Target \in Closures
    /\ History \in Seq(Closures) /\ Len(History) > 0
    /\ {SoakDue, FailAfter, IntentCapacity, MaxTime, MaxSeq, MaxDispatches,
         MaxFaults} \subseteq Nat

VARIABLES
    now,
    faults,    \* how many of the bounded faults have happened
    \* the host: survives the agent's process
    gens,      \* generations of /nix/var/nix/profiles/system
    gen,       \* the one the profile points to
    running,   \* /run/current-system
    boot,      \* the bootloader's default entry
    units,     \* the closure each transient unit is switching to
    outbox,    \* files of the outbound queue
    rolled,    \* history: nix-env --rollback has been run
    \* the agent's process
    up,
    warm,      \* the reducer has a manifest set
    known,     \* host_states has an entry for the rollout
    mem,       \* and the entry
    memSeq,    \* its last_event_seq
    intents,   \* the applier's channel to the activation worker
    work,      \* where the activation worker is
    inbox,     \* a dispatch response on its way
    reply,     \* a heartbeat response on its way: {} or {[rec, seq]}
    \* the control plane
    primed,    \* its reducer has a manifest set
    rec,       \* the row of host_rollout_records
    recSeq,    \* its last_event_seq
    queued,    \* a dispatch_queue row for the host
    dispatches \* how many there have been

profileVars == <<gens, gen, rolled>>
systemVars  == <<running, boot, units>>
memVars     == <<known, mem, memSeq>>
cpVars      == <<primed, rec, recSeq, queued, dispatches>>
vars == <<now, faults, profileVars, systemVars, outbox, up, warm, memVars, intents,
          work, inbox, reply, cpVars>>

Units == {"switch", "rollback"}

Phases == {"idle", "refused", "realise", "fire", "poll", "rbFire", "rbPoll"}

\* A QueuedEvent; a file's name is its seq and its kind.
Queued == [seq : Nat, e : HostEvent]

SameFile(x, y) == x.seq = y.seq /\ x.e.kind = y.e.kind

\* Not the records of active_for_host.
Final(st) == st \in {"Converged", "Reverted"}

Snapshots == [rec : HostRecord, seq : Nat]

TypeOK ==
    /\ now \in 0..MaxTime
    /\ faults \in 0..MaxFaults /\ dispatches \in 0..MaxDispatches
    /\ gens \in Seq(Closures) /\ gen \in 1..Len(gens)
    /\ running \in Closures /\ boot \in Closures
    /\ units \in [Units -> MaybeClosure]
    /\ outbox \subseteq Queued
    /\ {rolled, up, warm, known, inbox, primed, queued} \subseteq BOOLEAN
    /\ mem \in HostRecord /\ memSeq \in Nat
    /\ intents \in Seq(Units)
    /\ work \in Phases
    /\ reply \subseteq Snapshots
    /\ rec \in HostRecord /\ recSeq \in Nat

Fresh == NewPending(Target, SoakDue)

\* The agent starts cold; the control plane has opened the rollout.
Init ==
    /\ now = 0 /\ faults = 0
    /\ gens = History /\ gen = Len(History) /\ rolled = FALSE
    /\ running = History[Len(History)] /\ boot = running
    /\ units = [u \in Units |-> NoClosure]
    /\ outbox = {}
    /\ up = FALSE /\ warm = FALSE
    /\ known = FALSE /\ mem = Fresh /\ memSeq = 0
    /\ intents = <<>> /\ work = "idle"
    /\ inbox = FALSE /\ reply = {}
    /\ primed = FALSE /\ rec = Fresh /\ recSeq = 0
    /\ queued = FALSE /\ dispatches = 0

\* The time stamps that decide something: failed_first_at and converged_at.
At(kind, closure) == [Event(kind, closure) EXCEPT !.at = now]

-----------------------------------------------------------------------------
(* The agent's reducer and applier. *)

\* enqueue: a file of the same name is replaced.
Enqueue(x) == {y \in outbox : ~SameFile(x, y)} \cup {x}

\* The intents an accepted event sends to the activation worker.
Fires(s, e) ==
    IF e.kind = "DispatchAck" THEN <<"switch">>
    ELSE IF FiresRollback(s, e) THEN <<"rollback">> ELSE <<>>

\* with_seq numbers the events it names; a LocalActivationDeferred falls into
\* its last arm and keeps the 0 the worker gave it.
WithSeq(e) == IF e.kind = "ActivationDeferred" THEN 0 ELSE memSeq + 1

\* An event before the first LocalActivate or before the manifests are cached,
\* and one that step() rejects, is dropped.
Reducible(e) ==
    /\ known \/ e.kind = "DispatchAck"
    /\ warm
    /\ WithSeq(e) > memSeq
    /\ Accepts(mem, e)

\* run_host_event on e, when the activation worker's channel holds q.
RunHostEvent(e, q) ==
    IF Reducible(e)
    THEN /\ memSeq < MaxSeq
         /\ Len(q \o Fires(mem, e)) <= IntentCapacity
         /\ known' = TRUE
         /\ mem' = Step(mem, e)
         /\ memSeq' = WithSeq(e)
         /\ outbox' = Enqueue([seq |-> WithSeq(e), e |-> e])
         /\ intents' = q \o Fires(mem, e)
    ELSE /\ intents' = q
         /\ UNCHANGED <<memVars, outbox>>

\* merge_snapshot_into_state: what the snapshot does not carry is kept.
Merge(s) ==
    [s EXCEPT !.probes    = IF known THEN mem.probes ELSE Fresh.probes,
              !.failFirst = IF known THEN mem.failFirst ELSE NoTime]

\* BootstrapHost: the record and its counter become the control plane's, as
\* they were when it answered the heartbeat.
Bootstrap(s) ==
    /\ known' = TRUE
    /\ mem' = Merge(s.rec)
    /\ memSeq' = s.seq

ManifestSetUpdated ==
    /\ up /\ ~warm
    /\ warm' = TRUE
    /\ UNCHANGED <<now, profileVars, systemVars, outbox, up, memVars, intents>>
    /\ UNCHANGED <<work, inbox, reply, cpVars>>

\* An input that only the reducer and the applier act on.
Reducer(e) ==
    /\ up
    /\ RunHostEvent(e, intents)
    /\ UNCHANGED <<now, profileVars, systemVars, up, warm, work, inbox>>
    /\ UNCHANGED <<reply, cpVars>>

SustainedFailure ==
    /\ mem.st = "Soaking"
    /\ mem.failFirst # NoTime /\ now - mem.failFirst >= FailAfter
    /\ FailingEnforceProbes(mem.probes) # {}

ReadyToConverge ==
    /\ mem.st = "Soaking"
    /\ now >= mem.soakDue
    /\ mem.current = mem.target
    /\ EnforceProbesPass(mem.probes)

\* run_advance_tick
AdvanceTick ==
    /\ known
    /\ \/ SustainedFailure /\ Reducer(Event("Failed", NoClosure))
       \/ ReadyToConverge /\ Reducer(At("Converged", mem.current))

\* A probe ticker, which every transition into Soaking and every snapshot
\* starts afresh.  Events that would only advance the counter are left out.
ProbeTicks(p) ==
    /\ known /\ mem.st = "Soaking"
    /\ \/ /\ mem.failFirst = NoTime
          /\ Reducer([At("ProbeFailureFirst", NoClosure) EXCEPT !.probe = p])
       \/ \E status \in {"Pass", "Fail"} \ {mem.probes[p]} :
            Reducer([Event("ProbeResult", NoClosure)
                        EXCEPT !.probe = p, !.status = status])

-----------------------------------------------------------------------------
(* The activation worker: handle_intent and the pipelines it drives. *)

LockHeld == \E u \in Units : units[u] # NoClosure

\* The worker moves on without an event.
WorkerAt(phase) ==
    /\ work' = phase
    /\ UNCHANGED <<now, outbox, up, warm, memVars, inbox, reply, cpVars>>

\* The worker reports e and takes its next intent.
WorkerReports(e, q) ==
    /\ RunHostEvent(e, q)
    /\ UNCHANGED <<now, up, warm, inbox, reply, cpVars>>

TakeSwitch ==
    /\ up /\ work = "idle"
    /\ intents # <<>> /\ Head(intents) = "switch"
    /\ WorkerReports(Event("ActivationStarted", NoClosure), Tail(intents))
    /\ work' = IF LockHeld THEN "refused" ELSE "realise"
    /\ UNCHANGED <<profileVars, systemVars>>

\* nix-env --set: a new generation, unless the newest one is the closure.
SetProfile ==
    /\ work = "realise"
    /\ gens' = IF gens[Len(gens)] = Target THEN gens ELSE Append(gens, Target)
    /\ gen' = Len(gens')
    /\ WorkerAt("fire")
    /\ UNCHANGED <<rolled, systemVars, intents>>

\* A component that cannot be swapped live: the bootloader is updated and the
\* switch is left to the next reboot.
DeferSwitch ==
    /\ work = "fire"
    /\ boot' = Target
    /\ work' = "idle"
    /\ WorkerReports(Event("ActivationDeferred", NoClosure), intents)
    /\ UNCHANGED <<profileVars, running, units>>

FireSwitch ==
    /\ work = "fire"
    /\ units["switch"] = NoClosure
    /\ units' = [units EXCEPT !["switch"] = Target]
    /\ WorkerAt("poll")
    /\ UNCHANGED <<profileVars, running, boot, intents>>

\* Mutant of SwitchSettled: the end of the poll is taken for success.
SwitchSettledUnverified ==
    /\ work = "poll"
    /\ work' = "idle"
    /\ WorkerReports(Event("ActivationCompleted", Target), intents)
    /\ UNCHANGED <<profileVars, systemVars>>

\* The poll has seen the target run; the profile already points to it, so
\* self_correct_profile leaves it.
SwitchSettled ==
    /\ work = "poll" /\ running = Target
    /\ work' = "idle"
    /\ WorkerReports(Event("ActivationCompleted", Target), intents)
    /\ UNCHANGED <<profileVars, systemVars>>

\* The poll's budget runs out, or it sees a third closure.
PollFailed ==
    \/ work = "poll" /\ running # Target
    \/ work = "rbPoll" /\ running # gens[gen]

\* Every failure of either pipeline is a LocalActivationFailed.
PipelineFails ==
    /\ work \in {"refused", "realise", "fire", "rbFire"} \/ PollFailed
    /\ work' = "idle"
    /\ WorkerReports(Event("ActivationFailed", NoClosure), intents)
    /\ UNCHANGED <<profileVars, systemVars>>

\* Mutant of TakeRollback: the profile's first generation is not noticed.
TakeRollbackUnchecked ==
    /\ up /\ work = "idle"
    /\ intents # <<>> /\ Head(intents) = "rollback"
    /\ gen' = gen - 1
    /\ rolled' = TRUE
    /\ intents' = Tail(intents)
    /\ WorkerAt("rbFire")
    /\ UNCHANGED <<gens, systemVars>>

\* nix-env --rollback: the generation before the current one, whatever closure
\* the intent names.
TakeRollback ==
    /\ up /\ work = "idle"
    /\ intents # <<>> /\ Head(intents) = "rollback"
    /\ \/ /\ gen > 1
          /\ gen' = gen - 1
          /\ rolled' = TRUE
          /\ intents' = Tail(intents)
          /\ WorkerAt("rbFire")
       \/ /\ work' = "idle"
          /\ WorkerReports(Event("ActivationFailed", NoClosure), Tail(intents))
          /\ UNCHANGED <<gen, rolled>>
    /\ UNCHANGED <<gens, systemVars>>

FireRollback ==
    /\ work = "rbFire"
    /\ units["rollback"] = NoClosure
    /\ units' = [units EXCEPT !["rollback"] = gens[gen]]
    /\ WorkerAt("rbPoll")
    /\ UNCHANGED <<profileVars, running, boot, intents>>

RollbackSettled ==
    /\ work = "rbPoll" /\ running = gens[gen]
    /\ work' = "idle"
    /\ WorkerReports(Event("RollbackComplete", running), intents)
    /\ UNCHANGED <<profileVars, systemVars>>

Worker ==
    \/ TakeSwitch \/ SetProfile \/ DeferSwitch \/ FireSwitch \/ SwitchSettled
    \/ TakeRollback \/ FireRollback \/ RollbackSettled \/ PipelineFails

-----------------------------------------------------------------------------
(* The host and the agent's process. *)

HostOnly ==
    UNCHANGED <<now, profileVars, outbox, cpVars>>

AgentUntouched ==
    UNCHANGED <<up, warm, memVars, intents, work, inbox, reply>>

\* A unit finishes its switch, or dies with the bootloader updated or not.
UnitEnds(u) ==
    /\ units[u] # NoClosure
    /\ units' = [units EXCEPT ![u] = NoClosure]
    /\ \/ running' = units[u] /\ boot' = units[u]
       \/ UNCHANGED running /\ boot' \in {boot, units[u]}
    /\ HostOnly /\ AgentUntouched

AgentGone ==
    /\ up' = FALSE /\ warm' = FALSE
    /\ known' = FALSE /\ mem' = Fresh /\ memSeq' = 0
    /\ intents' = <<>> /\ work' = "idle"
    /\ inbox' = FALSE /\ reply' = {}

\* The agent's process ends: a crash, or the switch restarting its unit.
Crash == up /\ AgentGone /\ HostOnly /\ UNCHANGED systemVars

Reboot ==
    /\ AgentGone /\ HostOnly
    /\ running' = boot
    /\ units' = [u \in Units |-> NoClosure]
    /\ UNCHANGED boot

Start ==
    /\ ~up
    /\ up' = TRUE
    /\ UNCHANGED <<warm, memVars, intents, work, inbox, reply>>
    /\ HostOnly /\ UNCHANGED systemVars

Tick ==
    /\ now < MaxTime
    /\ now' = now + 1
    /\ UNCHANGED <<profileVars, systemVars, outbox, cpVars>>
    /\ AgentUntouched

-----------------------------------------------------------------------------
(* Between the agent and the control plane. *)

Local == UNCHANGED <<now, profileVars, systemVars, up, warm, work>>

\* plan_next dispatches a Pending host; its gates are those of ControlPlane.
Plan ==
    /\ primed /\ rec.st = "Pending" /\ ~queued
    /\ dispatches < MaxDispatches
    /\ queued' = TRUE
    /\ dispatches' = dispatches + 1
    /\ Local
    /\ UNCHANGED <<outbox, memVars, intents, inbox, reply, primed, rec, recSeq>>

\* take_for_host deletes the row; the response may not arrive.
PollDispatch(arrives) ==
    /\ up /\ queued /\ ~inbox
    /\ queued' = FALSE
    /\ inbox' = arrives
    /\ Local
    /\ UNCHANGED <<outbox, memVars, intents, reply, primed, rec, recSeq, dispatches>>

\* handle_dispatch hands the dispatch to the reducer with the closure that runs
\* now, or refuses it: another host's, unverified or stale.
HandleDispatch(verified) ==
    /\ up /\ inbox
    /\ inbox' = FALSE
    /\ IF verified THEN RunHostEvent(Event("DispatchAck", running), intents)
                   ELSE UNCHANGED <<memVars, outbox, intents>>
    /\ Local
    /\ UNCHANGED <<reply, cpVars>>

\* The record and counter after the events synthesised for a heartbeat.
SynthSteps(g) ==
    IF SynthRecord(rec, running, g) = rec THEN 0
    ELSE IF rec.st = "Pending" THEN 3 ELSE 1

\* handle_heartbeat answers with the record, unless it is in a final state.
HandleHeartbeat(g) ==
    /\ rec' = IF primed THEN SynthRecord(rec, running, g) ELSE rec
    /\ recSeq' = IF primed THEN recSeq + SynthSteps(g) ELSE recSeq
    /\ Local
    /\ UNCHANGED <<outbox, intents, inbox, primed, queued, dispatches>>

Answer == IF Final(rec'.st) THEN {} ELSE {[rec |-> rec', seq |-> recSeq']}

\* heartbeat_once, and the handshake at the start.  One that overtakes reports
\* still in the queue is counted with the faults.
Heartbeat(g, overtakes) ==
    /\ up /\ reply = {}
    /\ overtakes = (outbox # {})
    /\ HandleHeartbeat(g)
    /\ IF Answer = {} THEN UNCHANGED memVars ELSE \E s \in Answer : Bootstrap(s)
    /\ UNCHANGED reply

\* The answer is lost, or it waits in the reducer's channel while other inputs
\* are handled.
SlowHeartbeat(g) ==
    /\ up /\ reply = {}
    /\ HandleHeartbeat(g)
    /\ reply' \in {{}, Answer}
    /\ UNCHANGED memVars

ApplySnapshot ==
    /\ up
    /\ \E s \in reply : Bootstrap(s)
    /\ reply' = {}
    /\ Local
    /\ UNCHANGED <<outbox, intents, inbox, cpVars>>

\* The control plane ends in the middle of the chain for a Pending record.
HeartbeatInterrupted ==
    /\ up /\ reply = {} /\ primed
    /\ rec.st = "Pending" /\ rec.target = running
    /\ \/ rec' = SynthAck(rec) /\ recSeq' = recSeq + 1
       \/ rec' = SynthComplete(SynthAck(rec), running) /\ recSeq' = recSeq + 2
    /\ primed' = FALSE
    /\ Local
    /\ UNCHANGED <<outbox, memVars, intents, inbox, reply, queued, dispatches>>

\* drain_once posts in the order of seq; scan_pending keeps one of the files that
\* share a seq.  A file written during a drain waits for the next scan, which
\* the model has before every post.
NextToPost(x) == x \in outbox /\ \A y \in outbox : x.seq <= y.seq

\* mark_sent, after a 2xx answer.
MarkSent(x) == outbox' = outbox \ {x}

\* The events route and handle_host_event; a response that is lost ends the
\* drain and leaves the file.
PostEvent(x, answered) ==
    /\ up /\ NextToPost(x)
    /\ IF x.seq > recSeq /\ primed /\ Accepts(rec, x.e)
       THEN rec' = Step(rec, x.e) /\ recSeq' = x.seq
       ELSE UNCHANGED <<rec, recSeq>>
    /\ IF answered THEN MarkSent(x) ELSE UNCHANGED outbox
    /\ Local
    /\ UNCHANGED <<memVars, intents, inbox, reply, primed, queued, dispatches>>

\* The route has answered 204 and the control plane ends before its reducer
\* takes the event from its channel.
PostLost(x) ==
    /\ up /\ NextToPost(x)
    /\ MarkSent(x)
    /\ primed' = FALSE
    /\ Local
    /\ UNCHANGED <<memVars, intents, inbox, reply>>
    /\ UNCHANGED <<rec, recSeq, queued, dispatches>>

\* The control plane restarts, and later verifies its first manifest set.
Reprime(ready) ==
    /\ primed' = ready
    /\ primed # ready
    /\ Local
    /\ UNCHANGED <<outbox, memVars, intents, inbox, reply>>
    /\ UNCHANGED <<rec, recSeq, queued, dispatches>>

Link ==
    \/ Plan \/ PollDispatch(TRUE) \/ HandleDispatch(TRUE)
    \/ \E g \in BOOLEAN : Heartbeat(g, FALSE)
    \/ ApplySnapshot \/ Reprime(TRUE)
    \/ \E x \in outbox : PostEvent(x, TRUE)

Fault ==
    \/ PollDispatch(FALSE) \/ HandleDispatch(FALSE)
    \/ \E g \in BOOLEAN : Heartbeat(g, TRUE) \/ SlowHeartbeat(g)
    \/ HeartbeatInterrupted \/ Reprime(FALSE)
    \/ \E x \in outbox : PostEvent(x, FALSE) \/ PostLost(x)
    \/ Crash \/ Reboot

Steady ==
    \/ Worker \/ Link
    \/ AdvanceTick \/ ManifestSetUpdated
    \/ \E p \in Probes : ProbeTicks(p)
    \/ \E u \in Units : UnitEnds(u)
    \/ Start \/ Tick

Next ==
    \/ Steady /\ UNCHANGED faults
    \/ Fault /\ faults < MaxFaults /\ faults' = faults + 1

Spec == Init /\ [][Next]_vars

-----------------------------------------------------------------------------
(* Properties *)

\* The control plane shows a host as activated only if the host runs the
\* target or ran it and rolled back: neither a crash of either process, a
\* duplicated or reordered report, a stale snapshot nor a deferred switch makes
\* a record Soaking or Converged on a host that never left its old closure.
ActivatedIsReal ==
    rec.st \in {"Soaking", "Converged"} => running = Target \/ rolled

Stranded ==
    \/ rec.st \in {"Activating", "Deferred"} /\ running = rec.target
    \/ rec.st = "Failed" /\ running = rec.atDispatch

Fairness ==
    /\ WF_vars(\E g \in BOOLEAN : Heartbeat(g, FALSE) /\ UNCHANGED faults)
    /\ WF_vars(\E x \in outbox : PostEvent(x, TRUE) /\ UNCHANGED faults)
    /\ WF_vars(ApplySnapshot /\ UNCHANGED faults)

LiveSpec == Spec /\ Fairness

\* Boot recovery: once both processes stay up, a record that a lost report left
\* behind what the host runs is moved on by the heartbeats
\* (maybe_synthesize_recovery_completion), whatever else is lost or stale.
HeartbeatRecovers ==
    <>[](up /\ primed) => (Stranded ~> ~Stranded)
=============================================================================
