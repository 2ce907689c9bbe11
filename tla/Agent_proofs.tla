---------------------------- MODULE Agent_proofs ----------------------------
(***************************************************************************)
(* What the control plane's record of a host says of the host, for every   *)
(* set of closures and probes, generation history, policy and bound on     *)
(* faults: a record is Soaking or Converged only if the host entered the   *)
(* target.                                                                 *)
(***************************************************************************)
EXTENDS Agent, HostRecovery_proofs

-----------------------------------------------------------------------------
(* The events and records of the agent. *)

\* An event with a time stamp is well formed.
LEMMA TimedType ==
    ASSUME NEW k \in EventKinds, NEW c \in MaybeClosure, now \in Nat
    PROVE  /\ At(k, c) \in HostEvent
           /\ At(k, c).kind = k
<1>1. Event(k, c) \in HostEvent /\ Event(k, c).kind = k
      BY EventType
<1> QED BY <1>1 DEF At, HostEvent

\* The record of a host the rollout has not reached.
LEMMA FreshType == Fresh \in HostRecord /\ Fresh.target = Target /\ Fresh.st = "Pending"
  BY AgentAssumption DEF Fresh, NewPending, HostRecord, HostStates, MaybeClosure, Time

-----------------------------------------------------------------------------
(* The inductive invariant. *)

\* The host has entered the target for good, or has been rolled back.
Entered == rolled \/ (running = Target /\ boot = Target)

\* Only a unit that a rollback started can take the host off the target.
UnitsInv ==
    /\ units["switch"] \in {NoClosure, Target}
    /\ ~rolled => /\ units["rollback"] = NoClosure
                  /\ work \notin {"rbFire", "rbPoll"}

\* A host that runs the target will boot it too.
BootInv == running = Target => Entered

\* A report of a completed activation waits in the queue.
OutboxInv == \A x \in outbox : x.e.kind = "ActivationCompleted" => Entered

\* The control plane's record.
RecordInv ==
    /\ rec.target = Target
    /\ rec.st \in {"Soaking", "Converged"} => Entered

IInv == TypeOK /\ UnitsInv /\ BootInv /\ OutboxInv /\ RecordInv

\* TypeOK by the process whose state it is.
HostType ==
    /\ gens \in Seq(Closures) /\ gen \in 1..Len(gens)
    /\ running \in Closures /\ boot \in Closures
    /\ units \in [Units -> MaybeClosure]
    /\ rolled \in BOOLEAN

AgentType ==
    /\ outbox \subseteq Queued
    /\ up \in BOOLEAN /\ warm \in BOOLEAN /\ known \in BOOLEAN /\ inbox \in BOOLEAN
    /\ mem \in HostRecord /\ memSeq \in Nat
    /\ intents \in Seq(Units)
    /\ work \in Phases
    /\ reply \subseteq Snapshots

CpType ==
    /\ primed \in BOOLEAN /\ queued \in BOOLEAN
    /\ rec \in HostRecord /\ recSeq \in Nat
    /\ dispatches \in 0..MaxDispatches

ClockType == now \in 0..MaxTime /\ faults \in 0..MaxFaults

LEMMA TypeParts == TypeOK <=> HostType /\ AgentType /\ CpType /\ ClockType
  BY Zenon DEF TypeOK, HostType, AgentType, CpType, ClockType

LEMMA TypeNext == HostType' /\ AgentType' /\ CpType' /\ ClockType' => TypeOK'
  BY Zenon DEF TypeOK, HostType, AgentType, CpType, ClockType

\* Nothing an agent's step relies on changes on the host or the control plane.
SameHost == UNCHANGED <<gens, gen, rolled, running, boot, units>>
SameCp == UNCHANGED <<primed, rec, recSeq, queued, dispatches>>

LEMMA KeepsHost == HostType /\ SameHost => HostType'
  BY Zenon DEF HostType, SameHost

LEMMA KeepsCp == CpType /\ SameCp => CpType'
  BY Zenon DEF CpType, SameCp

-----------------------------------------------------------------------------
(* The agent's reducer. *)

\* run_host_event keeps the agent's types and adds at most its event to the
\* queue.
LEMMA RunType ==
    ASSUME AgentType, NEW e \in HostEvent, NEW q \in Seq(Units), RunHostEvent(e, q)
    PROVE  /\ known' \in BOOLEAN
           /\ mem' \in HostRecord /\ memSeq' \in Nat
           /\ intents' \in Seq(Units)
           /\ outbox' \subseteq Queued
           /\ \A x \in outbox' : x \in outbox \/ x.e = e
<1>1. known \in BOOLEAN
      BY DEF AgentType
<1>2. /\ mem \in HostRecord /\ memSeq \in Nat /\ outbox \subseteq Queued
      BY DEF AgentType
<1>3. known' \in BOOLEAN
      BY <1>1, Zenon DEF RunHostEvent, memVars
<1>4. Step(mem, e) \in HostRecord
      BY <1>2, StepType
<1>5. Fires(mem, e) \in Seq(Units)
  <2>1. <<"switch">> \in Seq(Units)
        BY DEF Units
  <2>2. <<"rollback">> \in Seq(Units)
        BY DEF Units
  <2>3. <<>> \in Seq(Units)
        OBVIOUS
  <2> QED BY <2>1, <2>2, <2>3, Zenon DEF Fires
<1>6. q \o Fires(mem, e) \in Seq(Units)
      BY <1>5
<1>7. WithSeq(e) \in Nat
      BY <1>2 DEF WithSeq
<1> DEFINE x == [seq |-> WithSeq(e), e |-> e]
<1>8. x \in Queued /\ x.e = e
      BY <1>7 DEF Queued
<1> HIDE DEF x
<1>9. CASE Reducible(e)
  <2>1. /\ mem' = Step(mem, e) /\ memSeq' = WithSeq(e)
        /\ intents' = q \o Fires(mem, e)
        /\ outbox' = Enqueue(x)
        BY <1>9 DEF RunHostEvent, x
  <2>2. \A y \in outbox' : y \in outbox \/ y = x
        BY <2>1 DEF Enqueue
  <2> QED BY <2>1, <2>2, <1>2, <1>3, <1>4, <1>6, <1>7, <1>8
<1>10. CASE ~Reducible(e)
       BY <1>10, <1>2, <1>3 DEF RunHostEvent, memVars
<1> QED BY <1>9, <1>10

\* What the reducer, given e, leaves of the invariant when the host's system
\* stays: the report of a completed activation must be true.
LEMMA ReducerInv ==
    ASSUME IInv, NEW e \in HostEvent, NEW q \in Seq(Units), RunHostEvent(e, q),
           e.kind = "ActivationCompleted" => Entered,
           Entered => Entered'
    PROVE  OutboxInv'
<1>1. AgentType /\ OutboxInv
      BY TypeParts DEF IInv
<1>2. \A x \in outbox' : x \in outbox \/ x.e = e
      BY <1>1, RunType
<1> QED BY <1>1, <1>2 DEF OutboxInv

\* The parts of the invariant that a step which leaves the host and the
\* control plane alone can disturb.
LEMMA AgentStep ==
    ASSUME IInv, SameHost, SameCp, AgentType', ClockType', OutboxInv',
           work' \in {"rbFire", "rbPoll"} => rolled
    PROVE  IInv'
<1>1. HostType /\ CpType
      BY TypeParts DEF IInv
<1>2. TypeOK'
      BY <1>1, KeepsHost, KeepsCp, TypeNext
<1>3. UnitsInv'
      BY DEF IInv, UnitsInv, SameHost
<1>4. BootInv' /\ RecordInv'
      BY DEF IInv, BootInv, RecordInv, Entered, SameHost, SameCp
<1> QED BY <1>2, <1>3, <1>4 DEF IInv

\* A step of the agent that runs the reducer once and touches nothing else but
\* the worker's phase and the dispatch on its way.
LEMMA ReducerStep ==
    ASSUME IInv, NEW e \in HostEvent, NEW q \in Seq(Units), RunHostEvent(e, q),
           e.kind = "ActivationCompleted" => Entered,
           SameHost, SameCp, UNCHANGED <<now, up, warm, reply>>,
           faults' \in 0..MaxFaults,
           inbox' \in BOOLEAN, work' \in Phases,
           work' \in {"rbFire", "rbPoll"} => rolled
    PROVE  IInv'
<1>1. AgentType /\ ClockType
      BY TypeParts DEF IInv
<1>2. /\ known' \in BOOLEAN
      /\ mem' \in HostRecord /\ memSeq' \in Nat
      /\ intents' \in Seq(Units)
      /\ outbox' \subseteq Queued
      BY <1>1, RunType
<1>3. AgentType'
      BY <1>1, <1>2, Zenon DEF AgentType
<1>4. ClockType'
      BY <1>1 DEF ClockType
<1>5. Entered => Entered'
      BY DEF Entered, SameHost
<1>6. OutboxInv'
      BY <1>5, ReducerInv
<1> QED BY <1>3, <1>4, <1>6, AgentStep

-----------------------------------------------------------------------------
(* The agent's inputs. *)

\* Policy resolution and the probes' tick: run_advance_tick, the probe tickers
\* and the first manifest set.
LEMMA InputInv ==
    ASSUME IInv, faults' \in 0..MaxFaults,
           \/ AdvanceTick \/ ManifestSetUpdated
           \/ \E p \in Probes : ProbeTicks(p)
    PROVE  IInv'
<1>1. AgentType /\ CpType /\ ClockType /\ HostType /\ OutboxInv /\ UnitsInv
      BY TypeParts DEF IInv
<1>2. now \in Nat
      BY <1>1, AgentAssumption DEF ClockType
<1>3. ASSUME NEW e \in HostEvent, Reducer(e), e.kind # "ActivationCompleted"
      PROVE  IInv'
  <2>1. /\ SameHost /\ SameCp /\ UNCHANGED <<now, up, warm, reply, inbox, work>>
        /\ RunHostEvent(e, intents)
        BY <1>3 DEF Reducer, SameHost, SameCp, profileVars, systemVars, cpVars
  <2>2. inbox' \in BOOLEAN
        BY <2>1, <1>1 DEF AgentType
  <2>3. work' \in Phases /\ intents \in Seq(Units)
        BY <2>1, <1>1 DEF AgentType
  <2>4. work' \in {"rbFire", "rbPoll"} => rolled
        BY <2>1, <1>1 DEF UnitsInv
  <2> QED BY <2>1, <2>2, <2>3, <2>4, <1>3, ReducerStep
<1>4. ASSUME AdvanceTick
      PROVE  IInv'
  <2>1. /\ NoClosure \in MaybeClosure /\ mem.current \in MaybeClosure
        /\ "Failed" \in EventKinds /\ "Converged" \in EventKinds
        BY <1>1 DEF MaybeClosure, AgentType, HostRecord, EventKinds
  <2>2. /\ Event("Failed", NoClosure) \in HostEvent
        /\ Event("Failed", NoClosure).kind # "ActivationCompleted"
        BY <2>1, EventType
  <2>3. /\ At("Converged", mem.current) \in HostEvent
        /\ At("Converged", mem.current).kind # "ActivationCompleted"
        BY <2>1, <1>2, TimedType
  <2>4. \/ Reducer(Event("Failed", NoClosure))
        \/ Reducer(At("Converged", mem.current))
        BY <1>4, Zenon DEF AdvanceTick
  <2> QED BY <2>2, <2>3, <2>4, <1>3
<1>5. ASSUME NEW p \in Probes, ProbeTicks(p)
      PROVE  IInv'
  <2>1. /\ NoClosure \in MaybeClosure
        /\ "ProbeFailureFirst" \in EventKinds /\ "ProbeResult" \in EventKinds
        BY DEF MaybeClosure, EventKinds
  <2> DEFINE ff == [At("ProbeFailureFirst", NoClosure) EXCEPT !.probe = p]
             pr(s) == [Event("ProbeResult", NoClosure) EXCEPT !.probe = p, !.status = s]
  <2>2. /\ At("ProbeFailureFirst", NoClosure) \in HostEvent
        /\ At("ProbeFailureFirst", NoClosure).kind = "ProbeFailureFirst"
        /\ Event("ProbeResult", NoClosure) \in HostEvent
        /\ Event("ProbeResult", NoClosure).kind = "ProbeResult"
        BY <2>1, <1>2, TimedType, EventType
  <2>3. ff \in HostEvent /\ ff.kind # "ActivationCompleted"
        BY <2>2 DEF HostEvent
  <2>4. \A s \in {"Pass", "Fail"} :
            pr(s) \in HostEvent /\ pr(s).kind # "ActivationCompleted"
        BY <2>2 DEF HostEvent
  <2>5. Reducer(ff) \/ \E s \in {"Pass", "Fail"} : Reducer(pr(s))
        BY <1>5, Zenon DEF ProbeTicks
  <2> HIDE DEF ff, pr
  <2> QED BY <2>3, <2>4, <2>5, <1>3
<1>6. ASSUME ManifestSetUpdated
      PROVE  IInv'
  <2>1. /\ SameHost /\ SameCp /\ warm' = TRUE
        /\ UNCHANGED <<now, up, reply, inbox, work, outbox, known, mem, memSeq, intents>>
        BY <1>6 DEF ManifestSetUpdated, SameHost, SameCp, profileVars, systemVars,
                    cpVars, memVars
  <2>2. AgentType'
        BY <2>1, <1>1, Zenon DEF AgentType
  <2>3. ClockType'
        BY <2>1, <1>1 DEF ClockType
  <2>4. OutboxInv'
        BY <2>1, <1>1 DEF OutboxInv, Entered, SameHost
  <2>5. work' \in {"rbFire", "rbPoll"} => rolled
        BY <2>1, <1>1 DEF UnitsInv
  <2> QED BY <2>1, <2>2, <2>3, <2>4, <2>5, AgentStep
<1> QED BY <1>4, <1>5, <1>6

-----------------------------------------------------------------------------
(* The activation worker. *)

\* A step of the worker that reports e and leaves the system as it is.
LEMMA ReportInv ==
    ASSUME IInv, faults' \in 0..MaxFaults,
           NEW e \in HostEvent, NEW q \in Seq(Units), WorkerReports(e, q),
           e.kind = "ActivationCompleted" => Entered,
           SameHost, work' \in Phases \ {"rbFire", "rbPoll"}
    PROVE  IInv'
<1>1. AgentType
      BY TypeParts DEF IInv
<1>2. /\ SameCp /\ UNCHANGED <<now, up, warm, reply, inbox>>
      /\ RunHostEvent(e, q)
      BY DEF WorkerReports, SameCp, cpVars
<1>3. inbox' \in BOOLEAN
      BY <1>1, <1>2 DEF AgentType
<1> QED BY <1>2, <1>3, ReducerStep

\* The worker moves on without a report: the queue and the record stay, so what
\* the step does to the host decides.
LEMMA MovesInv ==
    ASSUME IInv, faults' \in 0..MaxFaults, NEW phase \in Phases, WorkerAt(phase),
           intents' \in Seq(Units), HostType', UnitsInv', BootInv',
           Entered => Entered'
    PROVE  IInv'
<1>1. AgentType /\ CpType /\ ClockType /\ OutboxInv /\ RecordInv
      BY TypeParts DEF IInv
<1>2. /\ work' = phase /\ SameCp
      /\ UNCHANGED <<now, outbox, up, warm, known, mem, memSeq, inbox, reply>>
      BY DEF WorkerAt, SameCp, cpVars, memVars
<1>3. AgentType'
      BY <1>1, <1>2, Zenon DEF AgentType
<1>4. CpType'
      BY <1>1, <1>2, KeepsCp
<1>5. ClockType'
      BY <1>1, <1>2 DEF ClockType
<1>6. OutboxInv' /\ RecordInv'
      BY <1>1, <1>2 DEF OutboxInv, RecordInv, SameCp
<1>7. TypeOK'
      BY <1>3, <1>4, <1>5, TypeNext
<1> QED BY <1>6, <1>7 DEF IInv

\* Every step of the activation worker keeps the invariant; the poll has seen
\* the target run before it reports a completed activation.
LEMMA WorkerInv ==
    ASSUME IInv, faults' \in 0..MaxFaults, Worker
    PROVE  IInv'
<1>1. AgentType /\ HostType /\ UnitsInv /\ BootInv /\ OutboxInv
      BY TypeParts DEF IInv
<1>2. intents \in Seq(Units) /\ work \in Phases
      BY <1>1 DEF AgentType
<1>3. intents # <<>> => Tail(intents) \in Seq(Units)
      BY <1>2
<1>4. /\ gens \in Seq(Closures) /\ gen \in 1..Len(gens)
      /\ running \in Closures /\ boot \in Closures
      /\ units \in [Units -> MaybeClosure]
      BY <1>1 DEF HostType
<1>5. rolled \in BOOLEAN
      BY <1>1 DEF HostType
<1>6. ASSUME NEW k \in EventKinds, NEW c \in MaybeClosure
      PROVE  Event(k, c) \in HostEvent /\ Event(k, c).kind = k
      BY <1>6, EventType
<1>7. /\ NoClosure \in MaybeClosure /\ running \in MaybeClosure
      /\ Target \in MaybeClosure
      /\ {"ActivationStarted", "ActivationDeferred", "ActivationCompleted",
           "ActivationFailed", "RollbackComplete"} \subseteq EventKinds
      BY <1>4, AgentAssumption DEF MaybeClosure, EventKinds
<1>8. {"idle", "refused", "realise", "fire", "poll"} \subseteq Phases \ {"rbFire", "rbPoll"}
      BY DEF Phases
<1>9. ASSUME NEW k \in EventKinds, NEW c \in MaybeClosure, NEW q \in Seq(Units),
             WorkerReports(Event(k, c), q), SameHost,
             work' \in Phases \ {"rbFire", "rbPoll"},
             k = "ActivationCompleted" => Entered
      PROVE  IInv'
      BY <1>6, <1>9, ReportInv
<1>10. CASE TakeSwitch
  <2>1. /\ SameHost
        /\ WorkerReports(Event("ActivationStarted", NoClosure), Tail(intents))
        /\ intents # <<>>
        /\ work' \in {"refused", "realise"}
        BY <1>10 DEF TakeSwitch, SameHost, profileVars, systemVars
  <2> QED BY <2>1, <1>3, <1>7, <1>8, <1>9
<1>11. CASE SetProfile
  <2>1. /\ gens' = IF gens[Len(gens)] = Target THEN gens ELSE Append(gens, Target)
        /\ gen' = Len(gens')
        /\ WorkerAt("fire") /\ work' = "fire"
        /\ UNCHANGED <<rolled, running, boot, units, intents>>
        BY <1>11 DEF SetProfile, WorkerAt, systemVars
  <2>2. gens' \in Seq(Closures) /\ gen' \in 1..Len(gens')
        BY <2>1, <1>4, AgentAssumption
  <2>3. HostType'
        BY <2>1, <2>2, <1>4, <1>5, Zenon DEF HostType
  <2>4. UnitsInv' /\ BootInv' /\ (Entered => Entered')
        BY <2>1, <1>1 DEF UnitsInv, BootInv, Entered
  <2> QED BY <2>1, <2>3, <2>4, <1>2, <1>8, MovesInv
<1>12. CASE DeferSwitch
  <2>1. /\ boot' = Target /\ work' = "idle"
        /\ UNCHANGED <<gens, gen, rolled, running, units>>
        /\ WorkerReports(Event("ActivationDeferred", NoClosure), intents)
        BY <1>12 DEF DeferSwitch, profileVars
  <2> DEFINE e == Event("ActivationDeferred", NoClosure)
  <2>2. e \in HostEvent /\ e.kind = "ActivationDeferred"
        BY <1>6, <1>7
  <2> HIDE DEF e
  <2>3. /\ RunHostEvent(e, intents) /\ SameCp
        /\ UNCHANGED <<now, up, warm, inbox, reply>>
        BY <2>1 DEF WorkerReports, SameCp, cpVars, e
  <2>4. /\ known' \in BOOLEAN
        /\ mem' \in HostRecord /\ memSeq' \in Nat
        /\ intents' \in Seq(Units)
        /\ outbox' \subseteq Queued
        BY <2>2, <2>3, <1>1, <1>2, RunType
  <2>5. work' \in Phases
        BY <2>1, <1>8
  <2>6. AgentType'
        BY <2>3, <2>4, <2>5, <1>1, Zenon DEF AgentType
  <2>7. boot' \in Closures
        BY <2>1, AgentAssumption
  <2>8. HostType'
        BY <2>1, <2>7, <1>4, <1>5, Zenon DEF HostType
  <2>9. Entered => Entered'
        BY <2>1 DEF Entered
  <2>10. OutboxInv'
        BY <2>2, <2>3, <2>9, <1>2, ReducerInv
  <2>11. UnitsInv' /\ BootInv'
        BY <2>1, <1>1 DEF UnitsInv, BootInv, Entered
  <2>12. CpType /\ ClockType /\ RecordInv
        BY TypeParts DEF IInv
  <2>13. CpType' /\ ClockType' /\ RecordInv'
        BY <2>3, <2>9, <2>12, KeepsCp DEF ClockType, RecordInv, SameCp
  <2>14. TypeOK'
        BY <2>6, <2>8, <2>13, TypeNext
  <2> QED BY <2>10, <2>11, <2>13, <2>14 DEF IInv
<1>13. CASE FireSwitch
  <2>1. /\ units' = [units EXCEPT !["switch"] = Target]
        /\ WorkerAt("poll") /\ work' = "poll"
        /\ UNCHANGED <<gens, gen, rolled, running, boot, intents>>
        BY <1>13 DEF FireSwitch, WorkerAt, profileVars
  <2>2. units' \in [Units -> MaybeClosure]
        BY <2>1, <1>4, <1>7
  <2>3. HostType'
        BY <2>1, <2>2, <1>4, <1>5, Zenon DEF HostType
  <2>4. units'["switch"] = Target /\ units'["rollback"] = units["rollback"]
        BY <2>1, <1>4 DEF Units
  <2>5. UnitsInv' /\ BootInv' /\ (Entered => Entered')
        BY <2>1, <2>4, <1>1 DEF UnitsInv, BootInv, Entered
  <2> QED BY <2>1, <2>3, <2>5, <1>2, <1>8, MovesInv
<1>14. CASE SwitchSettled
  <2>1. /\ SameHost /\ running = Target /\ work' = "idle"
        /\ WorkerReports(Event("ActivationCompleted", Target), intents)
        BY <1>14 DEF SwitchSettled, SameHost, profileVars, systemVars
  <2>2. Entered
        BY <2>1, <1>1 DEF BootInv
  <2> QED BY <2>1, <2>2, <1>2, <1>7, <1>8, <1>9
<1>15. CASE TakeRollback
  <2>1. CASE WorkerAt("rbFire") /\ gen > 1 /\ gen' = gen - 1 /\ rolled' = TRUE
             /\ intents' = Tail(intents)
    <3>1. /\ UNCHANGED <<gens, running, boot, units>> /\ work' = "rbFire"
          /\ intents' \in Seq(Units)
          BY <2>1, <1>15, <1>3 DEF TakeRollback, systemVars, WorkerAt
    <3>2. gen' \in 1..Len(gens')
          BY <3>1, <2>1, <1>4
    <3>3. HostType'
          BY <3>1, <3>2, <2>1, <1>4, Zenon DEF HostType
    <3>4. UnitsInv' /\ BootInv' /\ Entered'
          BY <3>1, <2>1, <1>1 DEF UnitsInv, BootInv, Entered
    <3>5. "rbFire" \in Phases
          BY DEF Phases
    <3> QED BY <2>1, <3>1, <3>3, <3>4, <3>5, MovesInv
  <2>2. CASE /\ work' = "idle" /\ UNCHANGED <<gen, rolled>>
             /\ WorkerReports(Event("ActivationFailed", NoClosure), Tail(intents))
    <3>1. SameHost /\ intents # <<>>
          BY <2>2, <1>15 DEF TakeRollback, SameHost, systemVars
    <3> QED BY <3>1, <2>2, <1>3, <1>7, <1>8, <1>9
  <2> QED BY <2>1, <2>2, <1>15 DEF TakeRollback
<1>16. CASE FireRollback
  <2>1. /\ units' = [units EXCEPT !["rollback"] = gens[gen]]
        /\ WorkerAt("rbPoll") /\ work' = "rbPoll" /\ work = "rbFire"
        /\ UNCHANGED <<gens, gen, rolled, running, boot, intents>>
        BY <1>16 DEF FireRollback, WorkerAt, profileVars
  <2>2. gens[gen] \in MaybeClosure
        BY <1>4 DEF MaybeClosure
  <2>3. units' \in [Units -> MaybeClosure]
        BY <2>1, <2>2, <1>4
  <2>4. HostType'
        BY <2>1, <2>3, <1>4, <1>5, Zenon DEF HostType
  <2>5. units'["switch"] = units["switch"]
        BY <2>1, <1>4 DEF Units
  <2>6. UnitsInv' /\ BootInv' /\ (Entered => Entered')
        BY <2>1, <2>5, <1>1 DEF UnitsInv, BootInv, Entered
  <2>7. "rbPoll" \in Phases
        BY DEF Phases
  <2> QED BY <2>1, <2>4, <2>6, <2>7, <1>2, MovesInv
<1>17. CASE RollbackSettled
  <2>1. /\ SameHost /\ work' = "idle"
        /\ WorkerReports(Event("RollbackComplete", running), intents)
        BY <1>17 DEF RollbackSettled, SameHost, profileVars, systemVars
  <2> QED BY <2>1, <1>2, <1>7, <1>8, <1>9
<1>18. CASE PipelineFails
  <2>1. /\ SameHost /\ work' = "idle"
        /\ WorkerReports(Event("ActivationFailed", NoClosure), intents)
        BY <1>18 DEF PipelineFails, SameHost, profileVars, systemVars
  <2> QED BY <2>1, <1>2, <1>7, <1>8, <1>9
<1> QED BY <1>10, <1>11, <1>12, <1>13, <1>14, <1>15, <1>16, <1>17, <1>18 DEF Worker

-----------------------------------------------------------------------------
(* The host and the agent's process. *)

\* A step of the host: the queue and the record outlive the agent, so it must
\* not take the host off a target that it has entered.
LEMMA HostStep ==
    ASSUME IInv, ClockType', HostType', AgentType', SameCp, outbox' = outbox,
           UnitsInv', BootInv', Entered => Entered'
    PROVE  IInv'
<1>1. CpType /\ OutboxInv /\ RecordInv
      BY TypeParts DEF IInv
<1>2. OutboxInv' /\ RecordInv'
      BY <1>1 DEF OutboxInv, RecordInv, SameCp
<1>3. TypeOK'
      BY <1>1, KeepsCp, TypeNext
<1> QED BY <1>2, <1>3 DEF IInv

\* The agent's process and the reducer's state are gone, the queue is not.
LEMMA GoneType ==
    ASSUME AgentType, AgentGone, outbox' = outbox
    PROVE  AgentType'
<1>1. /\ up' = FALSE /\ warm' = FALSE /\ known' = FALSE /\ inbox' = FALSE
      BY DEF AgentGone
<1>2. /\ mem' \in HostRecord /\ memSeq' \in Nat /\ intents' \in Seq(Units)
      /\ work' \in Phases /\ reply' \subseteq Snapshots
      BY FreshType DEF AgentGone, Phases
<1> QED BY <1>1, <1>2, Zenon DEF AgentType

\* A unit that ends, a crash, a reboot, a start and the clock.  A reboot runs
\* the bootloader's entry: BootInv makes that the target.
LEMMA ProcessInv ==
    ASSUME IInv, faults' \in 0..MaxFaults,
           \/ \E u \in Units : UnitEnds(u)
           \/ Crash \/ Reboot \/ Start \/ Tick
    PROVE  IInv'
<1>1. AgentType /\ HostType /\ ClockType /\ UnitsInv /\ BootInv
      BY TypeParts DEF IInv
<1>2. /\ gens \in Seq(Closures) /\ gen \in 1..Len(gens)
      /\ running \in Closures /\ boot \in Closures
      /\ units \in [Units -> MaybeClosure]
      BY <1>1 DEF HostType
<1>3. ASSUME NEW u \in Units, UnitEnds(u)
      PROVE  IInv'
  <2>1. /\ units[u] # NoClosure
        /\ units' = [units EXCEPT ![u] = NoClosure]
        /\ \/ running' = units[u] /\ boot' = units[u]
           \/ running' = running /\ boot' \in {boot, units[u]}
        /\ UNCHANGED <<now, gens, gen, rolled, outbox>> /\ SameCp
        BY <1>3 DEF UnitEnds, HostOnly, SameCp, profileVars, cpVars
  <2>2. UNCHANGED <<up, warm, known, mem, memSeq, intents, work, inbox, reply>>
        BY <1>3 DEF UnitEnds, AgentUntouched, memVars
  <2>3. units[u] \in Closures
        BY <2>1, <1>2 DEF MaybeClosure
  <2>4. running' \in Closures /\ boot' \in Closures
        BY <2>1, <2>3, <1>2
  <2>5. units' \in [Units -> MaybeClosure]
        BY <2>1, <1>2 DEF MaybeClosure
  <2>6. HostType'
        BY <2>1, <2>4, <2>5, <1>1, Zenon DEF HostType
  <2>7. AgentType'
        BY <2>1, <2>2, <1>1, Zenon DEF AgentType
  <2>8. ClockType'
        BY <2>1, <1>1 DEF ClockType
  <2>9. rolled \/ units[u] = Target
        BY <2>1, <1>1 DEF UnitsInv, Units
  <2>10. BootInv' /\ (Entered => Entered')
        BY <2>1, <2>9, <1>1 DEF BootInv, Entered
  <2>11. \A v \in Units : units'[v] \in {units[v], NoClosure}
        BY <2>1, <1>2
  <2>12. UnitsInv'
        BY <2>1, <2>2, <2>11, <1>1 DEF UnitsInv, Units
  <2> QED BY <2>1, <2>6, <2>7, <2>8, <2>10, <2>12, HostStep
<1>4. ASSUME Crash
      PROVE  IInv'
  <2>1. SameHost /\ SameCp /\ UNCHANGED <<now, outbox>> /\ AgentGone
        BY <1>4 DEF Crash, HostOnly, SameHost, SameCp, profileVars, systemVars, cpVars
  <2>2. HostType' /\ AgentType'
        BY <2>1, <1>1, GoneType, KeepsHost
  <2>3. ClockType'
        BY <2>1, <1>1 DEF ClockType
  <2>4. work' = "idle"
        BY <2>1 DEF AgentGone
  <2>5. UnitsInv' /\ BootInv' /\ (Entered => Entered')
        BY <2>1, <2>4, <1>1 DEF SameHost, UnitsInv, BootInv, Entered
  <2> QED BY <2>1, <2>2, <2>3, <2>5, HostStep
<1>5. ASSUME Reboot
      PROVE  IInv'
  <2>1. /\ running' = boot /\ boot' = boot
        /\ units' = [u \in Units |-> NoClosure]
        /\ UNCHANGED <<now, gens, gen, rolled, outbox>> /\ SameCp /\ AgentGone
        BY <1>5 DEF Reboot, HostOnly, SameCp, profileVars, cpVars
  <2>2. running' \in Closures /\ boot' \in Closures
        BY <2>1, <1>2
  <2>3. units' \in [Units -> MaybeClosure]
        BY <2>1 DEF MaybeClosure
  <2>4. HostType'
        BY <2>1, <2>2, <2>3, <1>1, Zenon DEF HostType
  <2>5. AgentType'
        BY <2>1, <1>1, GoneType
  <2>6. ClockType'
        BY <2>1, <1>1 DEF ClockType
  <2>7. work' = "idle"
        BY <2>1 DEF AgentGone
  <2>8. UnitsInv'
        BY <2>1, <2>7 DEF UnitsInv, Units
  <2>9. BootInv' /\ (Entered => Entered')
        BY <2>1, <1>1 DEF BootInv, Entered
  <2> QED BY <2>1, <2>4, <2>5, <2>6, <2>8, <2>9, HostStep
<1>6. ASSUME Start \/ Tick
      PROVE  IInv'
  <2>1. /\ SameHost /\ SameCp
        /\ UNCHANGED <<outbox, warm, known, mem, memSeq, intents, work, inbox, reply>>
        BY <1>6 DEF Start, Tick, HostOnly, AgentUntouched, SameHost, SameCp,
                    profileVars, systemVars, cpVars, memVars
  <2>2. up' = TRUE \/ up' = up
        BY <1>6 DEF Start, Tick, AgentUntouched
  <2>3. AgentType'
        BY <2>1, <2>2, <1>1, Zenon DEF AgentType
  <2>4. now' = now \/ (now < MaxTime /\ now' = now + 1)
        BY <1>6 DEF Start, HostOnly, Tick
  <2>5. ClockType'
        BY <2>4, <1>1, AgentAssumption DEF ClockType
  <2>6. HostType'
        BY <2>1, <1>1, KeepsHost
  <2>7. UnitsInv' /\ BootInv' /\ (Entered => Entered')
        BY <2>1, <1>1 DEF SameHost, UnitsInv, BootInv, Entered
  <2> QED BY <2>1, <2>3, <2>5, <2>6, <2>7, HostStep
<1> QED BY <1>3, <1>4, <1>5, <1>6

-----------------------------------------------------------------------------
(* Between the agent and the control plane. *)

\* A step of the link leaves the host and its worker alone: what remains is the
\* queue and what the control plane now says of the host.
LEMMA LinkStep ==
    ASSUME IInv, faults' \in 0..MaxFaults, Local, AgentType', CpType',
           OutboxInv', RecordInv'
    PROVE  IInv'
<1>1. HostType /\ ClockType /\ UnitsInv /\ BootInv
      BY TypeParts DEF IInv
<1>2. SameHost /\ UNCHANGED <<now, work>>
      BY DEF Local, SameHost, profileVars, systemVars
<1>3. HostType' /\ ClockType'
      BY <1>1, <1>2, KeepsHost DEF ClockType
<1>4. UnitsInv' /\ BootInv'
      BY <1>1, <1>2 DEF UnitsInv, BootInv, Entered, SameHost
<1>5. TypeOK'
      BY <1>3, TypeNext
<1> QED BY <1>4, <1>5 DEF IInv

LEMMA EnteredKept == Local => (Entered <=> Entered')
<1>1. Local => rolled' = rolled /\ running' = running /\ boot' = boot
      BY DEF Local, profileVars, systemVars
<1> QED BY <1>1, Zenon DEF Entered

\* The dispatch's way to the agent.
LEMMA DispatchInv ==
    ASSUME IInv, faults' \in 0..MaxFaults,
           \/ Plan
           \/ \E b \in BOOLEAN : PollDispatch(b) \/ HandleDispatch(b) \/ Reprime(b)
    PROVE  IInv'
<1>1. AgentType /\ CpType /\ HostType /\ ClockType /\ OutboxInv /\ RecordInv /\ UnitsInv
      BY TypeParts DEF IInv
<1>2. CASE Plan
  <2>1. /\ Local /\ queued' = TRUE /\ dispatches < MaxDispatches
        /\ dispatches' = dispatches + 1
        /\ UNCHANGED <<outbox, known, mem, memSeq, intents, inbox, reply, primed, rec, recSeq>>
        /\ UNCHANGED <<up, warm, work>>
        BY <1>2 DEF Plan, memVars, Local
  <2>2. dispatches' \in 0..MaxDispatches
        BY <2>1, <1>1, AgentAssumption DEF CpType
  <2>3. AgentType' /\ CpType'
        BY <2>1, <2>2, <1>1, Zenon DEF AgentType, CpType
  <2>4. OutboxInv' /\ RecordInv'
        BY <2>1, <1>1, EnteredKept DEF OutboxInv, RecordInv
  <2> QED BY <2>1, <2>3, <2>4, LinkStep
<1>3. ASSUME NEW b \in BOOLEAN, PollDispatch(b)
      PROVE  IInv'
  <2>1. /\ Local /\ queued' = FALSE /\ inbox' = b
        /\ UNCHANGED <<outbox, known, mem, memSeq, intents, reply, primed, rec, recSeq, dispatches>>
        /\ UNCHANGED <<up, warm, work>>
        BY <1>3, Zenon DEF PollDispatch, memVars, Local
  <2>2. AgentType' /\ CpType'
        BY <2>1, <1>1, Zenon DEF AgentType, CpType
  <2>3. OutboxInv' /\ RecordInv'
        BY <2>1, <1>1, EnteredKept DEF OutboxInv, RecordInv
  <2> QED BY <2>1, <2>2, <2>3, LinkStep
<1>4. ASSUME NEW b \in BOOLEAN, Reprime(b)
      PROVE  IInv'
  <2>1. /\ Local /\ primed' = b
        /\ UNCHANGED <<outbox, known, mem, memSeq, intents, inbox, reply, rec, recSeq>>
        /\ UNCHANGED <<queued, dispatches, up, warm, work>>
        BY <1>4, Zenon DEF Reprime, memVars, Local
  <2>2. AgentType' /\ CpType'
        BY <2>1, <1>1, Zenon DEF AgentType, CpType
  <2>3. OutboxInv' /\ RecordInv'
        BY <2>1, <1>1, EnteredKept DEF OutboxInv, RecordInv
  <2> QED BY <2>1, <2>2, <2>3, LinkStep
<1>5. ASSUME NEW b \in BOOLEAN, HandleDispatch(b)
      PROVE  IInv'
  <2>1. /\ Local /\ SameHost /\ SameCp /\ inbox' = FALSE
        /\ UNCHANGED <<now, up, warm, work, reply>>
        BY <1>5, Zenon DEF HandleDispatch, Local, SameHost, SameCp, profileVars,
                           systemVars, cpVars
  <2>2. CASE RunHostEvent(Event("DispatchAck", running), intents)
    <3>1. running \in MaybeClosure /\ "DispatchAck" \in EventKinds
          BY <1>1 DEF HostType, MaybeClosure, EventKinds
    <3>2. /\ Event("DispatchAck", running) \in HostEvent
          /\ Event("DispatchAck", running).kind # "ActivationCompleted"
          BY <3>1, EventType
    <3>3. inbox' \in BOOLEAN
          BY <2>1
    <3>4. faults' \in 0..MaxFaults /\ work' \in Phases /\ intents \in Seq(Units)
          BY <2>1, <1>1 DEF AgentType
    <3>5. work' \in {"rbFire", "rbPoll"} => rolled
          BY <2>1, <1>1 DEF UnitsInv
    <3> QED BY <2>1, <2>2, <3>2, <3>3, <3>4, <3>5, ReducerStep
  <2>3. CASE UNCHANGED <<known, mem, memSeq, outbox, intents>>
    <3>1. AgentType'
          BY <2>1, <2>3, <1>1, Zenon DEF AgentType
    <3>2. CpType'
          BY <2>1, <1>1, KeepsCp
    <3>3. OutboxInv' /\ RecordInv'
          BY <2>1, <2>3, <1>1, EnteredKept DEF OutboxInv, RecordInv, SameCp
    <3> QED BY <2>1, <3>1, <3>2, <3>3, LinkStep
  <2> QED BY <2>2, <2>3, <1>5, Zenon DEF HandleDispatch, memVars
<1> QED BY <1>2, <1>3, <1>4, <1>5

\* What the control plane does with a heartbeat: the record it writes is
\* well formed, and Soaking or Converged only of a host that runs the target.
LEMMA HeartbeatRecord ==
    ASSUME IInv, NEW g \in BOOLEAN, HandleHeartbeat(g)
    PROVE  /\ CpType' /\ RecordInv' /\ Answer \subseteq Snapshots
           /\ OutboxInv' /\ Local
           /\ UNCHANGED <<up, warm, work, outbox, intents, inbox>>
<1>1. CpType /\ HostType /\ OutboxInv /\ RecordInv /\ BootInv
      BY TypeParts DEF IInv
<1>2. rec \in HostRecord /\ recSeq \in Nat /\ running \in Closures
      BY <1>1 DEF CpType, HostType
<1> DEFINE n == SynthRecord(rec, running, g)
<1>3. /\ n \in HostRecord /\ n.target = rec.target
      /\ n.st \in {"Soaking", "Converged"} =>
             rec.st \in {"Soaking", "Converged"} \/ rec.target = running
      BY <1>2, SynthActivates
<1>4. SynthSteps(g) \in Nat
      BY DEF SynthSteps
<1>5. /\ rec' = n \/ rec' = rec
      /\ recSeq' = recSeq + SynthSteps(g) \/ recSeq' = recSeq
      BY Zenon DEF HandleHeartbeat
<1>6. /\ Local /\ UNCHANGED <<up, warm, work, outbox, intents, inbox>>
      /\ UNCHANGED <<primed, queued, dispatches>>
      BY Zenon DEF HandleHeartbeat, Local
<1> HIDE DEF n
<1>7. rec' \in HostRecord /\ recSeq' \in Nat
      BY <1>2, <1>3, <1>4, <1>5
<1>8. CpType'
      BY <1>1, <1>6, <1>7, Zenon DEF CpType
<1>9. RecordInv'
      BY <1>1, <1>3, <1>5, <1>6, EnteredKept DEF RecordInv, BootInv
<1>10. OutboxInv'
      BY <1>1, <1>6, EnteredKept DEF OutboxInv
<1>11. Answer \subseteq Snapshots
      BY <1>7 DEF Answer, Snapshots
<1> QED BY <1>6, <1>8, <1>9, <1>10, <1>11

\* merge_snapshot_into_state keeps the agent's copy well formed.
LEMMA BootstrapType ==
    ASSUME AgentType, NEW s \in Snapshots, Bootstrap(s)
    PROVE  known' = TRUE /\ mem' \in HostRecord /\ memSeq' \in Nat
<1>1. mem \in HostRecord /\ s.rec \in HostRecord /\ s.seq \in Nat
      BY DEF AgentType, Snapshots
<1> DEFINE ps == IF known THEN mem.probes ELSE Fresh.probes
           ff == IF known THEN mem.failFirst ELSE NoTime
<1>2. /\ mem.probes \in [Probes -> {"Unset", "Pass", "Fail"}]
      /\ Fresh.probes \in [Probes -> {"Unset", "Pass", "Fail"}]
      /\ mem.failFirst \in Time /\ NoTime \in Time
      BY <1>1, FreshType DEF HostRecord, Time
<1>3. ps \in [Probes -> {"Unset", "Pass", "Fail"}] /\ ff \in Time
      BY <1>2, Zenon
<1>4. mem' = [s.rec EXCEPT !.probes = ps, !.failFirst = ff]
      BY DEF Bootstrap, Merge
<1> HIDE DEF ps, ff
<1>5. mem' \in HostRecord
      BY <1>1, <1>3, <1>4 DEF HostRecord
<1> QED BY <1>1, <1>5 DEF Bootstrap

\* A heartbeat, answered at once, late or not at all, or interrupted by the end
\* of the control plane, and the snapshot that the agent applies later.
LEMMA HeartbeatInv ==
    ASSUME IInv, faults' \in 0..MaxFaults,
           \/ \E g \in BOOLEAN, o \in BOOLEAN : Heartbeat(g, o)
           \/ \E g \in BOOLEAN : SlowHeartbeat(g)
           \/ ApplySnapshot \/ HeartbeatInterrupted
    PROVE  IInv'
<1>1. AgentType /\ CpType /\ HostType /\ OutboxInv /\ RecordInv /\ BootInv
      BY TypeParts DEF IInv
<1>2. reply \subseteq Snapshots
      BY <1>1 DEF AgentType
<1>3. ASSUME NEW g \in BOOLEAN, NEW o \in BOOLEAN, Heartbeat(g, o)
      PROVE  IInv'
  <2>1. HandleHeartbeat(g) /\ reply' = reply
        BY <1>3 DEF Heartbeat
  <2>2. /\ CpType' /\ RecordInv' /\ Answer \subseteq Snapshots /\ OutboxInv' /\ Local
        /\ UNCHANGED <<up, warm, work, outbox, intents, inbox>>
        BY <2>1, HeartbeatRecord
  <2>3. \/ UNCHANGED <<known, mem, memSeq>>
        \/ \E s \in Answer : Bootstrap(s)
        BY <1>3, Zenon DEF Heartbeat, memVars
  <2>4. \/ UNCHANGED <<known, mem, memSeq>>
        \/ known' = TRUE /\ mem' \in HostRecord /\ memSeq' \in Nat
        BY <2>2, <2>3, <1>1, BootstrapType
  <2>5. AgentType'
        BY <2>1, <2>2, <2>4, <1>1, Zenon DEF AgentType
  <2> QED BY <2>2, <2>5, LinkStep
<1>4. ASSUME NEW g \in BOOLEAN, SlowHeartbeat(g)
      PROVE  IInv'
  <2>1. HandleHeartbeat(g) /\ reply' \in {{}, Answer} /\ UNCHANGED <<known, mem, memSeq>>
        BY <1>4, Zenon DEF SlowHeartbeat, memVars
  <2>2. /\ CpType' /\ RecordInv' /\ Answer \subseteq Snapshots /\ OutboxInv' /\ Local
        /\ UNCHANGED <<up, warm, work, outbox, intents, inbox>>
        BY <2>1, HeartbeatRecord
  <2>3. reply' \subseteq Snapshots
        BY <2>1, <2>2
  <2>4. AgentType'
        BY <2>1, <2>2, <2>3, <1>1, Zenon DEF AgentType
  <2> QED BY <2>2, <2>4, LinkStep
<1>5. ASSUME ApplySnapshot
      PROVE  IInv'
  <2>1. /\ Local /\ SameCp /\ reply' = {}
        /\ UNCHANGED <<up, warm, work, outbox, intents, inbox>>
        BY <1>5 DEF ApplySnapshot, Local, SameCp, cpVars
  <2>2. known' = TRUE /\ mem' \in HostRecord /\ memSeq' \in Nat
        BY <1>5, <1>1, <1>2, BootstrapType DEF ApplySnapshot
  <2>3. AgentType'
        BY <2>1, <2>2, <1>1, Zenon DEF AgentType
  <2>4. CpType'
        BY <2>1, <1>1, KeepsCp
  <2>5. OutboxInv' /\ RecordInv'
        BY <2>1, <1>1, EnteredKept DEF OutboxInv, RecordInv, SameCp
  <2> QED BY <2>1, <2>3, <2>4, <2>5, LinkStep
<1>6. ASSUME HeartbeatInterrupted
      PROVE  IInv'
  <2>1. /\ Local /\ primed' = FALSE /\ rec.target = running
        /\ \/ rec' = SynthAck(rec) /\ recSeq' = recSeq + 1
           \/ rec' = SynthComplete(SynthAck(rec), running) /\ recSeq' = recSeq + 2
        /\ UNCHANGED <<outbox, known, mem, memSeq, intents, inbox, reply, queued, dispatches>>
        /\ UNCHANGED <<up, warm, work>>
        BY <1>6 DEF HeartbeatInterrupted, Local, memVars
  <2>2. rec \in HostRecord /\ recSeq \in Nat /\ running \in Closures
        BY <1>1 DEF CpType, HostType
  <2>3. SynthAck(rec) \in HostRecord /\ SynthAck(rec).target = rec.target
        BY <2>2, SynthType
  <2>4. /\ SynthComplete(SynthAck(rec), running) \in HostRecord
        /\ SynthComplete(SynthAck(rec), running).target = rec.target
        BY <2>2, <2>3, SynthType
  <2>5. rec' \in HostRecord /\ recSeq' \in Nat /\ rec'.target = rec.target
        BY <2>1, <2>2, <2>3, <2>4
  <2>6. CpType'
        BY <2>1, <2>5, <1>1, Zenon DEF CpType
  <2>7. AgentType'
        BY <2>1, <1>1, Zenon DEF AgentType
  <2>8. Entered
        BY <2>1, <1>1 DEF RecordInv, BootInv
  <2>9. OutboxInv' /\ RecordInv'
        BY <2>1, <2>5, <2>8, <1>1, EnteredKept DEF OutboxInv, RecordInv
  <2> QED BY <2>1, <2>6, <2>7, <2>9, LinkStep
<1> QED BY <1>3, <1>4, <1>5, <1>6

\* A queued event is posted, answered or not, or lost with the control plane.
LEMMA PostInv ==
    ASSUME IInv, faults' \in 0..MaxFaults, NEW x \in outbox,
           PostLost(x) \/ \E b \in BOOLEAN : PostEvent(x, b)
    PROVE  IInv'
<1>1. AgentType /\ CpType /\ OutboxInv /\ RecordInv
      BY TypeParts DEF IInv
<1>2. outbox \subseteq Queued /\ rec \in HostRecord /\ recSeq \in Nat
      BY <1>1 DEF AgentType, CpType
<1>3. x.e \in HostEvent /\ x.seq \in Nat
      BY <1>2 DEF Queued
<1>4. /\ Local /\ UNCHANGED <<known, mem, memSeq, intents, inbox, reply>>
      /\ UNCHANGED <<up, warm, work, queued, dispatches>>
      BY Zenon DEF PostLost, PostEvent, Local, memVars
<1>5. outbox' \subseteq outbox
      BY DEF PostLost, PostEvent, MarkSent
<1>6. primed' \in BOOLEAN
      BY <1>1, Zenon DEF CpType, PostLost, PostEvent
<1>7. \/ rec' = rec /\ recSeq' = recSeq
      \/ Accepts(rec, x.e) /\ rec' = Step(rec, x.e) /\ recSeq' = x.seq
      BY Zenon DEF PostLost, PostEvent
<1>8. rec' \in HostRecord /\ recSeq' \in Nat /\ rec'.target = rec.target
      BY <1>2, <1>3, <1>7, StepType
<1>9. rec'.st \in {"Soaking", "Converged"} =>
        rec.st \in {"Soaking", "Converged"} \/ x.e.kind = "ActivationCompleted"
      BY <1>2, <1>3, <1>7, StepActivates
<1>10. outbox' \subseteq Queued
      BY <1>2, <1>5
<1>11. AgentType' /\ CpType'
      BY <1>1, <1>4, <1>6, <1>8, <1>10, Zenon DEF AgentType, CpType
<1>12. RecordInv'
      BY <1>1, <1>4, <1>8, <1>9, EnteredKept DEF RecordInv, OutboxInv
<1>13. OutboxInv'
      BY <1>1, <1>4, <1>5, EnteredKept DEF OutboxInv
<1> QED BY <1>4, <1>11, <1>12, <1>13, LinkStep

-----------------------------------------------------------------------------
(* The theorems. *)

LEMMA InitInv == Init => IInv
<1> SUFFICES ASSUME Init PROVE IInv
    OBVIOUS
<1>1. History \in Seq(Closures) /\ Len(History) \in 1..Len(History)
      BY AgentAssumption
<1>2. History[Len(History)] \in Closures
      BY <1>1
<1>3. units \in [Units -> MaybeClosure]
      BY DEF Init, MaybeClosure
<1>4. HostType
      BY <1>1, <1>2, <1>3, Zenon DEF Init, HostType
<1>5. /\ work \in Phases /\ intents \in Seq(Units) /\ memSeq \in Nat /\ recSeq \in Nat
      /\ mem \in HostRecord /\ rec \in HostRecord
      BY FreshType DEF Init, Phases
<1>6. dispatches \in 0..MaxDispatches /\ ClockType
      BY AgentAssumption DEF Init, ClockType
<1>7. outbox = {} /\ reply = {}
      BY DEF Init
<1>8. /\ up = FALSE /\ warm = FALSE /\ known = FALSE /\ inbox = FALSE
      /\ primed = FALSE /\ queued = FALSE
      BY DEF Init
<1>9. AgentType /\ CpType
      BY <1>5, <1>6, <1>7, <1>8, Zenon DEF AgentType, CpType
<1>10. TypeOK
      BY <1>4, <1>6, <1>9, TypeParts
<1>11. UnitsInv /\ BootInv
      BY DEF Init, UnitsInv, BootInv, Entered, Units
<1>12. OutboxInv
      BY <1>7 DEF OutboxInv
<1>13. RecordInv
      BY FreshType DEF Init, RecordInv
<1> QED BY <1>10, <1>11, <1>12, <1>13 DEF IInv

LEMMA StutterInv == IInv /\ UNCHANGED vars => IInv'
<1> SUFFICES ASSUME IInv, UNCHANGED vars PROVE IInv'
    OBVIOUS
<1>1. AgentType /\ CpType /\ ClockType /\ OutboxInv /\ RecordInv
      BY TypeParts DEF IInv
<1>2. Local /\ faults' = faults
      BY DEF vars, Local
<1>3. /\ UNCHANGED <<up, warm, known, mem, memSeq, outbox, intents, work, inbox, reply>>
      /\ UNCHANGED <<primed, rec, recSeq, queued, dispatches>>
      BY DEF vars, memVars, cpVars
<1>4. AgentType' /\ CpType'
      BY <1>1, <1>3, Zenon DEF AgentType, CpType
<1>5. OutboxInv' /\ RecordInv'
      BY <1>1, <1>2, <1>3, EnteredKept DEF OutboxInv, RecordInv
<1>6. faults' \in 0..MaxFaults
      BY <1>1, <1>2 DEF ClockType
<1> QED BY <1>2, <1>4, <1>5, <1>6, LinkStep

LEMMA NextInv == IInv /\ [Next]_vars => IInv'
<1> SUFFICES ASSUME IInv, Next PROVE IInv'
    BY StutterInv
<1>1. faults' \in 0..MaxFaults
  <2>1. faults \in 0..MaxFaults
        BY TypeParts DEF IInv, ClockType
  <2> QED BY <2>1, AgentAssumption DEF Next
<1>2. CASE Steady
      BY <1>1, <1>2, WorkerInv, InputInv, ProcessInv, DispatchInv, HeartbeatInv, PostInv
         DEF Steady, Link
<1>3. CASE Fault
      BY <1>1, <1>3, ProcessInv, DispatchInv, HeartbeatInv, PostInv DEF Fault
<1> QED BY <1>2, <1>3 DEF Next

LEMMA Inductive == Spec => []IInv
  BY InitInv, NextInv, PTL DEF Spec

\* Type correctness of the agent, its host and its record in every behaviour.
THEOREM TypeCorrect == Spec => []TypeOK
<1>1. IInv => TypeOK
      BY DEF IInv
<1> QED BY <1>1, Inductive, PTL

\* The control plane shows a host as activated only if the host runs the target
\* or was rolled back (runtime/reducer.rs, heartbeat recovery), whatever is
\* lost, repeated, reordered or overtaken and whichever process crashes when.
THEOREM ActivationReal == Spec => []ActivatedIsReal
<1>1. IInv => ActivatedIsReal
      BY Zenon DEF IInv, RecordInv, Entered, ActivatedIsReal
<1> QED BY <1>1, Inductive, PTL
=============================================================================
