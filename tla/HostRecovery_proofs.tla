------------------------- MODULE HostRecovery_proofs -------------------------
(***************************************************************************)
(* What the host reducer's step() and the heartbeat's synthesis do to any  *)
(* one record, for every set of closures and probes: the lemmas the agent  *)
(* and the control plane share.                                            *)
(***************************************************************************)
EXTENDS HostRecovery, TLAPS

\* step() keeps the shape of a record and its target (transitions/*.rs).
LEMMA StepType ==
    ASSUME NEW s \in HostRecord, NEW e \in HostEvent
    PROVE  /\ Step(s, e) \in HostRecord
           /\ Step(s, e).target = s.target
           /\ Step(s, e).st = StateAfter(s.st, e.kind)
<1>1. StateAfter(s.st, e.kind) \in HostStates
      BY DEF StateAfter, HostRecord, HostStates
<1>2. ProbesAfter(s.probes, e) \in [Probes -> {"Unset", "Pass", "Fail"}]
      BY DEF ProbesAfter, HostRecord, HostEvent
<1>3. Step(s, e) \in HostRecord
      BY <1>1, <1>2 DEF Step, HostRecord, HostEvent, MaybeClosure, Time
<1>4. Step(s, e).target = s.target /\ Step(s, e).st = StateAfter(s.st, e.kind)
      BY DEF Step, HostRecord
<1> QED BY <1>3, <1>4

\* step() makes a record Soaking or Converged only from Soaking or on the
\* report of a completed activation (transitions/activating.rs, deferred.rs).
LEMMA StepActivates ==
    ASSUME NEW s \in HostRecord, NEW e \in HostEvent, Accepts(s, e),
           Step(s, e).st \in {"Soaking", "Converged"}
    PROVE  s.st \in {"Soaking", "Converged"} \/ e.kind = "ActivationCompleted"
<1>1. StateAfter(s.st, e.kind) \in {"Soaking", "Converged"}
      BY StepType
<1>2. Legal(s.st, e.kind)
      BY DEF Accepts
<1> QED BY <1>1, <1>2 DEF Legal, PendingArms, ActivatingArms, DeferredArms,
                          SoakingArms, FailedArms, StateAfter

\* The events the workers and the synthesis build are well formed.
LEMMA EventType ==
    ASSUME NEW k \in EventKinds, NEW c \in MaybeClosure
    PROVE  /\ Event(k, c) \in HostEvent
           /\ Event(k, c).kind = k
  BY PolicyAssumption DEF Event, HostEvent, MaybeClosure

\* The events the heartbeat synthesises keep the record's shape and target.
LEMMA SynthType ==
    ASSUME NEW s \in HostRecord, NEW c \in Closures
    PROVE  /\ SynthAck(s) \in HostRecord
           /\ SynthAck(s).target = s.target
           /\ SynthAck(s).st = "Activating"
           /\ SynthComplete(s, c) \in HostRecord
           /\ SynthComplete(s, c).target = s.target
<1>1. /\ NoClosure \in MaybeClosure /\ c \in MaybeClosure
      /\ "DispatchAck" \in EventKinds /\ "ActivationCompleted" \in EventKinds
      BY DEF MaybeClosure, EventKinds
<1>2. /\ Event("DispatchAck", NoClosure) \in HostEvent
      /\ Event("DispatchAck", NoClosure).kind = "DispatchAck"
      /\ Event("ActivationCompleted", c) \in HostEvent
      BY <1>1, EventType
<1>3. /\ SynthAck(s) \in HostRecord /\ SynthAck(s).target = s.target
      /\ SynthAck(s).st = StateAfter(s.st, "DispatchAck")
      BY <1>2, StepType DEF SynthAck
<1>4. /\ SynthComplete(s, c) \in HostRecord
      /\ SynthComplete(s, c).target = s.target
      BY <1>2, StepType DEF SynthComplete
<1> QED BY <1>3, <1>4 DEF StateAfter

\* The whole synthesis (maybe_synthesize_recovery_completion) makes a record
\* Soaking or Converged only when the host runs its target.
LEMMA SynthActivates ==
    ASSUME NEW s \in HostRecord, NEW c \in Closures, NEW g \in BOOLEAN
    PROVE  LET n == SynthRecord(s, c, g)
           IN  /\ n \in HostRecord
               /\ n.target = s.target
               /\ n.st \in {"Soaking", "Converged"} =>
                    s.st \in {"Soaking", "Converged"} \/ s.target = c
<1> DEFINE n == SynthRecord(s, c, g)
           full == SynthComplete(SynthAck(s), c)
<1>1. /\ c \in MaybeClosure
      /\ "Converged" \in EventKinds /\ "RollbackComplete" \in EventKinds
      BY DEF MaybeClosure, EventKinds
<1>2. /\ Event("Converged", c) \in HostEvent
      /\ Event("RollbackComplete", c) \in HostEvent
      /\ Event("RollbackComplete", c).kind = "RollbackComplete"
      BY <1>1, EventType
<1>3. full \in HostRecord /\ full.target = s.target
      BY SynthType
<1>4. CASE s.st \in {"Activating", "Deferred"} /\ s.target = c
      BY <1>4, SynthType DEF SynthRecord
<1>5. CASE s.st = "Pending" /\ s.target = c /\ g
  <2>1. n = Step(full, Event("Converged", c))
        BY <1>5 DEF SynthRecord
  <2> HIDE DEF full, n
  <2>2. n \in HostRecord /\ n.target = s.target
        BY <2>1, <1>2, <1>3, StepType
  <2> QED BY <2>2, <1>5 DEF n
<1>6. CASE s.st = "Failed" /\ s.atDispatch = c
  <2>1. n = Step(s, Event("RollbackComplete", c))
        BY <1>6 DEF SynthRecord
  <2>2. /\ n \in HostRecord /\ n.target = s.target
        /\ n.st = StateAfter(s.st, "RollbackComplete")
        BY <2>1, <1>2, StepType
  <2>3. n.st = "Reverted"
        BY <2>2 DEF StateAfter
  <2> QED BY <2>2, <2>3
<1>7. CASE n = s
      BY <1>7
<1> QED BY <1>4, <1>5, <1>6, <1>7 DEF SynthRecord
=============================================================================
