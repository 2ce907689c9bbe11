----------------------------- MODULE HostRecovery -----------------------------
(***************************************************************************)
(* What the control plane makes of one host record when the host           *)
(* heartbeats (maybe_synthesize_recovery_completion): the events it        *)
(* synthesises from the closure the host says it runs.                     *)
(***************************************************************************)
EXTENDS HostReducer

CONSTANT Policy    \* the channel's on_health_failure policy

ASSUME PolicyAssumption == Policy \in Policies

Event(kind, closure) ==
    [kind |-> kind, closure |-> closure, at |-> 0,
     probe |-> NoProbe, status |-> "Pass", policy |-> Policy]

SynthAck(s) == Step(s, Event("DispatchAck", NoClosure))

SynthComplete(s, closure) == Step(s, Event("ActivationCompleted", closure))

\* Mutant of SynthRecord: a lost rollback report is not made up for.
SynthRecordForward(s, closure, gatesPass) ==
    IF s.st \in {"Activating", "Deferred"} /\ s.target = closure
    THEN SynthComplete(s, closure)
    ELSE IF s.st = "Pending" /\ s.target = closure /\ gatesPass
    THEN Step(SynthComplete(SynthAck(s), closure), Event("Converged", closure))
    ELSE s

\* The match on the record's state.
SynthRecord(s, closure, gatesPass) ==
    IF s.st \in {"Activating", "Deferred"} /\ s.target = closure
    THEN SynthComplete(s, closure)
    ELSE IF s.st = "Pending" /\ s.target = closure /\ gatesPass
    THEN Step(SynthComplete(SynthAck(s), closure), Event("Converged", closure))
    ELSE IF s.st = "Failed" /\ s.atDispatch = closure
    THEN Step(s, Event("RollbackComplete", closure))
    ELSE s
=============================================================================
