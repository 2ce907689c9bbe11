----------------------------- MODULE HostReducer -----------------------------
(***************************************************************************)
(* The per-(rollout, host) reducer of crates/nixfleet-state-machine: the   *)
(* pure function step(state, event) that the agent runs on its own events  *)
(* (Local* variants) and that the control plane runs on what the agent     *)
(* reports (Remote* variants).  Both variants of an event change the       *)
(* record in the same way, so an event is modelled once; the effects that  *)
(* differ between the two sides are operators of their own.                *)
(*                                                                         *)
(* The record keeps the fields that decide a later transition.  Stamps     *)
(* that are only displayed (activation_started_at, converged_at, ...) are  *)
(* left out; dispatch_acked_at is set exactly when the record leaves       *)
(* Pending and is read off the state.  last_event_seq, which step() and    *)
(* its callers compare with the event's seq before anything else, is kept  *)
(* by the modules in which an event can be delivered twice.                *)
(***************************************************************************)
EXTENDS Integers

CONSTANTS Closures,       \* closure hashes
          NoClosure,      \* Option::None, and the empty-string sentinel
          Probes,         \* declared health probes
          EnforceProbes   \* the ones whose mode is Enforce

ASSUME ClosureAssumption == NoClosure \notin Closures
ASSUME ProbeAssumption == EnforceProbes \subseteq Probes

HostStates == {"Pending", "Activating", "Deferred", "Soaking",
               "Converged", "Failed", "Reverted"}

Policies == {"Halt", "RollbackAndHalt"}

NoTime == -1

NoProbe == "no probe"   \* the event is not about a probe

MaybeClosure == Closures \cup {NoClosure}

Time == Nat \cup {NoTime}

HostRecord ==
    [st         : HostStates,
     target     : Closures,
     atDispatch : MaybeClosure,          \* current_closure_at_dispatch
     current    : MaybeClosure,          \* current_closure
     soakDue    : Nat,                   \* soak_due_at
     failFirst  : Time,                  \* probe_failure_first_at
     probes     : [Probes -> {"Unset", "Pass", "Fail"}]]

NewPending(target, soakDue) ==
    [st |-> "Pending", target |-> target, atDispatch |-> NoClosure,
     current |-> NoClosure, soakDue |-> soakDue, failFirst |-> NoTime,
     probes |-> [p \in Probes |-> "Unset"]]

EventKinds == {"DispatchAck", "ActivationStarted", "ActivationCompleted",
               "ActivationDeferred", "ActivationFailed",
               "ProbeTopologyDeclared", "ProbeObservedFirst", "ProbeResult",
               "ProbeFailureFirst", "Failed", "Converged", "RollbackComplete"}

(***************************************************************************)
(* One wire event.  closure is the closure the event names, at its time    *)
(* stamp, probe/status belong to the probe events and policy to Failed     *)
(* and to ActivationFailed (where it is the channel's resolved policy).    *)
(***************************************************************************)
HostEvent ==
    [kind : EventKinds, closure : MaybeClosure, at : Nat,
     probe : Probes \cup {NoProbe}, status : {"Pass", "Fail"}, policy : Policies]

(***************************************************************************)
(* The events each state's handler has an arm for; every other pair is     *)
(* TransitionError::IllegalForState.                                       *)
(***************************************************************************)
PendingArms == {"DispatchAck"}
ActivatingArms == {"ActivationStarted", "ActivationCompleted",
                   "ActivationDeferred", "ActivationFailed"}
DeferredArms == {"ActivationCompleted", "ActivationFailed"}
SoakingArms == {"ProbeTopologyDeclared", "ProbeObservedFirst", "ProbeResult",
                   "ProbeFailureFirst", "Failed", "Converged"}
FailedArms == {"RollbackComplete"}

Legal(st, kind) ==
    \/ st = "Pending"    /\ kind \in PendingArms
    \/ st = "Activating" /\ kind \in ActivatingArms
    \/ st = "Deferred"   /\ kind \in DeferredArms
    \/ st = "Soaking"    /\ kind \in SoakingArms
    \/ st = "Failed"     /\ kind \in FailedArms

EnforceProbesPass(probes) ==
    \A p \in EnforceProbes : probes[p] \in {"Unset", "Pass"}

FailingEnforceProbes(probes) ==
    {p \in EnforceProbes : probes[p] = "Fail"}

\* verify_converged_invariants: an empty probe map passes.
ConvergedInvariants(s, e) ==
    /\ e.closure = s.target
    /\ e.at >= s.soakDue
    /\ EnforceProbesPass(s.probes)

\* step() returns Ok, given that the event's seq is fresh.
Accepts(s, e) ==
    /\ Legal(s.st, e.kind)
    /\ e.kind = "Converged" => ConvergedInvariants(s, e)

\* The state a legal event leads to.
StateAfter(st, kind) ==
    IF kind = "DispatchAck" THEN "Activating"
    ELSE IF kind = "ActivationCompleted" THEN "Soaking"
    ELSE IF kind = "ActivationDeferred" THEN "Deferred"
    ELSE IF kind \in {"ActivationFailed", "Failed"} THEN "Failed"
    ELSE IF kind = "Converged" THEN "Converged"
    ELSE IF kind = "RollbackComplete" THEN "Reverted"
    ELSE st

\* The probe map: reset on the way into Soaking, one entry per result.
ProbesAfter(probes, e) ==
    IF e.kind = "ActivationCompleted" THEN [p \in Probes |-> "Unset"]
    ELSE IF e.kind = "ProbeResult" THEN [probes EXCEPT ![e.probe] = e.status]
    ELSE probes

\* The record step() returns for an accepted event.  The first probe failure
\* is stamped once and never cleared.
Step(s, e) ==
    [s EXCEPT
        !.st         = StateAfter(@, e.kind),
        !.atDispatch = IF e.kind = "DispatchAck" THEN e.closure ELSE @,
        !.current    = IF e.kind \in {"ActivationCompleted", "RollbackComplete"}
                       THEN e.closure ELSE @,
        !.failFirst  = IF e.kind = "ProbeFailureFirst" /\ @ = NoTime
                       THEN e.at ELSE @,
        !.probes     = ProbesAfter(@, e)]

\* LocalFireRollbackTo: not from Deferred.  The prior closure it also asks for
\* is recorded by the time a record can fail.
FiresRollback(s, e) ==
    /\ \/ e.kind = "Failed"
       \/ e.kind = "ActivationFailed" /\ s.st = "Activating"
    /\ e.policy = "RollbackAndHalt"

\* RemoteInsertQuarantine, the control plane's effect of a rollback report.
InsertsQuarantine(e) == e.kind = "RollbackComplete"
=============================================================================
