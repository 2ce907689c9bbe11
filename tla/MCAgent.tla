------------------------------- MODULE MCAgent -------------------------------
(***************************************************************************)
(* A host with two generations, and what the documentation says of its     *)
(* rollback and of the control plane's view of it.                         *)
(***************************************************************************)
EXTENDS Agent

CONSTANTS older, prior, new, p1

TwoGenerations == <<older, prior>>

-----------------------------------------------------------------------------
(* Statements of the documentation, each refuted by a run. *)

\* docs/rfcs/0005-event-driven-host-rollout-state.md:299: "The agent reads the
\* rollback target from its own `current_closure_at_dispatch` [...] and fires
\* `switch-to-configuration` on that closure directly."  The pipeline takes the
\* profile's previous generation instead, which is an older one when the failed
\* activation had not set the profile.
RollbackRestoresPrior ==
    [][FireRollback => units'["rollback"] = mem.atDispatch]_vars

\* docs/rfcs/0005-event-driven-host-rollout-state.md:203: "Emitted when
\* `switch-to-configuration` set the profile + bootloader but refused the live
\* switch [...] CP transition: `Activating -> Deferred`."  The agent's reducer
\* never numbers the event, so step() takes it for an old one.
DeferralIsReported ==
    [][DeferSwitch /\ known /\ warm /\ mem.st = "Activating"
        => \E x \in outbox' : x.e.kind = "ActivationDeferred"]_vars
=============================================================================
