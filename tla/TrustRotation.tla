---------------------------- MODULE TrustRotation ----------------------------
(***************************************************************************)
(* A planned rotation of the CI release key: the slot of trust.json in the *)
(* operator's flake, the copies the verifiers run with, and the key CI     *)
(* signs with.                                                             *)
(*                                                                         *)
(* The control plane and every agent read /etc/nixfleet/.../trust.json,    *)
(* which a deployment replaces: a copy may lag behind the flake for any    *)
(* time, and CI may sign with any key of the slot.  Time is in hours, the  *)
(* clocks agree within the verifier's slack, which Window includes.        *)
(***************************************************************************)
EXTENDS Verify

CONSTANTS
    Keys,          \* CI release keys
    FirstKey,
    NoKey,         \* an empty place of the slot
    Verifiers,     \* the control plane and the agents
    Window,        \* freshness window
    Overlap,       \* from announcing a key to its retireAt
    Grace,         \* how long the previous key is kept
    MaxTime        \* bound on the clock

ASSUME RotationAssumption ==
    /\ FirstKey \in Keys /\ NoKey \notin Keys
    /\ Window \in Nat /\ Overlap \in Nat /\ Grace \in Nat /\ MaxTime \in Nat

Stamp == Nat \cup {Never}

VARIABLES
    now,
    trust,        \* nixfleet.trust.ciReleaseKey in the flake
    promotedAt,
    files,        \* each verifier's copy of the slot
    signed        \* the artefacts that may still be fresh

vars == <<now, trust, promotedAt, files, signed>>

KeySlot == SlotOf(Keys, NoKey, Nat)

\* A signed artefact is its time and its key.  Two more fields say what the
\* property asks: whether the flake was going to keep the key for the window,
\* and the verifiers whose copy had the key or is newer than the artefact.
Artefact == [at: Nat, key: Keys, kept: BOOLEAN, known: SUBSET Verifiers]

TypeOK ==
    /\ now \in Nat
    /\ trust \in KeySlot
    /\ promotedAt \in Stamp
    /\ files \in [Verifiers -> KeySlot]
    /\ signed \subseteq Artefact

FirstSlot == [current |-> FirstKey, previous |-> NoKey, successor |-> NoKey,
              retireAt |-> Never, rejectBefore |-> Never]

Init ==
    /\ now = 0
    /\ trust = FirstSlot
    /\ promotedAt = Never
    /\ files = [v \in Verifiers |-> FirstSlot]
    /\ signed = {}

-----------------------------------------------------------------------------
(* The verifier: v takes the artefact a with its copy of the slot. *)

Accepts(v, a) == VerifySidecar(files[v], NoKey, a.key, a.at, now, Window)

-----------------------------------------------------------------------------
(* The operator, following docs/rfcs/0010-trust-lifecycle.md, 7.1. *)

\* A rotation starts when the last one is over.
Announce(k) ==
    /\ trust.successor = NoKey /\ trust.previous = NoKey /\ k # trust.current
    /\ trust' = [trust EXCEPT !.successor = k, !.retireAt = now + Overlap]
    /\ UNCHANGED <<now, promotedAt, files, signed>>

\* Mutant of RotationDue: the successor is not asked for.
RotationDueByDate(slot) == now >= slot.retireAt

\* is_rotation_due.
RotationDue(slot) == slot.successor # NoKey /\ now >= slot.retireAt

Promote ==
    /\ RotationDue(trust)
    /\ trust' = [trust EXCEPT !.previous = trust.current, !.current = trust.successor,
                              !.successor = NoKey, !.retireAt = Never]
    /\ promotedAt' = now
    /\ UNCHANGED <<now, files, signed>>

DropPrevious ==
    /\ trust.previous # NoKey
    /\ now - promotedAt > Grace
    /\ trust' = [trust EXCEPT !.previous = NoKey]
    /\ UNCHANGED <<now, promotedAt, files, signed>>

\* The compromise switch, at any time.
RejectBefore ==
    /\ trust.rejectBefore < now
    /\ trust' = [trust EXCEPT !.rejectBefore = now]
    /\ UNCHANGED <<now, promotedAt, files, signed>>

\* The flake will keep key k for a window from now on.
FlakeKeeps(k) ==
    \/ k = trust.current /\ Window <= Grace
    \/ k = trust.previous /\ now + Window <= promotedAt + Grace
    \/ k = trust.successor /\ now + Window < trust.retireAt

\* The copies that have it for as long.
KnownTo(k) == {v \in Verifiers : k \in ActiveKeysAt(files[v], NoKey, now + Window)}

\* CI signs with any key of the slot: neither the code nor the runbook binds the
\* switch of the signing key to what the verifiers have.
Sign(k) ==
    /\ k \in {trust.current, trust.previous, trust.successor}
    /\ signed' = signed \cup
           {[at |-> now, key |-> k, kept |-> FlakeKeeps(k), known |-> KnownTo(k)]}
    /\ UNCHANGED <<now, trust, promotedAt, files>>

\* A verifier is deployed with the flake's slot; it reads the file at every poll.
Deploy(v) ==
    /\ files[v] # trust
    /\ files' = [files EXCEPT ![v] = trust]
    /\ signed' = {[a EXCEPT !.known = @ \cup {v}] : a \in signed}
    /\ UNCHANGED <<now, trust, promotedAt>>

\* An hour passes.  Artefacts that can never be fresh again are forgotten.
Tick ==
    /\ now < MaxTime
    /\ now' = now + 1
    /\ signed' = {a \in signed : now + 1 - a.at <= Window}
    /\ UNCHANGED <<trust, promotedAt, files>>

Next ==
    \/ \E k \in Keys : Announce(k) \/ Sign(k)
    \/ Promote \/ DropPrevious \/ RejectBefore
    \/ \E v \in Verifiers : Deploy(v)
    \/ Tick

Spec == Init /\ [][Next]_vars

-----------------------------------------------------------------------------

\* A planned rotation takes nothing back: an artefact whose key the flake was
\* going to keep for the window is refused, before it is stale or rejected, by no
\* verifier whose copy had that key or was replaced since, whatever the operator
\* does to the slot in between.  Only a copy from before the key can refuse it,
\* and that until its next deployment (active_keys_at, and the order and the
\* grace of the runbook).
RotationKeepsFresh ==
    \A a \in signed : a.kept =>
        \A v \in a.known :
            FinishVerification(a.at, now, Window, files[v].rejectBefore) => Accepts(v, a)
=============================================================================
