---------------------------- MODULE RolloutReducer ----------------------------
(***************************************************************************)
(* The rollout-level reducer of crates/nixfleet-state-machine/src/rollout: *)
(* a pure function of the rollout row and an event.  An event a state has  *)
(* no arm for is rejected by step() and leaves the row as it is, which is  *)
(* also what a no-op arm does, so both are the identity here.              *)
(***************************************************************************)
EXTENDS Integers

RolloutStates == {"Absent", "Opening", "Active", "Converging", "Terminal",
                  "Failed", "Reverted", "Superseded", "Pruned"}

\* wave is current_wave; terminal and superseded say whether terminal_at and
\* superseded_at are set.  "Absent" stands for a missing row.
RolloutRow == [st : RolloutStates, wave : Nat,
               terminal : BOOLEAN, superseded : BOOLEAN]

NoRow == [st |-> "Absent", wave |-> 0, terminal |-> FALSE, superseded |-> FALSE]

OpenedRow == [NoRow EXCEPT !.st = "Opening"]

Live == {"Opening", "Active", "Converging", "Terminal", "Failed", "Reverted"}

\* Live, and some host has joined.
Started == Live \ {"Opening"}

OnHostJoined(r) ==
    IF r.st = "Opening" THEN [r EXCEPT !.st = "Active"] ELSE r

\* Mutant of OnSuccessorOpened: closed rollouts are not superseded.
OnSuccessorOpenedInFlight(r) ==
    IF r.st \in {"Opening", "Active", "Converging"}
    THEN [r EXCEPT !.st = "Superseded", !.superseded = TRUE]
    ELSE r

OnSuccessorOpened(r) ==
    IF r.st \in Live
    THEN [r EXCEPT !.st = "Superseded", !.superseded = TRUE]
    ELSE r

\* Mutant of OnHostStateChanged: it mirrors every host state.
OnHostStateChangedMirror(r, to) ==
    IF r.st \in {"Active", "Converging"} THEN [r EXCEPT !.st = to] ELSE r

\* A host record changed state to `to`.
OnHostStateChanged(r, to) ==
    IF r.st \in {"Active", "Converging"} /\ to \in {"Failed", "Reverted"}
    THEN [r EXCEPT !.st = to]
    ELSE r

OnRolloutTerminal(r) ==
    IF r.st \in {"Active", "Converging"}
    THEN [r EXCEPT !.st = "Terminal", !.terminal = TRUE]
    ELSE r
=============================================================================
