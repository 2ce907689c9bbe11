---------------------------- MODULE MCControlPlane ----------------------------
(***************************************************************************)
(* Small fleets for TLC, and the statement of the documentation that the   *)
(* control plane's code does not keep.                                     *)
(***************************************************************************)
EXTENDS ControlPlane, TLC

CONSTANTS h1, h2, h3, c1, r1, r2, base, a, b, p1

AllInC1     == [r \in Rollouts |-> c1]
HostsInC1   == [h \in Hosts |-> c1]
OneWaveEach == [h \in Hosts |-> IF h = h1 THEN 0 ELSE 1]
NoWave      == [h \in Hosts |-> Unstaged]
TwoWaves    == [c \in Channels |-> 2]
NoWaves     == [c \in Channels |-> 0]

\* Every host of a rollout gets the rollout's closure.
NewClosures == [r \in Rollouts |-> [h \in Hosts |-> IF r = r1 THEN a ELSE b]]

\* The second rollout of the channel takes every host back to base.
BackToBase == [r \in Rollouts |-> [h \in Hosts |-> IF r = r1 THEN a ELSE base]]

\* h1 gates the other two hosts, which nothing tells apart.
H1First  == {h1} \X {h2, h3}
H2LikeH3 == Permutations({h2, h3})

OneAtATime   == {[hosts |-> Hosts, max |-> 1]}
OneOfH2AndH3 == {[hosts |-> {h2, h3}, max |-> 1]}

None == {}

-----------------------------------------------------------------------------
(* A statement of the code's own comments that a run refutes. *)

\* state-machine/src/effect.rs:73: "Subsequent dispatches refuse this closure
\* on this channel."  The planner's copy of the table is never filled.
QuarantineHolds ==
    [][\A r \in Rollouts, h \in Hosts :
          NewlyQueued(r, h) => TargetOf[r][h] \notin quarantined[ChannelOf[r]]]_vars
=============================================================================
