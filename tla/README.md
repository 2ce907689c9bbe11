# NixFleet: TLA+ specifications

NixFleet deploys NixOS closures to a fleet of hosts. A signed manifest names, for
every channel, the rollout that is current (`channel@ref`) and the closure each
host of it should run. The *control plane* opens rollouts, decides which host may
be dispatched when, and keeps one record per (rollout, host). The *agents* fetch
dispatches by long-poll, activate, probe, soak and report. This directory holds
the TLA+ modules that model this logic, the TLC runs that check them and the
TLAPS proofs about them. `PROJECT.json` maps every definition to source lines.

## Inventory

Paths are under `crates/`.

| part | state | operations | interacts through |
|---|---|---|---|
| host reducer, `nixfleet-state-machine/src/transitions` | none: pure `step(state, event)` | one arm per (state, event) | called by both reducer tasks |
| rollout reducer, `…/src/rollout` | none: pure | host joined, host changed, successor opened, terminal | called by the control plane's applier |
| planner and gates, `nixfleet-reconciler/src/planner*` | none: pure | `plan_next`, six gates | called by the control plane on a snapshot of its tables |
| control-plane reducer task, `nixfleet-control-plane/src/runtime/reducer.rs` | manifest cache, quarantine cache | plan tick, manifest set, host event, heartbeat | one input channel; SQLite tables |
| applier, `…/runtime/applier.rs` | tables `rollouts`, `host_rollout_records`, `dispatch_queue`, `quarantined_closures`, `probe_failures`, `event_log` | open a rollout, queue a dispatch, apply effects | called by the reducer task, no transactions across writes |
| routes, `…/server/routes` | parked long-polls | dispatch, events, heartbeat, enroll, status views | read tables directly, or send to the reducer task |
| manifest poll, `…/runtime/workers/manifest_poll.rs` | last verified set | fetch, verify, publish a complete or partial set | reducer input |
| prune timer, `…/timers` | none | delete finished rollouts, expired tokens and logs | tables |
| agent runtime, `nixfleet-agent/src/runtime` | records (volatile), manifest cache, outbound queue (durable files) | host event, advance tick, snapshot merge | channels to the workers |
| agent workers | in-flight dispatch, activation intents, probe tickers | long-poll, activate, roll back, probe, heartbeat, drain queue | HTTP to the control plane, `systemd-run` |
| activation, `nixfleet-agent/src/activation` | system profile, running system | realise, set profile, switch, verify, roll back | `nix`, `systemd` |
| manifest cache of the agent, `nixfleet-agent/src/manifest_cache.rs` | two pairs of files per artefact | load or fetch, verify, write | the manifest poll and the dispatch handler of the agent |
| verification and trust, `nixfleet-reconciler/src/verify.rs`, `nixfleet-proto/src/trust.rs` | key slots of `trust.json`, freshness windows | verify signatures, accept a successor key, reject before a time | called on every fetched artefact |
| enrolment, `…/server/routes/enrollment.rs`, `…/auth/issuance.rs` | `token_replay`, view of the signed nonces | enrol, renew | routes, pollers |
| revocation, `…/polling/revocations_poll.rs`, `…/server/middleware.rs` | `cert_revocations`, readiness flags | apply a signed list, admit a certificate | poller, every route |
| certificate of the agent, `…/workers/cert_renewal.rs`, `…/enrollment.rs` | certificate file, certificate in the running clients | enrol at first boot, renew, reload at a restart | routes of the control plane |
| release tool, `nixfleet-release/src` | working tree, binary cache, git branch | build, push closures, stamp, sign, commit, push | the branch the control plane polls |
| command line, canonicaliser, Nix library | files | mint tokens, print views, evaluate | the signed repository |

What is hard about it: a dispatch row is deleted before the response reaches the
host; events, heartbeats and ticks arrive in any order and each can make the same
transition; every input is a sequence of single-row writes, so a crash leaves any
prefix behind; the reducer's caches are lost at a restart and may be stale before;
a channel can be moved to a new ref, and back, while hosts are in flight. Around
it, signed files travel through a git branch, an HTTP cache, the control plane and
the agent's disk, each with its own age and each pair able to come apart; keys,
tokens, certificates and revocations change while requests are being answered. The
list, with lines and the properties that watch each item, is `hazards` in
`PROJECT.json`.

## Modules

* `HostReducer` – the record of one (rollout, host) and `step()`: which event each
  state has an arm for (`PendingArms` …), the convergence invariants and the next
  record (`Step`). The `Local…` (agent) and `Remote…` (control plane) variants of
  an event change the record alike and are one event here.
* `RolloutReducer` – the row of a rollout and its four events. `WaveAdvanced`,
  `RetentionExpired` and `OperatorClearance` exist in the code but nothing outside
  tests emits them, so `Converging` and `Pruned` are never reached.
* `Planner` – the topology (constants), the six gates and `plan_next`, as functions
  of a snapshot. The dispatch loop walks a hash map, so a plan is any maximal set
  of dispatchable hosts that fits the budgets.
* `ControlPlane` – the state machine: the manifest cache (`primed`, `manifest`), five
  tables (`rollouts`, `joined` and `hrr` for `host_rollout_records`, `queue`,
  `quarantined`, `failures`) and the hosts as environment (`offered`, `ran`,
  `running`). One action per reducer input, with everything it writes; beside each
  one its `Interrupted…` form, a crash between two of its writes.
* `HostRecovery` – what a heartbeat makes of one record
  (`maybe_synthesize_recovery_completion`); used by `ControlPlane` and `Agent`.
* `Agent` – one host, its agent and the control plane's record of it, for one rollout.
  The host keeps the profile's generations (`gens`, `gen`), the running system, the
  bootloader's default, the detached units and the files of the outbound queue; the
  agent's process keeps its copy of the record with its counter (`mem`, `memSeq`), the
  intents for the activation worker and where that worker is (`work`), a dispatch and a
  heartbeat answer on their way; the control plane keeps `rec` and `recSeq`. One action
  per worker step, per message and per failure of either process or of the host.
* `MCAgent` – a host with two generations, and the documentation's statements about it
  that the code does not keep.
* `MCControlPlane` – small fleets for TLC and a statement of the code's comments that
  the code does not keep.
* `StagedDeployment` – the abstract specification: hosts wait, start and are done; a host
  starts only when every host ordered before it is done, and none starts twice. There are
  no waves, cursors, queues, gates or messages in it. `ControlPlane` instantiates it with
  the order that waves and host edges give (`StageOrder`) and the stage each record is in
  (`StageOf`); `ImplementsDeployment` is the refinement.
* `Verify` – the gates of `verify.rs` and `trust.rs` as predicates: which keys of a slot
  count when, and the compromise switch, the freshness window and artefacts from the
  future, in the code's order. `TrustRotation`, `Enrollment` and `SupplyChain` use it.
* `TrustRotation` – a planned rotation of the CI key and the compromise switch, with the
  copies of `trust.json` the verifiers run.
* `SupplyChain` – how a signed release reaches an agent: the tool, the control plane's
  poll, its routes, the agent's caches, its manifest poll and the checks of a dispatch.
* `Enrollment` – tokens, signed lists, `POST /v1/enroll`, `POST /v1/agent/renew` and the
  gates every request passes; `MCEnrollment` has its symmetry.
* `CertLifecycle` – the agent's side: the certificate file, the clients and the worker.
* `ReleasePipeline` – runs of `nixfleet-release` write by write; `MCReleasePipeline` has
  its symmetry.
* `ControlPlane_proofs`, `Agent_proofs`, `Enrollment_proofs`, `SupplyChain_proofs`,
  `ReleasePipeline_proofs`, `CertLifecycle_proofs`, `TrustRotation_proofs` – the theorems
  about each state machine; `HostRecovery_proofs` – the lemmas about `step()` and the
  heartbeat's synthesis that the first two share.

### How the hosts are modelled

The control plane cannot see more of a host than its reports, so the hosts are
over-approximated: an acknowledgement of anything that was ever sent (`offered`)
naming any closure the host ran by then (`ran`), completion of any target that ran,
failure, deferral, probe results and convergence at any time, a rollback to any
closure. Reports that `step()` rejects change nothing and are left out. A report
may be arbitrarily late: it waits in the agent's outbound queue.

`Prune` stands for the 90-day retention: by then no queue row is left and agents no
longer act on the rollout's dispatches. `dispatch_queue` has no foreign key, so this
is an assumption about time and not about the schema.

### How the agent is modelled

The agent's reducer takes inputs from one channel. A worker's send and the reducer's
handling of it are one step, except for the answer of a heartbeat, which may wait in the
channel (`reply`) while newer inputs are handled: it replaces the agent's record and its
counter by what they were when the control plane answered. `RunHostEvent` is
`run_host_event` with its applier: the record, the queued file and the intents change
together. A file's name holds seq and kind, so events that reuse a seq after a stale
snapshot coexist in the queue, in an order the scan does not fix (`NextToPost`).

The worker's pipeline is one action per step that the rest can observe: taking an intent,
setting the profile, firing the detached unit, the verdict of the poll. The unit ends by
itself (`UnitEnds`), whether or not the agent that fired it still waits. The planner's
gates are those of `ControlPlane`; here any Pending record may be dispatched, and a
heartbeat of a Pending record on its target passes the gates or not (`g`).

`Next` separates `Steady` steps from `Fault`s: a lost dispatch or answer, a refused
dispatch, a crash of the agent, a reboot, a restart of the control plane (before it has
verified manifests it drops events it has already acknowledged), a chain of synthesised
events cut short, a heartbeat that overtakes queued reports. `MaxFaults` bounds their
number in a behaviour; failures of the switch, of probes and of units are `Steady`.

### How trust and artefacts are modelled

A signature is the bytes it was made over together with its key; whether it verifies is
whether bytes and key are the right ones. Hashes are injective: in `SupplyChain` a release
is its place in the history of signings, in `ReleasePipeline` an artefact is the record of
the fields that differ between releases. Time is counted in hours (days in
`CertLifecycle`); the verifier's slack of a minute is below that, and clocks agree within
it.

`TrustRotation` has the operator follow the runbook of `docs/rfcs/0010-trust-lifecycle.md`
7.1 in the order it gives: announce a successor, promote it when it is due, drop the old key
after `Grace`. Nothing else is asked of the environment: CI signs with any key of the slot at
any time, as `docs/design/contracts.md:201-202` has it switch "on the next build", and a copy
of `trust.json` may be of any age. An artefact therefore carries two marks that only the
property reads: whether the flake, as it stood, was going to keep the key for a window
(`FlakeKeeps`), and the verifiers whose copy had the key or was deployed since (`KnownTo`,
`Deploy`). The code under check is `active_keys_at` with the gates behind it.

`SupplyChain` has one channel and one host. A fetch returns any release that was published,
since caches lie between; a pair of files that does not belong together is `Torn`. A ref can
be signed twice: a pin may expire between two runs at one commit, and the second manifest
then has another target under the same rollout id. `opened` is the target the control plane
recorded when the rollout was opened, and a dispatch may arrive at any later time; the
rollout the control plane serves at the moment is `Offered` at every tick.

`Enrollment` splits a request at the points where another one can come between: after the
checks (`EnrollCheck`), after the insert (`RecordToken`), at the answer (`IssueCert`, which
may be lost). The revocation list is written row by row. The operator's side is free:
tokens for any host, any set of declared keys, any cut-off of now or none. A renewal's
certificate request names the renewing host, as the agent's does. `Restart(TRUE)` is a
restart with an empty database; the record of uses (`used`) starts again there, since the
replay table is all the code has and the runbook asks the operator to withdraw the nonce.
The life of a token (`mint-token --validity-hours`, uncapped) and the retention of its row
(`prune_timer.rs`, 24 hours) are unrelated constants.

`CertLifecycle` gives the worker one look at the file per day (it has hundreds). Outages last
at most `MaxOutage` days; the process is restarted at any time or never, since neither the
code nor its systemd unit restarts it on a schedule.

`ReleasePipeline` has one action per file written. A run may stop anywhere (`Abort`) and
the next one starts from the tree and the commits it left, with or without fetching first
(`Checkout`). `PushHook` says whether the tool was given a push command; it is optional and
unset by default (`nixfleet-release/src/main.rs:27-28`, `lib.rs:141`,
`docs/design/contracts.md:45`). Without one nothing is pushed and the release is still
published, so `PublishedBuilt` is about releases with a hook; the others do not depend on it.
Every declared host is built (`--hosts` may name fewer; a host that is left out gets no
closure hash).

## Runs

| run | instance | checks |
|---|---|---|
| `staged` | 2 hosts in 2 waves, a budget of 1, 1 enforce probe, halt | `TypeOK`, `WaveOrder`, `TerminalIsConverged`; `ImplementsDeployment`; `Convergence` under fairness |
| `succession` | 1 host, 2 rollouts of one channel, the second back to the first closure, rollback-and-halt | `OneLiveRollout`, `NoClobber` |
| `host_edges` | 3 hosts without waves, 1 gates the other 2, a budget of 1 over those, halt | `HostEdgeOrder`, `TickWithinBudget` |
| `agent_link` | one host with two older generations, one enforce probe, rollback-and-halt, one fault | `TypeOK`, `ActivatedIsReal`, `HeartbeatRecovers` under fairness |
| `enrollment` | 1 host, 1 token that outlives its replay row, 2 requests at a time, 2 releases, 1 restart | `TypeOK`, `TokenOnce`, `RevokedKeptOut` |
| `cert_lifecycle` | life of 8 days, renewals when less than 6 are left, outages of 2, 24 days | `TypeOK`, `FileOutlastsClient` |
| `rotation` | 2 keys, 2 verifiers, a window of 1 hour, an overlap of 3, a grace of 2, 8 hours | `TypeOK`, `RotationKeepsFresh` |
| `supply` | 2 commits, 2 releases, a pin that expires, 3 hours | `TypeOK`, `AcceptsReleased`; `CatchesUp`, `DispatchGoesThrough` under fairness |
| `release` | a push hook, 2 runners, 2 hosts, 2 source revisions, 3 commits, 3 signings | `TypeOK`, `PublishedWhole`, `PublishedBuilt`, `NeverOlder` |
| `claim_quarantine` | rollback-and-halt, 2 hosts | documented `QuarantineHolds` is violated |
| `claim_rollback_target` | as `agent_link`, no fault | documented `RollbackRestoresPrior` is violated |
| `claim_deferral` | as `agent_link`, no fault | documented `DeferralIsReported` is violated |

Nothing of `ControlPlane` is bounded but the constants: the state space of an instance is
finite.
Two hosts are enough for a wave before a wave, two rollouts for a succession and the way
back. `host_edges` has a third host, so that one tick finds two hosts that are Pending and
pass every other gate under one budget: only the count of what the tick itself queued
(`tick_dispatched`) then keeps the second one back. The two gated hosts are alike, and the run
takes them as symmetric. The theorems below cover the other sizes and both policies.

`Agent` has counters, each with a bound: `MaxSeq` = 6 is the longest life of a record up to
its sustained failure (acknowledged, started, completed, a probe's first failure and result,
failed), `MaxDispatches` = 2 one repetition, `MaxTime` = 1 a clock that passes the soak and
failure deadlines once, `IntentCapacity` = 2 of the channel's 4. One fault (`MaxFaults`)
already gives every stale-snapshot and lost-report history, since the retries it causes are
steady steps; `ActivatedIsReal` was also checked with two faults and `MaxSeq` = 4, with
`MaxTime` = 0.

The other modules count time and releases. `enrollment`: a replay row and a list live one
hour and a token three, so that a row is pruned while its token is still good; two handlers
are what a race on one nonce needs, two releases a list that changes, one restart a database
that is lost; hosts and nonces do not interact except through the lists, which one host's
revocation and its withdrawal exercise. A second certificate after the retention does happen
in this instance: without that exception TLC refutes the property. `rotation`: eight hours
hold a whole rotation back to an empty `previous` and the start of the next one; the theorem
covers the rest. `cert_lifecycle`: twenty-four days are three certificate lives; with one day
more in its premise `FileOutlastsClient` is refuted in this instance, so the bound is exact.
`supply`: two releases are one ref signed twice, or two refs; the pin ends between them.
`release`: two runners race, and three commits are a development commit and a release of each.

*Fairness of* `Agent` (`LiveSpec`): heartbeats are sent every minute for ever and their
answers are taken from the channel; the outbound worker drains its queue on a timer. Nothing
is assumed of activation, units, probes, dispatches or of the processes staying up:
`HeartbeatRecovers` speaks of behaviours in which both do from some moment on.

*Fairness of* `ControlPlane` (`Fairness`): the ticker keeps planning and agents keep heartbeating
(timers that never stop); a dispatch that is queued again and again is delivered at
last (strong: each response may be lost); a delivered dispatch is acknowledged at
last (an acknowledgement that is dropped leaves the record Pending, which is
dispatched again); convergence is reported by a ticker. Nothing is assumed of failures,
deferrals, probes, restarts, manifest updates or switches; `Convergence` therefore speaks of a
rollout that from some moment on is left undisturbed (`Undisturbed`) and whose hosts, once
they have acknowledged, run the target (`Carried`). That excludes the three crashes the code
does not recover from: in the middle of `open_rollout`, between the record of the last
converging host and the aggregation after it, and of an agent between its acknowledgement and
its switch. The instance has waves and a budget; channel edges, which wait for other channels,
and host edges across waves are not part of the claim (see below).

*Fairness of* `SupplyChain` (`LiveSpec`): the agent's manifest poll runs every 30 seconds
and goes on after an error, and its long poll is always open: a dispatch that the planner
emits at every tick, as it does while the host's record is Pending, is handled at last. Nothing
is assumed of CI or of the control plane: `CatchesUp` speaks of behaviours in which the control
plane has a fleet that verifies from some moment on, `DispatchGoesThrough` of those in which
from some moment on it offers a rollout that can be delivered (`Deliverable`: its signings have
the recorded target and one of them verifies and is young enough for a dispatch). `TrustRotation`, `Enrollment`, `CertLifecycle` and
`ReleasePipeline` have no liveness property; their runs may stop at the bounds of the clock,
so deadlock is not checked there, nor in `supply`.

### What the findings say

`PROJECT.json` quotes each statement. In short: the quarantine table is written but the copy
the gate reads is never filled; a rollback takes the profile's previous generation, which is
too old when the failed activation had not set the profile; and a deferred activation is never
reported, because its event is never numbered.

Seen while modelling, without a run of their own:

* the budget holds per tick (`TickWithinBudget`) but counts acknowledged hosts only: two
  ticks before the first acknowledgement put two hosts in flight under a budget of one
  (`disruption_budget.rs:1-4` promises "max one workstation in flight, ever");
* a host edge whose gating host is in a later wave than the gated one blocks both for ever:
  the wave gate holds the first back until the wave of the second is past activation, the edge
  gate the second until the first is (`wave_promotion.rs`, `host_edges.rs`). With an edge
  against the waves in `staged` TLC refutes `Convergence`;
* a rollout that failed under `halt` keeps dispatching: the loop of `planner.rs:85` skips
  only rollouts with `terminal_at` (`docs/rfcs/0002-reconciler.md:133` says "freeze");
* the heartbeat's recovery takes a host that failed before its switch for one that rolled
  back, whatever the policy (`reducer.rs:579`; `transitions/failed.rs:9-10` says no rollback
  arrives under `halt`);
* after a crash in `open_rollout` the hosts that did get a record close the rollout alone
  (`applier.rs:205`);
* a poll in which a channel's manifest does not verify drops the channel from the set,
  and `channel_edges.rs:65` then lets its successors pass (`docs/rfcs/0002-reconciler.md:103`
  says the edge holds until the predecessor is terminal);
* `channel_edges.rs:72` reads `terminal_at` only, so a channel pointed back at a
  superseded ref blocks its successor, although `rollout/state.rs:100` treats
  `Superseded` as a release;
* a rollback passes through `Failed`, which takes the rollout to `Failed`, where
  `HostStateChanged{Reverted}` is ignored (`docs/rfcs/0008-…:97` expects `Reverted`);
* a crash between the last host's record and `RolloutTerminal` leaves a converged
  rollout `Active` for ever (`runtime/reducer.rs:265`);
* an agent that dies between acknowledging a dispatch and firing the switch leaves a record
  that is `Activating` on the old closure for ever: only Pending records are dispatched, and
  the intent was in memory;
* a heartbeat answered between a late switch and the report of its failure brings the
  agent's record back to `Soaking`; the agent may then converge on the record's closure while
  its own rollback switches the host away. `ActivatedIsReal` therefore excludes hosts that
  have rolled back;
* `docs/design/contracts.md:158` has the control plane refuse a manifest whose
  `fleetResolvedHash` is not that of the verified fleet; `manifest_poll.rs:255-283` checks
  the rollout id only. The agent makes the check (`manifest_poll.rs:187`);
* a cached manifest that is still fresh but pins another fleet is not fetched again: its
  channel stays out of the agent's set until the file ages out;
* when a ref is signed twice with different targets, the dispatches of the rollout that was
  opened with the first are refused by agents that hold the second manifest;
* the agent uses a cached `fleet.resolved` that is still fresh without asking the control
  plane for a newer one; and `longpoll.rs:194` has its own hour for a manifest's age, whatever
  the window of the cache is;
* with `--reuse-unchanged-signature` the old `signedAt` and signature are kept while the
  bytes get the new `ciCommit` (`nixfleet-release/src/lib.rs:154-180`, `772-800`), and the
  smoke verification is structural only. With `Reuse` = TRUE TLC finds `PublishedWhole`
  violated; the flag is off by default and in the run;
* `check_trust_rotations` is never called, although `trust.rs:55` and
  `docs/rfcs/0010-trust-lifecycle.md:208` have the reconciler emit its events; a planned
  rotation depends on the operator's calendar;
* "CI starts signing with new key on next build" (`docs/design/contracts.md:201-202`): a
  verifier whose `trust.json` is from before the announcement refuses such an artefact until
  its next deployment, and between `retireAt` and the deployment of the promotion every
  verifier refuses the successor's signatures. `RotationKeepsFresh` speaks of verifiers that
  have the key; for all of them TLC refutes it;
* `mint-token --validity-hours` has no upper limit (`mint_token.rs:39-40`) and the server does
  not cap it, while the replay row is pruned after 24 hours (`prune_timer.rs:12`): a token that
  was minted for longer enrols a second time, until the release tool has dropped its nonce.
  `docs/operations/bootstrap-token-lifecycle.md:96-97` promises a 409 for as long as the
  database lasts. `TokenOnce` says exactly this much;
* `trust.rs:18` speaks of a reload by restart only; the file is read at every poll;
* `cert_renewal.rs:15-17` wants "to keep the on-disk cert from ever expiring"; the worker
  renews with the client it was started with, so without a restart the file expires as well,
  `RenewBelow` - `MaxOutage` days or more after the client. `FileOutlastsClient` says how long
  it is safe; no restart within that time means enrolling again;
* a revocation row that cannot be written is logged and the list counts as applied
  (`revocations_poll.rs:61-76`);
* after the database is lost, replay protection rests on the allowlist alone.

## Proofs

`ControlPlane_proofs` proves, for every topology, policy and number of hosts,
channels, rollouts and probes: `TypeCorrect`, `StagedPromotion` (`WaveOrder`),
`HostEdgesHold` (`HostEdgeOrder`), `TerminalHolds` (`TerminalIsConverged`),
`OneRolloutLives` (`OneLiveRollout`), `NeverClobbered` (`NoClobber`) and `Implements`
(`ImplementsDeployment`), and for every finite fleet `BudgetKept` (`TickWithinBudget`).
The assumptions are the typing of the constants and that a staged host's wave exists
(`TopologyAssumption`, `ControlPlaneAssumption`, `PolicyAssumption`).

`WaveOrder` is not inductive: an acknowledgement moves a host out of Pending without
looking at any gate. The inductive invariant `Inv` adds what makes that safe:

* `SentInv` – every dispatch that is queued or in a host's hands, however old, passed
  the wave and host-edge gates *and still would*;
* `CursorInv` – the wave cursor has passed only hosts that are past activation, and no
  host beyond it has left Pending;
* `JoinedInv` – only hosts of the manifest have records, and only under a row.

The steps are sorted into three shapes first, so that no action is examined against
every conjunct: `Forward` (records and rows only move forward; events, heartbeats and
host steps, finished or cut short), `Replanned` (rollouts are opened or their cursor
moves over a completed wave; plans, finished or cut short) and `Prune`. `StepCases`
shows that every step has one of them, and `ForwardInv`, `ReplannedInv` and `PruneInv`
that each keeps `Inv`.

`Implements` uses the same three shapes: a `Forward` or `Replanned` step is an `Advance` of
the abstract deployment, `Prune` a `Forget`. It needs `Inv` for the hosts that start (their
predecessors are past activation) and `AbsentInv`, that a host without a record is `Pending`,
for the rows that are opened and pruned.

`BudgetKept` is a fact about `plan_next` rather than about reachable states
(`PlanWithinBudget`): in whatever order the hash map is walked, each dispatch of the plan fits
beside all the others, so removing one leaves a count below the maximum. Around it,
`RunPlanBudget` shows that advancing the wave cursors first changes nobody's in-flight count,
and `OnlyPlansQueue` that no other step adds a row to `dispatch_queue`. Hosts and rollouts
must be finite for a count to mean anything; nothing else is assumed.

`Agent_proofs` proves `TypeCorrect` and `ActivationReal` (`ActivatedIsReal`) for every set of
closures and probes, every history of generations, both policies and any bound on faults,
time, counters and channels. The property speaks of the record and of the running system; the
invariant closes the three ways on which the two could part:

* `OutboxInv` – a report of a completed activation that still waits in the durable queue,
  through any number of crashes and repeated posts, is as true as a record that shows it;
* `BootInv` – a host that runs the target also boots it (unless it was rolled back), or a
  reboot would take it off again under a record that stays;
* `UnitsInv` – the switch unit only ever switches to the target, and a rollback unit, or a
  worker about to fire one, exists only after `nix-env --rollback`.

The agent's memory and the snapshots on their way do not occur in it: what a stale snapshot
does to the agent's record cannot make the control plane's record wrong, because `step()`
leaves Activating and Deferred for Soaking on one event only (`StepActivates`) and the
heartbeat's synthesis only when the target runs (`SynthActivates`).

`Enrollment_proofs` proves `TypeCorrect`, `TokenUsedOnce` (`TokenOnce`) and `RevokedStaysOut`
(`RevokedKeptOut`) for any number of hosts, nonces, concurrent requests, releases and
restarts, whatever the life of a token and the retention are. For `TokenOnce` the invariant
remembers, beside the certificates (`used`), the handlers that may still issue one: at most
one of them has recorded a nonce (`OneRecorded`), and a nonce that was used has its replay row
or was used longer ago than the retention (`UsedKnown`). That the token must then be a
long-lived one follows from the times: a certificate is not older than its token (`UsedTimes`,
`TokenTimes`), and a request that passed the checks holds a token that is still valid
(`SlotTokens`). `RevokedKeptOut` needs which rows
of a list are in the table while it is written (`RowsWritten`) and that the others are still
those of the list before (`RowsKept`).

`SupplyChain_proofs` proves `TypeCorrect` and `AcceptedReleased` (the action property
`AcceptsReleased`) for every window, pin and history of commits and
signings. The argument is what each fetch can return (`FleetFetched`, `ManifestFetched`): a
release that verifies at that moment, whatever the caches hold, and for a manifest the one of
the rollout that was asked for.

`ReleasePipeline_proofs` proves, for any number of runners, hosts, source revisions and
commits, `TypeCorrect`, `BuiltBeforePublished` (`PublishedBuilt`), `PublishedOnlyNewer` (the
action property `NeverOlder`) and, without `--reuse-unchanged-signature`, `PublishedTogether`
(`PublishedWhole`). With the flag that last property is false (see the findings), so the
theorem has `~Reuse` as its hypothesis; the others hold either way. `PublishedBuilt` is
conditional on `PushHook`, so `BuiltBeforePublished` says nothing of a tool without one. The effect lemmas say what
each step writes; the invariant then has:

* `BuiltInv` – what a run has pushed so far is in the cache, and no tree, commit or branch
  names closures that are not;
* `Heads` – a commit that was not pushed is known to its runner alone, so a push that the
  forge accepts is one on top of what it has;
* `Ordered`, `Stamps` – a runner whose base is the branch's commit has seen all of the branch,
  and no file carries a later `signedAt` than the clock;
* `WholeInv` – what each `pc` says of the files written so far (`Progress`): what the others
  still hold comes from an earlier signing, so its signature is never taken for a fresh one.

`CertLifecycle_proofs` proves `TypeCorrect` and `FileOutlasts` (`FileOutlastsClient`) for every
certificate life, threshold and longest outage. While the client is good, the file is renewed
as soon as it falls below the threshold, or the control plane has been out of reach since then
(`Outages`, `Kept`; today's look may be still to come, `NotYet`); from the client's end on the
file is left alone and has at least what it had then (`Late`).

`TrustRotation_proofs` proves `TypeCorrect` and `RotationTakesNothingBack`
(`RotationKeepsFresh`) for all sets of keys and verifiers and all windows, overlaps and graces.
The invariant has which places of the slot are filled in which phase of the rotation (`Phases`)
and, for every artefact that was to be kept (`AllKept`), that the flake still has its key for
the rest of its window (`FlakeHas`) and that every copy in `known` has it for as long
(`CopiesHave`); `ActiveBefore` shows that a key active at the end of a window is active until
then.

Only model-checked: `Convergence`, `HeartbeatRecovers`, `CatchesUp` and `DispatchGoesThrough`,
which are liveness
under fairness and out of the prover's reach. Every invariant and every action property of a
passing run is also a theorem. The inductive invariants were checked by TLC on the instances
of the runs before they were proved.

## Not modelled

* In `ControlPlane`, the wipe of the database and the rebuild from heartbeats
  (`docs/design/architecture.md`), and a failing write without a crash.
* In `ControlPlane`, `last_event_seq` and duplicated deliveries: a duplicate of an event
  that was accepted is illegal in the state it led to, with the exception of probe results,
  which are idempotent. `Agent` has the sequence numbers.
* In `Agent`: a second rollout of the same host, probe events that only advance the counter,
  a disk that refuses the queue's writes, and the reducer blocking on a full channel.
* Time: soak deadlines are 0 in `ControlPlane`, so convergence is never refused for
  being early; the properties do not depend on it.
* In `Enrollment` and `SupplyChain`: database writes that fail without a crash; routes run
  without strict mode, in which a poll may be left out altogether.
* The contents of certificates, canonical JSON, schema versions and key algorithms.
* The event log, status views, metrics, long-poll parking, probe runners, darwin.
* The parts marked `not_modelled` in `PROJECT.json`: the canonicaliser and the stand-alone
  verifier are pure functions of documents, the probe runners are I/O, the event log and the
  views decide nothing, and the Nix library is evaluated before anything runs.

## Plan

1. *Done*: reducers, planner, control plane, its theorems and its refinement.
2. *Done*: one agent with its host and the control plane's record of it.
3. *Done*: trust and identity: verification, key rotation, the supply chain, enrolment,
   revocation, the certificate's life, the release tool.
4. *Done*: the theorems: every invariant and action property of the passing runs.
5. An abstract specification of one host's record, implemented by `Agent` (a record moves on
   evidence only), with its refinement proof.
6. Channel edges and compliance over two channels with complete manifest sets.
