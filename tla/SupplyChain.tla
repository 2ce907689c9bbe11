----------------------------- MODULE SupplyChain -----------------------------
(***************************************************************************)
(* How a signed release reaches an agent: nixfleet-release signs           *)
(* fleet.resolved and the channel's rollout manifest and pushes both in    *)
(* one git commit; the control plane polls the forge and serves what it    *)
(* verified; the agent polls the control plane through a disk cache, and   *)
(* checks every dispatch against the manifest.                             *)
(*                                                                         *)
(* One channel and one host of it: channels are verified independently.    *)
(* A release is identified by its place in the history, which stands for   *)
(* the hash of its canonical bytes: signedAt makes each signing unique.    *)
(* A closure is identified by the commit it was built from.  Time is in    *)
(* hours and the clocks agree within the verifier's slack.  A fetched      *)
(* artefact whose signature belongs to other bytes never verifies, so      *)
(* fetching such a pair is fetching nothing.  The signing key is trusted   *)
(* throughout: module TrustRotation has its rotation.                      *)
(***************************************************************************)
EXTENDS Verify, Sequences

CONSTANTS
    Window,        \* freshness window of the verifiers
    DispatchWindow,  \* the hour handle_dispatch allows a manifest
    PinnedTo,      \* the host's pin: a commit, and when the pin expires
    PinUntil,
    MaxCommits,
    MaxReleases,
    MaxTime

Time    == 0 .. MaxTime
Commits == 1 .. MaxCommits

ASSUME SupplyAssumption ==
    /\ Window \in Nat /\ DispatchWindow \in Nat
    /\ MaxCommits \in Nat \ {0} /\ MaxReleases \in Nat /\ MaxTime \in Nat
    /\ PinnedTo \in Commits /\ PinUntil \in Nat

VARIABLES
    now,
    head,      \* HEAD of the checkout CI releases from
    reject,    \* rejectBefore of trust.json
    signed,    \* every release CI signed and pushed, oldest first
    cp,        \* verified_fleet and the manifest of the reducer's set
    opened,    \* the target in the host's record, per rollout
    cache,     \* the agent's files
    set,       \* the agent reducer's SignedManifestSet
    accepted   \* the dispatch the agent acted on last

vars == <<now, head, reject, signed, cp, opened, cache, set, accepted>>

Release == [commit: Commits, at: Time, target: Commits]

\* The index of a release; None for no file, Torn for a pair of files that does
\* not belong together.
None == 0
Torn == -1
Index == {None} \cup DOMAIN signed
Empty == [fleet |-> None, man |-> None]
NotOpened == 0
NoDispatch == [commit |-> 0, target |-> 0]

TypeOK ==
    /\ now \in Time
    /\ head \in Commits
    /\ reject \in Time \cup {Never}
    /\ signed \in Seq(Release) /\ Len(signed) <= MaxReleases
    /\ cp \in [fleet: Index, man: Index]
    /\ opened \in [Commits -> Commits \cup {NotOpened}]
    /\ cache \in [fleet: Index \cup {Torn}, man: [Commits -> Index \cup {Torn}]]
    /\ set \in [fleet: Index, man: Index]
    /\ accepted \in {NoDispatch} \cup [commit: Commits, target: Commits]

Init ==
    /\ now = 0
    /\ head = 1
    /\ reject = Never
    /\ signed = << >>
    /\ cp = Empty
    /\ opened = [c \in Commits |-> NotOpened]
    /\ cache = [fleet |-> None, man |-> [c \in Commits |-> None]]
    /\ set = Empty
    /\ accepted = NoDispatch

consumers == <<cp, opened, cache, set, accepted>>

-----------------------------------------------------------------------------
(* Verification; trust.json is read again for every artefact. *)

Verified(i) == FinishVerification(signed[i].at, now, Window, reject)

-----------------------------------------------------------------------------
(* The operator's repository and its kill switch. *)

\* A commit lands on the branch, possibly the one a release made.
Commit ==
    /\ head < MaxCommits
    /\ head' = head + 1
    /\ UNCHANGED <<now, reject, signed, consumers>>

\* The compromise switch.
RejectBefore ==
    /\ reject = Never
    /\ reject' = now
    /\ UNCHANGED <<now, head, signed, consumers>>

-----------------------------------------------------------------------------
(* nixfleet-release. *)

\* The commit the host is built at: an expired pin counts for nothing, a pin
\* to HEAD is a local build like no pin.
PinActive == PinUntil > now

PinTargetCommit == IF PinActive /\ PinnedTo # head THEN PinnedTo ELSE head

\* Mutant of StampMeta: signedAt is set back by an hour.
StampMetaBackdated(target) == [commit |-> head, at |-> now - 1, target |-> target]

\* stamp_meta: fleet.resolved as it is signed.
StampMeta(target) == [commit |-> head, at |-> now, target |-> target]

\* A run that fails, or that is killed before git push, publishes nothing.
RunRelease ==
    /\ Len(signed) < MaxReleases
    /\ signed' = Append(signed, StampMeta(PinTargetCommit))
    /\ UNCHANGED <<now, head, reject, consumers>>

\* RolloutId: the channel, which is fixed here, and its ref.
RolloutIdOf(i) == signed[i].commit

\* canonical_hash_from_bytes of the fleet.resolved release i projected its
\* manifest from.
FleetResolvedHash(i) == i

\* project_manifest: the manifest of release i names the host's target and pins
\* that fleet.resolved.
ProjectManifest(i) ==
    [id |-> RolloutIdOf(i), target |-> signed[i].target, fleet |-> FleetResolvedHash(i)]

-----------------------------------------------------------------------------
(* The control plane. *)

\* fetch_signed_pair on the fleet's URLs: any release, for the forge may answer
\* from a cache.
FetchFleet == {i \in DOMAIN signed : Verified(i)}

\* fetch_pair on rollouts/<c>.json: a later signing of the same ref overwrites
\* the file, and a request may see either version.
FetchPair(c) == {i \in DOMAIN signed : ProjectManifest(i).id = c}

\* check_rollout_id_discriminator.
Discriminator(i, c) == ProjectManifest(i).id = c

\* fetch_and_verify_channel_manifest; None when it fails.
ChannelManifest(c) ==
    {None} \cup {i \in FetchPair(c) : Verified(i) /\ Discriminator(i, c)}

\* publish_verified_fleet, and the set sent to the reducer.
Publish(f, m) == cp' = [fleet |-> f, man |-> m]

\* cp_manifest_poll.  Without a verified fleet the previous set is kept; a
\* manifest that cannot be fetched or verified is left out of the set.
PollOnce ==
    /\ \E f \in FetchFleet : \E m \in ChannelManifest(RolloutIdOf(f)) : Publish(f, m)
    /\ UNCHANGED <<now, head, reject, signed, opened, cache, set, accepted>>

\* A rollout is opened once, with the target its manifest has at that time.
OpenRollout ==
    /\ cp.man # None
    /\ opened[RolloutIdOf(cp.man)] = NotOpened
    /\ opened' = [opened EXCEPT ![RolloutIdOf(cp.man)] = ProjectManifest(cp.man).target]
    /\ UNCHANGED <<now, head, reject, signed, cp, cache, set, accepted>>

\* prime_blocking, or prime_from_artifact_files when the forge does not answer:
\* the routes get a verified fleet before the listener opens, the reducer's set
\* stays empty until the first poll.
Prime == {None} \cup FetchFleet

CpRestart ==
    /\ \E f \in Prime : Publish(f, None)
    /\ UNCHANGED <<now, head, reject, signed, opened, cache, set, accepted>>

\* GET /v1/fleet.resolved, and GET /v1/rollouts/<c>, which asks the forge.
ServedFleet == {cp.fleet} \ {None}
ServedManifest(c) == FetchPair(c)

-----------------------------------------------------------------------------
(* The agent. *)

\* A pair of files that is there and belongs together.
Readable(i) == i \in DOMAIN signed

\* verify_fleet_bytes.
VerifyFleetBytes(i) == Verified(i)

\* assert_rollout_id_matches.
RolloutIdMatches(i, c) == ProjectManifest(i).id = c

\* verify_bytes.
VerifyBytes(i, c) == Verified(i) /\ RolloutIdMatches(i, c)

\* write_cache and write_fleet_cache: two files, so a crash in between, or the
\* other worker writing at the same time, leaves files that do not match; a
\* disk that refuses leaves the old ones.
WriteCache(i, old) == {i, old, Torn}

\* A cached fleet is verified again before it is used.
CachedFleet == {i \in {cache.fleet} : Readable(i) /\ VerifyFleetBytes(i)}

CachedManifest(c) == {i \in {cache.man[c]} : Readable(i) /\ VerifyBytes(i, c)}

\* Mutant of FetchOrLoadFleet: a cached file that does not verify is an error.
FetchOrLoadFleetStuck ==
    IF cache.fleet # None THEN {[use |-> i, file |-> i] : i \in CachedFleet}
    ELSE {[use |-> cp.fleet, file |-> w] : w \in
             IF ServedFleet # {} /\ VerifyFleetBytes(cp.fleet)
             THEN WriteCache(cp.fleet, cache.fleet) ELSE {}}

\* fetch_or_load_fleet: the release that is used, and what is left in the cache.
FetchOrLoadFleet ==
    IF CachedFleet # {} THEN {[use |-> i, file |-> i] : i \in CachedFleet}
    ELSE UNION {{[use |-> i, file |-> w] : w \in WriteCache(i, cache.fleet)} :
                    i \in {j \in ServedFleet : VerifyFleetBytes(j)}}

\* Mutant of FetchOrLoad: a cached file that does not verify is an error.
FetchOrLoadStuck(c) ==
    IF cache.man[c] # None THEN {[use |-> i, file |-> i] : i \in CachedManifest(c)}
    ELSE UNION {{[use |-> i, file |-> w] : w \in WriteCache(i, cache.man[c])} :
                    i \in {j \in ServedManifest(c) : VerifyBytes(j, c)}}

\* fetch_or_load: the same for the manifest of rollout c.
FetchOrLoad(c) ==
    IF CachedManifest(c) # {} THEN {[use |-> i, file |-> i] : i \in CachedManifest(c)}
    ELSE UNION {{[use |-> i, file |-> w] : w \in WriteCache(i, cache.man[c])} :
                    i \in {j \in ServedManifest(c) : VerifyBytes(j, c)}}

\* The manifest could not be fetched: its channel is left out of the set.
NotFetched(c) ==
    IF CachedManifest(c) # {} THEN {} ELSE {[use |-> None, file |-> cache.man[c]]}

\* The manifest goes into the set when it pins the fleet beside it.
PinsFleet(m, f) == m # None /\ ProjectManifest(m).fleet = FleetResolvedHash(f)

\* tick_once of agent_manifest_poll.
ManifestPoll ==
    \E f \in FetchOrLoadFleet :
    LET c == RolloutIdOf(f.use) IN
    \E m \in FetchOrLoad(c) \cup NotFetched(c) :
        /\ set' = [fleet |-> f.use, man |-> IF PinsFleet(m.use, f.use) THEN m.use ELSE None]
        /\ cache' = [fleet |-> f.file, man |-> [cache.man EXCEPT ![c] = m.file]]
        /\ UNCHANGED <<now, head, reject, signed, cp, opened, accepted>>

\* Mutant of TargetMatches: the signature is enough.
TargetMatchesAny(m, target) == TRUE

\* assert_target_closure: the dispatched closure is the manifest's.
TargetMatches(m, target) == ProjectManifest(m).target = target

\* ensure_for_dispatch and the second look at the manifest's age.
EnsureForDispatch(m, target) == TargetMatches(m, target)
CheckSignedAt(m) == NotStale(signed[m].at, now, DispatchWindow)

\* handle_dispatch; an agent may take any dispatch the control plane ever made.
HandleDispatch(c) ==
    /\ opened[c] # NotOpened
    /\ \E m \in FetchOrLoad(c) :
        /\ cache' = [cache EXCEPT !.man[c] = m.file]
        /\ \/ /\ EnsureForDispatch(m.use, opened[c]) /\ CheckSignedAt(m.use)
              /\ accepted' = [commit |-> c, target |-> opened[c]]
           \/ /\ ~(EnsureForDispatch(m.use, opened[c]) /\ CheckSignedAt(m.use))
              /\ UNCHANGED accepted
    /\ UNCHANGED <<now, head, reject, signed, cp, opened, set>>

AgentRestart ==
    /\ set # Empty
    /\ set' = Empty
    /\ UNCHANGED <<now, head, reject, signed, cp, opened, cache, accepted>>

Tick ==
    /\ now < MaxTime
    /\ now' = now + 1
    /\ UNCHANGED <<head, reject, signed, consumers>>

Next ==
    \/ Commit \/ RunRelease \/ RejectBefore
    \/ PollOnce
    \/ OpenRollout
    \/ CpRestart
    \/ ManifestPoll
    \/ \E c \in Commits : HandleDispatch(c)
    \/ AgentRestart
    \/ Tick

Spec == Init /\ [][Next]_vars

\* The control plane has the manifest of rollout c, so its planner emits the
\* dispatch at every tick until the agent takes it.
Offered(c) == cp.man # None /\ RolloutIdOf(cp.man) = c

\* The agent's worker polls every 30 seconds, its long poll is always open.
LiveSpec ==
    /\ Spec
    /\ WF_vars(ManifestPoll)
    /\ WF_vars(\E c \in Commits : Offered(c) /\ HandleDispatch(c))

-----------------------------------------------------------------------------
(* Properties. *)

\* The agent switches only to what CI declared for this rollout in a release
\* that verifies at that moment: neither a control plane with an old target, nor
\* a cache of any age, nor a ref signed twice gets another closure through.
AcceptsReleased ==
    [][accepted' # accepted =>
         \E i \in DOMAIN signed :
            /\ Verified(i)
            /\ accepted'.commit = signed[i].commit
            /\ accepted'.target = signed[i].target]_vars

\* A cache that is stale, torn or rejected does not keep the agent from what the
\* control plane can serve ("LOADBEARING: verify-failure falls through to
\* fetch").
CatchesUp ==
    <>[](cp.fleet # None /\ Verified(cp.fleet))
        => []<>(set.fleet # None /\ Verified(set.fleet))

\* Rollout c can be delivered: it is offered, the host's record has the target of
\* every signing of c, and a signing that verifies is not too old for a dispatch.
Deliverable(c) ==
    /\ Offered(c) /\ opened[c] # NotOpened
    /\ \E i \in FetchPair(c) : Verified(i)
    /\ \A i \in FetchPair(c) :
           signed[i].target = opened[c] /\ (Verified(i) => CheckSignedAt(i))

\* What can be delivered is taken: whatever crashes and the other worker left of
\* the two files in the agent's cache, and whichever signing of the ref they are
\* of, no file on the disk keeps the agent from the rollout that is offered
\* (manifest_cache.rs, fetch_or_load).
DispatchGoesThrough ==
    <>[](\E c \in Commits : Deliverable(c)) => []<>Offered(accepted.commit)
=============================================================================
