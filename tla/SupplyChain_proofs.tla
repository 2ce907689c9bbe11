-------------------------- MODULE SupplyChain_proofs --------------------------
(***************************************************************************)
(* What an agent acts on was signed for it, whatever its caches hold and   *)
(* whatever the control plane serves: for every freshness window, pin and  *)
(* history of commits, signings and restarts.                              *)
(***************************************************************************)
EXTENDS SupplyChain, TLAPS

-----------------------------------------------------------------------------
(* What the fetches return. *)

\* A signed release has a commit, which is its rollout's id, and a target.
LEMMA ReleaseType ==
    ASSUME TypeOK, NEW i \in DOMAIN signed
    PROVE  /\ RolloutIdOf(i) \in Commits
           /\ ProjectManifest(i).target \in Commits
           /\ i \in Index /\ i # None
<1>1. signed[i] \in Release /\ i # None
      BY DEF TypeOK, None
<1> QED  BY <1>1 DEF RolloutIdOf, ProjectManifest, Release, Index

\* fetch_or_load_fleet: a release that verifies now, and a file that holds it,
\* the old file's content, or a torn pair.
LEMMA FleetFetched ==
    ASSUME TypeOK, NEW f \in FetchOrLoadFleet
    PROVE  /\ f.use \in DOMAIN signed /\ Verified(f.use)
           /\ f.file \in Index \cup {Torn}
<1>0. cache.fleet \in Index \cup {Torn} /\ cp.fleet \in Index
      BY DEF TypeOK
<1>1. CASE CachedFleet # {}
  <2>1. PICK i \in CachedFleet : f = [use |-> i, file |-> i]
        BY <1>1 DEF FetchOrLoadFleet
  <2> QED  BY <2>1 DEF CachedFleet, Readable, VerifyFleetBytes, Index
<1>2. CASE CachedFleet = {}
  <2>1. PICK i \in ServedFleet : /\ VerifyFleetBytes(i)
                                 /\ \E w \in WriteCache(i, cache.fleet) :
                                        f = [use |-> i, file |-> w]
        BY <1>2 DEF FetchOrLoadFleet
  <2>2. i \in DOMAIN signed
        BY <1>0 DEF ServedFleet, Index
  <2> QED  BY <1>0, <2>1, <2>2 DEF VerifyFleetBytes, WriteCache, Index
<1> QED  BY <1>1, <1>2

\* fetch_or_load: the same for a manifest, which is moreover the one of the
\* rollout that was asked for.
LEMMA ManifestFetched ==
    ASSUME TypeOK, NEW c \in Commits, NEW m \in FetchOrLoad(c)
    PROVE  /\ m.use \in DOMAIN signed /\ VerifyBytes(m.use, c)
           /\ m.file \in Index \cup {Torn}
<1>0. cache.man[c] \in Index \cup {Torn}
      BY DEF TypeOK
<1>1. CASE CachedManifest(c) # {}
  <2>1. PICK i \in CachedManifest(c) : m = [use |-> i, file |-> i]
        BY <1>1 DEF FetchOrLoad
  <2> QED  BY <2>1 DEF CachedManifest, Readable, Index
<1>2. CASE CachedManifest(c) = {}
  <2>1. PICK i \in ServedManifest(c) : /\ VerifyBytes(i, c)
                                       /\ \E w \in WriteCache(i, cache.man[c]) :
                                              m = [use |-> i, file |-> w]
        BY <1>2 DEF FetchOrLoad
  <2>2. i \in DOMAIN signed
        BY DEF ServedManifest, FetchPair
  <2> QED  BY <1>0, <2>1, <2>2 DEF WriteCache, Index
<1> QED  BY <1>1, <1>2

\* With or without a manifest.
LEMMA ManifestPolled ==
    ASSUME TypeOK, NEW c \in Commits, NEW m \in FetchOrLoad(c) \cup NotFetched(c)
    PROVE  m.use \in Index /\ m.file \in Index \cup {Torn}
<1>1. CASE m \in FetchOrLoad(c)
      BY <1>1, ManifestFetched DEF Index
<1>2. CASE m \in NotFetched(c)
      BY <1>2 DEF NotFetched, TypeOK, Index
<1> QED  BY <1>1, <1>2

-----------------------------------------------------------------------------
(* The types. *)

LEMMA InitHolds == Init => TypeOK
BY SupplyAssumption DEF Init, TypeOK, Time, Commits, Index, Empty, None, NotOpened

LEMMA Inductive == TypeOK /\ [Next]_vars => TypeOK'
<1> SUFFICES ASSUME TypeOK, [Next]_vars PROVE TypeOK'
    OBVIOUS
<1> USE SupplyAssumption
<1>1. CASE Commit
      BY <1>1 DEF Commit, TypeOK, consumers, Commits, Index
<1>2. CASE RejectBefore
      BY <1>2 DEF RejectBefore, TypeOK, consumers, Index
<1>3. CASE RunRelease
  <2>1. StampMeta(PinTargetCommit) \in Release
        BY DEF StampMeta, PinTargetCommit, Release, TypeOK
  <2>2. /\ signed' \in Seq(Release) /\ Len(signed') <= MaxReleases
        /\ Index \subseteq Index'
        BY <1>3, <2>1 DEF RunRelease, TypeOK, Index
  <2>3. /\ cp' \in [fleet: Index', man: Index'] /\ set' \in [fleet: Index', man: Index']
        /\ cache' \in [fleet: Index' \cup {Torn}, man: [Commits -> Index' \cup {Torn}]]
        BY <1>3, <2>2 DEF RunRelease, TypeOK, consumers
  <2> QED  BY <1>3, <2>2, <2>3 DEF RunRelease, TypeOK, consumers
<1>4. CASE PollOnce
  <2>1. PICK f \in FetchFleet : \E m \in ChannelManifest(RolloutIdOf(f)) : Publish(f, m)
        BY <1>4 DEF PollOnce
  <2>2. f \in Index /\ \A m \in ChannelManifest(RolloutIdOf(f)) : m \in Index
        BY DEF FetchFleet, ChannelManifest, FetchPair, Index
  <2>3. cp' \in [fleet: Index, man: Index]
        BY <2>1, <2>2 DEF Publish
  <2> QED  BY <1>4, <2>3 DEF PollOnce, TypeOK, Index
<1>5. CASE OpenRollout
  <2>1. cp.man \in DOMAIN signed
        BY <1>5 DEF OpenRollout, TypeOK, Index
  <2>2. opened' \in [Commits -> Commits \cup {NotOpened}]
        BY <1>5, <2>1, ReleaseType DEF OpenRollout, TypeOK
  <2> QED  BY <1>5, <2>2 DEF OpenRollout, TypeOK, Index
<1>6. CASE CpRestart
  <2>1. cp' \in [fleet: Index, man: Index]
        BY <1>6 DEF CpRestart, Prime, FetchFleet, Publish, Index
  <2> QED  BY <1>6, <2>1 DEF CpRestart, TypeOK, Index
<1>7. CASE ManifestPoll
  <2>1. PICK f \in FetchOrLoadFleet :
             \E m \in FetchOrLoad(RolloutIdOf(f.use)) \cup NotFetched(RolloutIdOf(f.use)) :
                 /\ set' = [fleet |-> f.use,
                            man |-> IF PinsFleet(m.use, f.use) THEN m.use ELSE None]
                 /\ cache' = [fleet |-> f.file,
                              man |-> [cache.man EXCEPT ![RolloutIdOf(f.use)] = m.file]]
                 /\ UNCHANGED <<now, head, reject, signed, cp, opened, accepted>>
        BY <1>7, Zenon DEF ManifestPoll
  <2>2. /\ f.use \in DOMAIN signed /\ f.file \in Index \cup {Torn}
        /\ f.use \in Index /\ RolloutIdOf(f.use) \in Commits
        BY FleetFetched, ReleaseType
  <2>3. PICK m \in FetchOrLoad(RolloutIdOf(f.use)) \cup NotFetched(RolloutIdOf(f.use)) :
             /\ set' = [fleet |-> f.use,
                        man |-> IF PinsFleet(m.use, f.use) THEN m.use ELSE None]
             /\ cache' = [fleet |-> f.file,
                          man |-> [cache.man EXCEPT ![RolloutIdOf(f.use)] = m.file]]
             /\ UNCHANGED <<now, head, reject, signed, cp, opened, accepted>>
        BY <2>1
  <2>4. m.use \in Index /\ m.file \in Index \cup {Torn}
        BY <2>2, ManifestPolled
  <2>5. set' \in [fleet: Index, man: Index]
        BY <2>2, <2>3, <2>4 DEF Index
  <2>6. cache' \in [fleet: Index \cup {Torn}, man: [Commits -> Index \cup {Torn}]]
        BY <2>2, <2>3, <2>4 DEF TypeOK
  <2> QED  BY <2>3, <2>5, <2>6 DEF TypeOK, Index
<1>8. ASSUME NEW c \in Commits, HandleDispatch(c) PROVE TypeOK'
  <2>1. PICK m \in FetchOrLoad(c) : cache' = [cache EXCEPT !.man[c] = m.file]
        BY <1>8 DEF HandleDispatch
  <2>2. m.file \in Index \cup {Torn}
        BY ManifestFetched
  <2>3. cache' \in [fleet: Index \cup {Torn}, man: [Commits -> Index \cup {Torn}]]
        BY <2>1, <2>2 DEF TypeOK
  <2>4. accepted' \in {NoDispatch} \cup [commit: Commits, target: Commits]
        BY <1>8 DEF HandleDispatch, TypeOK
  <2> QED  BY <1>8, <2>3, <2>4 DEF HandleDispatch, TypeOK, Index
<1>9. CASE AgentRestart
      BY <1>9 DEF AgentRestart, TypeOK, Index, Empty
<1>10. CASE Tick
      BY <1>10 DEF Tick, TypeOK, Time, consumers, Index
<1>11. CASE UNCHANGED vars
      BY <1>11 DEF vars, TypeOK, Index
<1> QED  BY <1>1, <1>2, <1>3, <1>4, <1>5, <1>6, <1>7, <1>8, <1>9, <1>10, <1>11 DEF Next

-----------------------------------------------------------------------------
(* The theorems. *)

\* Every index a cache, the control plane or the agent's set holds is that of a
\* release CI signed, whatever files a crash tore.
THEOREM TypeCorrect == Spec => []TypeOK
BY InitHolds, Inductive, PTL DEF Spec

\* A step of the agent acts only on a closure that a release which verifies in
\* that step names for that rollout; only handle_dispatch acts on one at all.
LEMMA AcceptStep ==
    ASSUME TypeOK, [Next]_vars, accepted' # accepted
    PROVE  \E i \in DOMAIN signed :
              /\ Verified(i)
              /\ accepted'.commit = signed[i].commit
              /\ accepted'.target = signed[i].target
<1>1. PICK c \in Commits : HandleDispatch(c)
      BY DEF Next, Commit, RunRelease, RejectBefore, PollOnce, OpenRollout, CpRestart,
         ManifestPoll, AgentRestart, Tick, consumers, vars
<1>2. PICK m \in FetchOrLoad(c) :
           /\ EnsureForDispatch(m.use, opened[c])
           /\ accepted' = [commit |-> c, target |-> opened[c]]
      BY <1>1 DEF HandleDispatch
<1>3. m.use \in DOMAIN signed /\ VerifyBytes(m.use, c)
      BY ManifestFetched
<1>4. signed[m.use].commit = c /\ Verified(m.use)
      BY <1>3 DEF VerifyBytes, RolloutIdMatches, ProjectManifest, RolloutIdOf
<1>5. signed[m.use].target = opened[c]
      BY <1>2 DEF EnsureForDispatch, TargetMatches, ProjectManifest
<1> QED  BY <1>2, <1>3, <1>4, <1>5

\* Whatever the control plane recorded when it opened the rollout and whatever
\* the agent cached, the agent switches only to what CI declared for the rollout
\* in a release that verifies then.
THEOREM AcceptedReleased == Spec => AcceptsReleased
<1>1. TypeOK /\ [Next]_vars =>
          [accepted' # accepted =>
             \E i \in DOMAIN signed :
                /\ Verified(i)
                /\ accepted'.commit = signed[i].commit
                /\ accepted'.target = signed[i].target]_vars
      BY AcceptStep
<1> QED  BY <1>1, TypeCorrect, PTL DEF Spec, AcceptsReleased
=============================================================================
