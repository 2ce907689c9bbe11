---------------------------- MODULE ReleasePipeline ----------------------------
(***************************************************************************)
(* nixfleet-release: several CI runners build the fleet, push its closures *)
(* to the binary cache, sign fleet.resolved, the signed lists and the      *)
(* rollout manifest, commit them and push the commit to the branch the     *)
(* control plane reads.  A run may be killed between any two of its steps, *)
(* and the next one may start from the working tree it left.               *)
(*                                                                         *)
(* One channel.  A source revision stands for the closures it evaluates    *)
(* to; a release commit changes none.  The revocation list and the nonce   *)
(* allowlist are written the same way and are one list here.  An artefact  *)
(* is its bytes, a signature the bytes it was made over.                   *)
(***************************************************************************)
EXTENDS Integers, FiniteSets

CONSTANTS
    Runners,
    Hosts,        \* the hosts a run selects with --hosts
    PushHook,     \* --push-cmd is given; without it nothing is pushed
    Reuse,        \* --reuse-unchanged-signature
    MaxSources,   \* bounds: source revisions, commits, signing times
    MaxCommits,
    MaxClock

ASSUME ReleaseAssumption ==
    /\ Hosts # {} /\ PushHook \in BOOLEAN /\ Reuse \in BOOLEAN
    /\ MaxSources \in Nat \ {0} /\ MaxCommits \in Nat /\ MaxClock \in Nat

VARIABLES
    forge,     \* the branch: its last commit, the source and the release files in it
    cache,     \* closures the binary cache has, as <<host, source>>
    clock,     \* the last signedAt
    commits,   \* commits made so far
    run        \* the runners

vars == <<forge, cache, clock, commits, run>>

Sources == 1 .. MaxSources
Refs    == 0 .. MaxCommits
Times   == 1 .. MaxClock

\* The bytes of the three kinds of artefact, and pairs of files.
FleetBytes == [ref: Refs, at: Times, closures: Sources]
ListBytes  == [ref: Refs, at: Times]
None       == [ref |-> -1]
Pair(B)    == [bytes: B \cup {None}, sig: B \cup {None}]
NoPair     == [bytes |-> None, sig |-> None]

Files == [fleet: Pair(FleetBytes), list: Pair(ListBytes), man: [Refs -> Pair(FleetBytes)]]
NoFiles == [fleet |-> NoPair, list |-> NoPair, man |-> [c \in Refs |-> NoPair]]

Steps == {"idle", "push", "fleet", "fleet.sig", "list", "list.sig", "man", "man.sig",
          "commit", "gitpush"}

\* pc; HEAD and the branch's commit it descends from; the source; HEAD's files
\* and the working tree's; signedAt; hosts left to push; the signature to write.
Runner == [pc: Steps, head: Refs, base: Refs, src: Sources, files: Files, tree: Files,
           at: Times \cup {0}, left: SUBSET Hosts,
           sig: FleetBytes \cup ListBytes \cup {None}]

TypeOK ==
    /\ forge \in [head: Refs, src: Sources, files: Files]
    /\ cache \subseteq Hosts \X Sources
    /\ clock \in 0 .. MaxClock
    /\ commits \in Refs
    /\ run \in [Runners -> Runner]

Init ==
    /\ forge = [head |-> 0, src |-> 1, files |-> NoFiles]
    /\ cache = {}
    /\ clock = 0 /\ commits = 0
    /\ run = [r \in Runners |->
                [pc |-> "idle", head |-> 0, base |-> 0, src |-> 1, files |-> NoFiles,
                 tree |-> NoFiles, at |-> 0, left |-> {}, sig |-> None]]

At(r, pc) == run[r].pc = pc

-----------------------------------------------------------------------------
(* Around the tool: developers, and the runner's checkout. *)

\* A commit that changes the source lands on the branch.
Develop ==
    /\ forge.src < MaxSources /\ commits < MaxCommits
    /\ commits' = commits + 1
    /\ forge' = [forge EXCEPT !.head = commits', !.src = @ + 1]
    /\ UNCHANGED <<cache, clock, run>>

\* fetch and reset --hard: files the branch does not have stay as they are.
Checkout(r) ==
    /\ At(r, "idle") /\ run[r].base # forge.head
    /\ run' = [run EXCEPT ![r] =
         [run[r] EXCEPT !.head = forge.head, !.base = forge.head, !.src = forge.src,
                   !.files = forge.files,
                   !.tree = [forge.files EXCEPT !.man =
                     [c \in Refs |-> IF forge.files.man[c] = NoPair
                                     THEN run[r].tree.man[c] ELSE forge.files.man[c]]]]]
    /\ UNCHANGED <<forge, cache, clock, commits>>

-----------------------------------------------------------------------------
(* The tool. *)

\* enumerate_hosts: what auto, auto:exclude or an explicit list leaves of the
\* flake's hosts, the same for every run; the others get no closure hash.
EnumerateHosts == Hosts

\* The pushes there are to make.
ToPush == IF PushHook THEN EnumerateHosts ELSE {}

\* eval_fleet_resolved, git_head_sha and build_hosts: a build that fails ends
\* the run before any push.
Start(r) ==
    /\ At(r, "idle")
    /\ run' = [run EXCEPT ![r].pc = "push", ![r].left = ToPush,
                          ![r].at = 0, ![r].sig = None]
    /\ UNCHANGED <<forge, cache, clock, commits>>

\* Mutant of PushOne: a push hook that fails is only logged.
PushOneLogged(r, h) ==
    /\ At(r, "push") /\ h \in run[r].left
    /\ cache' \in {cache, cache \cup {<<h, run[r].src>>}}
    /\ run' = [run EXCEPT ![r].left = @ \ {h}]
    /\ UNCHANGED <<forge, clock, commits>>

\* push_one: a hook that fails ends the run.
PushOne(r, h) ==
    /\ At(r, "push") /\ h \in run[r].left
    /\ cache' = cache \cup {<<h, run[r].src>>}
    /\ run' = [run EXCEPT ![r].left = @ \ {h}]
    /\ UNCHANGED <<forge, clock, commits>>

\* load_existing_signed_at_if_unchanged: the closures of the file in the tree
\* are the ones just built.
Preserved(r) ==
    /\ Reuse
    /\ run[r].tree.fleet.bytes # None
    /\ run[r].tree.fleet.bytes.closures = run[r].src

SignedAt(r) == IF Preserved(r) THEN run[r].tree.fleet.bytes.at ELSE clock + 1

\* inject_closure_hashes, stamp_meta and canonicalize_resolved.
StampMeta(r) == [ref |-> run[r].head, at |-> SignedAt(r), closures |-> run[r].src]

\* The old signature is kept with the old signedAt.
FleetSignature(r) ==
    IF Preserved(r) /\ run[r].tree.fleet.sig # None THEN run[r].tree.fleet.sig
    ELSE StampMeta(r)

\* write_release writes the artefact, then the signature.
WriteFleet(r) ==
    /\ At(r, "push") /\ run[r].left = {}
    /\ SignedAt(r) \in Times
    /\ clock' = IF SignedAt(r) > clock THEN SignedAt(r) ELSE clock
    /\ run' = [run EXCEPT ![r] =
         [run[r] EXCEPT !.pc = "fleet.sig", !.at = SignedAt(r), !.sig = FleetSignature(r),
                   !.tree.fleet.bytes = StampMeta(r)]]
    /\ UNCHANGED <<forge, cache, commits>>

WriteFleetSig(r) ==
    /\ At(r, "fleet.sig")
    /\ run' = [run EXCEPT ![r].pc = "list", ![r].tree.fleet.sig = run[r].sig]
    /\ UNCHANGED <<forge, cache, clock, commits>>

\* Mutant of SignatureFor: an existing signature is kept whatever it signs.
SignatureForAny(old, new) == IF old.sig # None THEN old.sig ELSE new

\* The signature on disk is kept when the bytes on disk are the new ones.
SignatureFor(old, new) == IF old.bytes = new /\ old.sig # None THEN old.sig ELSE new

\* Mutant of ListOf: the list is not stamped.
ListOfUnstamped(r) == [ref |-> run[r].head, at |-> 0]

\* revocations.json and bootstrap-nonces.json.
ListOf(r) == [ref |-> run[r].head, at |-> run[r].at]

WriteList(r) ==
    /\ At(r, "list")
    /\ run' = [run EXCEPT ![r] =
         [run[r] EXCEPT !.pc = "list.sig", !.sig = SignatureFor(run[r].tree.list, ListOf(r)),
                   !.tree.list.bytes = ListOf(r)]]
    /\ UNCHANGED <<forge, cache, clock, commits>>

WriteListSig(r) ==
    /\ At(r, "list.sig")
    /\ run' = [run EXCEPT ![r].pc = "man", ![r].tree.list.sig = run[r].sig]
    /\ UNCHANGED <<forge, cache, clock, commits>>

\* project_manifest: it pins the canonical bytes of fleet.resolved, and is
\* stored under the ref.
ProjectManifest(r) == [ref |-> run[r].head, at |-> run[r].at, closures |-> run[r].src]

WriteManifest(r) ==
    /\ At(r, "man")
    /\ run' = [run EXCEPT ![r] =
         [run[r] EXCEPT !.pc = "man.sig",
                   !.sig = SignatureFor(run[r].tree.man[run[r].head], ProjectManifest(r)),
                   !.tree.man[run[r].head].bytes = ProjectManifest(r)]]
    /\ UNCHANGED <<forge, cache, clock, commits>>

WriteManifestSig(r) ==
    /\ At(r, "man.sig")
    /\ run' = [run EXCEPT ![r].pc = "commit", ![r].tree.man[run[r].head].sig = run[r].sig]
    /\ UNCHANGED <<forge, cache, clock, commits>>

\* git add of the run's own files: the commit has nothing else of the tree.
Staged(r) ==
    [fleet |-> run[r].tree.fleet, list |-> run[r].tree.list,
     man |-> [run[r].files.man EXCEPT ![run[r].head] = run[r].tree.man[run[r].head]]]

\* git_commit_release: without a staged change there is no commit and no push.
GitCommit(r) ==
    /\ At(r, "commit")
    /\ LET new == Staged(r) # run[r].files IN
       /\ new => commits < MaxCommits
       /\ commits' = IF new THEN commits + 1 ELSE commits
       /\ run' = [run EXCEPT ![r] =
            [run[r] EXCEPT !.pc = IF new THEN "gitpush" ELSE "idle",
                      !.head = IF new THEN commits' ELSE run[r].head,
                      !.files = Staged(r)]]
    /\ UNCHANGED <<forge, cache, clock>>

\* Mutant of GitPush: push --force.
GitPushForced(r) ==
    /\ At(r, "gitpush")
    /\ forge' = [head |-> run[r].head, src |-> run[r].src, files |-> run[r].files]
    /\ run' = [run EXCEPT ![r].pc = "idle", ![r].base = run[r].head]
    /\ UNCHANGED <<cache, clock, commits>>

\* git_push_release: the forge refuses what does not descend from the branch.
GitPush(r) ==
    /\ At(r, "gitpush")
    /\ run[r].base = forge.head
    /\ forge' = [head |-> run[r].head, src |-> run[r].src, files |-> run[r].files]
    /\ run' = [run EXCEPT ![r].pc = "idle", ![r].base = run[r].head]
    /\ UNCHANGED <<cache, clock, commits>>

\* The run fails or is killed; its tree and its commits stay.
Abort(r) ==
    /\ run[r].pc # "idle"
    /\ run' = [run EXCEPT ![r].pc = "idle"]
    /\ UNCHANGED <<forge, cache, clock, commits>>

Next ==
    \/ Develop
    \/ \E r \in Runners :
          \/ Checkout(r) \/ Start(r)
          \/ \E h \in Hosts : PushOne(r, h)
          \/ WriteFleet(r) \/ WriteFleetSig(r)
          \/ WriteList(r) \/ WriteListSig(r)
          \/ WriteManifest(r) \/ WriteManifestSig(r)
          \/ GitCommit(r) \/ GitPush(r)
          \/ Abort(r)

Spec == Init /\ [][Next]_vars

-----------------------------------------------------------------------------
(* Properties. *)

Whole(pair) == pair.bytes = pair.sig

\* What the control plane can fetch belongs together: every pair of the branch
\* verifies, the lists carry the fleet's signedAt, and the manifest of the
\* fleet's ref pins that very fleet.resolved, whatever runs were killed half way
\* in the tree it was published from.
PublishedWhole ==
    LET f == forge.files IN
    /\ Whole(f.fleet) /\ Whole(f.list) /\ \A c \in Refs : Whole(f.man[c])
    /\ f.fleet.bytes # None =>
          /\ f.list.bytes.at = f.fleet.bytes.at
          /\ f.man[f.fleet.bytes.ref].bytes = f.fleet.bytes

\* With a push hook, no published release sends an agent to a closure the binary
\* cache does not have, whichever runs were killed and whichever tree a release
\* was made from.  (Without one, the default, filling the cache is not the
\* tool's business.)
PublishedBuilt ==
    PushHook /\ forge.files.fleet.bytes # None =>
        \A h \in Hosts : <<h, forge.files.fleet.bytes.closures>> \in cache

\* The branch never goes back to an older signing, nor to the closures of an
\* older source, when two runs race.
NeverOlder ==
    [][LET old == forge.files.fleet.bytes  new == forge'.files.fleet.bytes IN
         old # None => new # None /\ new.at >= old.at /\ new.closures >= old.closures]_vars
=============================================================================
