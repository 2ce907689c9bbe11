------------------------ MODULE ReleasePipeline_proofs ------------------------
(***************************************************************************)
(* What nixfleet-release publishes, for any number of CI runners, hosts,   *)
(* source revisions and commits, with runs killed between any two steps.   *)
(***************************************************************************)
EXTENDS ReleasePipeline, TLAPS

-----------------------------------------------------------------------------
(* What each step writes into its runner. *)

\* Every step of the tool is a step of one runner.
Only(r) == \A q \in Runners \ {r} : run'[q] = run[q]

\* The checkout, the release time and the hosts of a runner that goes on.
SameCheckout(r) ==
    /\ run'[r].head = run[r].head /\ run'[r].base = run[r].base
    /\ run'[r].src = run[r].src /\ run'[r].files = run[r].files

SameTree(r) == run'[r].tree = run[r].tree

LEMMA RunnerType ==
    ASSUME TypeOK, NEW r \in Runners
    PROVE  run[r] \in Runner
BY DEF TypeOK

LEMMA CheckoutEffect ==
    ASSUME TypeOK, NEW r \in Runners, Checkout(r)
    PROVE  /\ Only(r) /\ run[r].pc = "idle" /\ run'[r].pc = "idle"
           /\ run'[r].head = forge.head /\ run'[r].base = forge.head
           /\ run'[r].src = forge.src /\ run'[r].files = forge.files
           /\ run'[r].tree.fleet = forge.files.fleet
           /\ run'[r].tree.list = forge.files.list
           /\ run'[r].tree.man = [c \in Refs |->
                 IF forge.files.man[c] = NoPair THEN run[r].tree.man[c]
                 ELSE forge.files.man[c]]
           /\ run'[r].at = run[r].at /\ run'[r].left = run[r].left
           /\ run'[r].sig = run[r].sig
BY RunnerType DEF Checkout, At, Only, TypeOK, Runner, Files

LEMMA StartEffect ==
    ASSUME TypeOK, NEW r \in Runners, Start(r)
    PROVE  /\ Only(r) /\ SameCheckout(r) /\ SameTree(r)
           /\ run'[r].pc = "push" /\ run'[r].left = ToPush
           /\ run'[r].at = 0 /\ run'[r].sig = None
BY RunnerType DEF Start, At, Only, TypeOK, Runner, SameCheckout, SameTree

LEMMA PushOneEffect ==
    ASSUME TypeOK, NEW r \in Runners, NEW h \in Hosts, PushOne(r, h)
    PROVE  /\ Only(r) /\ SameCheckout(r) /\ SameTree(r)
           /\ run[r].pc = "push" /\ run'[r].pc = "push"
           /\ run'[r].left = run[r].left \ {h}
           /\ run'[r].at = run[r].at /\ run'[r].sig = run[r].sig
BY RunnerType DEF PushOne, At, Only, TypeOK, Runner, SameCheckout, SameTree

LEMMA WriteFleetEffect ==
    ASSUME TypeOK, NEW r \in Runners, WriteFleet(r)
    PROVE  /\ Only(r) /\ SameCheckout(r)
           /\ run[r].pc = "push" /\ run[r].left = {} /\ run'[r].pc = "fleet.sig"
           /\ run'[r].left = run[r].left
           /\ run'[r].at = SignedAt(r) /\ run'[r].sig = FleetSignature(r)
           /\ run'[r].tree.fleet.bytes = StampMeta(r)
           /\ run'[r].tree.fleet.sig = run[r].tree.fleet.sig
           /\ run'[r].tree.list = run[r].tree.list
           /\ run'[r].tree.man = run[r].tree.man
<1>1. run[r].tree \in Files /\ run[r].tree.fleet \in Pair(FleetBytes)
      BY RunnerType DEF Runner, Files
<1> QED  BY <1>1, RunnerType DEF WriteFleet, At, Only, TypeOK, Runner, Files, Pair, SameCheckout

LEMMA WriteFleetSigEffect ==
    ASSUME TypeOK, NEW r \in Runners, WriteFleetSig(r)
    PROVE  /\ Only(r) /\ SameCheckout(r)
           /\ run[r].pc = "fleet.sig" /\ run'[r].pc = "list"
           /\ run'[r].left = run[r].left
           /\ run'[r].at = run[r].at /\ run'[r].sig = run[r].sig
           /\ run'[r].tree.fleet.bytes = run[r].tree.fleet.bytes
           /\ run'[r].tree.fleet.sig = run[r].sig
           /\ run'[r].tree.list = run[r].tree.list
           /\ run'[r].tree.man = run[r].tree.man
<1>1. run[r].tree \in Files /\ run[r].tree.fleet \in Pair(FleetBytes)
      BY RunnerType DEF Runner, Files
<1> QED  BY <1>1, RunnerType DEF WriteFleetSig, At, Only, TypeOK, Runner, Files, Pair,
            SameCheckout

LEMMA WriteListEffect ==
    ASSUME TypeOK, NEW r \in Runners, WriteList(r)
    PROVE  /\ Only(r) /\ SameCheckout(r)
           /\ run[r].pc = "list" /\ run'[r].pc = "list.sig"
           /\ run'[r].left = run[r].left
           /\ run'[r].at = run[r].at
           /\ run'[r].sig = SignatureFor(run[r].tree.list, ListOf(r))
           /\ run'[r].tree.list.bytes = ListOf(r)
           /\ run'[r].tree.list.sig = run[r].tree.list.sig
           /\ run'[r].tree.fleet = run[r].tree.fleet
           /\ run'[r].tree.man = run[r].tree.man
<1>1. run[r].tree \in Files /\ run[r].tree.list \in Pair(ListBytes)
      BY RunnerType DEF Runner, Files
<1> QED  BY <1>1, RunnerType DEF WriteList, At, Only, TypeOK, Runner, Files, Pair,
            SameCheckout

LEMMA WriteListSigEffect ==
    ASSUME TypeOK, NEW r \in Runners, WriteListSig(r)
    PROVE  /\ Only(r) /\ SameCheckout(r)
           /\ run[r].pc = "list.sig" /\ run'[r].pc = "man"
           /\ run'[r].left = run[r].left
           /\ run'[r].at = run[r].at /\ run'[r].sig = run[r].sig
           /\ run'[r].tree.list.bytes = run[r].tree.list.bytes
           /\ run'[r].tree.list.sig = run[r].sig
           /\ run'[r].tree.fleet = run[r].tree.fleet
           /\ run'[r].tree.man = run[r].tree.man
<1>1. run[r].tree \in Files /\ run[r].tree.list \in Pair(ListBytes)
      BY RunnerType DEF Runner, Files
<1> QED  BY <1>1, RunnerType DEF WriteListSig, At, Only, TypeOK, Runner, Files, Pair,
            SameCheckout

LEMMA WriteManifestEffect ==
    ASSUME TypeOK, NEW r \in Runners, WriteManifest(r)
    PROVE  /\ Only(r) /\ SameCheckout(r)
           /\ run[r].pc = "man" /\ run'[r].pc = "man.sig"
           /\ run'[r].left = run[r].left
           /\ run'[r].at = run[r].at
           /\ run'[r].sig = SignatureFor(run[r].tree.man[run[r].head], ProjectManifest(r))
           /\ run'[r].tree.man[run[r].head].bytes = ProjectManifest(r)
           /\ run'[r].tree.man[run[r].head].sig = run[r].tree.man[run[r].head].sig
           /\ \A c \in Refs \ {run[r].head} : run'[r].tree.man[c] = run[r].tree.man[c]
           /\ run'[r].tree.fleet = run[r].tree.fleet
           /\ run'[r].tree.list = run[r].tree.list
<1>1. run[r].tree \in Files /\ run[r].tree.man \in [Refs -> Pair(FleetBytes)]
      BY RunnerType DEF Runner, Files
<1>2. run[r].head \in Refs
      BY RunnerType DEF Runner
<1> QED  BY <1>1, <1>2, RunnerType DEF WriteManifest, At, Only, TypeOK, Runner, Files, Pair,
            SameCheckout

LEMMA WriteManifestSigEffect ==
    ASSUME TypeOK, NEW r \in Runners, WriteManifestSig(r)
    PROVE  /\ Only(r) /\ SameCheckout(r)
           /\ run[r].pc = "man.sig" /\ run'[r].pc = "commit"
           /\ run'[r].left = run[r].left
           /\ run'[r].at = run[r].at /\ run'[r].sig = run[r].sig
           /\ run'[r].tree.man[run[r].head].bytes = run[r].tree.man[run[r].head].bytes
           /\ run'[r].tree.man[run[r].head].sig = run[r].sig
           /\ \A c \in Refs \ {run[r].head} : run'[r].tree.man[c] = run[r].tree.man[c]
           /\ run'[r].tree.fleet = run[r].tree.fleet
           /\ run'[r].tree.list = run[r].tree.list
<1>1. run[r].tree \in Files /\ run[r].tree.man \in [Refs -> Pair(FleetBytes)]
      BY RunnerType DEF Runner, Files
<1>2. run[r] \in Runner /\ run[r].head \in Refs /\ run \in [Runners -> Runner]
      BY RunnerType DEF Runner, TypeOK
<1> QED  BY <1>1, <1>2 DEF WriteManifestSig, At, Only, Runner, Files, Pair, SameCheckout

\* A commit with something in it is a new one.
LEMMA GitCommitWrites ==
    ASSUME TypeOK, NEW r \in Runners, GitCommit(r)
    PROVE  \/ /\ commits < MaxCommits /\ commits' = commits + 1
              /\ run' = [run EXCEPT ![r] =
                   [@ EXCEPT !.pc = "gitpush", !.head = commits', !.files = Staged(r)]]
           \/ /\ Staged(r) = run[r].files /\ commits' = commits
              /\ run' = [run EXCEPT ![r] =
                   [@ EXCEPT !.pc = "idle", !.head = run[r].head, !.files = Staged(r)]]
<1>1. CASE Staged(r) # run[r].files
      BY <1>1 DEF GitCommit
<1>2. CASE Staged(r) = run[r].files
      BY <1>2 DEF GitCommit
<1> QED  BY <1>1, <1>2

LEMMA GitCommitEffect ==
    ASSUME TypeOK, NEW r \in Runners, GitCommit(r)
    PROVE  /\ Only(r) /\ SameTree(r)
           /\ run[r].pc = "commit"
           /\ run'[r].base = run[r].base /\ run'[r].src = run[r].src
           /\ run'[r].files = Staged(r)
           /\ run'[r].left = run[r].left
           /\ run'[r].at = run[r].at /\ run'[r].sig = run[r].sig
           /\ \/ /\ run'[r].pc = "gitpush" /\ run'[r].head = commits'
                 /\ commits < MaxCommits /\ commits' = commits + 1
              \/ /\ run'[r].pc = "idle" /\ run'[r].head = run[r].head
                 /\ Staged(r) = run[r].files
                 /\ commits' = commits
<1>0. run[r] \in Runner /\ run \in [Runners -> Runner] /\ At(r, "commit")
      BY RunnerType DEF TypeOK, GitCommit
<1>1. CASE /\ commits < MaxCommits /\ commits' = commits + 1
           /\ run' = [run EXCEPT ![r] =
                [@ EXCEPT !.pc = "gitpush", !.head = commits', !.files = Staged(r)]]
      BY <1>0, <1>1 DEF At, Only, Runner, SameTree
<1>2. CASE /\ Staged(r) = run[r].files /\ commits' = commits
           /\ run' = [run EXCEPT ![r] =
                [@ EXCEPT !.pc = "idle", !.head = run[r].head, !.files = Staged(r)]]
      BY <1>0, <1>2 DEF At, Only, Runner, SameTree
<1> QED  BY <1>1, <1>2, GitCommitWrites

LEMMA GitPushEffect ==
    ASSUME TypeOK, NEW r \in Runners, GitPush(r)
    PROVE  /\ Only(r) /\ SameTree(r)
           /\ run[r].pc = "gitpush" /\ run'[r].pc = "idle"
           /\ run'[r].head = run[r].head /\ run'[r].base = run[r].head
           /\ run'[r].src = run[r].src /\ run'[r].files = run[r].files
           /\ run'[r].left = run[r].left
           /\ run'[r].at = run[r].at /\ run'[r].sig = run[r].sig
           /\ run[r].base = forge.head
           /\ forge'.head = run[r].head /\ forge'.src = run[r].src
           /\ forge'.files = run[r].files
BY RunnerType DEF GitPush, At, Only, TypeOK, Runner, SameTree

LEMMA AbortEffect ==
    ASSUME TypeOK, NEW r \in Runners, Abort(r)
    PROVE  /\ Only(r) /\ SameCheckout(r) /\ SameTree(r)
           /\ run'[r].pc = "idle"
           /\ run'[r].left = run[r].left
           /\ run'[r].at = run[r].at /\ run'[r].sig = run[r].sig
BY RunnerType DEF Abort, Only, TypeOK, Runner, SameCheckout, SameTree

\* Steps that commit nothing, push nothing and do not write fleet.resolved.
QuietStep(r) ==
    \/ Start(r) \/ WriteFleetSig(r) \/ WriteList(r) \/ WriteListSig(r)
    \/ WriteManifest(r) \/ WriteManifestSig(r) \/ Abort(r)

LEMMA QuietEffect ==
    ASSUME TypeOK, NEW r \in Runners, QuietStep(r)
    PROVE  /\ Only(r) /\ SameCheckout(r)
           /\ run'[r].tree.fleet.bytes = run[r].tree.fleet.bytes
           /\ run'[r].pc = "push" => run'[r].left = ToPush
           /\ run'[r].pc # "gitpush"
           /\ UNCHANGED <<forge, cache, clock, commits>>
<1>1. CASE Start(r)
      BY <1>1, StartEffect DEF Start, SameTree
<1>2. CASE WriteFleetSig(r)
      BY <1>2, WriteFleetSigEffect DEF WriteFleetSig
<1>3. CASE WriteList(r)
      BY <1>3, WriteListEffect DEF WriteList
<1>4. CASE WriteListSig(r)
      BY <1>4, WriteListSigEffect DEF WriteListSig
<1>5. CASE WriteManifest(r)
  <2>1. UNCHANGED <<forge, cache, clock, commits>>
        BY <1>5 DEF WriteManifest
  <2> QED  BY <1>5, <2>1, WriteManifestEffect
<1>6. CASE WriteManifestSig(r)
  <2>1. UNCHANGED <<forge, cache, clock, commits>>
        BY <1>6 DEF WriteManifestSig
  <2> QED  BY <1>6, <2>1, WriteManifestSigEffect
<1>7. CASE Abort(r)
      BY <1>7, AbortEffect DEF Abort, SameTree
<1> QED  BY <1>1, <1>2, <1>3, <1>4, <1>5, <1>6, <1>7 DEF QuietStep

\* The steps of the runners.
RunnerStep(r) ==
    \/ Checkout(r) \/ \E h \in Hosts : PushOne(r, h)
    \/ WriteFleet(r) \/ GitCommit(r) \/ GitPush(r) \/ QuietStep(r)

LEMMA OneRunner ==
    ASSUME TypeOK, NEW r \in Runners, RunnerStep(r)
    PROVE  Only(r)
<1>1. CASE Checkout(r)
      BY <1>1, CheckoutEffect
<1>2. CASE \E h \in Hosts : PushOne(r, h)
      BY <1>2, PushOneEffect
<1>3. CASE WriteFleet(r)
      BY <1>3, WriteFleetEffect
<1>4. CASE GitCommit(r)
      BY <1>4, GitCommitEffect
<1>5. CASE GitPush(r)
      BY <1>5, GitPushEffect
<1>6. CASE QuietStep(r)
      BY <1>6, QuietEffect
<1> QED  BY <1>1, <1>2, <1>3, <1>4, <1>5, <1>6 DEF RunnerStep

LEMMA StepKinds ==
    ASSUME [Next]_vars
    PROVE  Develop \/ UNCHANGED vars \/ \E r \in Runners : RunnerStep(r)
BY Zenon DEF Next, RunnerStep, QuietStep

-----------------------------------------------------------------------------
(* Types.  The signature a run holds is of the kind it is about to write,   *)
(* and a run that writes has drawn its signedAt.                            *)

Writing == {"fleet.sig", "list", "list.sig", "man", "man.sig", "commit"}

SigKind ==
    \A r \in Runners :
        /\ run[r].pc \in Writing => run[r].at \in Times
        /\ run[r].pc \in {"fleet.sig", "man.sig"} => run[r].sig \in FleetBytes
        /\ run[r].pc = "list.sig" => run[r].sig \in ListBytes

LEMMA StampType ==
    ASSUME TypeOK, NEW r \in Runners, SignedAt(r) \in Times
    PROVE  StampMeta(r) \in FleetBytes /\ FleetSignature(r) \in FleetBytes
<1>1. run[r] \in Runner /\ run[r].tree.fleet.sig \in FleetBytes \cup {None}
      BY RunnerType DEF Runner, Files, Pair
<1>2. StampMeta(r) \in FleetBytes
      BY <1>1 DEF StampMeta, FleetBytes, Runner
<1> QED  BY <1>1, <1>2 DEF FleetSignature

LEMMA SignatureType ==
    ASSUME NEW B, NEW old \in Pair(B), NEW new \in B
    PROVE  SignatureFor(old, new) \in B
BY DEF SignatureFor, Pair

LEMMA StagedType ==
    ASSUME TypeOK, NEW r \in Runners
    PROVE  Staged(r) \in Files
<1>1. run[r].tree \in Files /\ run[r].files \in Files /\ run[r].head \in Refs
      BY RunnerType DEF Runner
<1> QED  BY <1>1 DEF Staged, Files

LEMMA NoFilesType == NoFiles \in Files /\ None \notin FleetBytes \cup ListBytes
BY DEF NoFiles, Files, Pair, NoPair, None, FleetBytes, ListBytes, Refs

LEMMA InitType == Init => TypeOK /\ SigKind
<1> SUFFICES ASSUME Init PROVE TypeOK /\ SigKind
    OBVIOUS
<1>1. 0 \in Refs /\ 1 \in Sources /\ 0 \in 0 .. MaxClock
      BY ReleaseAssumption DEF Refs, Sources
<1>2. TypeOK
      BY <1>1, NoFilesType DEF Init, TypeOK, Runner, Steps
<1>3. SigKind
      BY DEF Init, SigKind, Writing
<1> QED  BY <1>2, <1>3

\* Files written one at a time are files.
LEMMA TreeType ==
    ASSUME TypeOK, NEW r \in Runners
    PROVE  /\ \A b \in FleetBytes :
                 /\ [run[r].tree EXCEPT !.fleet.bytes = b] \in Files
                 /\ [run[r].tree EXCEPT !.fleet.sig = b] \in Files
           /\ \A b \in ListBytes :
                 /\ [run[r].tree EXCEPT !.list.bytes = b] \in Files
                 /\ [run[r].tree EXCEPT !.list.sig = b] \in Files
           /\ \A b \in FleetBytes :
                 /\ [run[r].tree EXCEPT !.man[run[r].head].bytes = b] \in Files
                 /\ [run[r].tree EXCEPT !.man[run[r].head].sig = b] \in Files
<1>1. run[r].tree \in Files /\ run[r].head \in Refs
      BY RunnerType DEF Runner
<1>2. ASSUME NEW b \in FleetBytes
      PROVE  /\ [run[r].tree EXCEPT !.fleet.bytes = b] \in Files
             /\ [run[r].tree EXCEPT !.fleet.sig = b] \in Files
      BY <1>1 DEF Files, Pair
<1>3. ASSUME NEW b \in ListBytes
      PROVE  /\ [run[r].tree EXCEPT !.list.bytes = b] \in Files
             /\ [run[r].tree EXCEPT !.list.sig = b] \in Files
      BY <1>1 DEF Files, Pair
<1>4. ASSUME NEW b \in FleetBytes
      PROVE  /\ [run[r].tree EXCEPT !.man[run[r].head].bytes = b] \in Files
             /\ [run[r].tree EXCEPT !.man[run[r].head].sig = b] \in Files
  <2> DEFINE m == run[r].tree.man  c == run[r].head
  <2>1. m \in [Refs -> Pair(FleetBytes)] /\ m[c] \in Pair(FleetBytes)
        BY <1>1 DEF Files
  <2>2. /\ [m[c] EXCEPT !.bytes = b] \in Pair(FleetBytes)
        /\ [m[c] EXCEPT !.sig = b] \in Pair(FleetBytes)
        BY <2>1 DEF Pair
  <2>3. /\ [m EXCEPT ![c] = [m[c] EXCEPT !.bytes = b]] \in [Refs -> Pair(FleetBytes)]
        /\ [m EXCEPT ![c] = [m[c] EXCEPT !.sig = b]] \in [Refs -> Pair(FleetBytes)]
        BY <1>1, <2>1, <2>2
  <2>4. \A n \in [Refs -> Pair(FleetBytes)] : [run[r].tree EXCEPT !.man = n] \in Files
        BY <1>1 DEF Files
  <2>5. /\ [run[r].tree EXCEPT !.man[run[r].head].bytes = b] =
              [run[r].tree EXCEPT !.man = [m EXCEPT ![c] = [m[c] EXCEPT !.bytes = b]]]
        /\ [run[r].tree EXCEPT !.man[run[r].head].sig = b] =
              [run[r].tree EXCEPT !.man = [m EXCEPT ![c] = [m[c] EXCEPT !.sig = b]]]
        OBVIOUS
  <2> QED  BY <2>3, <2>4, <2>5
<1> QED  BY <1>2, <1>3, <1>4

\* So is a runner that wrote some.
LEMMA WroteType ==
    ASSUME TypeOK, NEW r \in Runners, NEW pc \in Steps, NEW at \in Times \cup {0},
           NEW sig \in FleetBytes \cup ListBytes \cup {None}, NEW tree \in Files,
           run' = [run EXCEPT ![r] =
                     [@ EXCEPT !.pc = pc, !.at = at, !.sig = sig, !.tree = tree]]
    PROVE  run' \in [Runners -> Runner]
<1>1. [run[r] EXCEPT !.pc = pc, !.at = at, !.sig = sig, !.tree = tree] \in Runner
      BY RunnerType DEF Runner
<1> QED  BY <1>1 DEF TypeOK

LEMMA NextType == TypeOK /\ SigKind /\ [Next]_vars => TypeOK'
<1> SUFFICES ASSUME TypeOK, SigKind, [Next]_vars PROVE TypeOK'
    OBVIOUS
<1> USE ReleaseAssumption
<1>1. CASE Develop
  <2>1. commits' \in Refs /\ forge.src + 1 \in Sources
        BY <1>1 DEF Develop, TypeOK, Refs, Sources
  <2> QED  BY <1>1, <2>1 DEF Develop, TypeOK
<1>2. ASSUME NEW r \in Runners
      PROVE  /\ run[r] \in Runner /\ run \in [Runners -> Runner]
             /\ run[r].pc \in Steps /\ run[r].at \in Times \cup {0}
             /\ run[r].sig \in FleetBytes \cup ListBytes \cup {None}
             /\ run[r].tree \in Files /\ run[r].files \in Files
             /\ run[r].head \in Refs /\ run[r].src \in Sources
      BY DEF TypeOK, Runner
<1>3. ASSUME NEW r \in Runners, Checkout(r) PROVE TypeOK'
  <2> DEFINE m == [c \in Refs |-> IF forge.files.man[c] = NoPair THEN run[r].tree.man[c]
                                  ELSE forge.files.man[c]]
             t == [forge.files EXCEPT !.man = m]
  <2>1. /\ forge.files \in Files /\ forge.files.man \in [Refs -> Pair(FleetBytes)]
        /\ run[r].tree.man \in [Refs -> Pair(FleetBytes)]
        BY <1>2 DEF TypeOK, Files
  <2>2. m \in [Refs -> Pair(FleetBytes)]
        BY <2>1
  <2> HIDE DEF m
  <2>3. t \in Files
        BY <2>1, <2>2 DEF Files
  <2>4. run' = [run EXCEPT ![r] = [@ EXCEPT !.head = forge.head, !.base = forge.head,
                    !.src = forge.src, !.files = forge.files, !.tree = t]]
        BY <1>3 DEF Checkout, m
  <2> HIDE DEF t
  <2>5. [run[r] EXCEPT !.head = forge.head, !.base = forge.head,
                    !.src = forge.src, !.files = forge.files, !.tree = t] \in Runner
        BY <1>2, <2>3 DEF Runner, TypeOK
  <2>6. run' \in [Runners -> Runner]
        BY <2>4, <2>5 DEF TypeOK
  <2> QED  BY <1>3, <2>6 DEF Checkout, TypeOK
<1>4. ASSUME NEW r \in Runners, Start(r) PROVE TypeOK'
  <2>1. run' = [run EXCEPT ![r] = [@ EXCEPT !.pc = "push", !.left = ToPush,
                                            !.at = 0, !.sig = None]]
        BY <1>2, <1>4 DEF Start, Runner
  <2>2. "push" \in Steps /\ ToPush \in SUBSET Hosts
        BY DEF Steps, ToPush, EnumerateHosts
  <2>3. [run[r] EXCEPT !.pc = "push", !.left = ToPush, !.at = 0, !.sig = None] \in Runner
        BY <1>2, <2>2 DEF Runner
  <2>4. run' \in [Runners -> Runner]
        BY <2>1, <2>3 DEF TypeOK
  <2> QED  BY <1>4, <2>4 DEF Start, TypeOK
<1>5. ASSUME NEW r \in Runners, NEW h \in Hosts, PushOne(r, h) PROVE TypeOK'
  <2>1. run' \in [Runners -> Runner]
        BY <1>5, RunnerType DEF PushOne, TypeOK, Runner
  <2>2. <<h, run[r].src>> \in Hosts \X Sources
        BY <1>2
  <2> QED  BY <1>5, <2>1, <2>2 DEF PushOne, TypeOK
<1>6. ASSUME NEW r \in Runners, WriteFleet(r) PROVE TypeOK'
  <2>1. /\ StampMeta(r) \in FleetBytes /\ FleetSignature(r) \in FleetBytes
        /\ SignedAt(r) \in Times
        BY <1>6, StampType DEF WriteFleet
  <2>2. [run[r].tree EXCEPT !.fleet.bytes = StampMeta(r)] \in Files /\ "fleet.sig" \in Steps
        BY <2>1, TreeType DEF Steps
  <2>3. run' = [run EXCEPT ![r] =
            [@ EXCEPT !.pc = "fleet.sig", !.at = SignedAt(r), !.sig = FleetSignature(r),
                      !.tree = [run[r].tree EXCEPT !.fleet.bytes = StampMeta(r)]]]
        BY <1>2, <1>6 DEF WriteFleet, Runner
  <2>4. run' \in [Runners -> Runner]
        BY <2>1, <2>2, <2>3, WroteType
  <2>5. clock' \in 0 .. MaxClock
        BY <1>6, <2>1 DEF WriteFleet, TypeOK, Times
  <2> QED  BY <1>6, <2>4, <2>5 DEF WriteFleet, TypeOK
<1>7. ASSUME NEW r \in Runners, WriteFleetSig(r) PROVE TypeOK'
  <2>1. run[r].sig \in FleetBytes
        BY <1>7 DEF WriteFleetSig, At, SigKind
  <2>2. [run[r].tree EXCEPT !.fleet.sig = run[r].sig] \in Files /\ "list" \in Steps
        BY <2>1, TreeType DEF Steps
  <2>3. run' = [run EXCEPT ![r] =
            [@ EXCEPT !.pc = "list", !.at = run[r].at, !.sig = run[r].sig,
                      !.tree = [run[r].tree EXCEPT !.fleet.sig = run[r].sig]]]
        BY <1>2, <1>7 DEF WriteFleetSig, Runner
  <2>4. run' \in [Runners -> Runner]
        BY <1>2, <2>2, <2>3, WroteType
  <2> QED  BY <1>7, <2>4 DEF WriteFleetSig, TypeOK
<1>8. ASSUME NEW r \in Runners, WriteList(r) PROVE TypeOK'
  <2> DEFINE sig == SignatureFor(run[r].tree.list, ListOf(r))
  <2>1. ListOf(r) \in ListBytes
        BY <1>2, <1>8 DEF WriteList, At, SigKind, Writing, ListOf, ListBytes
  <2>2. sig \in ListBytes
        BY <1>2, <2>1, SignatureType DEF Files
  <2>3. [run[r].tree EXCEPT !.list.bytes = ListOf(r)] \in Files /\ "list.sig" \in Steps
        BY <2>1, TreeType DEF Steps
  <2>4. run' = [run EXCEPT ![r] =
            [@ EXCEPT !.pc = "list.sig", !.at = run[r].at, !.sig = sig,
                      !.tree = [run[r].tree EXCEPT !.list.bytes = ListOf(r)]]]
        BY <1>2, <1>8 DEF WriteList, Runner
  <2> HIDE DEF sig
  <2>5. run' \in [Runners -> Runner]
        BY <1>2, <2>2, <2>3, <2>4, WroteType
  <2> QED  BY <1>8, <2>5 DEF WriteList, TypeOK
<1>9. ASSUME NEW r \in Runners, WriteListSig(r) PROVE TypeOK'
  <2>1. run[r].sig \in ListBytes
        BY <1>9 DEF WriteListSig, At, SigKind
  <2>2. [run[r].tree EXCEPT !.list.sig = run[r].sig] \in Files /\ "man" \in Steps
        BY <2>1, TreeType DEF Steps
  <2>3. run' = [run EXCEPT ![r] =
            [@ EXCEPT !.pc = "man", !.at = run[r].at, !.sig = run[r].sig,
                      !.tree = [run[r].tree EXCEPT !.list.sig = run[r].sig]]]
        BY <1>2, <1>9 DEF WriteListSig, Runner
  <2>4. run' \in [Runners -> Runner]
        BY <1>2, <2>2, <2>3, WroteType
  <2> QED  BY <1>9, <2>4 DEF WriteListSig, TypeOK
<1>10. ASSUME NEW r \in Runners, WriteManifest(r) PROVE TypeOK'
  <2> DEFINE sig == SignatureFor(run[r].tree.man[run[r].head], ProjectManifest(r))
  <2>1. ProjectManifest(r) \in FleetBytes
        BY <1>2, <1>10 DEF WriteManifest, At, SigKind, Writing, ProjectManifest, FleetBytes
  <2>2. sig \in FleetBytes
        BY <1>2, <2>1, SignatureType DEF Files
  <2>3. /\ [run[r].tree EXCEPT !.man[run[r].head].bytes = ProjectManifest(r)] \in Files
        /\ "man.sig" \in Steps
        BY <2>1, TreeType DEF Steps
  <2>4. run' = [run EXCEPT ![r] =
            [@ EXCEPT !.pc = "man.sig", !.at = run[r].at, !.sig = sig, !.tree =
              [run[r].tree EXCEPT !.man[run[r].head].bytes = ProjectManifest(r)]]]
        BY <1>2, <1>10 DEF WriteManifest, Runner
  <2> HIDE DEF sig
  <2>5. run' \in [Runners -> Runner]
        BY <1>2, <2>2, <2>3, <2>4, WroteType
  <2> QED  BY <1>10, <2>5 DEF WriteManifest, TypeOK
<1>11. ASSUME NEW r \in Runners, WriteManifestSig(r) PROVE TypeOK'
  <2>1. run[r].sig \in FleetBytes
        BY <1>11 DEF WriteManifestSig, At, SigKind
  <2>2. /\ [run[r].tree EXCEPT !.man[run[r].head].sig = run[r].sig] \in Files
        /\ "commit" \in Steps
        BY <2>1, TreeType DEF Steps
  <2>3. run' = [run EXCEPT ![r] =
            [@ EXCEPT !.pc = "commit", !.at = run[r].at, !.sig = run[r].sig, !.tree =
              [run[r].tree EXCEPT !.man[run[r].head].sig = run[r].sig]]]
        BY <1>2, <1>11 DEF WriteManifestSig, Runner
  <2>4. run' \in [Runners -> Runner]
        BY <1>2, <2>2, <2>3, WroteType
  <2> QED  BY <1>11, <2>4 DEF WriteManifestSig, TypeOK
<1>12. ASSUME NEW r \in Runners, GitCommit(r) PROVE TypeOK'
  <2>1. commits' \in Refs
        BY <1>12, GitCommitEffect DEF TypeOK, Refs
  <2>2. PICK pc \in Steps, head \in Refs :
             run' = [run EXCEPT ![r] =
                       [@ EXCEPT !.pc = pc, !.head = head, !.files = Staged(r)]]
        BY <1>2, <1>12, <2>1, GitCommitWrites, Zenon DEF Steps
  <2>3. [run[r] EXCEPT !.pc = pc, !.head = head, !.files = Staged(r)] \in Runner
        BY <1>2, StagedType DEF Runner
  <2>4. run' \in [Runners -> Runner]
        BY <2>2, <2>3 DEF TypeOK
  <2> QED  BY <1>12, <2>1, <2>4 DEF GitCommit, TypeOK
<1>13. ASSUME NEW r \in Runners, GitPush(r) PROVE TypeOK'
  <2>1. run' = [run EXCEPT ![r] = [@ EXCEPT !.pc = "idle", !.base = run[r].head]]
        BY <1>2, <1>13 DEF GitPush, Runner
  <2>2. "idle" \in Steps
        BY DEF Steps
  <2>3. [run[r] EXCEPT !.pc = "idle", !.base = run[r].head] \in Runner
        BY <1>2, <2>2 DEF Runner
  <2>4. run' \in [Runners -> Runner]
        BY <2>1, <2>3 DEF TypeOK
  <2>5. forge' \in [head: Refs, src: Sources, files: Files]
        BY <1>2, <1>13 DEF GitPush
  <2> QED  BY <1>13, <2>4, <2>5 DEF GitPush, TypeOK
<1>14. ASSUME NEW r \in Runners, Abort(r) PROVE TypeOK'
  <2>1. run' \in [Runners -> Runner]
        BY <1>14, RunnerType DEF Abort, TypeOK, Runner, Steps
  <2> QED  BY <1>14, <2>1 DEF Abort, TypeOK
<1>15. CASE UNCHANGED vars
      BY <1>15 DEF vars, TypeOK
<1> QED  BY <1>1, <1>3, <1>4, <1>5, <1>6, <1>7, <1>8, <1>9, <1>10, <1>11, <1>12, <1>13,
            <1>14, <1>15 DEF Next

LEMMA NextSigKind == TypeOK /\ SigKind /\ [Next]_vars => SigKind'
<1> SUFFICES ASSUME TypeOK, SigKind, [Next]_vars, NEW q \in Runners
             PROVE  /\ run'[q].pc \in Writing => run'[q].at \in Times
                    /\ run'[q].pc \in {"fleet.sig", "man.sig"} => run'[q].sig \in FleetBytes
                    /\ run'[q].pc = "list.sig" => run'[q].sig \in ListBytes
    BY DEF SigKind
<1> DEFINE P == /\ run'[q].pc \in Writing => run'[q].at \in Times
                /\ run'[q].pc \in {"fleet.sig", "man.sig"} => run'[q].sig \in FleetBytes
                /\ run'[q].pc = "list.sig" => run'[q].sig \in ListBytes
<1>0. ASSUME run'[q] = run[q] PROVE P
      BY <1>0 DEF SigKind
<1>1. ASSUME Develop \/ UNCHANGED vars PROVE P
      BY <1>0, <1>1 DEF Develop, vars
<1>2. ASSUME NEW r \in Runners, Only(r), q # r PROVE P
      BY <1>0, <1>2 DEF Only
<1>3. ASSUME Checkout(q) PROVE P
      BY <1>3, CheckoutEffect DEF Writing
<1>4. ASSUME Start(q) PROVE P
      BY <1>4, StartEffect DEF Writing
<1>5. ASSUME NEW h \in Hosts, PushOne(q, h) PROVE P
      BY <1>5, PushOneEffect DEF Writing
<1>6. ASSUME WriteFleet(q) PROVE P
  <2>1. SignedAt(q) \in Times /\ FleetSignature(q) \in FleetBytes
        BY <1>6, StampType DEF WriteFleet
  <2> QED  BY <1>6, <2>1, WriteFleetEffect
<1>7. ASSUME WriteFleetSig(q) PROVE P
      BY <1>7, WriteFleetSigEffect DEF SigKind, Writing
<1>8. ASSUME WriteList(q) PROVE P
  <2>1. ListOf(q) \in ListBytes /\ run[q].at \in Times
        BY <1>8, RunnerType DEF WriteList, At, SigKind, Writing, ListOf, ListBytes, Runner
  <2>2. run[q].tree.list \in Pair(ListBytes)
        BY RunnerType DEF Runner, Files
  <2>3. SignatureFor(run[q].tree.list, ListOf(q)) \in ListBytes
        BY <2>1, <2>2, SignatureType
  <2> QED  BY <1>8, <2>1, <2>3, WriteListEffect
<1>9. ASSUME WriteListSig(q) PROVE P
      BY <1>9, WriteListSigEffect DEF SigKind, Writing
<1>10. ASSUME WriteManifest(q) PROVE P
  <2>1. ProjectManifest(q) \in FleetBytes /\ run[q].at \in Times
        BY <1>10, RunnerType DEF WriteManifest, At, SigKind, Writing, ProjectManifest,
           FleetBytes, Runner
  <2>2. run[q].tree.man[run[q].head] \in Pair(FleetBytes)
        BY RunnerType DEF Runner, Files
  <2>3. SignatureFor(run[q].tree.man[run[q].head], ProjectManifest(q)) \in FleetBytes
        BY <2>1, <2>2, SignatureType
  <2> QED  BY <1>10, <2>1, <2>3, WriteManifestEffect
<1>11. ASSUME WriteManifestSig(q) PROVE P
      BY <1>11, WriteManifestSigEffect DEF SigKind, Writing
<1>12. ASSUME GitCommit(q) PROVE P
      BY <1>12, GitCommitEffect DEF Writing
<1>13. ASSUME GitPush(q) PROVE P
      BY <1>13, GitPushEffect DEF Writing
<1>14. ASSUME Abort(q) PROVE P
      BY <1>14, AbortEffect DEF Writing
<1> HIDE DEF P
<1>15. ASSUME NEW r \in Runners, RunnerStep(r)
       PROVE  P
  <2>1. CASE q # r
        BY <1>2, <1>15, <2>1, OneRunner
  <2>2. CASE q = r
        BY <1>3, <1>4, <1>5, <1>6, <1>7, <1>8, <1>9, <1>10, <1>11, <1>12, <1>13, <1>14,
           <1>15, <2>2 DEF RunnerStep, QuietStep
  <2> QED  BY <2>1, <2>2
<1>16. P
      BY <1>1, <1>15, StepKinds
<1> QED  BY <1>16 DEF P

-----------------------------------------------------------------------------
(* The binary cache. *)

\* The closures of some fleet.resolved are in the binary cache.
BuiltIn(b) == b # None => \A h \in Hosts : <<h, b.closures>> \in cache

\* The part of the inductive invariant that the pushes of the hook establish: what a run has
\* pushed so far is in the cache, and no file names closures that are not.
BuiltInv ==
    /\ BuiltIn(forge.files.fleet.bytes)
    /\ \A r \in Runners :
          /\ run[r].pc = "push" =>
                \A h \in Hosts \ run[r].left : <<h, run[r].src>> \in cache
          /\ BuiltIn(run[r].files.fleet.bytes)
          /\ BuiltIn(run[r].tree.fleet.bytes)

LEMMA NextBuilt == PushHook /\ TypeOK /\ BuiltInv /\ [Next]_vars => BuiltInv'
<1> SUFFICES ASSUME PushHook, TypeOK, BuiltInv, [Next]_vars PROVE BuiltInv'
    OBVIOUS
<1>1. ASSUME UNCHANGED <<forge, cache>>, NEW r \in Runners, Only(r),
             run'[r].pc = "push" => \A h \in Hosts \ run'[r].left : <<h, run'[r].src>> \in cache,
             BuiltIn(run'[r].files.fleet.bytes), BuiltIn(run'[r].tree.fleet.bytes)
      PROVE  BuiltInv'
      BY <1>1 DEF BuiltInv, BuiltIn, Only
<1>2. CASE Develop
  <2>1. forge'.files = forge.files /\ UNCHANGED <<cache, run>>
        BY <1>2 DEF Develop, TypeOK
  <2> QED  BY <2>1 DEF BuiltInv, BuiltIn
<1>3. ASSUME NEW r \in Runners, Checkout(r) PROVE BuiltInv'
      BY <1>1, <1>3, CheckoutEffect DEF Checkout, BuiltInv
<1>4. ASSUME NEW r \in Runners, QuietStep(r) PROVE BuiltInv'
      BY <1>1, <1>4, QuietEffect DEF BuiltInv, SameCheckout, ToPush, EnumerateHosts
<1>5. ASSUME NEW r \in Runners, NEW h \in Hosts, PushOne(r, h) PROVE BuiltInv'
  <2>1. cache' = cache \cup {<<h, run[r].src>>} /\ forge' = forge
        BY <1>5 DEF PushOne
  <2>2. /\ Only(r) /\ SameCheckout(r) /\ SameTree(r)
        /\ run[r].pc = "push" /\ run'[r].left = run[r].left \ {h}
        BY <1>5, PushOneEffect
  <2>4. ASSUME NEW q \in Runners
        PROVE  /\ run'[q].pc = "push" =>
                     \A g \in Hosts \ run'[q].left : <<g, run'[q].src>> \in cache'
               /\ BuiltIn(run[q].files.fleet.bytes)'
               /\ BuiltIn(run[q].tree.fleet.bytes)'
    <3>1. CASE q = r
          BY <2>1, <2>2, <3>1 DEF BuiltInv, BuiltIn, SameCheckout, SameTree
    <3>2. CASE q # r
          BY <2>1, <2>2, <3>2 DEF BuiltInv, BuiltIn, Only
    <3> QED  BY <3>1, <3>2
  <2>5. BuiltIn(forge.files.fleet.bytes)'
        BY <2>1 DEF BuiltInv, BuiltIn
  <2> QED  BY <2>4, <2>5 DEF BuiltInv
<1>6. ASSUME NEW r \in Runners, WriteFleet(r) PROVE BuiltInv'
  <2>1. /\ Only(r) /\ SameCheckout(r) /\ run[r].pc = "push" /\ run[r].left = {}
        /\ run'[r].pc = "fleet.sig" /\ run'[r].tree.fleet.bytes = StampMeta(r)
        BY <1>6, WriteFleetEffect
  <2>2. \A h \in Hosts : <<h, run[r].src>> \in cache
        BY <2>1 DEF BuiltInv
  <2>3. BuiltIn(StampMeta(r))
        BY <2>2 DEF BuiltIn, StampMeta
  <2>4. UNCHANGED <<forge, cache>>
        BY <1>6 DEF WriteFleet
  <2> QED  BY <1>1, <2>1, <2>3, <2>4 DEF BuiltInv, SameCheckout
<1>7. ASSUME NEW r \in Runners, GitCommit(r) PROVE BuiltInv'
  <2>1. /\ Only(r) /\ SameTree(r) /\ run'[r].files = Staged(r) /\ run'[r].pc # "push"
        BY <1>7, GitCommitEffect
  <2>2. run'[r].files.fleet = run[r].tree.fleet
        BY <2>1 DEF Staged
  <2>3. UNCHANGED <<forge, cache>>
        BY <1>7 DEF GitCommit
  <2> QED  BY <1>1, <2>1, <2>2, <2>3 DEF BuiltInv, SameTree
<1>8. ASSUME NEW r \in Runners, GitPush(r) PROVE BuiltInv'
  <2>1. /\ Only(r) /\ SameTree(r) /\ run'[r].files = run[r].files
        /\ run'[r].pc = "idle" /\ forge'.files = run[r].files
        BY <1>8, GitPushEffect
  <2>2. cache' = cache
        BY <1>8 DEF GitPush
  <2> QED  BY <2>1, <2>2 DEF BuiltInv, BuiltIn, Only, SameTree
<1>9. CASE UNCHANGED vars
      BY <1>9 DEF vars, BuiltInv, BuiltIn
<1> QED  BY <1>2, <1>3, <1>4, <1>5, <1>6, <1>7, <1>8, <1>9, StepKinds DEF RunnerStep

-----------------------------------------------------------------------------
(* The branch: who is behind it, and what a push may replace. *)

\* A commit that was not pushed is known to its runner alone.
Heads ==
    /\ forge.head <= commits
    /\ \A r \in Runners :
          /\ run[r].head <= commits /\ run[r].base <= commits
          /\ run[r].pc = "gitpush" => run[r].head # run[r].base
          /\ run[r].head # run[r].base =>
                /\ forge.head # run[r].head
                /\ \A q \in Runners \ {r} :
                      run[q].base # run[r].head /\ run[q].head # run[r].head

LEMMA HeadTypes ==
    ASSUME TypeOK
    PROVE  /\ commits \in Int /\ forge.head \in Int /\ MaxCommits \in Int
           /\ \A r \in Runners : run[r].head \in Int /\ run[r].base \in Int
BY ReleaseAssumption DEF TypeOK, Refs, Runner

LEMMA NextHeads == TypeOK /\ Heads /\ [Next]_vars => Heads'
<1> SUFFICES ASSUME TypeOK, Heads, [Next]_vars PROVE Heads'
    OBVIOUS
<1>0. /\ commits \in Int /\ forge.head \in Int /\ MaxCommits \in Int
      /\ \A r \in Runners : run[r].head \in Int /\ run[r].base \in Int
      BY HeadTypes
<1>1. CASE Develop
  <2>1. forge'.head = commits + 1 /\ commits' = commits + 1 /\ run' = run
        BY <1>1 DEF Develop, TypeOK
  <2> QED  BY <1>0, <2>1 DEF Heads
<1>2. ASSUME NEW r \in Runners, Only(r), UNCHANGED <<forge, commits>>,
             run'[r].head = run[r].head, run'[r].base = run[r].base,
             run'[r].pc # "gitpush"
      PROVE  Heads'
      BY <1>2 DEF Heads, Only
<1>3. ASSUME NEW r \in Runners, Checkout(r) PROVE Heads'
  <2>1. /\ Only(r) /\ run'[r].pc = "idle"
        /\ run'[r].head = forge.head /\ run'[r].base = forge.head
        BY <1>3, CheckoutEffect
  <2>2. UNCHANGED <<forge, commits>>
        BY <1>3 DEF Checkout
  <2> QED  BY <2>1, <2>2 DEF Heads, Only
<1>4. ASSUME NEW r \in Runners, QuietStep(r) PROVE Heads'
      BY <1>2, <1>4, QuietEffect DEF SameCheckout
<1>5. ASSUME NEW r \in Runners, NEW h \in Hosts, PushOne(r, h) PROVE Heads'
  <2>1. UNCHANGED <<forge, commits>>
        BY <1>5 DEF PushOne
  <2> QED  BY <1>2, <1>5, <2>1, PushOneEffect DEF SameCheckout
<1>6. ASSUME NEW r \in Runners, WriteFleet(r) PROVE Heads'
  <2>1. UNCHANGED <<forge, commits>>
        BY <1>6 DEF WriteFleet
  <2> QED  BY <1>2, <1>6, <2>1, WriteFleetEffect DEF SameCheckout
<1>7. ASSUME NEW r \in Runners, GitCommit(r) PROVE Heads'
  <2>1. forge' = forge
        BY <1>7 DEF GitCommit
  <2>2. Only(r) /\ run'[r].base = run[r].base
        BY <1>7, GitCommitEffect
  <2>3. CASE run'[r].pc = "idle" /\ run'[r].head = run[r].head /\ commits' = commits
        BY <1>2, <2>1, <2>2, <2>3
  <2>4. CASE /\ run'[r].pc = "gitpush" /\ run'[r].head = commits'
             /\ commits' = commits + 1
        BY <1>0, <2>1, <2>2, <2>4 DEF Heads, Only
  <2> QED  BY <1>7, <2>3, <2>4, GitCommitEffect
<1>8. ASSUME NEW r \in Runners, GitPush(r) PROVE Heads'
  <2>1. /\ Only(r) /\ run[r].pc = "gitpush" /\ run'[r].pc = "idle"
        /\ run'[r].head = run[r].head /\ run'[r].base = run[r].head
        /\ forge'.head = run[r].head
        BY <1>8, GitPushEffect
  <2>2. commits' = commits
        BY <1>8 DEF GitPush
  <2> QED  BY <2>1, <2>2 DEF Heads, Only
<1>9. CASE UNCHANGED vars
      BY <1>9 DEF vars, Heads
<1> QED  BY <1>1, <1>3, <1>4, <1>5, <1>6, <1>7, <1>8, <1>9, StepKinds DEF RunnerStep

\* fleet.resolved b is not older than a.
NotOlder(a, b) == a # None => b # None /\ b.at >= a.at /\ b.closures >= a.closures

\* No file is stamped later than the clock.
UpToNow(f) ==
    /\ f.fleet.bytes # None => f.fleet.bytes.at <= clock
    /\ f.list.bytes # None => f.list.bytes.at <= clock
    /\ \A c \in Refs : f.man[c].bytes # None => f.man[c].bytes.at <= clock

Stamps ==
    /\ UpToNow(forge.files)
    /\ \A r \in Runners :
          /\ run[r].at <= clock
          /\ UpToNow(run[r].files) /\ UpToNow(run[r].tree)

\* The order of the fleets of the branch, of a runner's commits and of its tree.
\* A runner whose base is the branch's commit has seen all of the branch.
Ordered ==
    /\ forge.files.fleet.bytes # None => forge.files.fleet.bytes.closures <= forge.src
    /\ \A r \in Runners :
          /\ NotOlder(run[r].files.fleet.bytes, run[r].tree.fleet.bytes)
          /\ run[r].tree.fleet.bytes # None => run[r].tree.fleet.bytes.closures <= run[r].src
          /\ run[r].base = forge.head =>
                /\ run[r].src = forge.src
                /\ NotOlder(forge.files.fleet.bytes, run[r].files.fleet.bytes)

LEMMA StampTypes ==
    ASSUME NEW f \in Files
    PROVE  /\ f.fleet.bytes # None => /\ f.fleet.bytes \in FleetBytes
                                      /\ f.fleet.bytes.at \in Int
                                      /\ f.fleet.bytes.closures \in Int
           /\ f.list.bytes # None => f.list.bytes.at \in Int
           /\ \A c \in Refs : f.man[c].bytes # None => f.man[c].bytes.at \in Int
BY DEF Files, Pair, FleetBytes, ListBytes, Times, Sources

LEMMA NextStamps == TypeOK /\ Stamps /\ [Next]_vars => Stamps'
<1> SUFFICES ASSUME TypeOK, Stamps, [Next]_vars PROVE Stamps'
    OBVIOUS
<1>0. clock \in Int /\ 0 <= clock
      BY ReleaseAssumption DEF TypeOK
<1>1. ASSUME clock' = clock, forge'.files = forge.files, NEW r \in Runners, Only(r),
             run'[r].at <= clock, UpToNow(run'[r].files), UpToNow(run'[r].tree)
      PROVE  Stamps'
  <2>1. UpToNow(forge.files)'
        BY <1>1 DEF Stamps, UpToNow
  <2>2. ASSUME NEW q \in Runners
        PROVE  run'[q].at <= clock' /\ UpToNow(run[q].files)' /\ UpToNow(run[q].tree)'
    <3>1. CASE q = r
          BY <1>1, <3>1 DEF UpToNow
    <3>2. CASE q # r
          BY <1>1, <3>2 DEF Stamps, UpToNow, Only
    <3> QED  BY <3>1, <3>2
  <2> QED  BY <2>1, <2>2 DEF Stamps
<1>2. CASE Develop
  <2>1. forge'.files = forge.files /\ UNCHANGED <<clock, run>>
        BY <1>2 DEF Develop, TypeOK
  <2> QED  BY <2>1 DEF Stamps, UpToNow
<1>3. ASSUME NEW r \in Runners, Checkout(r) PROVE Stamps'
  <2>1. /\ Only(r) /\ run'[r].files = forge.files
        /\ run'[r].tree.fleet = forge.files.fleet
        /\ run'[r].tree.list = forge.files.list
        /\ \A c \in Refs : \/ run'[r].tree.man[c] = run[r].tree.man[c]
                           \/ run'[r].tree.man[c] = forge.files.man[c]
        /\ run'[r].at = run[r].at
        BY <1>3, CheckoutEffect
  <2>2. UpToNow(run'[r].tree)
        BY <2>1 DEF Stamps, UpToNow
  <2>3. UNCHANGED <<clock, forge>>
        BY <1>3 DEF Checkout
  <2> QED  BY <1>1, <2>1, <2>2, <2>3 DEF Stamps
<1>4. ASSUME NEW r \in Runners, QuietStep(r) PROVE Stamps'
  <2>1. Only(r) /\ run'[r].files = run[r].files /\ UNCHANGED <<forge, clock>>
        BY <1>4, QuietEffect DEF SameCheckout
  <2>2. SUFFICES run'[r].at <= clock /\ UpToNow(run'[r].tree)
        BY <1>1, <2>1 DEF Stamps
  <2>3. CASE Start(r)
        BY <1>0, <2>3, StartEffect DEF Stamps, SameTree
  <2>4. CASE WriteFleetSig(r)
        BY <2>4, WriteFleetSigEffect DEF Stamps, UpToNow
  <2>5. CASE WriteList(r)
    <3>1. /\ run'[r].at = run[r].at /\ run'[r].tree.list.bytes = ListOf(r)
          /\ run'[r].tree.fleet = run[r].tree.fleet /\ run'[r].tree.man = run[r].tree.man
          BY <2>5, WriteListEffect
    <3> QED  BY <3>1 DEF Stamps, UpToNow, ListOf
  <2>6. CASE WriteListSig(r)
        BY <2>6, WriteListSigEffect DEF Stamps, UpToNow
  <2>7. CASE WriteManifest(r)
    <3>1. /\ run'[r].at = run[r].at
          /\ run'[r].tree.fleet = run[r].tree.fleet /\ run'[r].tree.list = run[r].tree.list
          /\ \A c \in Refs : \/ run'[r].tree.man[c].bytes = ProjectManifest(r)
                             \/ run'[r].tree.man[c] = run[r].tree.man[c]
          BY <2>7, WriteManifestEffect
    <3> QED  BY <3>1 DEF Stamps, UpToNow, ProjectManifest
  <2>8. CASE WriteManifestSig(r)
    <3>1. /\ run'[r].at = run[r].at
          /\ run'[r].tree.fleet = run[r].tree.fleet /\ run'[r].tree.list = run[r].tree.list
          /\ \A c \in Refs : run'[r].tree.man[c].bytes = run[r].tree.man[c].bytes
          BY <2>8, WriteManifestSigEffect
    <3> QED  BY <3>1 DEF Stamps, UpToNow
  <2>9. CASE Abort(r)
        BY <2>9, AbortEffect DEF Stamps, SameTree
  <2> QED  BY <1>4, <2>3, <2>4, <2>5, <2>6, <2>7, <2>8, <2>9 DEF QuietStep
<1>5. ASSUME NEW r \in Runners, NEW h \in Hosts, PushOne(r, h) PROVE Stamps'
  <2>1. UNCHANGED <<forge, clock>>
        BY <1>5 DEF PushOne
  <2> QED  BY <1>1, <1>5, <2>1, PushOneEffect DEF Stamps, SameCheckout, SameTree
<1>6. ASSUME NEW r \in Runners, WriteFleet(r) PROVE Stamps'
  <2>1. /\ Only(r) /\ run'[r].files = run[r].files /\ run'[r].at = SignedAt(r)
        /\ run'[r].tree.fleet.bytes.at = SignedAt(r)
        /\ run'[r].tree.list = run[r].tree.list /\ run'[r].tree.man = run[r].tree.man
    <3>1. /\ SameCheckout(r) /\ Only(r) /\ run'[r].at = SignedAt(r)
          /\ run'[r].tree.fleet.bytes = StampMeta(r)
          /\ run'[r].tree.list = run[r].tree.list /\ run'[r].tree.man = run[r].tree.man
          BY <1>6, WriteFleetEffect
    <3> QED  BY <3>1 DEF SameCheckout, StampMeta
  <2>2. /\ clock' \in Int /\ clock <= clock' /\ SignedAt(r) <= clock'
        /\ UNCHANGED forge
        BY <1>0, <1>6 DEF WriteFleet, Times
  <2>3. ASSUME NEW f \in Files, UpToNow(f)
        PROVE  /\ f.fleet.bytes # None => f.fleet.bytes.at <= clock'
               /\ f.list.bytes # None => f.list.bytes.at <= clock'
               /\ \A c \in Refs : f.man[c].bytes # None => f.man[c].bytes.at <= clock'
        BY <1>0, <2>2, <2>3, StampTypes DEF UpToNow
  <2>4. /\ forge.files \in Files
        /\ \A q \in Runners : /\ run[q].files \in Files /\ run[q].tree \in Files
                              /\ run[q].at \in Int
        BY DEF TypeOK, Runner, Times
  <2>5. UpToNow(forge.files)'
        BY <2>2, <2>3, <2>4 DEF Stamps, UpToNow
  <2>6. ASSUME NEW q \in Runners
        PROVE  run'[q].at <= clock' /\ UpToNow(run[q].files)' /\ UpToNow(run[q].tree)'
    <3>1. CASE q = r
      <4>1. UpToNow(run[q].files)'
        <5>1. UpToNow(run[r].files) /\ run[r].files \in Files
              BY <2>4 DEF Stamps
        <5> QED  BY <2>1, <2>3, <3>1, <5>1 DEF UpToNow
      <4>2. UpToNow(run[q].tree)'
        <5>1. UpToNow(run[r].tree) /\ run[r].tree \in Files
              BY <2>4 DEF Stamps
        <5> QED  BY <2>1, <2>2, <2>3, <3>1, <5>1 DEF UpToNow
      <4> QED  BY <2>1, <2>2, <3>1, <4>1, <4>2
    <3>2. CASE q # r
      <4>1. run'[q] = run[q]
            BY <2>1, <3>2 DEF Only
      <4>2. UpToNow(run[q].files)'
            BY <2>3, <2>4, <4>1 DEF Stamps, UpToNow
      <4>3. UpToNow(run[q].tree)'
            BY <2>3, <2>4, <4>1 DEF Stamps, UpToNow
      <4>4. run'[q].at <= clock'
            BY <1>0, <2>2, <2>4, <4>1 DEF Stamps
      <4> QED  BY <4>2, <4>3, <4>4
    <3> QED  BY <3>1, <3>2
  <2> QED  BY <2>5, <2>6 DEF Stamps
<1>7. ASSUME NEW r \in Runners, GitCommit(r) PROVE Stamps'
  <2>1. Only(r) /\ SameTree(r) /\ run'[r].files = Staged(r) /\ run'[r].at = run[r].at
        BY <1>7, GitCommitEffect
  <2>2. run[r].head \in Refs /\ run[r].files.man \in [Refs -> Pair(FleetBytes)]
        BY RunnerType DEF Runner, Files
  <2>3. UpToNow(Staged(r))
        BY <2>2 DEF Stamps, UpToNow, Staged
  <2>4. UNCHANGED <<forge, clock>>
        BY <1>7 DEF GitCommit
  <2> QED  BY <1>1, <2>1, <2>3, <2>4 DEF Stamps, SameTree
<1>8. ASSUME NEW r \in Runners, GitPush(r) PROVE Stamps'
  <2>1. /\ Only(r) /\ SameTree(r) /\ run'[r].files = run[r].files
        /\ run'[r].at = run[r].at /\ forge'.files = run[r].files
        BY <1>8, GitPushEffect
  <2>2. clock' = clock
        BY <1>8 DEF GitPush
  <2>3. UpToNow(forge.files)'
        BY <2>1, <2>2 DEF Stamps, UpToNow
  <2>4. ASSUME NEW q \in Runners
        PROVE  run'[q].at <= clock' /\ UpToNow(run[q].files)' /\ UpToNow(run[q].tree)'
    <3>1. run'[q].at = run[q].at /\ run'[q].files = run[q].files /\ run'[q].tree = run[q].tree
          BY <2>1 DEF Only, SameTree
    <3> QED  BY <2>2, <3>1 DEF Stamps, UpToNow
  <2> QED  BY <2>3, <2>4 DEF Stamps
<1>9. CASE UNCHANGED vars
      BY <1>9 DEF vars, Stamps, UpToNow
<1> QED  BY <1>2, <1>3, <1>4, <1>5, <1>6, <1>7, <1>8, <1>9, StepKinds DEF RunnerStep

LEMMA NotOlderReflexive ==
    ASSUME NEW f \in Files
    PROVE  NotOlder(f.fleet.bytes, f.fleet.bytes)
BY StampTypes DEF NotOlder

LEMMA NotOlderTransitive ==
    ASSUME NEW f \in Files, NEW g \in Files, NEW h \in Files,
           NotOlder(f.fleet.bytes, g.fleet.bytes), NotOlder(g.fleet.bytes, h.fleet.bytes)
    PROVE  NotOlder(f.fleet.bytes, h.fleet.bytes)
BY StampTypes DEF NotOlder

LEMMA NextOrdered ==
    TypeOK /\ Heads /\ Stamps /\ Ordered /\ [Next]_vars => Ordered'
<1> SUFFICES ASSUME TypeOK, Heads, Stamps, Ordered, [Next]_vars PROVE Ordered'
    OBVIOUS
<1>0. /\ commits \in Int /\ clock \in Int /\ forge.head \in Int /\ forge.src \in Int
      /\ forge.files \in Files
      /\ \A r \in Runners : /\ run[r].head \in Int /\ run[r].base \in Int
                            /\ run[r].src \in Int
                            /\ run[r].files \in Files /\ run[r].tree \in Files
      BY ReleaseAssumption DEF TypeOK, Refs, Runner, Sources
<1>1. CASE Develop
  <2>1. /\ forge'.head = commits + 1 /\ forge'.src = forge.src + 1
        /\ forge'.files = forge.files /\ run' = run
        BY <1>1 DEF Develop, TypeOK
  <2>2. \A r \in Runners : run[r].base # forge'.head
        BY <1>0, <2>1 DEF Heads
  <2>3. forge.files.fleet.bytes # None => forge.files.fleet.bytes.closures <= forge'.src
        BY <1>0, <2>1, StampTypes DEF Ordered
  <2> QED  BY <2>1, <2>2, <2>3 DEF Ordered
<1>2. ASSUME NEW r \in Runners, Only(r), UNCHANGED forge, run'[r].base = run[r].base,
             run'[r].src = run[r].src,
             NotOlder(run'[r].files.fleet.bytes, run'[r].tree.fleet.bytes),
             run'[r].tree.fleet.bytes # None =>
                run'[r].tree.fleet.bytes.closures <= run[r].src,
             NotOlder(run[r].files.fleet.bytes, run'[r].files.fleet.bytes),
             run'[r].files \in Files
      PROVE  Ordered'
  <2>1. run[r].base = forge.head =>
            NotOlder(forge.files.fleet.bytes, run'[r].files.fleet.bytes)
    <3>1. ASSUME run[r].base = forge.head
          PROVE  NotOlder(forge.files.fleet.bytes, run[r].files.fleet.bytes)
          BY <3>1 DEF Ordered
    <3> QED  BY <1>0, <1>2, <3>1, NotOlderTransitive
  <2> QED  BY <1>2, <2>1 DEF Ordered, Only
<1>3. ASSUME NEW r \in Runners, Checkout(r) PROVE Ordered'
  <2>1. /\ Only(r) /\ run'[r].files = forge.files /\ run'[r].base = forge.head
        /\ run'[r].src = forge.src /\ run'[r].tree.fleet = forge.files.fleet
        BY <1>3, CheckoutEffect
  <2>2. UNCHANGED forge
        BY <1>3 DEF Checkout
  <2>3. NotOlder(forge.files.fleet.bytes, forge.files.fleet.bytes)
        BY <1>0, NotOlderReflexive
  <2> QED  BY <2>1, <2>2, <2>3 DEF Ordered, Only
<1>4. ASSUME NEW r \in Runners, QuietStep(r) PROVE Ordered'
  <2>1. /\ Only(r) /\ SameCheckout(r) /\ UNCHANGED forge
        /\ run'[r].tree.fleet.bytes = run[r].tree.fleet.bytes
        BY <1>4, QuietEffect
  <2> QED  BY <2>1 DEF Ordered, Only, SameCheckout
<1>5. ASSUME NEW r \in Runners, NEW h \in Hosts, PushOne(r, h) PROVE Ordered'
  <2>1. Only(r) /\ SameCheckout(r) /\ SameTree(r)
        BY <1>5, PushOneEffect
  <2>2. UNCHANGED forge
        BY <1>5 DEF PushOne
  <2> QED  BY <2>1, <2>2 DEF Ordered, Only, SameCheckout, SameTree
<1>6. ASSUME NEW r \in Runners, WriteFleet(r) PROVE Ordered'
  <2>1. /\ Only(r) /\ SameCheckout(r) /\ run'[r].tree.fleet.bytes = StampMeta(r)
        BY <1>6, WriteFleetEffect
  <2>2. UNCHANGED forge /\ SignedAt(r) \in Int
        BY <1>6 DEF WriteFleet, Times
  <2>3. NotOlder(run[r].files.fleet.bytes, StampMeta(r))
    <3>1. SUFFICES ASSUME run[r].files.fleet.bytes # None
                   PROVE  /\ StampMeta(r) # None
                          /\ StampMeta(r).at >= run[r].files.fleet.bytes.at
                          /\ StampMeta(r).closures >= run[r].files.fleet.bytes.closures
          BY DEF NotOlder
    <3>2. /\ run[r].tree.fleet.bytes # None
          /\ run[r].tree.fleet.bytes.at >= run[r].files.fleet.bytes.at
          /\ run[r].tree.fleet.bytes.closures >= run[r].files.fleet.bytes.closures
          /\ run[r].tree.fleet.bytes.closures <= run[r].src
          BY <3>1 DEF Ordered, NotOlder
    <3>3. /\ run[r].files.fleet.bytes.at \in Int /\ run[r].tree.fleet.bytes.at \in Int
          /\ run[r].files.fleet.bytes.closures \in Int
          /\ run[r].tree.fleet.bytes.closures \in Int
          BY <1>0, <3>1, <3>2, StampTypes
    <3>4. run[r].tree.fleet.bytes.at <= clock
          BY <3>2 DEF Stamps, UpToNow
    <3>5. SignedAt(r) >= run[r].files.fleet.bytes.at
          BY <1>0, <3>2, <3>3, <3>4 DEF SignedAt
    <3>6. StampMeta(r) # None
          BY <1>6, StampType, NoFilesType DEF WriteFleet
    <3> QED  BY <1>0, <3>2, <3>3, <3>5, <3>6 DEF StampMeta
  <2>4. StampMeta(r).closures <= run[r].src
        BY <1>0 DEF StampMeta
  <2> QED  BY <2>1, <2>2, <2>3, <2>4 DEF Ordered, Only, SameCheckout
<1>7. ASSUME NEW r \in Runners, GitCommit(r) PROVE Ordered'
  <2>1. /\ Only(r) /\ SameTree(r) /\ run'[r].base = run[r].base /\ run'[r].src = run[r].src
        /\ run'[r].files = Staged(r)
        BY <1>7, GitCommitEffect
  <2>2. run'[r].files.fleet = run[r].tree.fleet /\ run'[r].files \in Files
        BY <2>1, StagedType DEF Staged
  <2>3. NotOlder(run[r].tree.fleet.bytes, run[r].tree.fleet.bytes)
        BY <1>0, NotOlderReflexive
  <2>4. UNCHANGED forge
        BY <1>7 DEF GitCommit
  <2> QED  BY <1>2, <2>1, <2>2, <2>3, <2>4 DEF Ordered, SameTree
<1>8. ASSUME NEW r \in Runners, GitPush(r) PROVE Ordered'
  <2>1. /\ Only(r) /\ SameTree(r) /\ run[r].pc = "gitpush"
        /\ run'[r].base = run[r].head /\ run'[r].src = run[r].src
        /\ run'[r].files = run[r].files
        /\ forge'.head = run[r].head /\ forge'.src = run[r].src
        /\ forge'.files = run[r].files
        BY <1>8, GitPushEffect
  <2>2. \A q \in Runners \ {r} : run'[q].base # forge'.head
        BY <2>1 DEF Heads, Only
  <2>3. NotOlder(run[r].files.fleet.bytes, run[r].files.fleet.bytes)
        BY <1>0, NotOlderReflexive
  <2>4. forge'.files.fleet.bytes # None => forge'.files.fleet.bytes.closures <= forge'.src
    <3>1. SUFFICES ASSUME run[r].files.fleet.bytes # None
                   PROVE  run[r].files.fleet.bytes.closures <= run[r].src
          BY <2>1
    <3>2. /\ run[r].tree.fleet.bytes # None
          /\ run[r].tree.fleet.bytes.closures >= run[r].files.fleet.bytes.closures
          /\ run[r].tree.fleet.bytes.closures <= run[r].src
          BY <3>1 DEF Ordered, NotOlder
    <3>3. /\ run[r].files.fleet.bytes.closures \in Int
          /\ run[r].tree.fleet.bytes.closures \in Int
          BY <1>0, <3>1, <3>2, StampTypes
    <3> QED  BY <1>0, <3>2, <3>3
  <2> QED  BY <2>1, <2>2, <2>3, <2>4 DEF Ordered, Only, SameTree
<1>9. CASE UNCHANGED vars
      BY <1>9 DEF vars, Ordered
<1> QED  BY <1>1, <1>3, <1>4, <1>5, <1>6, <1>7, <1>8, <1>9, StepKinds DEF RunnerStep

-----------------------------------------------------------------------------
(* The files of one release, without --reuse-unchanged-signature. *)

\* What PublishedWhole says of the branch, of any commit's files.
Together(f) ==
    /\ Whole(f.fleet) /\ Whole(f.list) /\ \A c \in Refs : Whole(f.man[c])
    /\ f.fleet.bytes # None =>
          /\ f.list.bytes.at = f.fleet.bytes.at
          /\ f.man[f.fleet.bytes.ref].bytes = f.fleet.bytes

\* How far a run has come: the files it has written, with what, and that what is
\* still in the tree in the other places is from an earlier signing.
FleetDone(r) == run[r].tree.fleet.bytes = ProjectManifest(r)
FleetSigned(r) == FleetDone(r) /\ run[r].tree.fleet.sig = ProjectManifest(r)
ListDone(r) == run[r].tree.list.bytes = ListOf(r)
ListSigned(r) == ListDone(r) /\ run[r].tree.list.sig = ListOf(r)
ListOld(r) == run[r].tree.list.bytes # None => run[r].tree.list.bytes.at < run[r].at
ManOf(r) == run[r].tree.man[run[r].head]
ManOld(r) == ManOf(r).bytes # None => ManOf(r).bytes.at < run[r].at

Progress(r) ==
    /\ run[r].pc = "fleet.sig" =>
          /\ FleetDone(r) /\ run[r].sig = ProjectManifest(r) /\ ListOld(r) /\ ManOld(r)
    /\ run[r].pc = "list" => FleetSigned(r) /\ ListOld(r) /\ ManOld(r)
    /\ run[r].pc = "list.sig" =>
          FleetSigned(r) /\ ListDone(r) /\ run[r].sig = ListOf(r) /\ ManOld(r)
    /\ run[r].pc = "man" => FleetSigned(r) /\ ListSigned(r) /\ ManOld(r)
    /\ run[r].pc = "man.sig" =>
          /\ FleetSigned(r) /\ ListSigned(r)
          /\ ManOf(r).bytes = ProjectManifest(r) /\ run[r].sig = ProjectManifest(r)
    /\ run[r].pc = "commit" =>
          /\ FleetSigned(r) /\ ListSigned(r)
          /\ ManOf(r).bytes = ProjectManifest(r) /\ ManOf(r).sig = ProjectManifest(r)

WholeInv ==
    /\ Together(forge.files)
    /\ \A r \in Runners : Together(run[r].files) /\ Progress(r)

\* A signature is reused only for the bytes it signs: what an earlier run left
\* in the place of the file is not what this run writes.
LEMMA SignatureFresh ==
    ASSUME NEW old, NEW new, NEW t \in Int, new # None, new.at = t,
           old.bytes # None => old.bytes.at < t /\ old.bytes.at \in Int
    PROVE  SignatureFor(old, new) = new
BY DEF SignatureFor

LEMMA NextWhole ==
    ASSUME ~Reuse
    PROVE  TypeOK /\ SigKind /\ Stamps /\ WholeInv /\ [Next]_vars => WholeInv'
<1> SUFFICES ASSUME TypeOK, SigKind, Stamps, WholeInv, [Next]_vars PROVE WholeInv'
    OBVIOUS
<1>0. ASSUME NEW r \in Runners
      PROVE  /\ run[r].head \in Refs /\ run[r].src \in Sources /\ run[r].at \in Int
             /\ run[r].files \in Files /\ run[r].tree \in Files
  <2>1. run[r] \in Runner
        BY RunnerType
  <2> QED  BY <2>1 DEF Runner, Times
<1>1. ASSUME NEW r \in Runners, Only(r), Together(forge'.files), Together(run'[r].files),
             Progress(r)'
      PROVE  WholeInv'
  <2>1. ASSUME NEW q \in Runners \ {r} PROVE Together(run'[q].files) /\ Progress(q)'
    <3>1. run'[q] = run[q] /\ Together(run[q].files) /\ Progress(q)
          BY <1>1 DEF Only, WholeInv
    <3>2. ProjectManifest(q)' = ProjectManifest(q) /\ ListOf(q)' = ListOf(q)
          BY <3>1, Zenon DEF ProjectManifest, ListOf
    <3>3. Progress(q)'
          BY <3>1, <3>2 DEF Progress, FleetDone, FleetSigned, ListDone, ListSigned,
             ListOld, ManOf, ManOld
    <3> QED  BY <3>1, <3>3
  <2>2. \A q \in Runners : Together(run'[q].files) /\ Progress(q)'
        BY <1>1, <2>1
  <2>3. Together(forge.files)'
        BY <1>1 DEF Together
  <2>4. ASSUME NEW q \in Runners PROVE Together(run[q].files)'
        BY <2>2 DEF Together
  <2> QED  BY <2>2, <2>3, <2>4 DEF WholeInv
<1>2. CASE Develop
  <2>1. forge'.files = forge.files /\ run' = run
        BY <1>2 DEF Develop, TypeOK
  <2>2. \A r \in Runners : Progress(r)' = Progress(r)
        BY <2>1 DEF Progress, FleetDone, FleetSigned, ListDone, ListSigned,
           ListOld, ManOf, ManOld, ProjectManifest, ListOf
  <2> QED  BY <2>1, <2>2 DEF WholeInv, Together
<1>3. ASSUME NEW r \in Runners, Checkout(r) PROVE WholeInv'
  <2>1. Only(r) /\ run'[r].pc = "idle" /\ run'[r].files = forge.files
        BY <1>3, CheckoutEffect
  <2>2. Progress(r)'
        BY <2>1 DEF Progress
  <2>3. UNCHANGED forge
        BY <1>3 DEF Checkout
  <2> QED  BY <1>1, <2>1, <2>2, <2>3 DEF WholeInv
<1>4. ASSUME NEW r \in Runners, NEW h \in Hosts, PushOne(r, h) PROVE WholeInv'
  <2>1. Only(r) /\ SameCheckout(r) /\ run'[r].pc = "push"
        BY <1>4, PushOneEffect
  <2>2. Progress(r)'
        BY <2>1 DEF Progress
  <2>3. UNCHANGED forge
        BY <1>4 DEF PushOne
  <2> QED  BY <1>1, <2>1, <2>2, <2>3 DEF WholeInv, SameCheckout
<1>5. ASSUME NEW r \in Runners, WriteFleet(r) PROVE WholeInv'
  <2>1. SignedAt(r) = clock + 1 /\ FleetSignature(r) = StampMeta(r)
        BY DEF SignedAt, FleetSignature, Preserved
  <2>2. /\ Only(r) /\ SameCheckout(r) /\ run'[r].pc = "fleet.sig"
        /\ run'[r].at = SignedAt(r) /\ run'[r].sig = FleetSignature(r)
        /\ run'[r].tree.fleet.bytes = StampMeta(r)
        /\ run'[r].tree.list = run[r].tree.list /\ run'[r].tree.man = run[r].tree.man
        BY <1>5, WriteFleetEffect
  <2>3. StampMeta(r) = ProjectManifest(r)'
        BY <2>2 DEF StampMeta, ProjectManifest, SameCheckout
  <2>4. ListOld(r)' /\ ManOld(r)'
    <3>1. /\ run[r].tree.list.bytes # None =>
                run[r].tree.list.bytes.at <= clock /\ run[r].tree.list.bytes.at \in Int
          /\ ManOf(r).bytes # None => ManOf(r).bytes.at <= clock /\ ManOf(r).bytes.at \in Int
          BY <1>0, StampTypes DEF Stamps, UpToNow, ManOf
    <3>2. run'[r].at = clock + 1 /\ clock \in Int
          BY <2>1, <2>2 DEF TypeOK
    <3>3. ManOf(r)' = ManOf(r)
          BY <2>2 DEF ManOf, SameCheckout
    <3> QED  BY <2>2, <3>1, <3>2, <3>3 DEF ListOld, ManOld
  <2>5. Progress(r)'
        BY <2>1, <2>2, <2>3, <2>4 DEF Progress, FleetDone
  <2>6. UNCHANGED forge
        BY <1>5 DEF WriteFleet
  <2> QED  BY <1>1, <2>2, <2>5, <2>6 DEF WholeInv, SameCheckout
<1>6. ASSUME NEW r \in Runners, GitCommit(r) PROVE WholeInv'
  <2>1. /\ Only(r) /\ run[r].pc = "commit" /\ run'[r].files = Staged(r)
        /\ run'[r].pc \in {"gitpush", "idle"}
        BY <1>6, GitCommitEffect
  <2>2. /\ FleetSigned(r) /\ ListSigned(r)
        /\ ManOf(r).bytes = ProjectManifest(r) /\ ManOf(r).sig = ProjectManifest(r)
        BY <2>1 DEF WholeInv, Progress
  <2>3. /\ Staged(r).fleet = run[r].tree.fleet /\ Staged(r).list = run[r].tree.list
        /\ Staged(r).man[run[r].head] = ManOf(r)
        /\ \A c \in Refs \ {run[r].head} : Staged(r).man[c] = run[r].files.man[c]
        BY <1>0 DEF Staged, ManOf, Files
  <2>4. \A c \in Refs : Whole(Staged(r).man[c])
        BY <2>2, <2>3 DEF WholeInv, Together, Whole
  <2>5. Together(Staged(r))
    <3>1. Whole(Staged(r).fleet) /\ Whole(Staged(r).list)
          BY <2>2, <2>3 DEF Whole, FleetSigned, FleetDone, ListSigned, ListDone
    <3>2. /\ Staged(r).fleet.bytes = ProjectManifest(r)
          /\ Staged(r).list.bytes = ListOf(r)
          BY <2>2, <2>3 DEF FleetSigned, FleetDone, ListSigned, ListDone
    <3>3. /\ Staged(r).fleet.bytes.at = run[r].at /\ Staged(r).list.bytes.at = run[r].at
          /\ Staged(r).fleet.bytes.ref = run[r].head
          BY <3>2 DEF ProjectManifest, ListOf
    <3> QED  BY <2>2, <2>3, <2>4, <3>1, <3>2, <3>3 DEF Together
  <2>6. Progress(r)'
        BY <2>1 DEF Progress
  <2>7. UNCHANGED forge
        BY <1>6 DEF GitCommit
  <2> QED  BY <1>1, <2>1, <2>5, <2>6, <2>7 DEF WholeInv
<1>7. ASSUME NEW r \in Runners, GitPush(r) PROVE WholeInv'
  <2>1. /\ Only(r) /\ run'[r].pc = "idle" /\ run'[r].files = run[r].files
        /\ forge'.files = run[r].files
        BY <1>7, GitPushEffect
  <2>2. Progress(r)'
        BY <2>1 DEF Progress
  <2> QED  BY <1>1, <2>1, <2>2 DEF WholeInv
<1>8. ASSUME NEW r \in Runners, QuietStep(r) PROVE WholeInv'
  <2>1. Only(r) /\ SameCheckout(r) /\ UNCHANGED forge
        BY <1>8, QuietEffect
  <2>2. SUFFICES Progress(r)'
        BY <1>1, <2>1 DEF WholeInv, SameCheckout
  <2>3. Progress(r)
        BY DEF WholeInv
  <2>4. ASSUME run'[r].at = run[r].at
        PROVE  ProjectManifest(r)' = ProjectManifest(r) /\ ListOf(r)' = ListOf(r)
        BY <2>1, <2>4 DEF ProjectManifest, ListOf, SameCheckout
  <2>5. /\ ProjectManifest(r).at = run[r].at /\ ListOf(r).at = run[r].at
        /\ ProjectManifest(r) # None /\ ListOf(r) # None
    <3>1. ProjectManifest(r).ref \in Refs /\ ListOf(r).ref \in Refs
          BY <1>0 DEF ProjectManifest, ListOf
    <3> QED  BY <3>1 DEF ProjectManifest, ListOf, None, Refs
  <2>6. CASE Start(r)
        BY <2>6, StartEffect DEF Progress
  <2>7. CASE WriteFleetSig(r)
    <3>1. /\ run[r].pc = "fleet.sig" /\ run'[r].pc = "list" /\ run'[r].at = run[r].at
          /\ run'[r].tree.fleet.bytes = run[r].tree.fleet.bytes
          /\ run'[r].tree.fleet.sig = run[r].sig
          /\ run'[r].tree.list = run[r].tree.list /\ run'[r].tree.man = run[r].tree.man
          BY <2>7, WriteFleetSigEffect
    <3> QED  BY <2>1, <2>3, <2>4, <3>1 DEF Progress, FleetSigned, FleetDone, ListOld, ManOld,
                ManOf, SameCheckout
  <2>8. CASE WriteList(r)
    <3>1. /\ run[r].pc = "list" /\ run'[r].pc = "list.sig" /\ run'[r].at = run[r].at
          /\ run'[r].sig = SignatureFor(run[r].tree.list, ListOf(r))
          /\ run'[r].tree.list.bytes = ListOf(r)
          /\ run'[r].tree.fleet = run[r].tree.fleet /\ run'[r].tree.man = run[r].tree.man
          BY <2>8, WriteListEffect
    <3>2. run[r].tree.list.bytes # None =>
              run[r].tree.list.bytes.at < run[r].at /\ run[r].tree.list.bytes.at \in Int
          BY <1>0, <2>3, <3>1, StampTypes DEF Progress, ListOld
    <3>3. SignatureFor(run[r].tree.list, ListOf(r)) = ListOf(r)
          BY <1>0, <2>5, <3>2, SignatureFresh
    <3> QED  BY <2>1, <2>3, <2>4, <3>1, <3>3 DEF Progress, FleetSigned, FleetDone, ListDone,
                ManOld, ManOf, SameCheckout
  <2>9. CASE WriteListSig(r)
    <3>1. /\ run[r].pc = "list.sig" /\ run'[r].pc = "man" /\ run'[r].at = run[r].at
          /\ run'[r].tree.list.bytes = run[r].tree.list.bytes
          /\ run'[r].tree.list.sig = run[r].sig
          /\ run'[r].tree.fleet = run[r].tree.fleet /\ run'[r].tree.man = run[r].tree.man
          BY <2>9, WriteListSigEffect
    <3> QED  BY <2>1, <2>3, <2>4, <3>1 DEF Progress, FleetSigned, FleetDone, ListDone,
                ListSigned, ManOld, ManOf, SameCheckout
  <2>10. CASE WriteManifest(r)
    <3>1. /\ run[r].pc = "man" /\ run'[r].pc = "man.sig" /\ run'[r].at = run[r].at
          /\ run'[r].sig = SignatureFor(ManOf(r), ProjectManifest(r))
          /\ run'[r].tree.man[run[r].head].bytes = ProjectManifest(r)
          /\ run'[r].tree.fleet = run[r].tree.fleet /\ run'[r].tree.list = run[r].tree.list
          BY <2>10, WriteManifestEffect DEF ManOf
    <3>2. ManOf(r).bytes # None =>
              ManOf(r).bytes.at < run[r].at /\ ManOf(r).bytes.at \in Int
      <4>1. ManOf(r).bytes # None => ManOf(r).bytes.at \in Int
            BY <1>0, StampTypes DEF ManOf
      <4> QED  BY <2>3, <3>1, <4>1 DEF Progress, ManOld
    <3>3. SignatureFor(ManOf(r), ProjectManifest(r)) = ProjectManifest(r)
          BY <1>0, <2>5, <3>2, SignatureFresh
    <3> QED  BY <2>1, <2>3, <2>4, <3>1, <3>3 DEF Progress, FleetSigned, FleetDone, ListDone,
                ListSigned, ManOf, SameCheckout
  <2>11. CASE WriteManifestSig(r)
    <3>1. /\ run[r].pc = "man.sig" /\ run'[r].pc = "commit" /\ run'[r].at = run[r].at
          /\ run'[r].tree.man[run[r].head].bytes = ManOf(r).bytes
          /\ run'[r].tree.man[run[r].head].sig = run[r].sig
          /\ run'[r].tree.fleet = run[r].tree.fleet /\ run'[r].tree.list = run[r].tree.list
          BY <2>11, WriteManifestSigEffect DEF ManOf
    <3> QED  BY <2>1, <2>3, <2>4, <3>1 DEF Progress, FleetSigned, FleetDone, ListDone,
                ListSigned, ManOf, SameCheckout
  <2>12. CASE Abort(r)
        BY <2>12, AbortEffect DEF Progress
  <2> QED  BY <1>8, <2>6, <2>7, <2>8, <2>9, <2>10, <2>11, <2>12 DEF QuietStep
<1>9. CASE UNCHANGED vars
  <2>1. \A r \in Runners : Progress(r)' = Progress(r)
        BY <1>9 DEF vars, Progress, FleetDone, FleetSigned, ListDone, ListSigned,
           ListOld, ManOf, ManOld, ProjectManifest, ListOf
  <2> QED  BY <1>9, <2>1 DEF vars, WholeInv, Together
<1> QED  BY <1>2, <1>3, <1>4, <1>5, <1>6, <1>7, <1>8, <1>9, StepKinds DEF RunnerStep

-----------------------------------------------------------------------------
(* The theorems. *)

IInv == TypeOK /\ SigKind /\ (PushHook => BuiltInv) /\ Heads /\ Stamps /\ Ordered

LEMMA InitHolds == Init => IInv /\ WholeInv
<1> SUFFICES ASSUME Init PROVE IInv /\ WholeInv
    OBVIOUS
<1>1. /\ forge.files = NoFiles /\ forge.head = 0 /\ forge.src = 1
      /\ clock = 0 /\ commits = 0
      /\ \A r \in Runners : /\ run[r].pc = "idle" /\ run[r].head = 0 /\ run[r].base = 0
                            /\ run[r].src = 1 /\ run[r].at = 0
                            /\ run[r].files = NoFiles /\ run[r].tree = NoFiles
      BY DEF Init
<1>2. /\ NoFiles.fleet = NoPair /\ NoFiles.list = NoPair
      /\ \A c \in Refs : NoFiles.man[c] = NoPair
      /\ NoPair.bytes = None /\ NoPair.sig = None
      BY DEF NoFiles, NoPair
<1>3. BuiltInv
      BY <1>1, <1>2 DEF BuiltInv, BuiltIn
<1>4. Heads
      BY <1>1 DEF Heads
<1>5. Stamps
      BY <1>1, <1>2 DEF Stamps, UpToNow
<1>6. Ordered
      BY <1>1, <1>2 DEF Ordered, NotOlder
<1>7. WholeInv
      BY <1>1, <1>2 DEF WholeInv, Together, Whole, Progress
<1> QED  BY <1>3, <1>4, <1>5, <1>6, <1>7, InitType DEF IInv

LEMMA Inductive == IInv /\ [Next]_vars => IInv'
BY NextType, NextSigKind, NextBuilt, NextHeads, NextStamps, NextOrdered DEF IInv

LEMMA Invariant == Spec => []IInv
BY InitHolds, Inductive, PTL DEF Spec

\* The forge, the binary cache and the runners' trees keep their types: a run
\* never writes a signature of one artefact beside another kind of artefact, nor
\* one without a signedAt.
THEOREM TypeCorrect == Spec => []TypeOK
<1>1. IInv => TypeOK
      BY DEF IInv
<1> QED  BY <1>1, Invariant, PTL

\* When the runs have a push hook: whichever of them are killed and whoever wins
\* the push to the branch, every closure the published fleet.resolved names is in
\* the binary cache.
THEOREM BuiltBeforePublished == Spec => []PublishedBuilt
<1>1. IInv => PublishedBuilt
      BY DEF IInv, BuiltInv, BuiltIn, PublishedBuilt
<1> QED  BY <1>1, Invariant, PTL

\* Without --reuse-unchanged-signature, what the branch offers is one signing:
\* every artefact has its own signature, the lists have the fleet's signedAt and
\* the manifest pins the fleet, whatever half-written trees runs started from.
THEOREM PublishedTogether == ~Reuse => (Spec => []PublishedWhole)
<1> SUFFICES ASSUME ~Reuse PROVE Spec => []PublishedWhole
    OBVIOUS
<1>1. IInv /\ WholeInv /\ [Next]_vars => WholeInv'
      BY NextWhole DEF IInv
<1>2. WholeInv => PublishedWhole
      BY DEF WholeInv, Together, PublishedWhole
<1> QED  BY <1>1, <1>2, InitHolds, Invariant, PTL DEF Spec

\* The forge's refusal of what does not descend from the branch is enough for
\* the published signedAt and the published sources never to go back, however
\* many runners race, with or without --reuse-unchanged-signature.
THEOREM PublishedOnlyNewer == Spec => NeverOlder
<1>1. IInv /\ [Next]_vars =>
        [LET old == forge.files.fleet.bytes  new == forge'.files.fleet.bytes IN
          old # None => new # None /\ new.at >= old.at /\ new.closures >= old.closures]_vars
  <2> SUFFICES ASSUME IInv, [Next]_vars
               PROVE  NotOlder(forge.files.fleet.bytes, forge'.files.fleet.bytes)
      BY DEF NotOlder
  <2> USE DEF IInv
  <2>1. NotOlder(forge.files.fleet.bytes, forge.files.fleet.bytes)
        BY NotOlderReflexive DEF TypeOK
  <2>2. CASE forge'.files = forge.files
        BY <2>1, <2>2
  <2>3. CASE Develop
        BY <2>2, <2>3 DEF Develop, TypeOK
  <2>4. CASE UNCHANGED vars
        BY <2>2, <2>4 DEF vars
  <2>5. ASSUME NEW r \in Runners, GitPush(r)
        PROVE  NotOlder(forge.files.fleet.bytes, forge'.files.fleet.bytes)
        BY <2>5, GitPushEffect DEF Ordered
  <2>6. ASSUME NEW r \in Runners, RunnerStep(r), ~GitPush(r)
        PROVE  forge' = forge
        BY <2>6, QuietEffect DEF RunnerStep, Checkout, PushOne, WriteFleet, GitCommit
  <2> QED  BY <2>2, <2>3, <2>4, <2>5, <2>6, StepKinds
<1> QED  BY <1>1, Invariant, PTL DEF Spec, NeverOlder
=============================================================================
