------------------------- MODULE TrustRotation_proofs -------------------------
(***************************************************************************)
(* A planned rotation of the release key takes back no artefact, for every *)
(* set of keys and verifiers, every length of the windows and whatever key *)
(* CI signs with.                                                          *)
(***************************************************************************)
EXTENDS TrustRotation, TLAPS

\* The parts of a rotation the flake can be in.
Phases ==
    /\ trust.previous # NoKey =>
          trust.successor = NoKey /\ promotedAt # Never /\ promotedAt <= now
    /\ trust.successor # NoKey => trust.successor # trust.current

\* What the flake was going to keep it keeps until the artefact is stale.
FlakeHas(a) ==
    \/ a.key = trust.current /\ Window <= Grace
    \/ a.key = trust.previous /\ a.at + Window <= promotedAt + Grace
    \/ a.key = trust.successor /\ a.at + Window < trust.retireAt

\* And so do the copies that had the key or were taken from the flake since.
CopiesHave(a) ==
    \A v \in a.known : a.key \in ActiveKeysAt(files[v], NoKey, a.at + Window)

Fresh(a) == a.at <= now /\ now - a.at <= Window

AllKept == \A a \in signed : Fresh(a) /\ (a.kept => FlakeHas(a) /\ CopiesHave(a))

IInv == TypeOK /\ Phases /\ AllKept

-----------------------------------------------------------------------------

\* A key that is active at the end of the window is active before.
LEMMA ActiveBefore ==
    ASSUME NEW slot \in KeySlot, NEW t \in Nat, NEW u \in Nat, t <= u
    PROVE  ActiveKeysAt(slot, NoKey, u) \subseteq ActiveKeysAt(slot, NoKey, t)
<1>1. slot.retireAt \in Int
      BY DEF KeySlot, SlotOf, Never
<1> QED  BY <1>1 DEF ActiveKeysAt

\* What the invariant is for: a copy accepts what is fresh.
LEMMA KeepsFresh == IInv => RotationKeepsFresh
<1> SUFFICES ASSUME IInv, NEW a \in signed, a.kept, NEW v \in a.known,
                    FinishVerification(a.at, now, Window, files[v].rejectBefore)
             PROVE  Accepts(v, a)
    BY DEF RotationKeepsFresh
<1>1. a \in Artefact /\ files[v] \in KeySlot /\ now \in Nat /\ Window \in Nat
      BY RotationAssumption DEF IInv, TypeOK, Artefact
<1>2. a.at + Window \in Nat /\ now <= a.at + Window
      BY <1>1 DEF IInv, AllKept, Fresh, Artefact
<1>3. a.key \in ActiveKeysAt(files[v], NoKey, now)
      BY <1>1, <1>2, ActiveBefore DEF IInv, AllKept, CopiesHave
<1> QED  BY <1>3 DEF Accepts, VerifySidecar, VerifySignature, VerifyWith

-----------------------------------------------------------------------------

LEMMA InitHolds == Init => IInv
<1> SUFFICES ASSUME Init PROVE IInv
    OBVIOUS
<1>1. FirstSlot \in KeySlot
      BY RotationAssumption DEF FirstSlot, KeySlot, SlotOf, Never
<1>2. TypeOK
      BY <1>1 DEF Init, TypeOK, Stamp, Never
<1>3. FirstSlot.previous = NoKey /\ FirstSlot.successor = NoKey
      BY DEF FirstSlot
<1> QED  BY <1>2, <1>3 DEF Init, IInv, Phases, AllKept

\* A step that changes the flake only: what it must keep.
LEMMA FlakeStep ==
    ASSUME IInv, UNCHANGED <<now, files, signed>>,
           trust' \in KeySlot, promotedAt' \in Stamp, Phases',
           \A a \in signed : Fresh(a) /\ FlakeHas(a) => FlakeHas(a)'
    PROVE  IInv'
<1>1. TypeOK'
      BY DEF IInv, TypeOK
<1>2. AllKept'
      BY DEF IInv, AllKept, Fresh, CopiesHave
<1> QED  BY <1>1, <1>2 DEF IInv

\* The types an artefact and the flake bring to a comparison.
LEMMA Times ==
    ASSUME IInv
    PROVE  /\ now \in Nat /\ promotedAt \in Int /\ trust \in KeySlot
           /\ trust.retireAt \in Int /\ trust.rejectBefore \in Int
           /\ Window \in Nat /\ Grace \in Nat /\ Overlap \in Nat
           /\ \A a \in signed : a.at \in Nat /\ a.key \in Keys /\ a.key # NoKey
BY RotationAssumption DEF IInv, TypeOK, Artefact, Stamp, KeySlot, SlotOf, Never

LEMMA AnnounceStep ==
    ASSUME IInv, NEW k \in Keys, Announce(k) PROVE IInv'
<1>1. k # NoKey /\ trust.successor = NoKey /\ trust.previous = NoKey
      BY RotationAssumption DEF Announce
<1>2. trust' = [trust EXCEPT !.successor = k, !.retireAt = now + Overlap]
      BY DEF Announce
<1>3. trust' \in KeySlot
  <2>1. k \in Keys \cup {NoKey} /\ now + Overlap \in Nat \cup {Never}
        BY Times
  <2> QED  BY <1>2, <2>1, Times DEF KeySlot, SlotOf
<1>4. trust'.current = trust.current /\ trust'.previous = NoKey /\ trust'.successor = k
      BY <1>1, <1>2, Times DEF KeySlot, SlotOf
<1>5. Phases'
      BY <1>4 DEF Phases, Announce
<1>6. \A a \in signed : FlakeHas(a) => FlakeHas(a)'
      BY <1>1, <1>4, Times DEF FlakeHas
<1> QED  BY <1>3, <1>5, <1>6, FlakeStep DEF Announce, IInv, TypeOK

LEMMA PromoteStep ==
    ASSUME IInv, Promote PROVE IInv'
<1>1. /\ trust.successor # NoKey /\ now >= trust.retireAt
      /\ trust.previous = NoKey /\ trust.successor # trust.current
      BY DEF Promote, RotationDue, IInv, Phases
<1>2. /\ trust' = [trust EXCEPT !.previous = trust.current, !.current = trust.successor,
                                !.successor = NoKey, !.retireAt = Never]
      /\ promotedAt' = now
      BY DEF Promote
<1>3. trust' \in KeySlot
      BY <1>1, <1>2, Times DEF KeySlot, SlotOf
<1>4. /\ trust'.current = trust.successor /\ trust'.previous = trust.current
      /\ trust'.successor = NoKey
      BY <1>2, Times DEF KeySlot, SlotOf
<1>5. Phases'
      BY <1>2, <1>4, Times DEF Phases, Promote, Never
<1>6. ASSUME NEW a \in signed, Fresh(a), FlakeHas(a) PROVE FlakeHas(a)'
  <2>1. a.key = trust.current /\ Window <= Grace
        BY <1>1, <1>6, Times DEF FlakeHas, Fresh
  <2> QED  BY <1>2, <1>4, <1>6, <2>1, Times DEF FlakeHas, Fresh
<1>7. promotedAt' \in Stamp
      BY <1>2, Times DEF Stamp
<1> QED  BY <1>3, <1>5, <1>6, <1>7, FlakeStep DEF Promote

LEMMA DropStep ==
    ASSUME IInv, DropPrevious PROVE IInv'
<1>1. /\ trust' = [trust EXCEPT !.previous = NoKey]
      /\ trust.previous # NoKey /\ trust.successor = NoKey /\ now - promotedAt > Grace
      BY DEF DropPrevious, IInv, Phases
<1>2. /\ trust' \in KeySlot
      /\ trust'.previous = NoKey /\ trust'.successor = NoKey
      /\ trust'.current = trust.current
      BY <1>1, Times DEF KeySlot, SlotOf
<1>3. Phases'
      BY <1>2 DEF Phases
<1>4. ASSUME NEW a \in signed, Fresh(a), FlakeHas(a) PROVE FlakeHas(a)'
  <2>1. a.key = trust.current /\ Window <= Grace
        BY <1>1, <1>4, Times DEF FlakeHas, Fresh
  <2> QED  BY <1>2, <2>1 DEF FlakeHas
<1> QED  BY <1>2, <1>3, <1>4, FlakeStep DEF DropPrevious, IInv, TypeOK

LEMMA RejectStep ==
    ASSUME IInv, RejectBefore PROVE IInv'
<1>1. trust' = [trust EXCEPT !.rejectBefore = now]
      BY DEF RejectBefore
<1>2. /\ trust' \in KeySlot
      /\ trust'.previous = trust.previous /\ trust'.current = trust.current
      /\ trust'.successor = trust.successor /\ trust'.retireAt = trust.retireAt
      BY <1>1, Times DEF KeySlot, SlotOf
<1>3. Phases'
      BY <1>2 DEF Phases, RejectBefore, IInv
<1>4. \A a \in signed : FlakeHas(a) => FlakeHas(a)'
      BY <1>2 DEF FlakeHas, RejectBefore
<1> QED  BY <1>2, <1>3, <1>4, FlakeStep DEF RejectBefore, IInv, TypeOK

LEMMA SignStep ==
    ASSUME IInv, NEW k \in Keys, Sign(k) PROVE IInv'
<1> DEFINE b == [at |-> now, key |-> k, kept |-> FlakeKeeps(k), known |-> KnownTo(k)]
<1>1. signed' = signed \cup {b} /\ UNCHANGED <<now, trust, promotedAt, files>>
      BY DEF Sign
<1>2. FlakeKeeps(k) \in BOOLEAN /\ KnownTo(k) \in SUBSET Verifiers
      BY DEF FlakeKeeps, KnownTo
<1>3. b \in Artefact
      BY <1>2, Times DEF Artefact
<1>4. Fresh(b) /\ (b.kept => FlakeHas(b) /\ CopiesHave(b))
  <2>1. Fresh(b)
        BY Times DEF Fresh
  <2>2. b.kept => FlakeHas(b)
        BY DEF FlakeKeeps, FlakeHas
  <2>3. CopiesHave(b)
        BY DEF KnownTo, CopiesHave
  <2> QED  BY <2>1, <2>2, <2>3
<1> HIDE DEF b
<1>5. TypeOK' /\ Phases'
      BY <1>1, <1>3 DEF IInv, TypeOK, Phases
<1>6. AllKept'
      BY <1>1, <1>4 DEF IInv, AllKept, Fresh, FlakeHas, CopiesHave
<1> QED  BY <1>5, <1>6 DEF IInv

LEMMA DeployStep ==
    ASSUME IInv, NEW v \in Verifiers, Deploy(v) PROVE IInv'
<1>1. /\ files' \in [Verifiers -> KeySlot]
      /\ files'[v] = trust
      /\ \A w \in Verifiers : w # v => files'[w] = files[w]
      /\ UNCHANGED <<now, trust, promotedAt>>
      BY DEF Deploy, IInv, TypeOK
<1>2. ASSUME NEW b \in signed'
      PROVE  /\ b \in Artefact
             /\ \E a \in signed : /\ b.at = a.at /\ b.key = a.key /\ b.kept = a.kept
                                  /\ b.known = a.known \cup {v}
  <2>1. PICK a \in signed : b = [a EXCEPT !.known = @ \cup {v}]
        BY <1>2 DEF Deploy
  <2>2. a \in Artefact /\ a.known \cup {v} \in SUBSET Verifiers
        BY DEF IInv, TypeOK, Artefact
  <2> QED  BY <2>1, <2>2 DEF Artefact
<1>3. TypeOK' /\ Phases'
      BY <1>1, <1>2 DEF IInv, TypeOK, Phases
<1>4. ASSUME NEW b \in signed', b.kept PROVE FlakeHas(b)' /\ CopiesHave(b)'
  <2>1. PICK a \in signed : /\ b.at = a.at /\ b.key = a.key /\ b.kept = a.kept
                            /\ b.known = a.known \cup {v}
        BY <1>2
  <2>2. FlakeHas(a) /\ CopiesHave(a) /\ a.known \subseteq Verifiers
        BY <1>4, <2>1 DEF IInv, AllKept, TypeOK, Artefact
  <2>3. a.key \in ActiveKeysAt(trust, NoKey, a.at + Window)
        BY <2>2, Times DEF FlakeHas, ActiveKeysAt, ActiveKeys
  <2>4. FlakeHas(b)'
        BY <1>1, <2>1, <2>2 DEF FlakeHas
  <2>5. CopiesHave(b)'
        BY <1>1, <2>1, <2>2, <2>3 DEF CopiesHave
  <2> QED  BY <2>4, <2>5
<1>5. \A b \in signed' : Fresh(b)'
      BY <1>1, <1>2 DEF IInv, AllKept, Fresh
<1> QED  BY <1>3, <1>4, <1>5 DEF IInv, AllKept

LEMMA TickStep ==
    ASSUME IInv, Tick PROVE IInv'
<1>1. /\ now' = now + 1 /\ UNCHANGED <<trust, promotedAt, files>>
      /\ signed' \subseteq signed /\ \A a \in signed' : now + 1 - a.at <= Window
      BY DEF Tick
<1>2. TypeOK'
      BY <1>1, Times DEF IInv, TypeOK
<1>3. Phases'
      BY <1>1, Times DEF IInv, Phases
<1>4. AllKept'
      BY <1>1, Times DEF IInv, AllKept, Fresh, FlakeHas, CopiesHave
<1> QED  BY <1>2, <1>3, <1>4 DEF IInv

LEMMA Inductive == IInv /\ [Next]_vars => IInv'
<1> SUFFICES ASSUME IInv, [Next]_vars PROVE IInv'
    OBVIOUS
<1>1. CASE UNCHANGED vars
      BY <1>1 DEF vars, IInv, TypeOK, Phases, AllKept, Fresh, FlakeHas, CopiesHave
<1> QED  BY <1>1, AnnounceStep, PromoteStep, DropStep, RejectStep, SignStep, DeployStep,
            TickStep DEF Next

LEMMA Invariant == Spec => []IInv
BY InitHolds, Inductive, PTL DEF Spec

\* The slot of trust.json, its copies and the signed artefacts keep their types.
THEOREM TypeCorrect == Spec => []TypeOK
<1>1. IInv => TypeOK
      BY DEF IInv
<1> QED  BY <1>1, Invariant, PTL

\* For every set of keys and verifiers, all lengths of Window, Overlap and Grace
\* and copies that lag for any time: once the flake is going to keep a key for
\* the window of what it signed, only a copy from before that key refuses the
\* artefact, and no copy taken from the flake since does (active_keys_at).
THEOREM RotationTakesNothingBack == Spec => []RotationKeepsFresh
BY Invariant, KeepsFresh, PTL
=============================================================================
