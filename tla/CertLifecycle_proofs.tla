------------------------- MODULE CertLifecycle_proofs -------------------------
(***************************************************************************)
(* How long the renewal worker keeps the certificate file good for the     *)
(* next start, for every certificate life, renewal threshold and length of *)
(* outage, with no assumption on when the agent is restarted.              *)
(***************************************************************************)
EXTENDS CertLifecycle, TLAPS

\* Parts of the inductive invariant: the order of the times.
TimesOrdered ==
    disk # Never => /\ client # Never
                    /\ client <= disk /\ disk <= now
                    /\ client <= boot /\ boot <= now

NotYet  == disk = Never => ~checked
Outages == IF reach THEN outage = 0 ELSE outage > 0

\* The last day with the control plane, when the worker is done with it.
LastReached == now - outage

\* If the running process was there that day, with a client that was let in, it
\* left a certificate in the file with RenewBelow days to go.
Kept ==
    /\ disk # Never /\ (checked \/ ~reach)
    /\ boot <= LastReached /\ LastReached <= ClientEnd
    => LastReached + RenewBelow <= disk + CertLife

\* What was left when the clients expired stays.
Late ==
    disk # Never /\ boot + MaxOutage <= ClientEnd /\ now > ClientEnd
    => ClientEnd - MaxOutage + RenewBelow <= disk + CertLife

IInv == TypeOK /\ TimesOrdered /\ NotYet /\ Outages /\ Kept /\ Late

LEMMA Outlasts == IInv => FileOutlastsClient
BY CertAssumption DEF IInv, TypeOK, Stamp, TimesOrdered, Late, FileOutlastsClient,
   ClientEnd, Unexpired, Never

LEMMA InitHolds == Init => IInv
<1> SUFFICES ASSUME Init PROVE IInv
    OBVIOUS
<1>1. TypeOK
  <2>1. checked \in BOOLEAN /\ reach \in BOOLEAN
        BY Zenon DEF Init
  <2>2. /\ now \in Nat /\ boot \in Nat /\ disk \in Stamp /\ client \in Stamp
        /\ outage \in 0 .. MaxOutage
        BY CertAssumption DEF Init, Stamp, Never
  <2> QED  BY <2>1, <2>2 DEF TypeOK
<1>2. TimesOrdered /\ NotYet /\ Outages
      BY DEF Init, TimesOrdered, NotYet, Outages
<1>3. Kept /\ Late
      BY DEF Init, Kept, Late
<1> QED  BY <1>1, <1>2, <1>3 DEF IInv

LEMMA Inductive == IInv /\ [Next]_vars => IInv'
<1> SUFFICES ASSUME IInv, [Next]_vars PROVE IInv'
    OBVIOUS
<1> USE CertAssumption DEF IInv, TypeOK, Stamp, Never, ClientEnd, LastReached
<1>1. CASE FirstBoot
  <2>1. (TypeOK /\ TimesOrdered /\ NotYet /\ Outages)'
        BY <1>1 DEF FirstBoot, Enroll, TimesOrdered, NotYet, Outages
  <2>2. (Kept /\ Late)'
        BY <1>1 DEF FirstBoot, Enroll, NotYet, Kept, Late
  <2> QED  BY <2>1, <2>2
<1>2. CASE MaybeRenewOnce
  <2>1. (TypeOK /\ TimesOrdered /\ NotYet /\ Outages)'
        BY <1>2 DEF MaybeRenewOnce, Renew, TimesOrdered, NotYet, Outages
  <2>2. Late'
        BY <1>2 DEF MaybeRenewOnce, Renew, TimesOrdered, Late
  <2>3. Kept'
    <3>1. CASE disk' = disk /\ Remaining(disk) >= RenewBelow
          BY <1>2, <3>1 DEF MaybeRenewOnce, Kept, Remaining, TimesOrdered
    <3>2. CASE disk' = disk /\ ~reach
          BY <1>2, <3>2 DEF MaybeRenewOnce, Kept
    <3>3. CASE disk' = disk /\ reach /\ ~Unexpired(client)
          BY <1>2, <3>3 DEF MaybeRenewOnce, Kept, Unexpired, Outages, TimesOrdered
    <3>4. CASE disk' = now
          BY <1>2, <3>4 DEF MaybeRenewOnce, Kept
    <3> QED  BY <1>2, <3>1, <3>2, <3>3, <3>4 DEF MaybeRenewOnce, Renew
  <2> QED  BY <2>1, <2>2, <2>3
<1>3. CASE Restart
  <2>1. (TypeOK /\ TimesOrdered /\ NotYet /\ Outages)'
    <3>1. (checked \in BOOLEAN)'
          BY <1>3, Zenon DEF Restart
    <3> QED  BY <1>3, <3>1 DEF Restart, BuildClient, TimesOrdered, NotYet, Outages
  <2>2. (Kept /\ Late)'
        BY <1>3 DEF Restart, BuildClient, Outages, Kept, Late
  <2> QED  BY <2>1, <2>2
<1>4. CASE Tick
  <2>1. TypeOK'
    <3>1. (checked \in BOOLEAN /\ reach \in BOOLEAN)'
          BY <1>4, Zenon DEF Tick
    <3>2. (now \in Nat /\ outage \in 0 .. MaxOutage)'
          BY <1>4 DEF Tick
    <3> QED  BY <1>4, <3>1, <3>2 DEF Tick
  <2>2. (TimesOrdered /\ NotYet /\ Outages)'
        BY <1>4 DEF Tick, TimesOrdered, NotYet, Outages
  <2>3. Kept'
        BY <1>4 DEF Tick, Kept
  <2>4. Late'
        BY <1>4 DEF Tick, Kept, Late, TimesOrdered
  <2> QED  BY <2>1, <2>2, <2>3, <2>4
<1>5. CASE UNCHANGED vars
      BY <1>5 DEF vars, TimesOrdered, NotYet, Outages, Kept, Late
<1> QED  BY <1>1, <1>2, <1>3, <1>4, <1>5 DEF Next

LEMMA Invariant == Spec => []IInv
BY InitHolds, Inductive, PTL DEF Spec

\* The certificate times, the process's start and the outage counter keep their
\* types in every behaviour of the renewal worker.
THEOREM TypeCorrect == Spec => []TypeOK
<1>1. IInv => TypeOK
      BY DEF IInv
<1> QED  BY <1>1, Invariant, PTL

\* For every certificate life, threshold and outage, and whenever the agent is
\* restarted or not: the file holds an unexpired certificate for RenewBelow -
\* MaxOutage days after the clients of the running process have expired, if
\* these were built MaxOutage days or more before (maybe_renew_once).
THEOREM FileOutlasts == Spec => []FileOutlastsClient
BY Invariant, Outlasts, PTL
=============================================================================
