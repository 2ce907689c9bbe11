--------------------------- MODULE Enrollment_proofs ---------------------------
(***************************************************************************)
(* A bootstrap token enrols once and a revoked certificate stays out, for  *)
(* any number of hosts, nonces and concurrent requests, any token life and *)
(* retention, and any number of releases and restarts.                     *)
(***************************************************************************)
EXTENDS Enrollment, TLAPS

\* What mint-token writes into the claims.
TokenTimes ==
    \A n \in Minted : /\ tokens[n].expires = tokens[n].issued + TokenLife
                      /\ tokens[n].issued <= now

\* A request that passed the checks holds a token that is valid now: the clock
\* does not move under it.
SlotTokens ==
    \A s \in Slots : slots[s].st \in {"checked", "recorded"} =>
        /\ slots[s].nonce \in Minted
        /\ now < tokens[slots[s].nonce].expires

RecordedIn(n) == {s \in Slots : slots[s].st = "recorded" /\ slots[s].nonce = n}

\* Of the handlers with one nonce the primary key lets one through, and its row
\* is as new as the handler.
OneRecorded ==
    \A n \in Nonces :
        /\ RecordedIn(n) # {} => replay[n] = now
        /\ \A s, t \in RecordedIn(n) : s = t

\* A certificate is not older than its token.
UsedTimes ==
    \A n \in Nonces : used[n] # Never =>
        n \in Minted /\ tokens[n].issued <= used[n] /\ used[n] <= now

\* A nonce that was used has its row, and no handler, until the row is older
\* than the retention.
UsedKnown ==
    \A n \in Nonces : used[n] # Never =>
        \/ replay[n] = used[n] /\ RecordedIn(n) = {}
        \/ used[n] + Retention < now

TokenInv == TokenTimes /\ SlotTokens /\ OneRecorded /\ UsedTimes /\ UsedKnown

\* The list being written is one CI signed, and the rows written so far are
\* its rows.
RowsWritten ==
    applying # NotApplying =>
        /\ applying.rel \in DOMAIN releases
        /\ applying.left \subseteq RevokedIn(applying.rel)
        /\ \A h \in RevokedIn(applying.rel) \ applying.left :
               revoked[h] = releases[applying.rel].revoked[h]

\* Once a list was applied, the rows that are not written yet are its rows.
RowsKept ==
    primed =>
        \A h \in Hosts :
            applying = NotApplying \/ h \notin RevokedIn(applying.rel) \ applying.left
            => revoked[h] = floor[h]

IInv == TypeOK /\ TokenInv /\ RowsWritten /\ RowsKept

-----------------------------------------------------------------------------
(* Types. *)

LEMMA InitType == Init => TypeOK
<1> SUFFICES ASSUME Init PROVE TypeOK
    OBVIOUS
<1>1. primed \in BOOLEAN
      BY Zenon DEF Init
<1>2. /\ now \in Time /\ orgTrust \subseteq Nonces
      /\ releases \in Seq(Release) /\ Len(releases) <= MaxReleases
      /\ snapshot \in 0 .. Len(releases) /\ allowed \in 0 .. Len(releases)
      /\ restarts \in 0 .. MaxRestarts
      BY LifeAssumption DEF Init, Time
<1>3. /\ tokens \in [Nonces -> Token \cup {NoToken}]
      /\ applying \in [rel: 0 .. Len(releases), left: SUBSET Hosts]
      BY DEF Init, NotApplying
<1>4. /\ replay \in [Nonces -> Time \cup {Never}]
      /\ revoked \in [Hosts -> Time \cup {Never}]
      /\ slots \in [Slots -> {Idle} \cup Request \cup Renewal]
      /\ cert \in [Hosts -> Time \cup {Never}]
      /\ used \in [Nonces -> Time \cup {Never}]
      /\ floor \in [Hosts -> Time \cup {Never}]
      BY DEF Init, NoRevocations
<1> QED  BY <1>1, <1>2, <1>3, <1>4 DEF TypeOK

\* What a request's slot holds.
LEMMA SlotType ==
    ASSUME TypeOK, NEW s \in Slots
    PROVE  /\ slots[s].st \in {"checked", "recorded"} => slots[s] \in Request
           /\ slots[s].st = "renewing" => slots[s] \in Renewal
           /\ slots[s].st = "recorded" => slots[s].st # "checked"
BY DEF TypeOK, Idle, Request, Renewal

LEMMA LastRevokedType ==
    ASSUME TypeOK
    PROVE  LastRevoked \in [Hosts -> Time \cup {Never}]
<1>1. CASE releases = << >>
      BY <1>1 DEF LastRevoked, NoRevocations
<1>2. CASE releases # << >>
  <2>1. Len(releases) \in DOMAIN releases /\ releases[Len(releases)] \in Release
        BY <1>2 DEF TypeOK
  <2> QED  BY <1>2, <2>1 DEF LastRevoked, Release
<1> QED  BY <1>1, <1>2

\* The list being written is one of CI's, with a cut-off or none for each host.
LEMMA ApplyingType ==
    ASSUME TypeOK, RowsWritten, applying # NotApplying
    PROVE  /\ applying.rel \in DOMAIN releases
           /\ releases[applying.rel].revoked \in [Hosts -> Time \cup {Never}]
<1>1. applying.rel \in DOMAIN releases
      BY DEF RowsWritten
<1>2. releases[applying.rel] \in Release
      BY <1>1 DEF TypeOK
<1> QED  BY <1>1, <1>2 DEF Release

LEMMA NextType == TypeOK /\ RowsWritten /\ [Next]_vars => TypeOK'
<1> SUFFICES ASSUME TypeOK, RowsWritten, [Next]_vars PROVE TypeOK'
    OBVIOUS
<1> USE LifeAssumption
<1>1. ASSUME NEW n \in Nonces, NEW h \in Hosts, MintToken(n, h) PROVE TypeOK'
  <2>1. [host |-> h, issued |-> now, expires |-> now + TokenLife] \in Token
        BY DEF Token, TypeOK, Time
  <2>2. tokens' \in [Nonces -> Token \cup {NoToken}] /\ orgTrust' \subseteq Nonces
        BY <1>1, <2>1 DEF MintToken, TypeOK
  <2> QED  BY <1>1, <2>2 DEF MintToken, TypeOK, volatile, database, ghosts
<1>2. CASE RotateOrgKey
      BY <1>2 DEF RotateOrgKey, TypeOK, volatile, database, ghosts
<1>3. ASSUME NEW keys \in SUBSET Hosts, NEW ns \in SUBSET Nonces, NEW h \in Hosts,
             NEW cut \in Time \cup {Never}, SignRelease(keys, ns, h, cut)
      PROVE  TypeOK'
  <2> DEFINE r == [at |-> now, keys |-> keys, nonces |-> PruneExpired(ns),
                   revoked |-> [LastRevoked EXCEPT ![h] = cut]]
  <2>1. [LastRevoked EXCEPT ![h] = cut] \in [Hosts -> Time \cup {Never}]
        BY LastRevokedType
  <2>2. r \in Release
        BY <2>1 DEF Release, PruneExpired, TypeOK
  <2>3. releases' = Append(releases, r)
        BY <1>3 DEF SignRelease
  <2> HIDE DEF r
  <2>4. /\ releases' \in Seq(Release) /\ Len(releases') = Len(releases) + 1
        /\ Len(releases) < MaxReleases /\ Len(releases) \in Nat
        BY <1>3, <2>2, <2>3 DEF TypeOK, SignRelease
  <2>5. /\ snapshot' \in 0 .. Len(releases') /\ allowed' \in 0 .. Len(releases')
        /\ applying' \in [rel: 0 .. Len(releases'), left: SUBSET Hosts]
        BY <1>3, <2>4 DEF SignRelease, TypeOK, volatile
  <2> QED  BY <1>3, <2>4, <2>5 DEF SignRelease, TypeOK, volatile, database, ghosts
<1>4. ASSUME NEW a \in DOMAIN releases, NEW s \in DOMAIN releases,
             PollFleet(a, s) \/ PollNonces(a, s) \/ PollRevocations(a, s)
      PROVE  TypeOK'
  <2>1. a \in 0 .. Len(releases)
        BY DEF TypeOK
  <2>2. [rel |-> a, left |-> RevokedIn(a)] \in [rel: 0 .. Len(releases), left: SUBSET Hosts]
        BY <2>1 DEF RevokedIn
  <2>3. CASE PollFleet(a, s)
        BY <2>1, <2>3 DEF PollFleet, TypeOK, operator, database, ghosts
  <2>4. CASE PollNonces(a, s)
        BY <2>1, <2>4 DEF PollNonces, TypeOK, operator, database, ghosts
  <2>5. CASE PollRevocations(a, s)
        BY <2>2, <2>5 DEF PollRevocations, TypeOK, operator, database, ghosts
  <2> QED  BY <1>4, <2>3, <2>4, <2>5
<1>5. ASSUME NEW h \in Hosts, ApplyEntry(h) PROVE TypeOK'
  <2>1. applying # NotApplying
        BY <1>5 DEF ApplyEntry, NotApplying
  <2>2. releases[applying.rel].revoked[h] \in Time \cup {Never}
        BY <2>1, ApplyingType
  <2>3. /\ revoked' \in [Hosts -> Time \cup {Never}]
        /\ applying' \in [rel: 0 .. Len(releases), left: SUBSET Hosts]
        BY <1>5, <2>2 DEF ApplyEntry, TypeOK
  <2> QED  BY <1>5, <2>3 DEF ApplyEntry, TypeOK, operator, ghosts
<1>6. CASE FinishApply
  <2>1. /\ releases[applying.rel].revoked \in [Hosts -> Time \cup {Never}]
        /\ RetainOnly(RevokedIn(applying.rel)) \in [Hosts -> Time \cup {Never}]
        BY <1>6, ApplyingType DEF FinishApply, RetainOnly, TypeOK
  <2>2. NotApplying \in [rel: 0 .. Len(releases), left: SUBSET Hosts]
        BY DEF NotApplying, TypeOK
  <2>3. primed' \in BOOLEAN
        BY <1>6, Zenon DEF FinishApply
  <2> QED  BY <1>6, <2>1, <2>2, <2>3 DEF FinishApply, TypeOK, operator
<1>7. ASSUME NEW s \in Slots, NEW h \in Hosts, NEW n \in Nonces, EnrollCheck(s, h, n)
      PROVE  TypeOK'
  <2>1. [st |-> "checked", host |-> h, nonce |-> n, at |-> now] \in Request
        BY DEF TypeOK, Request
  <2> QED  BY <1>7, <2>1 DEF EnrollCheck, TypeOK, operator, database, ghosts
<1>8. ASSUME NEW s \in Slots, RecordToken(s) PROVE TypeOK'
  <2>1. slots[s] \in Request
        BY <1>8, SlotType DEF RecordToken
  <2>2. [slots[s] EXCEPT !.st = "recorded"] \in Request /\ slots[s].nonce \in Nonces
        BY <2>1 DEF Request
  <2>3. /\ slots' \in [Slots -> {Idle} \cup Request \cup Renewal]
        /\ replay' \in [Nonces -> Time \cup {Never}]
    <3>1. CASE slots' = [slots EXCEPT ![s] = Idle] /\ UNCHANGED replay
          BY <3>1 DEF TypeOK
    <3>2. CASE /\ replay' = [replay EXCEPT ![slots[s].nonce] = now]
               /\ slots' = [slots EXCEPT ![s].st = "recorded"]
      <4>1. slots' = [slots EXCEPT ![s] = [slots[s] EXCEPT !.st = "recorded"]]
            BY <3>2
      <4> QED  BY <2>2, <3>2, <4>1 DEF TypeOK
    <3> QED  BY <1>8, <3>1, <3>2 DEF RecordToken
  <2> QED  BY <1>8, <2>3 DEF RecordToken, TypeOK, operator, ghosts
<1>9. ASSUME NEW s \in Slots, IssueCert(s) PROVE TypeOK'
  <2>1. slots[s].nonce \in Nonces /\ slots[s].host \in Hosts /\ slots[s].at \in Time
        BY <1>9, SlotType DEF IssueCert, Request
  <2>2. /\ slots' \in [Slots -> {Idle} \cup Request \cup Renewal]
        /\ cert' \in [Hosts -> Time \cup {Never}]
        /\ used' \in [Nonces -> Time \cup {Never}]
        BY <1>9, <2>1 DEF IssueCert, TypeOK
  <2> QED  BY <1>9, <2>2 DEF IssueCert, TypeOK, operator, database
<1>10. ASSUME NEW s \in Slots, SigningFails(s) PROVE TypeOK'
      BY <1>10 DEF SigningFails, TypeOK, operator, database, ghosts
<1>11. ASSUME NEW s \in Slots, NEW h \in Hosts, RenewCheck(s, h) PROVE TypeOK'
  <2>1. [st |-> "renewing", host |-> h, at |-> now] \in Renewal
        BY DEF TypeOK, Renewal
  <2> QED  BY <1>11, <2>1 DEF RenewCheck, TypeOK, operator, database, ghosts
<1>12. ASSUME NEW s \in Slots, RenewIssue(s) PROVE TypeOK'
  <2>1. slots[s].host \in Hosts /\ slots[s].at \in Time
        BY <1>12, SlotType DEF RenewIssue, Renewal
  <2> QED  BY <1>12, <2>1 DEF RenewIssue, TypeOK, operator, database, ghosts
<1>13. CASE PruneTokenReplay
      BY <1>13 DEF PruneTokenReplay, TypeOK, operator, volatile, ghosts
<1>14. ASSUME NEW wipe \in BOOLEAN, Restart(wipe) PROVE TypeOK'
  <2>1. NotApplying \in [rel: 0 .. Len(releases), left: SUBSET Hosts]
        BY DEF NotApplying, TypeOK
  <2>2. primed' \in BOOLEAN
        BY <1>14, Zenon DEF Restart
  <2>3. /\ replay' \in [Nonces -> Time \cup {Never}]
        /\ revoked' \in [Hosts -> Time \cup {Never}]
        /\ used' \in [Nonces -> Time \cup {Never}]
        BY <1>14 DEF Restart, TypeOK, NoRevocations
  <2> QED  BY <1>14, <2>1, <2>2, <2>3 DEF Restart, TypeOK, operator
<1>15. CASE Tick
      BY <1>15 DEF Tick, TypeOK, Time, operator, volatile, database, ghosts
<1>16. CASE UNCHANGED vars
      BY <1>16 DEF vars, TypeOK
<1> QED  BY <1>1, <1>2, <1>3, <1>4, <1>5, <1>6, <1>7, <1>8, <1>9, <1>10, <1>11,
            <1>12, <1>13, <1>14, <1>15, <1>16 DEF Next

-----------------------------------------------------------------------------
(* Tokens. *)

\* What a minted token is.
LEMMA MintedType ==
    ASSUME TypeOK, NEW n \in Minted
    PROVE  /\ tokens[n].issued \in Time /\ tokens[n].expires \in Int
           /\ n \in Nonces
BY DEF TypeOK, Minted, Token

\* A request that fails, or was never an enrolment, spends nothing: the slots
\* of the enrolments that remain are among those there were.
LEMMA SlotDropped ==
    ASSUME TypeOK, TokenInv, TypeOK',
           UNCHANGED <<now, tokens, replay, used>>,
           \A s \in Slots : slots'[s].st \in {"checked", "recorded"} => slots'[s] = slots[s]
    PROVE  TokenInv'
<1>1. Minted' = Minted
      BY DEF Minted
<1>2. \A n \in Nonces : RecordedIn(n)' \subseteq RecordedIn(n)
      BY DEF RecordedIn
<1>3. TokenTimes' /\ UsedTimes'
      BY <1>1 DEF TokenInv, TokenTimes, UsedTimes
<1>4. SlotTokens'
      BY <1>1 DEF TokenInv, SlotTokens
<1>5. OneRecorded'
      BY <1>2 DEF TokenInv, OneRecorded
<1>6. UsedKnown'
      BY <1>2 DEF TokenInv, UsedKnown
<1> QED  BY <1>3, <1>4, <1>5, <1>6 DEF TokenInv

LEMMA NextTokens == TypeOK /\ TokenInv /\ [Next]_vars /\ TypeOK' => TokenInv'
<1> SUFFICES ASSUME TypeOK, TokenInv, [Next]_vars, TypeOK' PROVE TokenInv'
    OBVIOUS
<1> USE LifeAssumption
<1>1. ASSUME UNCHANGED <<now, tokens, replay, used, slots>> PROVE TokenInv'
      BY <1>1, SlotDropped
<1>2. ASSUME NEW n \in Nonces, NEW h \in Hosts, MintToken(n, h) PROVE TokenInv'
  <2> USE DEF MintToken, volatile, database, ghosts
  <2>1. /\ n \notin Minted
        /\ \A m \in Minted : m \in Minted' /\ tokens'[m] = tokens[m]
        BY <1>2 DEF Minted, TypeOK, NoToken, Never, Time
  <2>2. tokens'[n] = [host |-> h, issued |-> now, expires |-> now + TokenLife]
        BY <1>2 DEF TypeOK
  <2>3. Minted' \subseteq Minted \cup {n}
        BY <1>2 DEF Minted, TypeOK
  <2>4. TokenTimes'
        BY <1>2, <2>1, <2>2, <2>3 DEF TokenInv, TokenTimes, TypeOK, Time
  <2>5. SlotTokens' /\ UsedTimes'
        BY <1>2, <2>1 DEF TokenInv, SlotTokens, UsedTimes
  <2>6. \A m \in Nonces : RecordedIn(m)' = RecordedIn(m)
        BY <1>2 DEF RecordedIn
  <2>7. OneRecorded' /\ UsedKnown'
        BY <1>2, <2>6 DEF TokenInv, OneRecorded, UsedKnown
  <2> QED  BY <2>4, <2>5, <2>7 DEF TokenInv
<1>3. ASSUME NEW s \in Slots, NEW h \in Hosts, NEW n \in Nonces, EnrollCheck(s, h, n)
      PROVE  TokenInv'
  <2> USE DEF EnrollCheck, operator, database, ghosts
  <2>1. Minted' = Minted /\ \A m \in Nonces : RecordedIn(m)' = RecordedIn(m)
        BY <1>3 DEF Minted, RecordedIn, TypeOK, Idle
  <2>2. SlotTokens'
    <3>1. SUFFICES ASSUME NEW t \in Slots, slots'[t].st \in {"checked", "recorded"}
                   PROVE  /\ slots'[t].nonce \in Minted
                          /\ now < tokens[slots'[t].nonce].expires
          BY <1>3, <2>1 DEF SlotTokens
    <3>2. CASE t = s
          BY <1>3, <3>2 DEF TypeOK, ClaimsHold
    <3>3. CASE t # s
          BY <1>3, <3>1, <3>3 DEF TypeOK, TokenInv, SlotTokens
    <3> QED  BY <3>2, <3>3
  <2>3. TokenTimes' /\ UsedTimes'
        BY <1>3, <2>1 DEF TokenInv, TokenTimes, UsedTimes
  <2>4. OneRecorded' /\ UsedKnown'
        BY <1>3, <2>1 DEF TokenInv, OneRecorded, UsedKnown
  <2> QED  BY <2>2, <2>3, <2>4 DEF TokenInv
<1>4. ASSUME NEW s \in Slots, RecordToken(s) PROVE TokenInv'
  <2>0. slots[s] \in Request
        BY <1>4, SlotType DEF RecordToken
  <2> PICK n \in Nonces : n = slots[s].nonce
      BY <2>0 DEF Request
  <2>1. n \in Minted /\ now < tokens[n].expires
        BY <1>4 DEF RecordToken, TokenInv, SlotTokens
  <2>2. UNCHANGED <<now, tokens, used>> /\ Minted' = Minted
        BY <1>4 DEF RecordToken, operator, ghosts, Minted
  <2>3. CASE slots' = [slots EXCEPT ![s] = Idle] /\ UNCHANGED replay
        BY <2>2, <2>3, SlotDropped DEF TypeOK, Idle
  <2>4. CASE /\ ~TokenSeen(n) /\ replay' = [replay EXCEPT ![n] = now]
             /\ slots' = [slots EXCEPT ![s].st = "recorded"]
    <3>1. /\ slots'[s].st = "recorded" /\ slots'[s].nonce = n
          /\ \A t \in Slots \ {s} : slots'[t] = slots[t]
          BY <2>0, <2>4 DEF TypeOK, Request
    <3>2. RecordedIn(n)' = RecordedIn(n) \cup {s}
          BY <3>1 DEF RecordedIn
    <3>3. \A m \in Nonces \ {n} : RecordedIn(m)' = RecordedIn(m)
          BY <3>1 DEF RecordedIn
    <3>4. replay[n] = Never /\ now # Never
          BY <2>4 DEF TokenSeen, TypeOK, Time, Never
    <3>5. RecordedIn(n) = {}
          BY <3>4 DEF TokenInv, OneRecorded
    <3>6. replay'[n] = now /\ \A m \in Nonces \ {n} : replay'[m] = replay[m]
          BY <2>4 DEF TypeOK
    <3>7. SlotTokens'
      <4>1. SUFFICES ASSUME NEW t \in Slots, slots'[t].st \in {"checked", "recorded"}
                     PROVE  /\ slots'[t].nonce \in Minted
                            /\ now < tokens[slots'[t].nonce].expires
            BY <2>2 DEF SlotTokens
      <4> QED  BY <2>1, <3>1, <4>1 DEF TokenInv, SlotTokens
    <3>8. TokenTimes' /\ UsedTimes'
          BY <2>2 DEF TokenInv, TokenTimes, UsedTimes
    <3>9. OneRecorded'
      <4>1. ASSUME NEW m \in Nonces
            PROVE  /\ RecordedIn(m)' # {} => replay'[m] = now
                   /\ \A t, u \in RecordedIn(m)' : t = u
        <5>1. CASE m = n
              BY <3>2, <3>5, <3>6, <5>1
        <5>2. CASE m # n
              BY <3>3, <3>6, <5>2 DEF TokenInv, OneRecorded
        <5> QED  BY <5>1, <5>2
      <4> QED  BY <2>2, <4>1 DEF OneRecorded
    <3>10. UsedKnown'
      <4>1. ASSUME NEW m \in Nonces, used[m] # Never
            PROVE  \/ replay'[m] = used[m] /\ RecordedIn(m)' = {}
                   \/ used[m] + Retention < now
        <5>1. CASE m = n
              BY <3>4, <4>1, <5>1 DEF TokenInv, UsedKnown
        <5>2. CASE m # n
              BY <3>3, <3>6, <4>1, <5>2 DEF TokenInv, UsedKnown
        <5> QED  BY <5>1, <5>2
      <4> QED  BY <2>2, <4>1 DEF UsedKnown
    <3> QED  BY <3>7, <3>8, <3>9, <3>10 DEF TokenInv
  <2> QED  BY <1>4, <2>3, <2>4 DEF RecordToken
<1>5. ASSUME NEW s \in Slots, IssueCert(s) PROVE TokenInv'
  <2> PICK n \in Nonces : n = slots[s].nonce
      BY <1>5, SlotType DEF IssueCert, Request
  <2>1. s \in RecordedIn(n)
        BY <1>5 DEF IssueCert, RecordedIn
  <2>2. UNCHANGED <<now, tokens, replay>> /\ Minted' = Minted
        BY <1>5 DEF IssueCert, operator, database, Minted
  <2>3. \A t \in Slots : slots'[t].st \in {"checked", "recorded"} =>
            t # s /\ slots'[t] = slots[t]
        BY <1>5 DEF IssueCert, TypeOK, Idle
  <2>4. \A m \in Nonces : RecordedIn(m)' \subseteq RecordedIn(m) \ {s}
        BY <2>3 DEF RecordedIn
  <2>5. RecordedIn(n) = {s} /\ RecordedIn(n)' = {} /\ replay[n] = now
    <3>1. RecordedIn(n) = {s} /\ replay[n] = now
          BY <2>1 DEF TokenInv, OneRecorded
    <3> QED  BY <2>1, <2>4, <3>1
  <2>6. used'[n] = now /\ \A m \in Nonces \ {n} : used'[m] = used[m]
        BY <1>5 DEF IssueCert, TypeOK
  <2>7. TokenTimes'
        BY <2>2 DEF TokenInv, TokenTimes
  <2>8. SlotTokens'
        BY <2>2, <2>3 DEF TokenInv, SlotTokens
  <2>9. UsedTimes'
    <3>1. n \in Minted /\ tokens[n].issued <= now
          BY <1>5 DEF IssueCert, TokenInv, SlotTokens, TokenTimes
    <3>2. now <= now
          BY DEF TypeOK, Time
    <3> QED  BY <2>2, <2>6, <3>1, <3>2 DEF TokenInv, UsedTimes
  <2>10. OneRecorded'
        BY <2>2, <2>4 DEF TokenInv, OneRecorded
  <2>11. UsedKnown'
        BY <2>2, <2>4, <2>5, <2>6 DEF TokenInv, UsedKnown
  <2> QED  BY <2>7, <2>8, <2>9, <2>10, <2>11 DEF TokenInv
<1>6. ASSUME NEW s \in Slots, SigningFails(s) \/ RenewIssue(s) PROVE TokenInv'
  <2>1. /\ UNCHANGED <<now, tokens, replay, used>>
        /\ slots' = [slots EXCEPT ![s] = Idle]
        BY <1>6 DEF SigningFails, RenewIssue, operator, database, ghosts
  <2> QED  BY <2>1, SlotDropped DEF TypeOK, Idle
<1>7. ASSUME NEW s \in Slots, NEW h \in Hosts, RenewCheck(s, h) PROVE TokenInv'
  <2>1. /\ UNCHANGED <<now, tokens, replay, used>>
        /\ slots' = [slots EXCEPT ![s] = [st |-> "renewing", host |-> h, at |-> now]]
        BY <1>7 DEF RenewCheck, operator, database, ghosts
  <2> QED  BY <2>1, SlotDropped DEF TypeOK
<1>8. CASE PruneTokenReplay
  <2>1. UNCHANGED <<now, tokens, used, slots>> /\ Minted' = Minted
        BY <1>8 DEF PruneTokenReplay, operator, volatile, ghosts, Minted
  <2>2. \A n \in Nonces : replay'[n] = IF Stale(n) THEN Never ELSE replay[n]
        BY <1>8 DEF PruneTokenReplay
  <2>3. \A n \in Nonces : RecordedIn(n)' = RecordedIn(n)
        BY <2>1 DEF RecordedIn
  <2>4. ASSUME NEW n \in Nonces, Stale(n)
        PROVE  replay[n] # now /\ replay[n] + Retention < now
    <3>1. now \in Int /\ replay[n] \in Int /\ Retention \in Nat
          BY DEF TypeOK, Time, Never
    <3>2. replay[n] < now - Retention
          BY <2>4 DEF Stale
    <3> QED  BY <3>1, <3>2
  <2>5. TokenTimes' /\ SlotTokens' /\ UsedTimes'
        BY <2>1 DEF TokenInv, TokenTimes, SlotTokens, UsedTimes
  <2>6. OneRecorded'
        BY <2>1, <2>2, <2>3, <2>4 DEF TokenInv, OneRecorded
  <2>7. UsedKnown'
        BY <2>1, <2>2, <2>3, <2>4 DEF TokenInv, UsedKnown
  <2> QED  BY <2>5, <2>6, <2>7 DEF TokenInv
<1>9. ASSUME NEW wipe \in BOOLEAN, Restart(wipe) PROVE TokenInv'
  <2>1. /\ UNCHANGED <<now, tokens>> /\ Minted' = Minted
        /\ \A s \in Slots : slots'[s].st = "idle"
        BY <1>9 DEF Restart, operator, Minted, Idle
  <2>2. \A n \in Nonces : RecordedIn(n)' = {}
        BY <2>1 DEF RecordedIn
  <2>3. \/ UNCHANGED <<replay, used>>
        \/ \A n \in Nonces : used'[n] = Never
        BY <1>9 DEF Restart
  <2>4. TokenTimes' /\ SlotTokens'
        BY <2>1 DEF TokenInv, TokenTimes, SlotTokens
  <2>5. UsedTimes'
        BY <2>1, <2>3 DEF TokenInv, UsedTimes
  <2>6. OneRecorded'
        BY <2>2 DEF OneRecorded
  <2>7. UsedKnown'
        BY <2>1, <2>2, <2>3 DEF TokenInv, UsedKnown
  <2> QED  BY <2>4, <2>5, <2>6, <2>7 DEF TokenInv
<1>10. CASE Tick
  <2>1. /\ UNCHANGED <<tokens, replay, used, slots>> /\ Minted' = Minted
        /\ now' = now + 1 /\ now \in Int
        /\ \A s \in Slots : slots[s].st = "idle"
        BY <1>10 DEF Tick, operator, volatile, database, ghosts, Minted, Idle, TypeOK, Time
  <2>2. \A n \in Nonces : RecordedIn(n) = {} /\ RecordedIn(n)' = {}
        BY <2>1 DEF RecordedIn
  <2>3. \A n \in Minted : tokens[n].issued \in Int
        BY MintedType DEF Time
  <2>4. \A n \in Nonces : used[n] \in Int
        BY DEF TypeOK, Time, Never
  <2>5. TokenTimes' /\ SlotTokens'
        BY <2>1, <2>3 DEF TokenInv, TokenTimes, SlotTokens
  <2>6. UsedTimes'
        BY <2>1, <2>4 DEF TokenInv, UsedTimes
  <2>7. OneRecorded'
        BY <2>2 DEF OneRecorded
  <2>8. UsedKnown'
        BY <2>1, <2>2, <2>4 DEF TokenInv, UsedKnown
  <2> QED  BY <2>5, <2>6, <2>7, <2>8 DEF TokenInv
<1>11. ASSUME RotateOrgKey \/ FinishApply \/ UNCHANGED vars
       PROVE  UNCHANGED <<now, tokens, replay, used, slots>>
       BY <1>11 DEF RotateOrgKey, FinishApply, operator, volatile, database, ghosts, vars
<1>12. ASSUME NEW keys, NEW ns, NEW h, NEW cut, SignRelease(keys, ns, h, cut)
       PROVE  UNCHANGED <<now, tokens, replay, used, slots>>
       BY <1>12 DEF SignRelease, volatile, database, ghosts
<1>13. ASSUME NEW a, NEW s, PollFleet(a, s) \/ PollNonces(a, s) \/ PollRevocations(a, s)
       PROVE  UNCHANGED <<now, tokens, replay, used, slots>>
       BY <1>13 DEF PollFleet, PollNonces, PollRevocations, operator, database, ghosts
<1>14. ASSUME NEW h \in Hosts, ApplyEntry(h)
       PROVE  UNCHANGED <<now, tokens, replay, used, slots>>
       BY <1>14 DEF ApplyEntry, operator, ghosts
<1> QED  BY <1>1, <1>2, <1>3, <1>4, <1>5, <1>6, <1>7, <1>8, <1>9, <1>10, <1>11,
            <1>12, <1>13, <1>14 DEF Next

-----------------------------------------------------------------------------
(* Revocations. *)

\* The rows of a list that stays where it is are not disturbed by a step that
\* writes no row; a release that was signed is not rewritten.
LEMMA RowsUntouched ==
    ASSUME TypeOK, RowsWritten, RowsKept,
           UNCHANGED <<applying, revoked, floor>>, primed' => primed,
           DOMAIN releases \subseteq DOMAIN releases',
           \A r \in DOMAIN releases : releases'[r] = releases[r]
    PROVE  RowsWritten' /\ RowsKept'
<1>1. applying # NotApplying =>
          applying.rel \in DOMAIN releases /\ RevokedIn(applying.rel)' = RevokedIn(applying.rel)
      BY DEF RowsWritten, RevokedIn
<1>2. RowsWritten'
      BY <1>1 DEF RowsWritten
<1>3. RowsKept'
      BY <1>1 DEF RowsKept
<1> QED  BY <1>2, <1>3

LEMMA NextRows ==
    TypeOK /\ RowsWritten /\ RowsKept /\ [Next]_vars => RowsWritten' /\ RowsKept'
<1> SUFFICES ASSUME TypeOK, RowsWritten, RowsKept, [Next]_vars
             PROVE  RowsWritten' /\ RowsKept'
    OBVIOUS
<1>1. ASSUME UNCHANGED <<applying, revoked, floor, primed, releases>>
      PROVE  RowsWritten' /\ RowsKept'
      BY <1>1, RowsUntouched
<1>2. ASSUME NEW keys, NEW ns, NEW h, NEW cut, SignRelease(keys, ns, h, cut)
      PROVE  RowsWritten' /\ RowsKept'
  <2>1. PICK r : releases' = Append(releases, r)
        BY <1>2 DEF SignRelease
  <2>2. /\ DOMAIN releases \subseteq DOMAIN releases'
        /\ \A i \in DOMAIN releases : releases'[i] = releases[i]
        BY <2>1 DEF TypeOK
  <2>3. UNCHANGED <<applying, revoked, floor, primed>>
        BY <1>2 DEF SignRelease, volatile, database, ghosts
  <2> QED  BY <2>2, <2>3, RowsUntouched
<1>3. ASSUME NEW a \in DOMAIN releases, NEW s \in DOMAIN releases, PollRevocations(a, s)
      PROVE  RowsWritten' /\ RowsKept'
  <2>1. /\ UNCHANGED <<releases, revoked, floor, primed>>
        /\ applying = NotApplying
        /\ applying'.rel = a /\ applying'.left = RevokedIn(a)
        BY <1>3 DEF PollRevocations, operator, database, ghosts
  <2>2. RevokedIn(a)' = RevokedIn(a)
        BY <2>1 DEF RevokedIn
  <2>3. RowsWritten'
        BY <2>1, <2>2 DEF RowsWritten
  <2>4. RowsKept'
        BY <2>1, <2>2 DEF RowsKept
  <2> QED  BY <2>3, <2>4
<1>4. ASSUME NEW h \in Hosts, ApplyEntry(h) PROVE RowsWritten' /\ RowsKept'
  <2>1. /\ UNCHANGED <<releases, floor, primed>> /\ h \in applying.left
        /\ applying # NotApplying
        /\ applying'.rel = applying.rel /\ applying'.left = applying.left \ {h}
        BY <1>4 DEF ApplyEntry, operator, ghosts, NotApplying, TypeOK
  <2>2. /\ revoked'[h] = releases[applying.rel].revoked[h]
        /\ \A g \in Hosts \ {h} : revoked'[g] = revoked[g]
        BY <1>4 DEF ApplyEntry, TypeOK
  <2>3. RevokedIn(applying.rel)' = RevokedIn(applying.rel)
        BY <2>1 DEF RevokedIn
  <2>4. RowsWritten'
    <3>1. ASSUME NEW g \in RevokedIn(applying.rel) \ applying'.left
          PROVE  revoked'[g] = releases[applying.rel].revoked[g]
      <4>1. CASE g = h
            BY <2>2, <4>1
      <4>2. CASE g # h
            BY <2>1, <2>2, <4>2 DEF RowsWritten, RevokedIn
      <4> QED  BY <4>1, <4>2
    <3>2. /\ applying.rel \in DOMAIN releases
          /\ applying'.left \subseteq RevokedIn(applying.rel)
          BY <2>1 DEF RowsWritten
    <3> QED  BY <2>1, <2>3, <3>1, <3>2 DEF RowsWritten
  <2>5. RowsKept'
    <3>1. ASSUME primed, NEW g \in Hosts,
                 applying' = NotApplying \/
                     g \notin RevokedIn(applying.rel) \ applying'.left
          PROVE  revoked'[g] = floor[g]
      <4>1. applying.rel # 0 /\ h \in RevokedIn(applying.rel)
            BY <2>1 DEF RowsWritten, TypeOK
      <4>2. applying' # NotApplying
            BY <2>1, <4>1 DEF NotApplying
      <4>3. g # h /\ g \notin RevokedIn(applying.rel) \ applying.left
            BY <2>1, <3>1, <4>1, <4>2
      <4> QED  BY <2>2, <3>1, <4>3 DEF RowsKept
    <3> QED  BY <2>1, <2>3, <3>1 DEF RowsKept
  <2> QED  BY <2>4, <2>5
<1>5. CASE FinishApply
  <2>1. /\ applying # NotApplying /\ applying.left = {}
        /\ applying' = NotApplying
        /\ floor' = releases[applying.rel].revoked
        /\ revoked' = RetainOnly(RevokedIn(applying.rel))
        BY <1>5 DEF FinishApply
  <2>2. \A h \in Hosts : revoked'[h] = floor'[h]
    <3>1. \A h \in Hosts : releases[applying.rel].revoked[h] =
              IF h \in RevokedIn(applying.rel) THEN revoked[h] ELSE Never
          BY <2>1 DEF RowsWritten, RevokedIn
    <3> QED  BY <2>1, <3>1 DEF RetainOnly
  <2> QED  BY <2>1, <2>2 DEF RowsWritten, RowsKept
<1>6. ASSUME NEW wipe \in BOOLEAN, Restart(wipe) PROVE RowsWritten' /\ RowsKept'
      BY <1>6 DEF Restart, RowsWritten, RowsKept
<1>7. ASSUME RotateOrgKey \/ PruneTokenReplay \/ Tick \/ UNCHANGED vars
      PROVE  UNCHANGED <<applying, revoked, floor, primed, releases>>
      BY <1>7 DEF RotateOrgKey, PruneTokenReplay, Tick, operator, volatile, database,
         ghosts, vars
<1>8. ASSUME NEW n, NEW h, MintToken(n, h)
      PROVE  UNCHANGED <<applying, revoked, floor, primed, releases>>
      BY <1>8 DEF MintToken, volatile, database, ghosts
<1>9. ASSUME NEW a, NEW s, PollFleet(a, s) \/ PollNonces(a, s)
      PROVE  UNCHANGED <<applying, revoked, floor, primed, releases>>
      BY <1>9 DEF PollFleet, PollNonces, operator, database, ghosts
<1>10. ASSUME NEW s, NEW h, NEW n, EnrollCheck(s, h, n) \/ RenewCheck(s, h)
      PROVE  UNCHANGED <<applying, revoked, floor, primed, releases>>
      BY <1>10 DEF EnrollCheck, RenewCheck, operator, database, ghosts
<1>11. ASSUME NEW s, RecordToken(s) \/ IssueCert(s) \/ SigningFails(s) \/ RenewIssue(s)
      PROVE  UNCHANGED <<applying, revoked, floor, primed, releases>>
      BY <1>11 DEF RecordToken, IssueCert, SigningFails, RenewIssue, operator, database, ghosts
<1> QED  BY <1>1, <1>2, <1>3, <1>4, <1>5, <1>6, <1>7, <1>8, <1>9, <1>10, <1>11 DEF Next

-----------------------------------------------------------------------------
(* The theorems. *)

LEMMA InitHolds == Init => IInv
<1> SUFFICES ASSUME Init PROVE IInv
    OBVIOUS
<1>1. TokenInv
  <2>1. Minted = {} /\ \A n \in Nonces : RecordedIn(n) = {}
        BY DEF Init, Minted, RecordedIn, Idle
  <2>2. TokenTimes /\ SlotTokens
        BY <2>1 DEF Init, TokenTimes, SlotTokens, Idle
  <2>3. OneRecorded /\ UsedTimes /\ UsedKnown
        BY <2>1 DEF Init, OneRecorded, UsedTimes, UsedKnown
  <2> QED  BY <2>2, <2>3 DEF TokenInv
<1>2. RowsWritten /\ RowsKept
      BY DEF Init, RowsWritten, RowsKept
<1> QED  BY <1>1, <1>2, InitType DEF IInv

LEMMA Inductive == IInv /\ [Next]_vars => IInv'
BY NextType, NextTokens, NextRows DEF IInv

LEMMA Invariant == Spec => []IInv
BY InitHolds, Inductive, PTL DEF Spec

\* The control plane's views, tables and handlers keep their types: what a
\* handler reads from the allowlist, the snapshot or the revocation list being
\* applied is always there to be read.
THEOREM TypeCorrect == Spec => []TypeOK
<1>1. IInv => TypeOK
      BY DEF IInv
<1> QED  BY <1>1, Invariant, PTL

\* For every life a token is minted with: however many requests race with the
\* same nonce, whenever the prune timer runs and whenever the process restarts
\* with its database, a second certificate comes more than the retention after
\* the first, and only from a token minted to live longer than the retention.
THEOREM TokenUsedOnce == Spec => TokenOnce
<1> DEFINE Once == \A n \in Nonces :
                       IssuesFrom(n) /\ used[n] # Never =>
                           used[n] + Retention < now /\ Retention < TokenLife
<1>1. ASSUME IInv PROVE Once
  <2> SUFFICES ASSUME NEW n \in Nonces, NEW s \in Slots, used[n] # Never,
                      slots[s].st = "recorded", slots[s].nonce = n
               PROVE  used[n] + Retention < now /\ Retention < TokenLife
      BY DEF IssuesFrom
  <2>1. RecordedIn(n) # {}
        BY DEF RecordedIn
  <2>2. used[n] + Retention < now
        BY <1>1, <2>1 DEF IInv, TokenInv, UsedKnown
  <2>3. /\ n \in Minted /\ tokens[n].issued <= used[n]
        /\ now < tokens[n].expires /\ tokens[n].expires = tokens[n].issued + TokenLife
        BY <1>1 DEF IInv, TokenInv, SlotTokens, TokenTimes, UsedTimes
  <2>4. tokens[n].issued \in Int /\ used[n] \in Int /\ now \in Int
        BY <1>1, <2>3, MintedType DEF IInv, TypeOK, Time, Never
  <2> QED  BY <2>2, <2>3, <2>4, LifeAssumption
<1>2. IInv /\ [Next]_vars => [Once]_vars
      BY <1>1
<1> QED  BY <1>2, Invariant, PTL DEF TokenOnce, Spec

\* While the table is rewritten row by row, after it was rewritten and after a
\* restart that lost it, a control plane that answers admits no certificate
\* from before the cut-offs.
THEOREM RevokedStaysOut == Spec => []RevokedKeptOut
<1>1. ASSUME IInv PROVE RevokedKeptOut
  <2>1. SUFFICES ASSUME IsReady, NEW h \in Hosts, NEW nbf \in Time, nbf < floor[h],
                        applying # NotApplying => nbf < releases[applying.rel].revoked[h]
                 PROVE  ~Admitted(h, nbf)
        BY DEF RevokedKeptOut
  <2>2. revoked[h] = floor[h] \/ nbf < revoked[h]
    <3>1. CASE applying = NotApplying \/ h \notin RevokedIn(applying.rel) \ applying.left
          BY <1>1, <2>1, <3>1 DEF IInv, RowsKept, IsReady
    <3>2. CASE applying # NotApplying /\ h \in RevokedIn(applying.rel) \ applying.left
          BY <1>1, <2>1, <3>2 DEF IInv, RowsWritten
    <3> QED  BY <3>1, <3>2
  <2>3. nbf < revoked[h] /\ nbf \in Int /\ nbf >= 0
        BY <2>1, <2>2 DEF Time
  <2>4. revoked[h] \in Int
        BY <1>1, LifeAssumption DEF IInv, TypeOK, Time, Never
  <2> QED  BY <2>3, <2>4 DEF Admitted, Never
<1> QED  BY <1>1, Invariant, PTL
=============================================================================
