------------------------------ MODULE Enrollment ------------------------------
(***************************************************************************)
(* How a host gets its client certificate and how the control plane        *)
(* decides which certificates it still accepts: the bootstrap tokens of    *)
(* the operator, the signed allowlist and revocation list the control      *)
(* plane polls, POST /v1/enroll and POST /v1/agent/renew.                  *)
(*                                                                         *)
(* Time is counted in hours.  A request is answered and a list is applied  *)
(* within the hour, so the clock moves only between them.  A host has one  *)
(* key, its SSH host key; a signed release says for which hosts that key   *)
(* is the declared one.                                                    *)
(***************************************************************************)
EXTENDS Verify, FiniteSets, Sequences

CONSTANTS
    Hosts,          \* machine ids
    Nonces,         \* the nonces a mint draws
    Slots,          \* requests the server handles at the same time
    TokenLife,      \* --validity-hours of the minted tokens
    Retention,      \* TOKEN_REPLAY_RETENTION_HOURS
    Window,         \* freshness window of signed artefacts
    MaxTime,        \* bound on the clock
    MaxReleases,    \* bound on the releases CI signs
    MaxRestarts     \* bound on the restarts of the control plane

\* A token may be minted for any number of hours; the retention is fixed.
\* Both are 24 hours by default.
ASSUME LifeAssumption ==
    /\ TokenLife \in Nat /\ Retention \in Nat /\ Window \in Nat
    /\ MaxTime \in Nat /\ MaxReleases \in Nat /\ MaxRestarts \in Nat

Time == 0 .. MaxTime

VARIABLES
    now,
    tokens,     \* tokens[n]: what the token with nonce n claims
    orgTrust,   \* nonces whose signing key is still in trust.json
    releases,   \* what CI signed, oldest first
    snapshot,   \* verified_fleet: index of a release, 0 before the first
    allowed,    \* allowed_nonces: index of a release, 0 for the empty view
    primed,     \* revocations_primed
    applying,   \* the revocation list being written, and the hosts left
    replay,     \* token_replay: first_seen of each nonce
    revoked,    \* cert_revocations: the cut-off of each host
    slots,      \* the handlers' local state
    cert,       \* not_before of the certificate each host holds
    used,       \* when a nonce last got a certificate, in this database
    floor,      \* the revocation list that was applied last
    restarts

vars == <<now, tokens, orgTrust, releases, snapshot, allowed, primed, applying,
          replay, revoked, slots, cert, used, floor, restarts>>

operator == <<tokens, orgTrust, releases>>
volatile == <<snapshot, allowed, primed, applying, slots>>
database == <<replay, revoked>>
ghosts   == <<used, floor>>

NoToken == [host |-> "none", issued |-> Never, expires |-> Never]
Token   == [host: Hosts, issued: Time, expires: Int]
Release == [at: Time, keys: SUBSET Hosts, revoked: [Hosts -> Time \cup {Never}],
            nonces: SUBSET Nonces]

Idle     == [st |-> "idle"]
NotApplying == [rel |-> 0, left |-> {}]
Request  == [st: {"checked", "recorded"}, host: Hosts, nonce: Nonces, at: Time]
Renewal  == [st: {"renewing"}, host: Hosts, at: Time]
NoRevocations == [h \in Hosts |-> Never]

TypeOK ==
    /\ now \in Time
    /\ tokens \in [Nonces -> Token \cup {NoToken}]
    /\ orgTrust \subseteq Nonces
    /\ releases \in Seq(Release) /\ Len(releases) <= MaxReleases
    /\ snapshot \in 0 .. Len(releases)
    /\ allowed \in 0 .. Len(releases)
    /\ primed \in BOOLEAN
    /\ applying \in [rel: 0 .. Len(releases), left: SUBSET Hosts]
    /\ replay \in [Nonces -> Time \cup {Never}]
    /\ revoked \in [Hosts -> Time \cup {Never}]
    /\ slots \in [Slots -> {Idle} \cup Request \cup Renewal]
    /\ cert \in [Hosts -> Time \cup {Never}]
    /\ used \in [Nonces -> Time \cup {Never}]
    /\ floor \in [Hosts -> Time \cup {Never}]
    /\ restarts \in 0 .. MaxRestarts

Init ==
    /\ now = 0
    /\ tokens = [n \in Nonces |-> NoToken]
    /\ orgTrust = {}
    /\ releases = << >>
    /\ snapshot = 0 /\ allowed = 0 /\ primed = FALSE
    /\ applying = NotApplying
    /\ replay = [n \in Nonces |-> Never]
    /\ revoked = NoRevocations
    /\ slots = [s \in Slots |-> Idle]
    /\ cert = [h \in Hosts |-> Never]
    /\ used = [n \in Nonces |-> Never]
    /\ floor = NoRevocations
    /\ restarts = 0

-----------------------------------------------------------------------------
(* The operator: nixfleet mint-token, trust.json, and what CI signs. *)

Minted == {n \in Nonces : tokens[n] # NoToken}

\* Mutant of MintToken: the claims are back-dated for slow clocks.
MintTokenBackdated(n, h) ==
    /\ tokens[n] = NoToken
    /\ tokens' = [tokens EXCEPT ![n] =
                    [host |-> h, issued |-> now - 1, expires |-> now + TokenLife]]
    /\ orgTrust' = orgTrust \cup {n}
    /\ UNCHANGED <<now, releases, volatile, database, cert, ghosts, restarts>>

\* A fresh nonce, claims valid from now on, signed with the org root key.
MintToken(n, h) ==
    /\ tokens[n] = NoToken
    /\ tokens' = [tokens EXCEPT ![n] =
                    [host |-> h, issued |-> now, expires |-> now + TokenLife]]
    /\ orgTrust' = orgTrust \cup {n}
    /\ UNCHANGED <<now, releases, volatile, database, cert, ghosts, restarts>>

\* trust.json drops the org root keys that signed the tokens so far; the file
\* is read again for every enrolment.
RotateOrgKey ==
    /\ orgTrust # {}
    /\ orgTrust' = {}
    /\ UNCHANGED <<now, tokens, releases, volatile, database, cert, ghosts, restarts>>

LastRevoked ==
    IF releases = << >> THEN NoRevocations ELSE releases[Len(releases)].revoked

\* prune_expired_bootstrap_nonces.
PruneExpired(nonces) == {n \in nonces : tokens[n].expires >= now}

\* CI signs the fleet, the revocation list and the allowlist of one commit:
\* the operator revokes what a host holds up to now, or withdraws that.
SignRelease(keys, nonces, h, cut) ==
    /\ Len(releases) < MaxReleases
    /\ nonces \subseteq Minted
    /\ cut \in {now, Never, LastRevoked[h]}
    /\ releases' = Append(releases,
         [at |-> now, keys |-> keys, nonces |-> PruneExpired(nonces),
          revoked |-> [LastRevoked EXCEPT ![h] = cut]])
    /\ UNCHANGED <<now, tokens, orgTrust, volatile, database, cert, ghosts, restarts>>

-----------------------------------------------------------------------------
(* The polls.  A fetch returns the artefact and the signature of whatever   *)
(* releases the server has in its caches; a poll that does not verify       *)
(* leaves everything as it is.                                              *)

FetchSignedPair(a, s) == a \in DOMAIN releases /\ s \in DOMAIN releases

\* The signature covers the artefact's bytes, and the artefact is not older
\* than the freshness window.  The key and the compromise switch are module
\* TrustRotation's.
VerifySigned(a, s) == a = s /\ FinishVerification(releases[a].at, now, Window, Never)

PollFleet(a, s) ==
    /\ FetchSignedPair(a, s) /\ VerifySigned(a, s)
    /\ snapshot' = a
    /\ UNCHANGED <<now, operator, allowed, primed, applying, slots, database,
                   cert, ghosts, restarts>>

PollNonces(a, s) ==
    /\ FetchSignedPair(a, s) /\ VerifySigned(a, s)
    /\ allowed' = a
    /\ UNCHANGED <<now, operator, snapshot, primed, applying, slots, database,
                   cert, ghosts, restarts>>

RevokedIn(r) == {h \in Hosts : releases[r].revoked[h] # Never}

PollRevocations(a, s) ==
    /\ applying = NotApplying
    /\ FetchSignedPair(a, s) /\ VerifySigned(a, s)
    /\ applying' = [rel |-> a, left |-> RevokedIn(a)]
    /\ UNCHANGED <<now, operator, snapshot, allowed, primed, slots, database,
                   cert, ghosts, restarts>>

\* revoke_cert: an upsert of one row.
ApplyEntry(h) ==
    /\ h \in applying.left
    /\ revoked' = [revoked EXCEPT ![h] = releases[applying.rel].revoked[h]]
    /\ applying' = [applying EXCEPT !.left = @ \ {h}]
    /\ UNCHANGED <<now, operator, snapshot, allowed, primed, slots, replay,
                   cert, ghosts, restarts>>

\* retain_only: the rows of hosts that left the list are deleted.
RetainOnly(keep) == [h \in Hosts |-> IF h \in keep THEN revoked[h] ELSE Never]

FinishApply ==
    /\ applying # NotApplying /\ applying.left = {}
    /\ revoked' = RetainOnly(RevokedIn(applying.rel))
    /\ primed' = TRUE
    /\ floor' = releases[applying.rel].revoked
    /\ applying' = NotApplying
    /\ UNCHANGED <<now, operator, snapshot, allowed, slots, replay, cert, used, restarts>>

-----------------------------------------------------------------------------
(* The gates in front of the handlers. *)

\* Mutant of IsReady: the revocation list need not have been applied.
IsReadyUnprimed == snapshot # 0 /\ allowed # 0

\* Both polls are required: --strict refuses to start without them.  Only
\* PollNonces and PollFleet set these indices.
IsReady == snapshot # 0 /\ primed /\ allowed # 0

\* The TLS listener hands on the certificate's CN and not_before.
Presented(h) == cert[h] # Never

\* require_cn: the certificate was not issued before the host's cut-off.
Admitted(h, nbf) == revoked[h] = Never \/ nbf >= revoked[h]

\* /v1/enroll is anonymous, every other route of /v1 needs a certificate.
Routed(kind, h) ==
    /\ IsReady
    /\ kind = "enroll" \/ (Presented(h) /\ Admitted(h, cert[h]))

-----------------------------------------------------------------------------
(* POST /v1/enroll. *)

TokenSeen(n) == replay[n] # Never

\* The allowlist names the nonce, for this host, and the entry is not over.
Allowlisted(n) ==
    /\ n \in releases[allowed].nonces
    /\ now <= tokens[n].expires

TrustedSignature(n) == n \in orgTrust

ClaimsHold(n, h) ==
    /\ tokens[n].issued <= now /\ now < tokens[n].expires
    /\ tokens[n].host = h

BoundToHostKey(h) == h \in releases[snapshot].keys

\* Host h presents the token with nonce n; everything up to the insert.
EnrollCheck(s, h, n) ==
    /\ slots[s] = Idle
    /\ cert[h] = Never
    /\ n \in Minted
    /\ Routed("enroll", h)
    /\ ~TokenSeen(n) /\ Allowlisted(n) /\ TrustedSignature(n)
    /\ ClaimsHold(n, h) /\ BoundToHostKey(h)
    /\ slots' = [slots EXCEPT ![s] =
                   [st |-> "checked", host |-> h, nonce |-> n, at |-> now]]
    /\ UNCHANGED <<now, operator, snapshot, allowed, primed, applying, database,
                   cert, ghosts, restarts>>

\* Mutant of RecordToken: INSERT OR IGNORE.
RecordTokenIgnore(s) ==
    /\ slots[s].st = "checked"
    /\ replay' = [replay EXCEPT ![slots[s].nonce] = now]
    /\ slots' = [slots EXCEPT ![s].st = "recorded"]
    /\ UNCHANGED <<now, operator, snapshot, allowed, primed, applying, revoked,
                   cert, ghosts, restarts>>

\* The plain INSERT: the primary key decides between two requests that both
\* passed the checks.
RecordToken(s) ==
    /\ slots[s].st = "checked"
    /\ LET n == slots[s].nonce IN
       \/ /\ ~TokenSeen(n)
          /\ replay' = [replay EXCEPT ![n] = now]
          /\ slots' = [slots EXCEPT ![s].st = "recorded"]
       \/ /\ TokenSeen(n)
          /\ slots' = [slots EXCEPT ![s] = Idle]
          /\ UNCHANGED replay
    /\ UNCHANGED <<now, operator, snapshot, allowed, primed, applying, revoked,
                   cert, ghosts, restarts>>

\* issue_cert and the answer, which the host stores unless it is lost on the
\* way or the host gave up waiting for it.
IssueCert(s) ==
    /\ slots[s].st = "recorded"
    /\ used' = [used EXCEPT ![slots[s].nonce] = now]
    /\ cert' \in {cert, [cert EXCEPT ![slots[s].host] = slots[s].at]}
    /\ slots' = [slots EXCEPT ![s] = Idle]
    /\ UNCHANGED <<now, operator, snapshot, allowed, primed, applying, database,
                   floor, restarts>>

\* No signer could be built, or it fails: an enrolment's nonce stays recorded.
SigningFails(s) ==
    /\ slots[s].st \in {"recorded", "renewing"}
    /\ slots' = [slots EXCEPT ![s] = Idle]
    /\ UNCHANGED <<now, operator, snapshot, allowed, primed, applying, database,
                   cert, ghosts, restarts>>

(* POST /v1/agent/renew. *)
RenewCheck(s, h) ==
    /\ slots[s] = Idle
    /\ Routed("renew", h)
    /\ BoundToHostKey(h)
    /\ slots' = [slots EXCEPT ![s] = [st |-> "renewing", host |-> h, at |-> now]]
    /\ UNCHANGED <<now, operator, snapshot, allowed, primed, applying, database,
                   cert, ghosts, restarts>>

RenewIssue(s) ==
    /\ slots[s].st = "renewing"
    /\ cert' \in {cert, [cert EXCEPT ![slots[s].host] = slots[s].at]}
    /\ slots' = [slots EXCEPT ![s] = Idle]
    /\ UNCHANGED <<now, operator, snapshot, allowed, primed, applying, database,
                   ghosts, restarts>>

-----------------------------------------------------------------------------
(* The prune timer, restarts and the clock. *)

\* DELETE FROM token_replay WHERE first_seen < now - 24 hours.
Stale(n) == replay[n] # Never /\ replay[n] < now - Retention

PruneTokenReplay ==
    /\ \E n \in Nonces : Stale(n)
    /\ replay' = [n \in Nonces |-> IF Stale(n) THEN Never ELSE replay[n]]
    /\ UNCHANGED <<now, operator, volatile, revoked, cert, ghosts, restarts>>

\* The process dies and comes back: the views are empty, nothing is primed and
\* requests are gone.  With wipe, state.db is rebuilt empty.
Restart(wipe) ==
    /\ restarts < MaxRestarts
    /\ restarts' = restarts + 1
    /\ snapshot' = 0 /\ allowed' = 0 /\ primed' = FALSE
    /\ applying' = NotApplying
    /\ slots' = [s \in Slots |-> Idle]
    /\ replay' = IF wipe THEN [n \in Nonces |-> Never] ELSE replay
    /\ revoked' = IF wipe THEN NoRevocations ELSE revoked
    /\ used' = IF wipe THEN [n \in Nonces |-> Never] ELSE used
    /\ UNCHANGED <<now, operator, cert, floor>>

Tick ==
    /\ now < MaxTime
    /\ \A s \in Slots : slots[s] = Idle
    /\ applying = NotApplying
    /\ now' = now + 1
    /\ UNCHANGED <<operator, volatile, database, cert, ghosts, restarts>>

Next ==
    \/ \E n \in Nonces, h \in Hosts : MintToken(n, h)
    \/ RotateOrgKey
    \/ \E keys \in SUBSET Hosts, ns \in SUBSET Nonces, h \in Hosts,
          cut \in Time \cup {Never} : SignRelease(keys, ns, h, cut)
    \/ \E a, s \in DOMAIN releases :
          PollFleet(a, s) \/ PollNonces(a, s) \/ PollRevocations(a, s)
    \/ \E h \in Hosts : ApplyEntry(h)
    \/ FinishApply
    \/ \E s \in Slots :
          \/ \E h \in Hosts, n \in Nonces : EnrollCheck(s, h, n)
          \/ RecordToken(s)
          \/ IssueCert(s)
          \/ SigningFails(s)
          \/ \E h \in Hosts : RenewCheck(s, h)
          \/ RenewIssue(s)
    \/ PruneTokenReplay
    \/ \E wipe \in BOOLEAN : Restart(wipe)
    \/ Tick

Spec == Init /\ [][Next]_vars

-----------------------------------------------------------------------------
(* Properties. *)

IssuesFrom(n) == \E s \in Slots : slots[s].st = "recorded" /\ slots[s].nonce = n /\ IssueCert(s)

\* A token enrols once for as long as token_replay remembers it: of two requests
\* with one nonce that both passed the checks, before or after the hourly prune
\* and across restarts that keep the database, the second gets a certificate
\* only when the first one's row is older than the retention, and only if the
\* token was minted to live longer than that (enrollment.rs, "closes the
\* TOCTOU", and prune_token_replay).
TokenOnce ==
    [][\A n \in Nonces :
          IssuesFrom(n) /\ used[n] # Never =>
              used[n] + Retention < now /\ Retention < TokenLife]_vars

\* What is ready to answer keeps revoked certificates out: a certificate older
\* than a host's cut-off in the list applied last, and in the list being
\* written, is not admitted at any point of the writing, nor after a restart
\* with an empty database.
RevokedKeptOut ==
    IsReady =>
        \A h \in Hosts, nbf \in Time :
            (/\ nbf < floor[h]
             /\ applying # NotApplying => nbf < releases[applying.rel].revoked[h])
            => ~Admitted(h, nbf)
=============================================================================
