-------------------------------- MODULE Verify --------------------------------
(***************************************************************************)
(* The gates a signed artefact passes before anything reads it             *)
(* (crates/nixfleet-reconciler/src/verify.rs), as predicates over what     *)
(* they look at: the key that signed, signedAt, the clock, the slot of     *)
(* trust.json and the freshness window.                                    *)
(***************************************************************************)
EXTENDS Integers

Never == -1

\* CLOCK_SKEW_SLACK_SECS: a minute is less than the hour the modules count in.
Slack == 0

\* A slot of trust.json: a place without a key holds `none`.
SlotOf(Keys, none, Times) ==
    [current: Keys, previous: Keys \cup {none}, successor: Keys \cup {none},
     retireAt: Times \cup {Never}, rejectBefore: Times \cup {Never}]

\* active_keys: without regard to time.
ActiveKeys(slot, none) == {slot.current, slot.previous} \ {none}

\* Mutant of ActiveKeysAt: the previous key is not tried.
ActiveKeysAtCurrent(slot, none, now) ==
    {slot.current} \cup
        (IF slot.successor # none /\ now < slot.retireAt THEN {slot.successor} ELSE {})

\* active_keys_at: the successor too, until retireAt.
ActiveKeysAt(slot, none, now) ==
    ActiveKeys(slot, none) \cup
        (IF slot.successor # none /\ now < slot.retireAt THEN {slot.successor} ELSE {})

\* verify_ed25519, verify_ecdsa_p256: public key k verifies what `key` signed.
VerifyWith(k, key) == k = key

\* verify_signature_against_trust_roots: some key verifies the signature over
\* the canonical bytes; with no key, nothing verifies.
VerifySignature(keys, key) == \E k \in keys : VerifyWith(k, key)

\* finish_sidecar_verification: the compromise switch, then the window, then
\* artefacts from the future.
NotRejected(at, rejectBefore) == at >= rejectBefore
NotStale(at, now, window)     == now - at <= window + Slack
NotFutureDated(at, now)       == at - now <= Slack

FinishVerification(at, now, window, rejectBefore) ==
    /\ NotRejected(at, rejectBefore)
    /\ NotStale(at, now, window)
    /\ NotFutureDated(at, now)

\* verify_signed_sidecar.
VerifySidecar(slot, none, key, at, now, window) ==
    /\ VerifySignature(ActiveKeysAt(slot, none, now), key)
    /\ FinishVerification(at, now, window, slot.rejectBefore)
=============================================================================
