---------------------------- MODULE CertLifecycle ----------------------------
(***************************************************************************)
(* The life of an agent's client certificate: first-boot enrolment, the    *)
(* renewal worker, the HTTP clients that keep the certificate they were    *)
(* built with, restarts of the agent, and days without the control plane.  *)
(*                                                                         *)
(* Time is counted in days; the worker's 60 s ticker and its 30 s back-off *)
(* give it many attempts a day.  The host stays declared and unrevoked:    *)
(* module Enrollment has the server's side of both.                        *)
(***************************************************************************)
EXTENDS Integers

CONSTANTS
    CertLife,     \* --agent-cert-validity-secs, 30 days by default
    RenewBelow,   \* renewal_threshold_fraction of CertLife
    MaxOutage,    \* longest time without reaching the control plane
    MaxTime       \* bound on the clock

\* The worker exits unless the threshold fraction is strictly between 0 and 1.
ASSUME CertAssumption ==
    /\ CertLife \in Nat /\ MaxOutage \in Nat /\ MaxTime \in Nat
    /\ RenewBelow \in 1 .. (CertLife - 1)

Never == -1

VARIABLES
    now,
    disk,      \* not_before of the certificate in the file, Never without one
    client,    \* not_before of the one the running process has loaded
    boot,      \* when the process started
    checked,   \* the worker has looked at the file today
    reach,     \* the control plane can be reached today
    outage     \* days it could not, up to today

vars == <<now, disk, client, boot, checked, reach, outage>>

Stamp == Nat \cup {Never}

TypeOK ==
    /\ now \in Nat /\ disk \in Stamp /\ client \in Stamp /\ boot \in Nat
    /\ checked \in BOOLEAN /\ reach \in BOOLEAN
    /\ outage \in 0 .. MaxOutage

Init ==
    /\ now = 0 /\ boot = 0
    /\ disk = Never /\ client = Never
    /\ checked = FALSE
    /\ reach = TRUE /\ outage = 0

-----------------------------------------------------------------------------

\* What the control plane's TLS layer asks of the certificate it is shown.
Unexpired(c) == now <= c + CertLife

\* Mutant of Remaining: what has gone by, in place of what is left.
RemainingElapsed(c) == IF now > c THEN now - c ELSE 0

\* cert_remaining_fraction, scaled by the certificate's life: what is left of
\* it, with an elapsed time that is never negative and a rest that is not.
Remaining(c) ==
    LET elapsed == IF now > c THEN now - c ELSE 0
    IN  IF CertLife > elapsed THEN CertLife - elapsed ELSE 0

\* comms::build_client reads the certificate file once.
BuildClient == disk

\* POST /v1/enroll; the answer is written to the file.
Enroll == reach /\ disk' = now

\* Mutant of FirstBoot: the new certificate's not_before lies before the agent's clock.
FirstBootBackdated ==
    /\ disk = Never
    /\ reach
    /\ disk' = now - 2 /\ client' = now - 2 /\ boot' = now
    /\ UNCHANGED <<now, checked, reach, outage>>

\* main: without a certificate file the agent enrols with its bootstrap token,
\* then starts the workers.
FirstBoot ==
    /\ disk = Never
    /\ Enroll
    /\ client' = disk' /\ boot' = now
    /\ UNCHANGED <<now, checked, reach, outage>>

\* POST /v1/agent/renew with the client built at start-up; the answer replaces
\* the file, not the client.
Renew ==
    /\ reach /\ Unexpired(client)
    /\ disk' = now

\* One tick of the worker; an attempt that fails is repeated after a back-off.
MaybeRenewOnce ==
    /\ disk # Never /\ ~checked
    /\ \/ Remaining(disk) >= RenewBelow /\ UNCHANGED disk
       \/ Remaining(disk) < RenewBelow /\ Renew
       \/ Remaining(disk) < RenewBelow /\ ~(reach /\ Unexpired(client)) /\ UNCHANGED disk
    /\ checked' = TRUE
    /\ UNCHANGED <<now, client, boot, reach, outage>>

\* systemd restarts the agent after a crash, a deployment or a reboot, and never
\* on a schedule; the worker's interval ticks at once.
Restart ==
    /\ disk # Never
    /\ client' = BuildClient
    /\ boot' = now
    /\ checked' = FALSE
    /\ UNCHANGED <<now, disk, reach, outage>>

\* The next day, with or without the control plane.
Tick ==
    /\ now < MaxTime
    /\ disk # Never => checked
    /\ now' = now + 1
    /\ checked' = FALSE
    /\ \/ reach' = TRUE /\ outage' = 0
       \/ outage < MaxOutage /\ reach' = FALSE /\ outage' = outage + 1
    /\ UNCHANGED <<disk, client, boot>>

Next == FirstBoot \/ MaybeRenewOnce \/ Restart \/ Tick

Spec == Init /\ [][Next]_vars

-----------------------------------------------------------------------------

\* The last day the clients of the running process are let in.
ClientEnd == client + CertLife

\* The renewal worker keeps the file good beyond the life of its own client: a
\* process whose certificate was good for the longest outage when it loaded it
\* finds, if it is restarted up to RenewBelow - MaxOutage days after its clients
\* have expired, an unexpired certificate in the file (cert_renewal.rs, "keep the
\* on-disk cert from ever expiring", as far as it holds: the worker renews with
\* a client that is never rebuilt).
FileOutlastsClient ==
    /\ disk # Never
    /\ boot + MaxOutage <= ClientEnd
    /\ now <= ClientEnd + RenewBelow - MaxOutage
    => Unexpired(disk)
=============================================================================
