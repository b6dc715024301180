------------------------------ MODULE Telephony ------------------------------
(***************************************************************************)
(* The channels: the sandbox provider, which is the module it extends, the *)
(* control plane over its own repository, the gates in front of a call and *)
(* the card's requests.  They share no state.                              *)
(***************************************************************************)
EXTENDS SandboxProvider

CONSTANTS
    Tasks, SessionIds, CallbackIds, AppointmentIds, CommandKeys, MaxVersion, MaxAccepted,
    OutboundRequests, InboundCalls, Cards, Environments, ReadinessRoutes, MaxRules,
    Visitors, Surfaces, Messages, Configured, Limit, Window, MaxCardTime, MaxSubmits

VARIABLES
    sessions, callbacks, appointments, auditEvents, usageEntries, commandKeys, task,
    accepted, outcomes,
    env, outbound, dialled, approvedBy, calls, checks, voiceSessions, rules,
    cardDatabase, form, jobs, rows, beacons, ledger, buckets, admitted, cardNow

planeVars == <<sessions, callbacks, appointments, auditEvents, usageEntries, commandKeys,
               task, accepted, outcomes>>

gateVars == <<env, outbound, dialled, approvedBy, calls, checks, voiceSessions, rules>>

cardVars == <<cardDatabase, form, jobs, rows, beacons, ledger, buckets, admitted, cardNow>>

Plane == INSTANCE TelephonyControlPlane WITH Keys <- CommandKeys

Gates == INSTANCE TelephonyGates WITH
    Requests <- OutboundRequests, Calls <- InboundCalls, Routes <- ReadinessRoutes

Intake == INSTANCE CardIntake WITH
    MaxTime <- MaxCardTime, database <- cardDatabase, now <- cardNow

\* What the proofs assume of the constants of the control plane and of the card's
\* requests.
ASSUME PlaneConstants == Plane!ConstantsAssumed
ASSUME IntakeConstants == Intake!ConstantsAssumed

\* TelephonyControlPlane: ledger, audit and requests agree; one acceptance per id
\* and, where keys are stored, per key.
ControlPlaneIsSound == Plane!ControlPlaneIsSound

\* TelephonyGates: no call without an approval, no contradicting readiness, no
\* foreign routing rule.
GatesAreSound == Gates!GatesAreSound

\* CardIntake: what is confirmed is stored, no orphan rows, the limit holds.
IntakeIsSound == Intake!IntakeIsSound
=============================================================================
