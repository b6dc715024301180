------------------------------- MODULE Access -------------------------------
(***************************************************************************)
(* Who may do what: application sessions, the module it extends, and the   *)
(* settings routes, which resolve a session statement by statement and     *)
(* share nothing with the handlers of sessions but the worker processes.   *)
(***************************************************************************)
EXTENDS IdentitySessions

CONSTANTS
    People,                         \* the users of the settings routes
    Cards, Grants, GrantOf, Member, Outsiders, Requests, Environments,
    MaxRequests, MaxChanges         \* bounds of SettingsApi

VARIABLES
    env, roles, active, live, granted, audit, answers, requests, changes,
    apiClock, apiPc, apiJob

apiVars == <<env, roles, active, live, granted, audit, answers, requests, changes,
             apiClock, apiPc, apiJob>>

Api == INSTANCE SettingsApi WITH
    Users <- People, clock <- apiClock, pc <- apiPc, job <- apiJob

\* TLC evaluates on every run what the proofs assume of the constants.
ASSUME ApiConstants == Api!ConstantsAssumed

\* SettingsApi: who is served held the authority while the request was handled,
\* and what is accepted is audited (card-customization-settings-api.ts).
ApiIsSound == Api!ApiIsSound

\* SettingsApi: AUTHORIZATION_MODEL.md's rule for users without a privileged role.
GrantsCarryThePermission == Api!GrantsCarryThePermission
=============================================================================
