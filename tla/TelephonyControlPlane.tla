---------------------- MODULE TelephonyControlPlane ----------------------
(* The telephony control plane over its repository: call sessions requested, *)
(* the safety decision on commands, callbacks and appointments, with the     *)
(* append-only audit log and usage ledger.                                   *)
(*   services/telephony/src/telephony-control-plane.ts                       *)
(*   services/telephony/src/domain-repository.ts                             *)
(*   services/telephony/src/domain-state-machines.ts                         *)
(*   services/telephony/src/usage-ledger.ts                                  *)
(*   packages/types/src/telephony.ts                                         *)
(* Every repository call is awaited: tasks of one process interleave at      *)
(* every await, and a task may be lost at one (the process stops).           *)
EXTENDS Naturals, FiniteSets

CONSTANTS
  Tasks,         \* concurrent requests served by the process
  SessionIds,    \* call session ids
  CallbackIds,   \* callback request ids
  AppointmentIds,\* appointment request ids
  Tenants,       \* tenants; the tenant of a session is the requester's
  Keys,          \* idempotency keys of commands
  MaxVersion,    \* bound: versions a command may expect
  MaxAccepted,   \* bound: accepted commands
  None           \* nothing stored

VARIABLES
  sessions,      \* sessionId -> None or [tenantId, state]
  callbacks,     \* callbackRequestId -> None or its state
  appointments,  \* appointmentRequestId -> None or its state
  auditEvents,   \* ids of audit events
  usageEntries,  \* ids of usage ledger entries
  commandKeys,   \* idempotency keys the command store remembers
  task,          \* task -> what it has still to do
  accepted,      \* accepted commands: [number, key, stored]
  outcomes       \* requests that answered accepted

repository == <<sessions, callbacks, appointments, auditEvents, usageEntries>>
vars == <<repository, commandKeys, task, accepted, outcomes>>

CallTransitions ==
  [requested |-> {"queued", "cancelled", "failed"},
   queued |-> {"dialing", "cancelled", "failed"},
   dialing |-> {"ringing", "answered", "busy", "no_answer", "failed", "cancelled"},
   ringing |-> {"answered", "busy", "no_answer", "cancelled", "failed"},
   answered |-> {"in_conversation", "transferred", "held", "completed", "failed"},
   in_conversation |-> {"transferred", "held", "completed", "failed", "voicemail"},
   held |-> {"resumed", "transferred", "completed", "failed"},
   resumed |-> {"in_conversation", "transferred", "completed", "failed"},
   transferred |-> {"in_conversation", "completed", "failed"},
   no_answer |-> {"voicemail", "completed"},
   voicemail |-> {"completed"},
   busy |-> {}, cancelled |-> {}, completed |-> {}, failed |-> {}]

CallbackTransitions ==
  [requested |-> {"scheduled", "assigned", "cancelled"},
   scheduled |-> {"assigned", "attempting", "cancelled"},
   assigned |-> {"attempting", "cancelled"},
   attempting |-> {"completed", "failed", "scheduled"},
   failed |-> {"scheduled", "cancelled"},
   cancelled |-> {}, completed |-> {}]

AppointmentTransitions ==
  [requested |-> {"pending", "cancelled"},
   pending |-> {"confirmed", "cancelled"},
   confirmed |-> {"completed", "cancelled"},
   cancelled |-> {}, completed |-> {}]

CallStates == DOMAIN CallTransitions

TerminalCallStates == {s \in CallStates: CallTransitions[s] = {}}

CanTransition(table, from, to) == from \in DOMAIN table /\ to \in table[from]

Session(tenant, state) == [tenantId |-> tenant, state |-> state]

Idle == [at |-> "idle"]

Goto(t, step) == task' = [task EXCEPT ![t] = step]

-----------------------------------------------------------------------------
(* requestCallSession: three writes, an await after each *)

(* saveCallSession writes whatever it is given over what was stored. *)
SaveRequestedSession(t, tenant, s) ==
  /\ task[t] = Idle
  /\ sessions' = [sessions EXCEPT ![s] = Session(tenant, "requested")]
  /\ Goto(t, [at |-> "audit", session |-> s])
  /\ UNCHANGED <<callbacks, appointments, auditEvents, usageEntries, commandKeys,
                 accepted, outcomes>>

(* appendAuditEvent throws when the event id exists, and the request ends.   *)
AppendRequestedEvent(t) ==
  LET s == task[t].session
  IN  /\ task[t].at = "audit"
      /\ auditEvents' = auditEvents \union {s}
      /\ Goto(t, IF s \in auditEvents THEN Idle ELSE [at |-> "usage", session |-> s])
      /\ UNCHANGED <<sessions, callbacks, appointments, usageEntries, commandKeys,
                     accepted, outcomes>>

(* The entry records a quantity of zero provider minutes. *)
AppendRequestedUsage(t) ==
  LET s == task[t].session
  IN  /\ task[t].at = "usage"
      /\ usageEntries' = usageEntries \union {s}
      /\ outcomes' = IF s \in usageEntries THEN outcomes ELSE outcomes \union {<<t, s>>}
      /\ Goto(t, Idle)
      /\ UNCHANGED <<sessions, callbacks, appointments, auditEvents, commandKeys, accepted>>

-----------------------------------------------------------------------------
(* queueTelephonyCallbackRequest and queueTelephonyAppointmentRequest *)

SaveCallbackRequest(t, c) ==
  /\ task[t] = Idle
  /\ callbacks' = [callbacks EXCEPT ![c] = "requested"]
  /\ Goto(t, [at |-> "followUpAudit", id |-> c])
  /\ UNCHANGED <<sessions, appointments, auditEvents, usageEntries, commandKeys,
                 accepted, outcomes>>

SaveAppointmentRequest(t, a) ==
  /\ task[t] = Idle
  /\ appointments' = [appointments EXCEPT ![a] = "requested"]
  /\ Goto(t, [at |-> "followUpAudit", id |-> a])
  /\ UNCHANGED <<sessions, callbacks, auditEvents, usageEntries, commandKeys,
                 accepted, outcomes>>

MutAppendAgain(t) ==
  LET id == task[t].id
  IN  /\ task[t].at = "followUpAudit"
      /\ auditEvents' = auditEvents \union {id}
      /\ outcomes' = outcomes \union {<<t, id>>}
      /\ Goto(t, Idle)
      /\ UNCHANGED <<sessions, callbacks, appointments, usageEntries, commandKeys, accepted>>

AppendFollowUpEvent(t) ==
  LET id == task[t].id
  IN  /\ task[t].at = "followUpAudit"
      /\ auditEvents' = auditEvents \union {id}
      /\ outcomes' = IF id \in auditEvents THEN outcomes ELSE outcomes \union {<<t, id>>}
      /\ Goto(t, Idle)
      /\ UNCHANGED <<sessions, callbacks, appointments, usageEntries, commandKeys, accepted>>

(* Staff move a callback or an appointment along its table. *)
MoveFollowUp(id, to) ==
  /\ \/ /\ id \in CallbackIds /\ callbacks[id] # None
        /\ CanTransition(CallbackTransitions, callbacks[id], to)
        /\ callbacks' = [callbacks EXCEPT ![id] = to]
        /\ UNCHANGED appointments
     \/ /\ id \in AppointmentIds /\ appointments[id] # None
        /\ CanTransition(AppointmentTransitions, appointments[id], to)
        /\ appointments' = [appointments EXCEPT ![id] = to]
        /\ UNCHANGED callbacks
  /\ UNCHANGED <<sessions, auditEvents, usageEntries, commandKeys, task, accepted, outcomes>>

(* A caller moves a call along its table and saves it, over what was stored. *)
MoveCall(s, to) ==
  /\ sessions[s] # None
  /\ CanTransition(CallTransitions, sessions[s].state, to)
  /\ sessions' = [sessions EXCEPT ![s] = Session(@.tenantId, to)]
  /\ UNCHANGED <<callbacks, appointments, auditEvents, usageEntries, commandKeys, task,
                 accepted, outcomes>>

-----------------------------------------------------------------------------
(* evaluateTelephonyCommandSafety, which awaits nothing: telephony enabled,  *)
(* the permission held, an adapter configured and production calling off are *)
(* "permitted"; a caller may pass no store of keys, and no version to check. *)
CommandAccepted(key, stored, expected, current, permitted) ==
  /\ stored => key \notin commandKeys
  /\ None \in {expected, current} \/ expected = current
  /\ permitted

DecideCommand(key, stored, expected, current, permitted) ==
  /\ Cardinality(accepted) < MaxAccepted
  /\ CommandAccepted(key, stored, expected, current, permitted)
  /\ commandKeys' = IF stored THEN commandKeys \union {key} ELSE commandKeys
  /\ accepted' = accepted \union
        {[number |-> Cardinality(accepted), key |-> key, stored |-> stored]}
  /\ UNCHANGED <<repository, task, outcomes>>

(* A rejected repository call, or a process that stops, ends the task.       *)
Abandon(t) ==
  /\ task[t] # Idle
  /\ Goto(t, Idle)
  /\ UNCHANGED <<repository, commandKeys, accepted, outcomes>>

-----------------------------------------------------------------------------
Init ==
  /\ sessions = [s \in SessionIds |-> None]
  /\ callbacks = [c \in CallbackIds |-> None]
  /\ appointments = [a \in AppointmentIds |-> None]
  /\ auditEvents = {}
  /\ usageEntries = {}
  /\ commandKeys = {}
  /\ task = [t \in Tasks |-> Idle]
  /\ accepted = {}
  /\ outcomes = {}

Requests(t) ==
  \/ \E tenant \in Tenants, s \in SessionIds: SaveRequestedSession(t, tenant, s)
  \/ AppendRequestedEvent(t)
  \/ AppendRequestedUsage(t)
  \/ \E c \in CallbackIds: SaveCallbackRequest(t, c)
  \/ \E a \in AppointmentIds: SaveAppointmentRequest(t, a)
  \/ AppendFollowUpEvent(t)

Versions == {None} \union 0..MaxVersion

Commands ==
  \E key \in Keys, stored \in BOOLEAN, expected \in Versions, current \in Versions,
     permitted \in BOOLEAN: DecideCommand(key, stored, expected, current, permitted)

FollowUps ==
  \E id \in CallbackIds \union AppointmentIds,
     to \in DOMAIN CallbackTransitions \union DOMAIN AppointmentTransitions:
       MoveFollowUp(id, to)

Next ==
  \/ \E t \in Tasks: Requests(t) \/ Abandon(t)
  \/ FollowUps
  \/ \E s \in SessionIds, to \in CallStates: MoveCall(s, to)
  \/ Commands

Spec == Init /\ [][Next]_vars

-----------------------------------------------------------------------------
(* Stored records have the domain's states.                                  *)
TypeOK ==
  /\ \A s \in SessionIds:
       sessions[s] = None \/ sessions[s] \in [tenantId: Tenants, state: CallStates]
  /\ \A c \in CallbackIds: callbacks[c] \in {None} \union DOMAIN CallbackTransitions
  /\ \A a \in AppointmentIds: appointments[a] \in {None} \union DOMAIN AppointmentTransitions
  /\ usageEntries \subseteq SessionIds
  /\ commandKeys \subseteq Keys
  /\ DOMAIN task = Tasks

(* The three writes of a call request go in order, whoever else is writing:  *)
(* a usage entry follows an audit event, which follows a stored session.     *)
LedgerFollowsAudit ==
  /\ usageEntries \subseteq auditEvents
  /\ \A s \in auditEvents \intersect SessionIds: sessions[s] # None
  /\ \A c \in auditEvents \intersect CallbackIds: callbacks[c] # None
  /\ \A a \in auditEvents \intersect AppointmentIds: appointments[a] # None

(* Of all the requests for one id, retried or concurrent, at most one is     *)
(* answered accepted.                                                        *)
AcceptedOncePerId == \A o, p \in outcomes: o[2] = p[2] => o = p

(* One idempotency key is accepted at most once by callers that pass the     *)
(* store of keys, whoever was accepted without one in between.               *)
AcceptedOncePerKey ==
  \A a, b \in accepted: a.stored /\ b.stored /\ a.key = b.key => a = b

(* docs/TELEPHONY_STATE_MACHINES.md: "Terminal states do not transition back *)
(* to active states."                                                        *)
TerminalStatesStay ==
  [][\A s \in SessionIds:
       sessions[s] # None /\ sessions[s].state \in TerminalCallStates
       => sessions'[s].state = sessions[s].state]_vars

(* The records of the control plane agree with each other: ledger, audit and   *)
(* request, and one acceptance per id and per key.                             *)
ControlPlaneIsSound ==
  TypeOK /\ LedgerFollowsAudit /\ AcceptedOncePerId /\ AcceptedOncePerKey

-----------------------------------------------------------------------------
(* The inductive invariant: what a task has still to do rests on what it did. *)

(* What the proofs assume of the constants: the ids of the three kinds of     *)
(* request have prefixes of their own, and None is nothing that is stored.    *)
ConstantsAssumed ==
  /\ SessionIds \intersect CallbackIds = {}
  /\ SessionIds \intersect AppointmentIds = {}
  /\ CallbackIds \intersect AppointmentIds = {}
  /\ None \notin [tenantId: Tenants, state: CallStates]
  /\ None \notin DOMAIN CallbackTransitions /\ None \notin DOMAIN AppointmentTransitions

SessionRecord == [tenantId: Tenants, state: CallStates]

Steps ==
  {Idle}
  \union [at: {"audit", "usage"}, session: SessionIds]
  \union [at: {"followUpAudit"}, id: CallbackIds \union AppointmentIds]

RecordsAreWhole ==
  /\ sessions \in [SessionIds -> {None} \union SessionRecord]
  /\ callbacks \in [CallbackIds -> {None} \union DOMAIN CallbackTransitions]
  /\ appointments \in [AppointmentIds -> {None} \union DOMAIN AppointmentTransitions]
  /\ auditEvents \subseteq SessionIds \union CallbackIds \union AppointmentIds
  /\ usageEntries \subseteq SessionIds
  /\ commandKeys \subseteq Keys
  /\ task \in [Tasks -> Steps]

(* The steps a task has before it follow the writes it made.                  *)
FollowsWrites(step) ==
  /\ step.at \in {"audit", "usage"} => sessions[step.session] # None
  /\ step.at = "usage" => step.session \in auditEvents
  /\ step.at = "followUpAudit" =>
       /\ step.id \in CallbackIds => callbacks[step.id] # None
       /\ step.id \in AppointmentIds => appointments[step.id] # None

StepsFollowWrites == \A t \in Tasks: FollowsWrites(task[t])

(* Every acceptance left its mark in what the next one consults.              *)
AcceptancesAreMarked ==
  /\ \A a \in accepted: a.stored => a.key \in commandKeys
  /\ outcomes \subseteq Tasks \X (SessionIds \union CallbackIds \union AppointmentIds)
  /\ \A o \in outcomes: IF o[2] \in SessionIds THEN o[2] \in usageEntries
                                               ELSE o[2] \in auditEvents

IndInv ==
  /\ RecordsAreWhole
  /\ StepsFollowWrites
  /\ LedgerFollowsAudit
  /\ AcceptancesAreMarked
  /\ AcceptedOncePerId /\ AcceptedOncePerKey
=============================================================================
