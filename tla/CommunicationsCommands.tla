----------------------- MODULE CommunicationsCommands -----------------------
(***************************************************************************)
(* Commands of the communications domain: the draft of a reservation as    *)
(* the domain package validates it and as the table of migration 0018      *)
(* accepts it, the idempotency record from its reservation to its result,  *)
(* and the phase 11A boundary that answers every command today.            *)
(***************************************************************************)
EXTENDS Naturals

CONSTANTS
    Clients, Keys, Hashes,     \* callers, idempotency keys, request hashes
    Tenants,                   \* tenant ids
    UsedOperations,            \* the operations that callers reserve
    UsedChannels,              \* the channels that commands and events name
    MaxSubmits                 \* bound: reservations that are attempted

NoTenant == ""
None     == "none"

CommunicationChannels == {"telephony", "voice", "messaging", "scheduling", "custom"}

\* The operations whose completed result is a communication.
Producing ==
    {"request_callback", "cancel_callback", "schedule_communication",
     "initiate_communication", "accept_inbound_communication_event",
     "escalate_to_human", "terminate_communication"}

KillSwitches == {"apply_tenant_kill_switch", "apply_platform_kill_switch"}

Operations ==
    Producing \cup KillSwitches \cup
    {"suppress_communication", "release_suppression", "evaluate_consent",
     "evaluate_business_hours", "evaluate_routing", "query_communication_status"}

\* Which field of its payload names the channel of a command, if any.
ChannelField ==
    [op \in Operations |->
        CASE op \in {"schedule_communication", "evaluate_consent",
                     "accept_inbound_communication_event"} -> "channel"
          [] op \in {"initiate_communication", "evaluate_routing"} -> "requestedChannelOrder"
          [] op = "request_callback" -> "preferredChannelOrder"
          [] OTHER -> None]

Command == [type : Operations, tenant : Tenants \cup {NoTenant},
            channel : UsedChannels]

\* A reservation draft: which ids are present, whether the scope id, the permission
\* and the versions are the ones the contract names, whether the idempotency key
\* and the decision id are not empty, and whether the request hash is a digest.
Draft ==
    [operation : Operations, scope : {"card", "tenant", "platform"},
     card : BOOLEAN, scopeIdMatches : BOOLEAN,
     actor : {"user", "service", "platform"},
     user : BOOLEAN, service : BOOLEAN, platform : BOOLEAN,
     session : BOOLEAN, grant : BOOLEAN,
     permission : {"own", "tenant_kill_switch", "platform_kill_switch"},
     versionsMatch : BOOLEAN, named : BOOLEAN, hashed : BOOLEAN]

VARIABLES
    commands,         \* operation, key -> "none" or its idempotency record
    reply,            \* client -> what its last call answered
    owner,            \* operation, key -> the clients that were told "reserved"
    authority,        \* which of membership, session and grant are live
    submits,          \* reservations attempted
    event             \* last event of the phase 11A boundary

vars == <<commands, reply, owner, authority, submits, event>>

NoEvent == [type |-> "none"]
NoCommand == [status |-> "none"]

\* The primary key: the scope follows from the operation.
Slots == UsedOperations \X Keys
Authorities == {"membership", "session", "grant"}

Init ==
    /\ commands = [s \in Slots |-> NoCommand]
    /\ reply = [c \in Clients |-> None]
    /\ owner = [s \in Slots |-> {}]
    /\ authority = Authorities
    /\ submits = 0
    /\ event = NoEvent

(***************************************************************************)
(* The two contracts of a reservation.                                     *)
(***************************************************************************)
ScopeMatches(d) ==
    /\ d.card = (d.scope = "card")
    /\ d.scopeIdMatches
    /\ d.operation \notin KillSwitches => d.scope = "card"

ActorMatches(d) ==
    CASE d.actor = "user" ->
            /\ d.user /\ d.session /\ (d.scope = "card" => d.grant)
            /\ ~d.service /\ ~d.platform
      [] d.actor = "service" ->
            d.service /\ ~d.user /\ ~d.platform /\ ~d.session /\ ~d.grant
      [] d.actor = "platform" ->
            d.platform /\ ~d.user /\ ~d.service /\ ~d.session /\ ~d.grant

PermissionMatches(d) ==
    CASE d.operation = "apply_platform_kill_switch" ->
            /\ d.actor = "platform" /\ d.scope = "platform"
            /\ d.permission = "platform_kill_switch"
      [] d.operation = "apply_tenant_kill_switch" ->
            /\ d.actor \in {"user", "service"} /\ d.scope = "tenant"
            /\ d.permission = "tenant_kill_switch"
      [] OTHER ->
            d.actor = "user" /\ d.scope = "card" /\ d.permission = "own"

\* assertCommunicationCommandIdempotencyDraft does not throw.
AcceptsDraft(d) ==
    /\ d.named
    /\ ScopeMatches(d) /\ ActorMatches(d) /\ PermissionMatches(d) /\ d.versionsMatch
    /\ d.hashed

\* The CHECK constraints of communication_command_idempotency_keys hold; an empty
\* string is not NULL and passes.
StoresDraft(d) ==
    /\ d.card = (d.scope = "card") /\ d.scopeIdMatches
    /\ d.user = (d.actor = "user") /\ d.service = (d.actor = "service")
    /\ d.platform = (d.actor = "platform")
    /\ PermissionMatches(d)
    /\ d.session = (d.actor = "user")
    /\ d.grant = (d.scope = "card" /\ d.actor = "user")
    /\ d.versionsMatch /\ d.hashed

\* The authorization evidence trigger: a user needs a live membership and
\* session, and for a card a live grant; a service or the platform an active
\* identity.
AuthorizedNow(d) ==
    /\ d.actor = "user" => {"membership", "session"} \subseteq authority
    /\ d.scope = "card" => "grant" \in authority

(***************************************************************************)
(* Reserving and completing a command.                                     *)
(***************************************************************************)
\* Mutant: a second insert overwrites the record of the first.
ReserveAgain(c, k, h, d) ==
    LET s == <<d.operation, k>> IN
    /\ submits < MaxSubmits
    /\ AuthorizedNow(d) /\ StoresDraft(d)
    /\ submits' = submits + 1
    /\ commands' = [commands EXCEPT ![s] =
            [status |-> "reserved", hash |-> h, result |-> FALSE]]
    /\ reply' = [reply EXCEPT ![c] = "reserved"]
    /\ owner' = [owner EXCEPT ![s] = @ \cup {c}]
    /\ UNCHANGED <<authority, event>>

\* reserveCommandIdempotency, as an implementation of the interface has to be: the
\* primary key of the table decides who reserves.
Reserve(c, k, h, d) ==
    LET s == <<d.operation, k>> IN
    /\ submits < MaxSubmits
    /\ submits' = submits + 1
    /\ CASE commands[s] # NoCommand ->
            /\ reply' = [reply EXCEPT ![c] =
                    IF commands[s].hash = h THEN "replayed" ELSE "conflict"]
            /\ UNCHANGED <<commands, owner>>
         [] commands[s] = NoCommand /\ AuthorizedNow(d) /\ StoresDraft(d) ->
            /\ commands' = [commands EXCEPT ![s] =
                    [status |-> "reserved", hash |-> h, result |-> FALSE]]
            /\ reply' = [reply EXCEPT ![c] = "reserved"]
            /\ owner' = [owner EXCEPT ![s] = @ \cup {c}]
         [] OTHER ->
            /\ reply' = [reply EXCEPT ![c] = "rejected"]
            /\ UNCHANGED <<commands, owner>>
    /\ UNCHANGED <<authority, event>>

\* assertCommunicationCommandResultDraft, and the update trigger's copy of it.
ResultMatches(op, status, hasResult) ==
    IF status = "completed" THEN hasResult = (op \in Producing) ELSE ~hasResult

CompleteAgain(c, s, status, hasResult) ==
    /\ commands[s] # NoCommand
    /\ ResultMatches(s[1], status, hasResult)
    /\ commands' = [commands EXCEPT ![s].status = status, ![s].result = hasResult]
    /\ reply' = [reply EXCEPT ![c] = status]
    /\ UNCHANGED <<owner, authority, submits, event>>

\* completeCommandIdempotency: only a reserved record moves, once, and any
\* caller may move it.
Complete(c, s, status, hasResult) ==
    /\ commands[s] # NoCommand
    /\ IF commands[s].status = "reserved"
       THEN /\ ResultMatches(s[1], status, hasResult)
            /\ commands' = [commands EXCEPT ![s].status = status,
                                            ![s].result = hasResult]
            /\ reply' = [reply EXCEPT ![c] = status]
       ELSE /\ reply' = [reply EXCEPT ![c] = "replayed"]
            /\ UNCHANGED commands
    /\ UNCHANGED <<owner, authority, submits, event>>

\* A membership, session or grant ends while commands are in flight.
Revoke ==
    \E a \in authority :
        /\ authority' = authority \ {a}
        /\ UNCHANGED <<commands, reply, owner, submits, event>>

(***************************************************************************)
(* The phase 11A boundary: nothing is executed.                            *)
(***************************************************************************)
ResolveCommandChannel(cmd) ==
    IF ChannelField[cmd.type] = None THEN None ELSE cmd.channel

\* Two commands of one tenant get the same event id: surface and tenant.
BlockedEvent(surface, tenant, channel) ==
    [id |-> <<surface, tenant>>, type |-> "communication.blocked",
     tenant |-> tenant, channel |-> channel]

\* phase11aCommunicationsApi.dispatch: refused, with the channel or "custom".
ApiDispatch(c, cmd) ==
    /\ reply' = [reply EXCEPT ![c] =
                    IF ResolveCommandChannel(cmd) = None THEN "disabled_custom"
                    ELSE "disabled"]
    /\ UNCHANGED <<commands, owner, authority, submits, event>>

\* phase11aCommunicationsOrchestrator.dispatch and
\* processNormalizedAdapterEvent: a blocked event, unless there is no tenant.
OrchestratorDispatch(c, cmd) ==
    /\ IF cmd.tenant = NoTenant
       THEN reply' = [reply EXCEPT ![c] = "threw"] /\ UNCHANGED event
       ELSE /\ event' = BlockedEvent("communications_command", cmd.tenant,
                                     ResolveCommandChannel(cmd))
            /\ reply' = [reply EXCEPT ![c] = "blocked"]
    /\ UNCHANGED <<commands, owner, authority, submits>>

AdapterEvent(c, tenant, channel) ==
    /\ IF tenant = NoTenant
       THEN reply' = [reply EXCEPT ![c] = "threw"] /\ UNCHANGED event
       ELSE /\ event' = BlockedEvent("adapter_event", tenant, channel)
            /\ reply' = [reply EXCEPT ![c] = "blocked"]
    /\ UNCHANGED <<commands, owner, authority, submits>>

\* The draft a caller builds: the ids follow from its scope and its actor.
CallerDraft(op, scope, actor, grant) ==
    [operation |-> op, scope |-> scope,
     card |-> scope = "card", scopeIdMatches |-> TRUE,
     actor |-> actor, user |-> actor = "user", service |-> actor = "service",
     platform |-> actor = "platform", session |-> actor = "user", grant |-> grant,
     permission |-> CASE op = "apply_tenant_kill_switch" -> "tenant_kill_switch"
                      [] op = "apply_platform_kill_switch" -> "platform_kill_switch"
                      [] OTHER -> "own",
     versionsMatch |-> TRUE, named |-> TRUE, hashed |-> TRUE]

\* Callers validate a draft before they submit it.
ValidDrafts ==
    {d \in {CallerDraft(op, scope, actor, grant) :
                op \in UsedOperations, scope \in {"card", "tenant", "platform"},
                actor \in {"user", "service", "platform"}, grant \in BOOLEAN} :
        AcceptsDraft(d)}

Next ==
    \E c \in Clients :
        \/ \E k \in Keys, h \in Hashes, d \in ValidDrafts : Reserve(c, k, h, d)
        \/ \E s \in Slots, st \in {"completed", "failed"}, r \in BOOLEAN :
                Complete(c, s, st, r)
        \/ Revoke
        \/ \E cmd \in Command : ApiDispatch(c, cmd) \/ OrchestratorDispatch(c, cmd)
        \/ \E t \in Tenants \cup {NoTenant}, ch \in UsedChannels : AdapterEvent(c, t, ch)

Spec == Init /\ [][Next]_vars
-----------------------------------------------------------------------------
\* Records and replies have their types, and every event of the disabled
\* boundary belongs to a tenant.
TypeOK ==
    /\ commands \in [Slots -> {NoCommand} \cup
            [status : {"reserved", "completed", "failed"}, hash : Hashes,
             result : BOOLEAN]]
    /\ reply \in [Clients ->
            {None, "reserved", "replayed", "conflict", "rejected", "completed",
             "failed", "disabled", "disabled_custom", "blocked", "threw"}]
    /\ owner \in [Slots -> SUBSET Clients]
    /\ authority \subseteq Authorities
    /\ event = NoEvent \/ event.tenant \in Tenants

\* However often and by whomever an operation is submitted under one key, one
\* caller is told that it holds the reservation.
OneReservationPerKey == \A s \in Slots : \A c, d \in owner[s] : c = d

\* A result is final: once a command is completed or failed, neither a late
\* completion nor a retry changes its record.
ResultIsFinal ==
    [][\A s \in Slots :
        commands[s].status \in {"completed", "failed"} => commands'[s] = commands[s]]_vars

\* The two contracts differ on some draft, other than a user command outside
\* card scope that carries a card grant, which only the table refuses, and one
\* with an empty key or decision id, which only the package refuses.
ContractsDiffer ==
    \E d \in Draft :
        \/ StoresDraft(d) /\ ~AcceptsDraft(d) /\ d.named
        \/ AcceptsDraft(d) /\ ~StoresDraft(d) /\ ~(d.grant /\ d.scope = "tenant")

\* The domain package and the table accept the same drafts, the two exceptions
\* apart: no other caller is refused by one of them only
\* (assertCommunicationCommandIdempotencyDraft and the CHECK constraints of
\* communication_command_idempotency_keys).
ContractsAgree == ~ContractsDiffer

\* The records of commands are sound: typed and reserved once per key
\* (reserveCommand, communication_command_idempotency).
CommandsAreSound == TypeOK /\ OneReservationPerKey
-----------------------------------------------------------------------------
(***************************************************************************)
(* The inductive invariant: who holds a reservation is alone, and holds it *)
(* of a record that exists.                                                *)
(***************************************************************************)
OwnersAreAlone ==
    OneReservationPerKey /\ \A s \in Slots : owner[s] # {} => commands[s] # NoCommand

IndInv == TypeOK /\ OwnersAreAlone
=============================================================================
