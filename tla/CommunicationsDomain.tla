----------------------- MODULE CommunicationsDomain -----------------------
(***************************************************************************)
(* The communications domain and its data model: the transition log, which *)
(* is the module it extends, the dispatch of communications under consent  *)
(* and suppression, and the idempotent commands.  Each has its tables, its *)
(* triggers and its callers, and none reads the tables of another.         *)
(***************************************************************************)
EXTENDS CommunicationTransitions

CONSTANTS
    Connections, Channels, Purposes, Wildcard, ReceiptIds, SuppressionIds, AttemptIds,
    PolicyEnd, MaxClock, MaxTxns,                       \* dispatch
    Callers, Keys, Hashes, Tenants, UsedOperations, UsedChannels, MaxSubmits  \* commands

VARIABLES
    clock, receipts, suppressions, audits, attempts, held, txn, started,
    commands, reply, owner, authority, submits, event

dispatchVars == <<clock, receipts, suppressions, audits, attempts, held, txn, started>>
commandVars == <<commands, reply, owner, authority, submits, event>>

Dispatch == INSTANCE CommunicationsDispatch WITH Clients <- Connections

Commands == INSTANCE CommunicationsCommands WITH Clients <- Callers

\* What the proofs assume of the constants of dispatch.
ASSUME DispatchConstants == Dispatch!ConstantsAssumed

\* The channels that commands name are channels of the domain package.
ASSUME ChannelsAreKnown == UsedChannels \subseteq Commands!CommunicationChannels

\* CommunicationsDispatch, CommunicationsCommands: the tables are well formed and
\* each key has one reservation.
RecordsAreSound == Dispatch!TypeOK /\ Commands!CommandsAreSound

\* CommunicationsDispatch: nothing is queued but what consent, suppressions and
\* revocations permit as of the start of the transaction, whatever commits in
\* between.
DispatchIsPermitted == Dispatch!DispatchIsPermitted

\* CommunicationsCommands: the result of a command that ended is kept.
ResultIsFinal == Commands!ResultIsFinal
=============================================================================
