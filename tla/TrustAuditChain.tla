---------------------------- MODULE TrustAuditChain ----------------------------
(***************************************************************************)
(* The hash-linked audit stream of packages/trust (audit-chain.ts): a      *)
(* writer reads the stored entries, builds the next one and inserts it;    *)
(* the insert trigger of migration 0017 takes an advisory lock and admits  *)
(* it only as the successor of the newest row.  Anybody may later present  *)
(* a list of entries to verifyAuditChain, from the start of the stream or  *)
(* from a checkpoint they trust.  Digests are the material they cover.     *)
(***************************************************************************)
EXTENDS Integers, Sequences, SequencesExt, FiniteSets

CONSTANTS
    Writers, Streams, Events,
    EventStream,        \* [Events -> Streams]
    IdempotencyKey,     \* [Events -> a key]
    MaxEntries,         \* auditChainVerificationLimits.maxEntries
    NoDigest            \* the digest before the first entry

VARIABLES
    chain,      \* [Streams -> the stored entries, in order]
    draft,      \* [Writers -> the entries built and not yet inserted]
    built       \* every entry a writer ever built, stored or not

vars == <<chain, draft, built>>

NoCheckpoint == [sequence |-> 0, digest |-> NoDigest]

EntryDigest(entry) == [f \in DOMAIN entry \ {"digest"} |-> entry[f]]

Entry(sequence, previous, event, stream, checkpoint) ==
    LET base == [sequence |-> sequence, previous |-> previous, event |-> event,
                 stream |-> stream, checkpoint |-> checkpoint, digest |-> NoDigest]
    IN  [base EXCEPT !.digest = EntryDigest(base)]

\* The first entry continues the checkpoint, or begins the stream.
BeginsAt(entry, checkpoint) ==
    /\ entry.checkpoint = checkpoint
    /\ entry.sequence = checkpoint.sequence + 1
    /\ entry.previous = checkpoint.digest

\* Each entry is the successor of the one before it.
Follows(entry, prior) ==
    /\ entry.sequence = prior.sequence + 1
    /\ entry.previous = prior.digest

NoReplay(entries) ==
    \A i, j \in DOMAIN entries :
        i # j => /\ entries[i].event # entries[j].event
                 /\ IdempotencyKey[entries[i].event] # IdempotencyKey[entries[j].event]

\* verifyAuditChain, with the options its callers give it.
VerifyAuditChain(entries, stream, checkpoint) ==
    /\ Len(entries) <= MaxEntries
    /\ NoReplay(entries)
    /\ entries # <<>> => BeginsAt(entries[1], checkpoint)
    /\ \A i \in 2..Len(entries) : Follows(entries[i], entries[i - 1])
    /\ \A i \in DOMAIN entries :
          /\ entries[i].stream = stream
          /\ EventStream[entries[i].event] = entries[i].stream
          /\ EntryDigest(entries[i]) = entries[i].digest

-------------------------------------------------------------------------------
Init ==
    /\ chain = [s \in Streams |-> <<>>]
    /\ draft = [w \in Writers |-> <<>>]
    /\ built = {}

\* appendAuditChainEntry over the entries read from the table.
AppendAuditChainEntry(entries, stream, event) ==
    IF entries = <<>>
    THEN Entry(1, NoDigest, event, stream, NoCheckpoint)
    ELSE Entry(Last(entries).sequence + 1, Last(entries).digest, event, stream, NoCheckpoint)

Prepare(w, event) ==
    LET stream == EventStream[event]
        entry  == AppendAuditChainEntry(chain[stream], stream, event)
    IN  /\ draft[w] = <<>>
        /\ VerifyAuditChain(chain[stream], stream, NoCheckpoint)
        /\ \A i \in DOMAIN chain[stream] : chain[stream][i].event # event
        /\ draft' = [draft EXCEPT ![w] = <<entry>>]
        /\ built' = built \cup {entry}
        /\ UNCHANGED chain

\* MUTANT: the trigger compares sequence numbers only.
AppendAllowedBySequence(entry) ==
    LET rows == chain[entry.stream]
    IN  IF rows = <<>> THEN TRUE ELSE entry.sequence >= Last(rows).sequence

\* The trigger and the unique constraints on the table.
AppendAllowed(entry) ==
    LET rows == chain[entry.stream]
    IN  /\ IF rows = <<>> THEN BeginsAt(entry, NoCheckpoint) ELSE Follows(entry, Last(rows))
        /\ \A i \in DOMAIN rows : rows[i].event # entry.event
        /\ \A s \in Streams : \A i \in DOMAIN chain[s] :
              IdempotencyKey[chain[s][i].event] # IdempotencyKey[entry.event]

Insert(w) ==
    /\ draft[w] # <<>>
    /\ AppendAllowed(draft[w][1])
    /\ chain' = [chain EXCEPT ![draft[w][1].stream] = Append(@, draft[w][1])]
    /\ draft' = [draft EXCEPT ![w] = <<>>]
    /\ UNCHANGED built

\* The insert is refused and the transaction rolls back.
Refuse(w) ==
    /\ draft[w] # <<>>
    /\ ~AppendAllowed(draft[w][1])
    /\ draft' = [draft EXCEPT ![w] = <<>>]
    /\ UNCHANGED <<chain, built>>

Next ==
    \/ \E w \in Writers, event \in Events : Prepare(w, event)
    \/ \E w \in Writers : Insert(w) \/ Refuse(w)

Spec == Init /\ [][Next]_vars

-------------------------------------------------------------------------------
(* Lists somebody may present: entries that were really built, in any order and
   number (a list that does not begin at the start is refused by BeginsAt), and
   the stored stream with the content of an entry changed. *)

Heads(s) == {chain[s][i].digest : i \in DOMAIN chain[s]}

Forged(entries) ==
    UNION {{[entries EXCEPT ![i].event = ev] : ev \in Events}
           \cup {[entries EXCEPT ![i].event = ev,
                     ![i].digest = EntryDigest([entries[i] EXCEPT !.event = ev])] : ev \in Events}
             : i \in DOMAIN entries}

Presented ==
    {l \in SeqOf(built, 3) : l # <<>> /\ l[1].sequence = 1}
    \cup UNION {Forged(chain[s]) : s \in Streams}

-------------------------------------------------------------------------------
(* Properties *)

\* The stored rows and the drafts are entries with their own digest
\* (appendAuditChainEntry).
TypeOK ==
    /\ \A e \in built : e.digest = EntryDigest(e) /\ e.stream = EventStream[e.event]
    /\ \A s \in Streams : Range(chain[s]) \subseteq built
    /\ \A w \in Writers : Len(draft[w]) <= 1 /\ Range(draft[w]) \subseteq built

\* However two writers that read the same rows interleave, the stored stream is
\* one that verifyAuditChain accepts: no fork, no gap, no event twice
\* (enforce_trust_audit_append_v1 behind appendAuditChainEntry).
StoredStreamVerifies ==
    \A s \in Streams :
        Len(chain[s]) <= MaxEntries => VerifyAuditChain(chain[s], s, NoCheckpoint)

\* A list that verifies and ends at a digest the stream really had is a prefix
\* of the stream: none left out, reordered, exchanged, altered or added.
AcceptedIsPrefix ==
    \A s \in Streams : \A entries \in Presented :
        (entries # <<>> /\ Last(entries).digest \in Heads(s)
           /\ VerifyAuditChain(entries, s, NoCheckpoint))
        => IsPrefix(entries, chain[s])

\* The stored streams verify whatever writers race, and what verifies up to a
\* head of a stream is that stream (appendAuditChainEntry, verifyAuditChain).
ChainIsSound == TypeOK /\ StoredStreamVerifies /\ AcceptedIsPrefix

-------------------------------------------------------------------------------
(* The inductive invariant: an entry is its digest's only preimage, and the
   stored entries of a stream are numbered from 1 and linked. *)

\* What the proofs assume of the constants.
ConstantsAssumed == EventStream \in [Events -> Streams]

\* A record that appendAuditChainEntry builds.
IsEntry(e) ==
    /\ e = [sequence |-> e.sequence, previous |-> e.previous, event |-> e.event,
            stream |-> e.stream, checkpoint |-> e.checkpoint, digest |-> e.digest]
    /\ e.sequence \in Nat /\ e.event \in Events
    /\ e.digest = EntryDigest(e) /\ e.stream = EventStream[e.event]

EntriesAreWhole ==
    /\ \A e \in built : IsEntry(e)
    /\ chain \in [Streams -> Seq(built)]
    /\ draft \in [Writers -> {<<>>} \cup {<<e>> : e \in built}]

LinkedInOrder ==
    \A s \in Streams : \A i \in DOMAIN chain[s] :
        /\ chain[s][i].stream = s /\ chain[s][i].sequence = i
        /\ i = 1 => BeginsAt(chain[s][i], NoCheckpoint)
        /\ i > 1 => Follows(chain[s][i], chain[s][i - 1])

IndInv == EntriesAreWhole /\ LinkedInOrder /\ \A s \in Streams : NoReplay(chain[s])
===============================================================================
