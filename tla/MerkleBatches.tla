----------------------------- MODULE MerkleBatches -----------------------------
(***************************************************************************)
(* Merkle batches of packages/trust (merkle.ts): a tenant's digests are    *)
(* sorted, repeated ones refused, and hashed pairwise up to one root, the  *)
(* last node of an odd level with itself.  A proof lists the siblings on   *)
(* the way up.  Batches and proofs are stored (migration 0017); anybody    *)
(* may present a proof, to a caller who has the batch or to the trust API, *)
(* which has not.  Hashes are the material they cover.                     *)
(***************************************************************************)
EXTENDS Integers, Sequences, SequencesExt, FiniteSets

CONSTANTS Tenants, BatchIds, Leaves, MaxLeaves

VARIABLE batches        \* the stored batches

HashLeaf(tenant, leaf) == <<"leaf", tenant, leaf>>
HashNode(tenant, left, right) == <<"node", tenant, left, right>>

\* Not empty and, once sorted, without repetition.
ValidLeaves(list) == list # <<>> /\ \A i, j \in DOMAIN list : i # j => list[i] # list[j]

SortLeaves(list) == SortSeq(list, LAMBDA a, b : a < b)

\* One level up: pairs are hashed, and the last of an odd level with itself.
NextLevel(tenant, level) ==
    [i \in 1..((Len(level) + 1) \div 2) |->
        HashNode(tenant, level[2 * i - 1],
                 IF 2 * i <= Len(level) THEN level[2 * i] ELSE level[2 * i - 1])]

RECURSIVE LevelsFrom(_, _)

LevelsFrom(tenant, level) ==
    IF Len(level) = 1 THEN <<level>>
    ELSE <<level>> \o LevelsFrom(tenant, NextLevel(tenant, level))

LevelsFor(tenant, list) ==
    LevelsFrom(tenant, [i \in DOMAIN list |-> HashLeaf(tenant, list[i])])

Root(tenant, list) == Last(LevelsFor(tenant, list))[1]

\* The sibling of a node (0-based, as in the code), or the node itself at the
\* end of an odd level.
Sibling(level, index) ==
    LET sibling == IF index % 2 = 1 THEN index - 1 ELSE index + 1
    IN  IF sibling < Len(level) THEN level[sibling + 1] ELSE level[index + 1]

Position(index) == IF index % 2 = 1 THEN "left" ELSE "right"

CreateMerkleProof(batch, leaf) ==
    LET index  == (CHOOSE i \in DOMAIN batch.leaves : batch.leaves[i] = leaf) - 1
        levels == LevelsFor(batch.tenant, batch.leaves)
        step(l) == LET at == index \div 2^(l - 1)
                   IN  [sibling |-> Sibling(levels[l], at), position |-> Position(at)]
    IN  [tenant |-> batch.tenant, batchId |-> batch.id, leaf |-> leaf, index |-> index,
         root |-> batch.root, steps |-> [l \in 1..(Len(levels) - 1) |-> step(l)]]

RECURSIVE ClimbFrom(_, _, _, _)

ClimbFrom(tenant, current, index, steps) ==
    IF steps = <<>> THEN [hash |-> current, index |-> index, ok |-> TRUE]
    ELSE IF steps[1].position # Position(index)
    THEN [hash |-> current, index |-> index, ok |-> FALSE]
    ELSE ClimbFrom(tenant,
                   IF steps[1].position = "left"
                   THEN HashNode(tenant, steps[1].sibling, current)
                   ELSE HashNode(tenant, current, steps[1].sibling),
                   index \div 2, Tail(steps))

\* verifyMerkleProof without a batch, as the trust API calls it.
VerifyMerkleProof(proof, tenant) ==
    LET top == ClimbFrom(proof.tenant, HashLeaf(proof.tenant, proof.leaf),
                         proof.index, proof.steps)
    IN  /\ proof.tenant = tenant
        /\ top.ok /\ top.index = 0
        /\ top.hash = proof.root

\* MUTANT: only the name of the batch is compared.
MatchesBatchId(proof, batch) == proof.batchId = batch.id

\* The comparison with the batch, when the caller has it.
MatchesBatch(proof, batch) ==
    /\ proof.batchId = batch.id
    /\ proof.root = batch.root
    /\ proof.index + 1 \in DOMAIN batch.leaves
    /\ proof.leaf = batch.leaves[proof.index + 1]

VerifyWithBatch(proof, batch) ==
    VerifyMerkleProof(proof, batch.tenant) /\ MatchesBatch(proof, batch)

-------------------------------------------------------------------------------
Init == batches = {}

CreateMerkleBatch(tenant, id, list) ==
    LET sorted == SortLeaves(list)
    IN  /\ ValidLeaves(list)
        /\ \A b \in batches : b.id # id
        /\ batches' = batches \cup
              {[tenant |-> tenant, id |-> id, leaves |-> sorted, root |-> Root(tenant, sorted)]}

Next ==
    \E tenant \in Tenants, id \in BatchIds, list \in SeqOf(Leaves, MaxLeaves) :
        CreateMerkleBatch(tenant, id, list)

Spec == Init /\ [][Next]_batches

-------------------------------------------------------------------------------
(* Proofs somebody may present: those made for the stored batches, and each
   of them with one part taken from elsewhere. *)

Made == UNION {{CreateMerkleProof(b, leaf) : leaf \in Range(b.leaves)} : b \in batches}

Altered(p) ==
         {[p EXCEPT !.leaf = v] : v \in Leaves}
    \cup {[p EXCEPT !.index = v] : v \in 0..MaxLeaves}
    \cup {[p EXCEPT !.tenant = v] : v \in Tenants}
    \cup {[p EXCEPT !.steps = SubSeq(p.steps, 1, n)] : n \in 0..Len(p.steps)}
    \cup {[p EXCEPT !.root = HashLeaf(p.tenant, p.leaf), !.steps = <<>>, !.index = 0]}
    \cup {[p EXCEPT !.batchId = v] : v \in BatchIds}

Presented == UNION {{p} \cup Altered(p) : p \in Made}

\* Every leaf of every stored batch has a proof that verifies against the batch
\* and without it, odd levels included (createMerkleProof, verifyMerkleProof).
EveryLeafProves ==
    \A b \in batches : \A leaf \in Range(b.leaves) :
        VerifyWithBatch(CreateMerkleProof(b, leaf), b)

\* A proof accepted for a stored batch is the one made for that leaf at that
\* place: no other leaf, index, tenant, shortened path or root passes.
OnlyMadeProofsPass ==
    \A b \in batches : \A p \in Presented :
        VerifyWithBatch(p, b) =>
            /\ p.leaf \in Range(b.leaves)
            /\ p = CreateMerkleProof(b, p.leaf)

\* A root commits to its batch: two stored batches with one root belong to one
\* tenant and hold the same leaves, although an odd level repeats its last
\* node (validateLeaves refuses repeated leaves, the hashes name the tenant).
RootCommitsToLeaves ==
    \A b, c \in batches :
        b.root = c.root => b.tenant = c.tenant /\ b.leaves = c.leaves

\* Every leaf of a stored batch has its proof, no other proof passes, and a root
\* stands for one batch (createMerkleBatch, createMerkleProof, verifyMerkleProof).
BatchesAreSound == EveryLeafProves /\ OnlyMadeProofsPass /\ RootCommitsToLeaves
===============================================================================
