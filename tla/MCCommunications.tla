-------------------------- MODULE MCCommunications --------------------------
(* Communications for TLC. A behaviour exercises one part, the one that     *)
(* "part" names, and leaves the state of the others as it began; c1 and c2   *)
(* act in every part.                                                        *)
EXTENDS CommunicationsDomain, TLC

CONSTANTS
    Parts,
    c1, c2,                                 \* connections, writers, callers
    voice, callback, any, r1, r2, s1, a1,   \* dispatch
    m1,                                     \* transitions
    k1, h1, h2                              \* commands

VARIABLE part

\* The two contracts of a reservation agree on every draft there is.
ASSUME ReservationContracts == Commands!ContractsAgree

InitOfPart == part \in Parts /\ Init /\ Dispatch!Init /\ Commands!Init

\* Two writers that race over the first two transitions of a communication, to
\* states that the table allows and that it forbids.
TwoWriters ==
    /\ Next
    /\ \A w \in Writers : draft'[w] # NoDraft =>
         /\ draft'[w].sequence <= 2
         /\ draft'[w].to \in {"requested", "policy_checking", "authorized", "blocked"}

\* One writer at a time that takes a communication through whole lifetimes.
WholeLifetimes ==
    /\ Next
    /\ \A m \in Communications : rows'[m].updatedAt = 0
    /\ Cardinality({w \in Writers : draft'[w] # NoDraft}) <= 1
    /\ \A w \in Writers : draft'[w] # NoDraft => draft'[w].occurredAt = 0

NextOfPart ==
    /\ UNCHANGED part
    /\ \/ part = "dispatch" /\ Dispatch!Next /\ UNCHANGED <<vars, commandVars>>
       \/ part = "writers" /\ TwoWriters /\ UNCHANGED <<dispatchVars, commandVars>>
       \/ part = "lifetimes" /\ WholeLifetimes /\ UNCHANGED <<dispatchVars, commandVars>>
       \/ part = "commands" /\ Commands!Next /\ UNCHANGED <<vars, dispatchVars>>

SpecOfPart == InitOfPart /\ [][NextOfPart]_<<part, vars, dispatchVars, commandVars>>

\* The ids of a table are interchangeable, and so are connections.
Symmetry == Permutations({c1, c2}) \cup Permutations({r1, r2})
=============================================================================
