----------------------- MODULE MigrationReconciliation -----------------------
(***************************************************************************)
(* reconcileMigration compares a migration's manifest with the schema that *)
(* is there and the ledger of applied migrations, and classifies what it   *)
(* finds.  The schema changes as migrations are applied statement by       *)
(* statement, stop half way, and as people alter it by hand.               *)
(***************************************************************************)
EXTENDS Integers, FiniteSets

CONSTANTS
    Scripts,        \* migration -> its set of statements
    Extras,         \* objects that no migration has
    MaxAlterations, \* bound on the changes by hand
    None

VARIABLES
    catalog,        \* the objects of the live schema
    recorded,       \* the ledger
    open,           \* migrations begun and not ended
    pending,        \* of each, the statements that have not run
    altered         \* changes by hand

vars == <<catalog, recorded, open, pending, altered>>

Migrations == DOMAIN Scripts

Init ==
    /\ catalog = {} /\ recorded = {} /\ open = {} /\ altered = 0
    /\ pending = [m \in Migrations |-> {}]

-----------------------------------------------------------------------------
\* A statement: what it creates, what it drops first, and whether the parser knows
\* it.  It lists what is created with IF NOT EXISTS or OR REPLACE and the triggers,
\* and none of the ALTER TABLE statements.
Listed(m) == {st \in Scripts[m] : st.listed}
Manifest(m) == UNION {st.creates : st \in Listed(m)}
AllObjects == UNION {Manifest(m) : m \in Migrations}

\* An object: its type, name, parent (or None) and normalised definition (None
\* where the metadata is not enough to tell).  Everything is in one schema, and a
\* constraint is named by what it says.
MakeKey(o) == <<o.type, o.parent, o.name>>
Keys(objects) == {MakeKey(o) : o \in objects}

HasDefinitionEvidence(o) == o.definition # None

CompareObjects(canonical, live) ==
    IF ~HasDefinitionEvidence(canonical) \/ ~HasDefinitionEvidence(live) THEN "UNKNOWN"
    ELSE IF canonical.definition = live.definition THEN "EXACT" ELSE "MISMATCHED"

TableScopedObjectTypes ==
    {"column", "primary_key", "foreign_key", "unique_constraint", "check_constraint", "index",
     "trigger", "policy", "comment", "row_level_security"}

GetTableScopeName(o) ==
    CASE o.type \in TableScopedObjectTypes /\ o.parent # None -> o.parent
      [] o.type \in {"comment", "row_level_security"} /\ o.parent = None -> o.name
      [] OTHER -> None

CollectCanonicalTables(objects) ==
    ({o.name : o \in {x \in objects : x.type = "table"}}
     \union {GetTableScopeName(o) : o \in objects}) \ {None}

IsWithinCanonicalScope(o, tables) == GetTableScopeName(o) \in tables

\* The schema as it is read: a table is defined by its columns, whoever made them.
\* (The code compares their list; the order is left out.)
ColumnsOf(objects, table) == {o.name : o \in {x \in objects : x.type = "column" /\ x.parent = table}}
AsRead(o) ==
    LET columns == ColumnsOf(catalog, o.name)
    IN  IF o.type # "table" THEN o
        ELSE [o EXCEPT !.definition = IF columns = {} THEN None ELSE columns]
Inventory == {AsRead(o) : o \in catalog}

\* The objects of the manifest that the schema answers in one way, or lacks.
Found(m, answer) ==
    {o \in Manifest(m) : \E l \in Inventory : MakeKey(l) = MakeKey(o) /\ CompareObjects(o, l) = answer}
Missing(m) == {o \in Manifest(m) : MakeKey(o) \notin Keys(Inventory)}

\* Objects in the tables of the manifest that neither it nor the known ones have.
ExtraScoped(m, known) ==
    {l \in Inventory : /\ MakeKey(l) \notin Keys(Manifest(m)) \union Keys(known)
                       /\ IsWithinCanonicalScope(l, CollectCanonicalTables(Manifest(m)))}

LedgerStatus(m) ==
    CASE m \in recorded -> "RECORDED"
      [] m \notin recorded /\ recorded # {} -> "NOT_RECORDED"
      [] OTHER -> "UNKNOWN"

Absent(m, known) == Missing(m) = Manifest(m) /\ ExtraScoped(m, known) = {}

ReconcileMigration(m, known) ==
    LET exact == Found(m, "EXACT") = Manifest(m) /\ ExtraScoped(m, known) = {}
        unknown == Found(m, "UNKNOWN") # {}
        partial == Missing(m) # {} /\ ~Absent(m, known)
        drift == Missing(m) = {} /\ (Found(m, "MISMATCHED") # {} \/ ExtraScoped(m, known) # {})
    IN  IF exact THEN IF LedgerStatus(m) = "RECORDED" THEN "ALREADY_APPLIED_AND_RECORDED"
                      ELSE "ALREADY_APPLIED_NOT_RECORDED"
        ELSE IF unknown THEN "BLOCKED"
        ELSE IF partial THEN "PARTIALLY_APPLIED"
        ELSE IF drift THEN "SCHEMA_DRIFT"
        ELSE IF Absent(m, known) THEN "NOT_APPLIED"
        ELSE "UNDETERMINED"     \* BLOCKED too, with another evidence

-----------------------------------------------------------------------------
(* The database, which only migrations and people change. *)

TableIsThere(o, objects) ==
    GetTableScopeName(o) \in {None} \union {t.name : t \in {x \in objects : x.type = "table"}}

Begin(m) ==
    /\ m \notin recorded \union open
    /\ open' = open \union {m}
    /\ pending' = [pending EXCEPT ![m] = Scripts[m]]
    /\ UNCHANGED <<catalog, recorded, altered>>

\* What a statement does: one that drops something makes it anew, and any other
\* does nothing where it finds what it would create.
Outcome(st) ==
    IF st.drops # {} THEN {o \in catalog : MakeKey(o) \notin Keys(st.drops \union st.creates)} \union st.creates
    ELSE IF Keys(st.creates) \intersect Keys(catalog) # {} THEN catalog
    ELSE catalog \union st.creates

Run(m, st) ==
    /\ m \in open /\ st \in pending[m]
    /\ \A o \in st.creates : TableIsThere(o, catalog \union st.creates)
    /\ catalog' = Outcome(st)
    /\ pending' = [pending EXCEPT ![m] = pending[m] \ {st}]
    /\ UNCHANGED <<recorded, open, altered>>

\* The ledger's row is written last, and may be lost.
End(m) ==
    /\ m \in open /\ pending[m] = {}
    /\ open' = open \ {m}
    /\ \/ recorded' = recorded \union {m}
       \/ UNCHANGED recorded
    /\ UNCHANGED <<catalog, pending, altered>>

\* By hand: an object is dropped, a table with all that is in it, and any other is
\* redefined or added.
Alter ==
    /\ altered < MaxAlterations
    /\ altered' = altered + 1
    /\ \/ \E o \in catalog :
              catalog' = {l \in catalog \ {o} : o.type = "table" => GetTableScopeName(l) # o.name}
       \/ \E o \in catalog, d \in {{"other"}, None} :
              o.type # "table" /\ catalog' = (catalog \ {o}) \union {[o EXCEPT !.definition = d]}
       \/ \E o \in Extras : /\ MakeKey(o) \notin Keys(catalog) /\ TableIsThere(o, catalog)
                            /\ catalog' = catalog \union {o}
    /\ UNCHANGED <<recorded, open, pending>>

Next ==
    \/ \E m \in Migrations : Begin(m) \/ End(m) \/ \E st \in Scripts[m] : Run(m, st)
    \/ Alter

Spec == Init /\ [][Next]_vars

-----------------------------------------------------------------------------
\* What the proofs assume of the statements: each creates something, one the parser
\* knows drops only what it makes anew, and what it lists has a definition, a
\* table's being the set of its columns.
IsObject(o) ==
    o = [type |-> o.type, name |-> o.name, parent |-> o.parent, definition |-> o.definition]

ConstantsAssumed ==
    /\ \A o \in Extras : IsObject(o)
    /\ \A m \in Migrations : \A st \in Scripts[m] :
           /\ st.creates # {} /\ \A o \in st.creates : IsObject(o)
           /\ st.listed => Keys(st.drops) \subseteq Keys(st.creates)
    /\ \A m \in Migrations : \A o \in Manifest(m) :
           /\ HasDefinitionEvidence(o)
           /\ o.type = "table" => /\ o.definition = ColumnsOf(Manifest(m), o.name)
                                  /\ o.definition # {}
    /\ MaxAlterations \in Nat

\* What the report lets be done is safe in the schema there is: a migration that
\* may be applied has none of its objects there, one that needs only its ledger
\* row has every one as defined and nothing unknown in its tables, and one that
\* stopped half way is reported as neither.
ReportIsSafe ==
    \A m \in Migrations, known \in {Manifest(n) : n \in Migrations} \union {AllObjects} :
        Manifest(m) \subseteq known =>
        LET report == ReconcileMigration(m, known)
            there == Keys(Manifest(m)) \intersect Keys(Inventory)
        IN  /\ report = "NOT_APPLIED" =>
                   /\ there = {}
                   /\ \A l \in Inventory :
                          GetTableScopeName(l) \in CollectCanonicalTables(Manifest(m))
                              => MakeKey(l) \in Keys(known)
            /\ report \in {"ALREADY_APPLIED_AND_RECORDED", "ALREADY_APPLIED_NOT_RECORDED"} =>
                   Manifest(m) \subseteq Inventory
            /\ (there # {} /\ there # Keys(Manifest(m))) =>
                   report \in {"PARTIALLY_APPLIED", "BLOCKED"}
            /\ report # "UNDETERMINED"

\* A migration that no statement reaches into, its own aside: none creates or drops
\* one of its objects or adds a column to its tables, and what a statement puts
\* into its tables some manifest lists.  0018 drops a check of 0017, which is
\* therefore not untouched, and is reported as partly applied once 0018 has run.
Reaches(st, m) ==
    \/ Keys(st.creates \union st.drops) \intersect Keys(Manifest(m)) # {}
    \/ \E p \in st.creates : /\ p.type = "column"
                             /\ p.parent \in {o.name : o \in {x \in Manifest(m) : x.type = "table"}}
    \/ \E p \in st.creates : /\ GetTableScopeName(p) \in CollectCanonicalTables(Manifest(m))
                             /\ MakeKey(p) \notin Keys(AllObjects)
Untouched(m) ==
    /\ \A n \in Migrations : \A st \in Scripts[n] : n # m \/ ~st.listed => ~Reaches(st, m)
    /\ \A st, other \in Listed(m) : \A o \in st.creates, p \in other.creates :
           MakeKey(o) = MakeKey(p) => st = other /\ o = p

\* A schema that only complete migrations made is reported as it is, whatever
\* order they were applied in: an untouched one as applied, or as not applied.
CleanHistoryIsClean ==
    (altered = 0 /\ open = {}) =>
        \A m \in Migrations : Untouched(m) =>
            ReconcileMigration(m, AllObjects) =
                IF m \in recorded THEN "ALREADY_APPLIED_AND_RECORDED"
                ELSE IF Manifest(m) \subseteq Inventory THEN "ALREADY_APPLIED_NOT_RECORDED"
                ELSE "NOT_APPLIED"

\* Without a change by hand, what is there some statement created, a statement of
\* an untouched migration has run as a whole or not at all, and of a migration
\* that is not open all have or none, all where the ledger has it.
WholeMigrations ==
    altered = 0 =>
        /\ \A o \in catalog : \E n \in Migrations : \E st \in Scripts[n] : o \in st.creates
        /\ \A m \in Migrations : Untouched(m) =>
               /\ \A st \in Listed(m) :
                      \/ st.creates \subseteq catalog
                      \/ /\ st.creates \intersect catalog = {}
                         /\ m \notin recorded /\ (m \in open => st \in pending[m])
               /\ \/ m \in open
                  \/ Manifest(m) \subseteq catalog
                  \/ Manifest(m) \intersect catalog = {}

IndInv ==
    /\ (\A o \in catalog : IsObject(o)) /\ altered \in Nat
    /\ recorded \subseteq Migrations /\ open \subseteq Migrations
    /\ pending \in [Migrations -> SUBSET UNION {Scripts[m] : m \in Migrations}]
    /\ WholeMigrations

\* The report on a migration is sound, once there is anything to report on
\* (reconcileMigration).
ReconciliationIsSound ==
    (catalog # {} \/ recorded # {}) => ReportIsSafe /\ CleanHistoryIsClean
=============================================================================
