--------------------------- MODULE SettingsStore ---------------------------
(***************************************************************************)
(* Saving a settings snapshot (persistSettingsSnapshot), the tables it     *)
(* fills (migration 0014), the cache in front of them and the audit trail  *)
(* that is kept of the saves.                                              *)
(*                                                                         *)
(* A save is one statement per row, in a fixed order and without a         *)
(* transaction: tenant, assets, brand profile, card profile, receptionist  *)
(* settings.  Each statement is an upsert that commits by itself.  A save  *)
(* may stop after any of them.  Saves of one tenant overlap freely, and    *)
(* the rows of one table may come from another save than those of the      *)
(* next.                                                                   *)
(***************************************************************************)
EXTENDS Naturals, Sequences, FiniteSets, SequencesExt

CONSTANTS
  Snapshots,     \* what may be saved: tenant, assets, card
  Savers,
  MaxSaves,      \* bound on the saves
  MaxClock,      \* bound on the clock of the cache
  CacheKeys,     \* keys in use: tenant, card, kind
  Ttl,
  Events,        \* audit events: id, tenant, card, time and snapshot hash
  MaxEvents,     \* bound on the events that are appended
  None

VARIABLES
  tenants, assets, brands, cards, receptionists,   \* the tables; a row names its save
  saves, pc, job,
  cache, clock, freshness,
  trail, appended

tablesVars == <<tenants, assets, brands, cards, receptionists>>
saveVars == <<tenants, assets, brands, cards, receptionists, saves, pc, job>>
cacheVars == <<cache, clock, freshness>>
trailVars == <<trail, appended>>
vars == <<tenants, assets, brands, cards, receptionists, saves, pc, job,
          cache, clock, freshness, trail, appended>>

TenantIds == {s.tenant : s \in Snapshots}
AssetIds == UNION {s.assets : s \in Snapshots}
CardIds == {s.card : s \in Snapshots}

NoJob == [snapshot |-> None, save |-> 0, todo |-> {}]

Init ==
  /\ tenants = [t \in TenantIds |-> 0]
  /\ assets = [a \in AssetIds |-> None]
  /\ brands = [t \in TenantIds |-> 0]
  /\ cards = [c \in CardIds |-> None]
  /\ receptionists = [t \in TenantIds |-> 0]
  /\ saves = <<>>
  /\ pc = [p \in Savers |-> "idle"]
  /\ job = [p \in Savers |-> NoJob]
  /\ cache = {} /\ clock = 0 /\ freshness = {}
  /\ trail = <<>> /\ appended = <<>>

-----------------------------------------------------------------------------
(***************************************************************************)
(* persistSettingsSnapshot                                                 *)
(***************************************************************************)
GoTo(p, step) == pc' = [pc EXCEPT ![p] = step]

\* saves[n] remembers how the n-th save ended.
StartSave(p) ==
  /\ pc[p] = "idle"
  /\ Len(saves) < MaxSaves
  /\ \E s \in Snapshots :
       /\ job' = [job EXCEPT ![p] = [snapshot |-> s, save |-> Len(saves) + 1, todo |-> s.assets]]
       /\ saves' = Append(saves, [snapshot |-> s, end |-> "running", rivals |-> {job[q].save : q \in Savers} \ {0}])
  /\ GoTo(p, "tenant")
  /\ UNCHANGED <<tablesVars, cacheVars, trailVars>>

End(p, how) ==
  /\ GoTo(p, "idle")
  /\ saves' = [saves EXCEPT ![job[p].save].end = how]
  /\ job' = [job EXCEPT ![p] = NoJob]

SaveTenant(p) ==
  /\ pc[p] = "tenant"
  /\ tenants' = [tenants EXCEPT ![job[p].snapshot.tenant] = job[p].save]
  /\ GoTo(p, "assets")
  /\ UNCHANGED <<assets, brands, cards, receptionists, saves, job, cacheVars, trailVars>>

\* Mutant: the upsert has no condition on the tenant.
UpsertForAnyone(row, tenant, save) == [tenant |-> tenant, save |-> save]

\* ON CONFLICT DO UPDATE ... WHERE the row's tenant is the same: the row it
\* leaves.  A row of another tenant stays and is not returned, which throws.
Upsert(row, tenant, save) ==
  IF row = None THEN [tenant |-> tenant, save |-> save]
  ELSE IF row.tenant = tenant THEN [row EXCEPT !.save = save]
  ELSE row

SaveBrandAsset(p) ==
  /\ pc[p] = "assets"
  /\ \E a \in job[p].todo :
       LET row == Upsert(assets[a], job[p].snapshot.tenant, job[p].save) IN
       /\ \A b \in job[p].todo : a <= b
       /\ assets' = [assets EXCEPT ![a] = row]
       /\ IF row.tenant = job[p].snapshot.tenant
            THEN job' = [job EXCEPT ![p].todo = @ \ {a}] /\ UNCHANGED <<pc, saves>>
            ELSE End(p, "conflict")
  /\ UNCHANGED <<tenants, brands, cards, receptionists, cacheVars, trailVars>>

SaveTenantBrandProfile(p) ==
  /\ pc[p] = "assets" /\ job[p].todo = {}
  /\ brands' = [brands EXCEPT ![job[p].snapshot.tenant] = job[p].save]
  /\ GoTo(p, "card")
  /\ UNCHANGED <<tenants, assets, cards, receptionists, saves, job, cacheVars, trailVars>>

SaveExecutiveCardProfile(p) ==
  LET s == job[p].snapshot
      row == Upsert(cards[s.card], s.tenant, job[p].save) IN
  /\ pc[p] = "card"
  /\ cards' = [cards EXCEPT ![s.card] = row]
  /\ IF row.tenant = s.tenant
       THEN GoTo(p, "receptionist") /\ UNCHANGED <<job, saves>>
       ELSE End(p, "conflict")
  /\ UNCHANGED <<tenants, assets, brands, receptionists, cacheVars, trailVars>>

SaveReceptionistSettings(p) ==
  /\ pc[p] = "receptionist"
  /\ receptionists' = [receptionists EXCEPT ![job[p].snapshot.tenant] = job[p].save]
  /\ End(p, "saved")
  /\ UNCHANGED <<tenants, assets, brands, cards, cacheVars, trailVars>>

\* The connection or the process fails between two statements.
StopSave(p) ==
  /\ pc[p] # "idle"
  /\ End(p, "stopped")
  /\ UNCHANGED <<tablesVars, cacheVars, trailVars>>

-----------------------------------------------------------------------------
(***************************************************************************)
(* createSettingsCache.  Keys are strings put together from tenant, card,  *)
(* kind and version with colons; invalidation goes by prefix.  An id may    *)
(* hold a colon itself, and then two keys may be the same string.  An entry *)
(* remembers the key whose value it holds.                                 *)
(***************************************************************************)
MakeSettingsCacheKey(k) == k.tenant \o <<":">> \o k.card \o <<":", k.kind, ":", "current">>

CardPrefix(k) == k.tenant \o <<":">> \o k.card \o <<":">>
TenantPrefix(k) == k.tenant \o <<":">>

\* freshness holds the keys that were set and not invalidated or expired since.
CacheSet(k) ==
  /\ cache' = {e \in cache : e.key # MakeSettingsCacheKey(k)} \cup
              {[key |-> MakeSettingsCacheKey(k), of |-> k, expires |-> clock + Ttl]}
  /\ freshness' = freshness \cup {[of |-> k, until |-> clock + Ttl]}
  /\ UNCHANGED <<clock, saveVars, trailVars>>

\* A read that finds an expired entry deletes it.
CacheGet(k) ==
  /\ \E e \in cache : e.key = MakeSettingsCacheKey(k) /\ e.expires <= clock
  /\ cache' = {e \in cache : e.key # MakeSettingsCacheKey(k)}
  /\ UNCHANGED <<clock, freshness, saveVars, trailVars>>

InvalidateCard(k) ==
  /\ cache' = {e \in cache : ~IsPrefix(CardPrefix(k), e.key)}
  /\ freshness' = {f \in freshness : f.of.tenant # k.tenant \/ f.of.card # k.card}
  /\ UNCHANGED <<clock, saveVars, trailVars>>

InvalidateTenant(k) ==
  /\ cache' = {e \in cache : ~IsPrefix(TenantPrefix(k), e.key)}
  /\ freshness' = {f \in freshness : f.of.tenant # k.tenant}
  /\ UNCHANGED <<clock, saveVars, trailVars>>

Tick ==
  /\ clock < MaxClock
  /\ clock' = clock + 1
  /\ UNCHANGED <<cache, freshness, saveVars, trailVars>>

Hit(k) == \E e \in cache : e.key = MakeSettingsCacheKey(k) /\ e.expires > clock

-----------------------------------------------------------------------------
(***************************************************************************)
(* createSettingsAuditTrail and appendSettingsAuditEvents                  *)
(***************************************************************************)
Before(e, f) == e.at < f.at \/ (e.at = f.at /\ e.id <= f.id)

LastOf(events, id) ==
  LET positions == {i \in DOMAIN events : events[i].id = id} IN
  events[CHOOSE i \in positions : \A j \in positions : j <= i]

\* Duplicates are dropped, the last of an id stays; then time and id decide.
NormalizeEvents(events) ==
  SetToSortSeq({LastOf(events, e.id) : e \in Range(events)}, Before)

LatestSnapshotHash(events) ==
  LET hashed == SelectSeq(events, LAMBDA e : e.hash # None) IN
  IF hashed = <<>> THEN None ELSE hashed[Len(hashed)].hash

\* An event of another card throws; the trail stays as it was.
AppendSettingsAuditEvents(e) ==
  /\ Len(appended) < MaxEvents
  /\ appended' = Append(appended, e)
  /\ trail' = IF trail # <<>> /\ trail[1].card # e.card THEN trail
              ELSE NormalizeEvents(Append(trail, e))
  /\ UNCHANGED <<saveVars, cacheVars>>

-----------------------------------------------------------------------------
SaveStep(p) ==
  \/ StartSave(p) \/ SaveTenant(p) \/ SaveBrandAsset(p) \/ SaveTenantBrandProfile(p)
  \/ SaveExecutiveCardProfile(p) \/ SaveReceptionistSettings(p) \/ StopSave(p)

Next ==
  \/ \E p \in Savers : SaveStep(p)
  \/ \E k \in CacheKeys : CacheSet(k) \/ CacheGet(k) \/ InvalidateCard(k) \/ InvalidateTenant(k)
  \/ Tick
  \/ \E e \in Events : AppendSettingsAuditEvents(e)

Spec == Init /\ [][Next]_vars

-----------------------------------------------------------------------------
(***************************************************************************)
(* Properties                                                              *)
(***************************************************************************)
\* A row belongs to the tenant of the save that wrote it last.
RowsStayWithTheirTenant ==
  /\ \A a \in AssetIds : assets[a] # None =>
       assets[a].tenant = saves[assets[a].save].snapshot.tenant
  /\ \A c \in CardIds : cards[c] # None =>
       cards[c].tenant = saves[cards[c].save].snapshot.tenant

\* A row that a save has written means that the rows before it were written, by
\* this save or by one that has overtaken it.
LaterRowsFollowEarlierOnes ==
  \A t \in TenantIds :
    /\ receptionists[t] > 0 => \E c \in CardIds : cards[c] # None /\ cards[c].tenant = t
    /\ receptionists[t] > 0 => brands[t] > 0
    /\ brands[t] > 0 => /\ tenants[t] > 0
                        /\ \A a \in saves[brands[t]].snapshot.assets :
                             assets[a] # None /\ assets[a].tenant = t

\* The save n ran alone: none was running when it began and none began until it ended.
RanAlone(n) ==
  /\ saves[n].rivals = {}
  /\ \A m \in 1..Len(saves) : n \notin saves[m].rivals

LastSaveOf(t) ==
  LET ns == {n \in 1..Len(saves) : saves[n].snapshot.tenant = t} IN
  IF ns = {} THEN 0 ELSE CHOOSE n \in ns : \A m \in ns : m <= n

LoneSaveIsWhole ==
  \A t \in TenantIds :
    LET n == LastSaveOf(t) IN
    (n > 0 /\ saves[n].end = "saved" /\ RanAlone(n)
      /\ \A m \in 1..Len(saves) : saves[m].snapshot.tenant = t => saves[m].end # "running") =>
      LET s == saves[n].snapshot IN
      /\ tenants[t] = n /\ brands[t] = n /\ receptionists[t] = n
      /\ cards[s.card] = [tenant |-> t, save |-> n]
      /\ \A a \in s.assets : assets[a] = [tenant |-> t, save |-> n]

\* The ids of a key hold no colon.
WithoutColons(k) == ":" \notin Range(k.tenant) \cup Range(k.card)

\* What still answers was set and neither its card nor its tenant, as the one who
\* set it named them, was invalidated since; and a key without colons in its ids
\* is answered with its own entry.  Where no id in use holds a colon a key also
\* answers whenever it may, whatever other keys were invalidated.
CacheForgetsWhatItMust ==
  /\ \A e \in cache : e.expires > clock =>
       \E f \in freshness : f.of = e.of /\ f.until = e.expires
  /\ \A k \in CacheKeys, e \in cache :
       WithoutColons(k) /\ e.key = MakeSettingsCacheKey(k) => e.of = k
  /\ (\A k \in CacheKeys : WithoutColons(k)) =>
       \A k \in CacheKeys : Hit(k) <=> \E f \in freshness : f.of = k /\ f.until > clock

TrailIsOrdered ==
  /\ \A i, j \in DOMAIN trail : i < j => Before(trail[i], trail[j]) /\ trail[i].id # trail[j].id
  /\ \A e \in Range(appended) :
       (e.card = appended[1].card) => \E f \in Range(trail) : f.id = e.id
  /\ \A e \in Range(trail) :
       e.hash # None /\ (\A f \in Range(trail) : f.hash # None => Before(f, e))
         => LatestSnapshotHash(trail) = e.hash

\* Rows never leave their tenant, whoever names their id; saves may overlap or
\* stop and the tables are still filled in order; a save that ran alone is
\* stored whole.  The cache answers nothing that was invalidated, and with ids
\* without colons for exactly the keys that are still good.
\* The trail holds every event of its card once and in order, whatever the
\* order and the repetitions in which events were appended.
StoreIsSound ==
  /\ RowsStayWithTheirTenant /\ LaterRowsFollowEarlierOnes /\ LoneSaveIsWhole
  /\ CacheForgetsWhatItMust
  /\ TrailIsOrdered

=============================================================================
