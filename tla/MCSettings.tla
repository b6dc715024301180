----------------------------- MODULE MCSettings -----------------------------
(* The settings of executive cards for TLC: publishing, which is the module *)
(* it extends, the tables of settings and their readings. A behaviour       *)
(* exercises one part, the one that "part" names.                            *)
EXTENDS SettingsPublish, Integers, TLC

CONSTANTS
    Parts,
    c1, t1, t2, p1, p2, good, bad, k1, k2,             \* publishing
    w1, w2,                                            \* savers
    None

VARIABLES
    part,
    tenants, assets, brands, cards, receptionists, saves, savePc, saveJob,
    cache, cacheClock, freshness, trail, appended,
    theme, style, minimum, shown, tokens, again,
    input, accepted, card, preview, payload, context

storeVars == <<tenants, assets, brands, cards, receptionists, saves, savePc, saveJob,
               cache, cacheClock, freshness, trail, appended>>
brandVars == <<theme, style, minimum, shown, tokens, again>>
inputVars == <<input, accepted, card, preview, payload, context>>

-----------------------------------------------------------------------------
MCOwner == [c \in Cards |-> t1]
MCTimes == 1..2
MCVersionIds == 1..5

(***************************************************************************)
(* Version ids without collisions between the versions of concurrent       *)
(* publishes at different times.  The id of a draft or preview depends on  *)
(* the time; that of a published version also on whether it replaces one:  *)
(* a history has at most three releases, and none replaces one of its id.  *)
(***************************************************************************)
ShortId(st, s, t, v) ==
  IF st # "published" \/ v = 5 THEN t ELSE IF v = NoVersion THEN 2 + t ELSE 5

\* A poor hash: most ids collide, and the preview of the second time has the id
\* of the first release.
CollidingId(st, s, t, v) ==
  IF v # NoVersion THEN (IF v = 4 THEN 2 ELSE v + 1)
  ELSE IF st = "published" THEN 2 ELSE t

\* Audit events with ids of their own.
SeparateEventId(e) == e

\* Two unsigned publishers at two times.
Plain == INSTANCE SettingsPublish WITH
  Tenants <- {t1}, Snapshots <- {good}, Keys <- {k1}, Signing <- {FALSE}, EvidenceRequired <- FALSE

\* Signed and unsigned publishes where evidence is required.
Evidence == INSTANCE SettingsPublish WITH
  Tenants <- {t1}, Snapshots <- {good}, EvidenceRequired <- TRUE

\* Signed and unsigned publishes mixed, with a verifier that accepts no entry.
Mixed == INSTANCE SettingsPublish WITH
  Tenants <- {t1}, Snapshots <- {good}, Times <- {1}, EvidenceRequired <- FALSE,
  MaxChainEntries <- 0

\* Ids that collide, a tenant that does not own the card, an invalid snapshot.
Colliding == INSTANCE SettingsPublish WITH
  Signing <- {FALSE}, Keys <- {k1}, VersionId <- CollidingId, EvidenceRequired <- FALSE

\* Two tenants that name each other's asset and card; a cache of cards whose
\* names begin alike; one of ids with colons, where two keys are one string and
\* a tenant's prefix is that of another's card; and audit events of equal times and repeated ids.
SomeSnapshots ==
    {[tenant |-> "t1", assets |-> {1, 2}, card |-> "c1"],
     [tenant |-> "t1", assets |-> {1}, card |-> "c2"],
     [tenant |-> "t2", assets |-> {2}, card |-> "c1"]}

SomeCacheKeys ==
    {[tenant |-> <<"a">>, card |-> <<"x">>, kind |-> "theme"],
     [tenant |-> <<"a">>, card |-> <<"x", "y">>, kind |-> "theme"],
     [tenant |-> <<"a", "b">>, card |-> <<"x">>, kind |-> "theme"],
     [tenant |-> <<"a">>, card |-> <<"x">>, kind |-> "card"]}

ColonCacheKeys ==
    {[tenant |-> <<"a">>, card |-> <<"b", ":", "x">>, kind |-> "theme"],
     [tenant |-> <<"a", ":", "b">>, card |-> <<"x">>, kind |-> "theme"],
     [tenant |-> <<"a">>, card |-> <<"b">>, kind |-> "theme"],
     [tenant |-> <<"b">>, card |-> <<"x">>, kind |-> "theme"]}

Event(id, at, card_, hash) == [id |-> id, at |-> at, card |-> card_, hash |-> hash]
SomeAuditEvents ==
    {Event(1, 2, "c1", "h1"), Event(2, 1, "c1", None), Event(3, 2, "c1", "h3"),
     Event(1, 3, "c1", "h4"), Event(4, 1, "c2", None)}

Saves == INSTANCE SettingsStore WITH
    Snapshots <- SomeSnapshots, Savers <- {w1, w2}, MaxSaves <- 3, MaxClock <- 0, CacheKeys <- {},
    Ttl <- 1, Events <- {}, MaxEvents <- 0, pc <- savePc, job <- saveJob, clock <- cacheClock
Cache == INSTANCE SettingsStore WITH
    Snapshots <- SomeSnapshots, Savers <- {}, MaxSaves <- 0, MaxClock <- 2, CacheKeys <- SomeCacheKeys,
    Ttl <- 1, Events <- {}, MaxEvents <- 0, pc <- savePc, job <- saveJob, clock <- cacheClock
Colons == INSTANCE SettingsStore WITH
    Snapshots <- SomeSnapshots, Savers <- {}, MaxSaves <- 0, MaxClock <- 2, CacheKeys <- ColonCacheKeys,
    Ttl <- 1, Events <- {}, MaxEvents <- 0, pc <- savePc, job <- saveJob, clock <- cacheClock
Trail == INSTANCE SettingsStore WITH
    Snapshots <- SomeSnapshots, Savers <- {}, MaxSaves <- 0, MaxClock <- 0, CacheKeys <- {},
    Ttl <- 1, Events <- SomeAuditEvents, MaxEvents <- 4, pc <- savePc, job <- saveJob, clock <- cacheClock

\* The sRGB curve.
LinearTable == <<
    0, 30, 61, 91, 121, 152, 182, 212, 243, 273, 304, 335, 368, 402, 439, 478, 518, 561, 605, 651, 700,
    750, 802, 857, 913, 972, 1033, 1096, 1161, 1229, 1298, 1370, 1444, 1521, 1600, 1681, 1764, 1850,
    1938, 2029, 2122, 2217, 2315, 2416, 2519, 2624, 2732, 2843, 2956, 3071, 3190, 3310, 3434, 3560,
    3689, 3820, 3955, 4092, 4231, 4374, 4519, 4667, 4817, 4971, 5127, 5286, 5448, 5613, 5781, 5951,
    6125, 6301, 6480, 6663, 6848, 7036, 7227, 7421, 7619, 7819, 8022, 8228, 8438, 8650, 8866, 9084,
    9306, 9531, 9759, 9990, 10224, 10462, 10702, 10946, 11193, 11444, 11697, 11954, 12214, 12477, 12744,
    13014, 13287, 13563, 13843, 14126, 14413, 14703, 14996, 15293, 15593, 15896, 16203, 16513, 16827,
    17144, 17465, 17789, 18116, 18447, 18782, 19120, 19462, 19807, 20156, 20508, 20864, 21223, 21586,
    21953, 22323, 22697, 23074, 23455, 23840, 24228, 24620, 25016, 25415, 25818, 26225, 26636, 27050,
    27468, 27889, 28315, 28744, 29177, 29614, 30054, 30499, 30947, 31399, 31855, 32314, 32778, 33245,
    33716, 34191, 34670, 35153, 35640, 36131, 36625, 37124, 37626, 38133, 38643, 39157, 39676, 40198,
    40724, 41254, 41789, 42327, 42869, 43415, 43966, 44520, 45079, 45641, 46208, 46778, 47353, 47932,
    48515, 49102, 49693, 50289, 50888, 51492, 52100, 52712, 53328, 53948, 54572, 55201, 55834, 56471,
    57112, 57758, 58408, 59062, 59720, 60383, 61050, 61721, 62396, 63076, 63760, 64448, 65141, 65837,
    66539, 67244, 67954, 68669, 69387, 70110, 70838, 71569, 72306, 73046, 73791, 74540, 75294, 76052,
    76815, 77582, 78354, 79130, 79910, 80695, 81485, 82279, 83077, 83880, 84687, 85499, 86316, 87137,
    87962, 88792, 89627, 90466, 91310, 92158, 93011, 93869, 94731, 95597, 96469, 97345, 98225, 99110,
    100000>>
SRgb == [c \in 0..255 |-> LinearTable[c + 1]]

\* Greys around every threshold, some colours, and every way of writing one.
Grey(form, n) == [form |-> form, v |-> <<n, n, n>>]
SomeColors ==
    {Grey("hex", n) : n \in {0, 17, 21, 119, 118, 123, 124, 126, 138, 255}}
    \cup {Grey("hex3", n) : n \in {1, 7, 15}}
    \cup {Grey("hex8", 255), Grey("bare", 200), Grey("rgb", 3000), Grey("rgb", -50), Grey("rgb", 2000),
          Grey("rgb", 1185), Grey("rgb", -5), Grey("rgb spaced", 75), Grey("var", 0), Grey("word", 0)}
    \cup {[form |-> "hsl", v |-> <<h, s, l>>] : h \in {-30, 200}, s \in {60, 120}, l \in {75}}

SomeThemes ==
    {[approved |-> a, colors |-> [primary |-> Grey("hex", 255), secondary |-> s, accent |-> c,
        background |-> b, surface |-> Grey("hex", 26), text |-> t, mutedText |-> Grey("hex", 138)]] :
        a \in BOOLEAN, s \in {Grey("word", 0)},
        c \in {Grey("hex", 123), Grey("hex", 124), Grey("hsl", 60), Grey("word", 0)},
        b \in SomeColors, t \in SomeColors}

SomeStyles == {[button |-> "0.25rem", card |-> "3px", motion |-> "reduced", contrast |-> "loud"]}

Brand == INSTANCE BrandTokens WITH
    Linear <- SRgb, Themes <- SomeThemes, Styles <- SomeStyles, Minimums <- {450, 700}

SomeInputs ==
    {[enabled |-> e, consentRequired |-> c, mode |-> m, custom |-> g, standard |-> h,
      default |-> d, supported |-> l, types |-> ty,
      voice |-> wrong # "voice", mood |-> wrong # "mood", email |-> wrong # "email"] :
        e \in BOOLEAN, c \in BOOLEAN, m \in {"standard", "custom", "other"},
        g \in {None, "blank", "plain", "unsafe"}, h \in {"blank", "plain", "unsafe"},
        d \in {"English", "Arabic", "Klingon"}, l \in {<<>>, <<"English">>, <<"Arabic", "Klingon">>},
        ty \in {<<>>, <<"route_message">>, <<"other">>},
        wrong \in {"none", "voice", "mood", "email"}}

SomePayloads ==
    {[actor |-> a, tenant |-> "own", role |-> r, cards |-> c, expires |-> x] :
        a \in BOOLEAN, r \in {"administrator", "tenant_owner", "viewer", "guest"},
        c \in {None, {}, {"c1"}, {"c1", ""}, {"c2"}}, x \in {None, 1, 2}}

Readings == INSTANCE SettingsInputs WITH
    Languages <- {"English", "Arabic"}, RequestTypes <- {"route_message"}, Inputs <- SomeInputs,
    Payloads <- {None}, Cards <- {"c1", "c2"}, Now <- 1
Claims == INSTANCE SettingsInputs WITH
    Languages <- {"English"}, RequestTypes <- {"route_message"}, Inputs <- {None},
    Payloads <- SomePayloads, Cards <- {"c1", "c2"}, Now <- 1

-----------------------------------------------------------------------------
InitOfPart ==
    /\ part \in Parts
    /\ Init
    /\ IF part = "saves" THEN Saves!Init ELSE Trail!Init
    /\ IF part = "brand" THEN Brand!Init
       ELSE /\ theme = None /\ style = None /\ minimum = 0
            /\ shown = None /\ tokens = None /\ again = None
    /\ IF part = "readings" THEN Readings!Init
       ELSE IF part = "claims" THEN Claims!Init
       ELSE /\ input = None /\ accepted = None /\ card = None
            /\ preview = None /\ payload = None /\ context = None

otherVars == <<storeVars, brandVars, inputVars>>

PlainPart == Plain!Next /\ UNCHANGED otherVars
EvidencePart == Evidence!Next /\ UNCHANGED otherVars
MixedPart == Mixed!Next /\ UNCHANGED otherVars
CollidingPart == Colliding!Next /\ UNCHANGED otherVars
SavesPart == Saves!Next /\ UNCHANGED <<vars, brandVars, inputVars>>
CachePart == Cache!Next /\ UNCHANGED <<vars, brandVars, inputVars>>
ColonsPart == Colons!Next /\ UNCHANGED <<vars, brandVars, inputVars>>
TrailPart == Trail!Next /\ UNCHANGED <<vars, brandVars, inputVars>>
BrandPart == Brand!Next /\ UNCHANGED <<vars, storeVars, inputVars>>
ReadingsPart == Readings!Next /\ UNCHANGED <<vars, storeVars, brandVars>>
ClaimsPart == Claims!Next /\ UNCHANGED <<vars, storeVars, brandVars>>

NextOfPart ==
    /\ UNCHANGED part
    /\ \/ part = "plain" /\ PlainPart
       \/ part = "evidence" /\ EvidencePart
       \/ part = "mixed" /\ MixedPart
       \/ part = "colliding" /\ CollidingPart
       \/ part = "saves" /\ SavesPart
       \/ part = "cache" /\ CachePart
       \/ part = "colons" /\ ColonsPart
       \/ part = "trail" /\ TrailPart
       \/ part = "brand" /\ BrandPart
       \/ part = "readings" /\ ReadingsPart
       \/ part = "claims" /\ ClaimsPart

SpecOfPart ==
    InitOfPart /\ [][NextOfPart]_<<part, vars, otherVars>>

\* Publishers are interchangeable, and so are savers and idempotency keys.
Symmetry == Permutations(Publishers) \cup Permutations({w1, w2}) \cup Permutations({k1, k2})

-----------------------------------------------------------------------------
\* SettingsPublish: where evidence is required the chain follows the history;
\* elsewhere it ends one entry past the verifier's limit.
EvidenceAgrees ==
  /\ part = "evidence" => Evidence!EvidenceFollowsHistory
  /\ part = "mixed" => Mixed!ChainIsBounded

\* SettingsStore: rows, cache and trail keep together.
StoreIsSound ==
    /\ part = "saves" => Saves!StoreIsSound
    /\ part = "cache" => Cache!StoreIsSound
    /\ part = "colons" => Colons!StoreIsSound
    /\ part = "trail" => Trail!StoreIsSound

\* BrandTokens, SettingsInputs: resolved tokens and rendered themes are readable
\* and agree, and so do the three readings of the settings.
CardSettingsAreSound ==
    /\ part = "brand" => Brand!BrandIsSound
    /\ part = "readings" => Readings!InputsAreSound
    /\ part = "claims" => Claims!InputsAreSound

=============================================================================
