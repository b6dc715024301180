------------------------- MODULE MCIdentitySessions -------------------------
(* Application sessions and the settings requests that resolve a session,    *)
(* for TLC. A behaviour exercises one part, the one that "part" names.       *)
EXTENDS Access, TLC

CONSTANTS Parts, u1, t1, ps1, l1, s1, s2, s3, w1, w2, deleted, revoked

VARIABLE part

MCMemberships == {<<u1, t>> : t \in Tenants}
MCEventType == [e \in Events |-> IF e = deleted THEN "user.deleted" ELSE "session.revoked"]
MCEventSubject == [e \in Events |-> IF e = deleted THEN u1 ELSE ps1]

\* An administrator, an editor with a card, a viewer with one card and an
\* update grant on another, and an owner of another tenant.
MCPeople == {"admin", "editor", "viewer", "outsider"}
MCGrantOf ==
    [g1 |-> [user |-> "editor", card |-> "c1", permissions |-> {"settings:read"}],
     g2 |-> [user |-> "viewer", card |-> "c1", permissions |-> {"settings:read"}],
     g3 |-> [user |-> "viewer", card |-> "c2", permissions |-> {"settings:update"}]]
MCMember ==
    [u \in MCPeople |-> CASE u = "admin" -> "tenant_admin" [] u = "editor" -> "settings_editor"
                          [] u = "viewer" -> "viewer" [] OTHER -> "tenant_owner"]

Environment(development, role, identity, database) ==
    [development |-> development, developmentTenant |-> TRUE, role |-> role,
     identity |-> identity, database |-> database]

ApiRequest(method, slug, kind, user, body, form) ==
    [method |-> method, slug |-> slug, kind |-> kind, user |-> user, body |-> body, form |-> form]

\* Two requests that race each other and the administrators ...
RacingRequests ==
    {ApiRequest("POST", "c1", "card-customization", u, "good", "own") : u \in {"editor", "viewer"}}
    \cup {ApiRequest("POST", "c2", "card-customization", "viewer", "good", "own"),
          ApiRequest("GET", "c1", "theme", "viewer", "good", "own")}

\* ... and single requests of every kind, in every environment.
SingleRequests ==
    {ApiRequest(m, "c1", k, u, "good", "own") : m \in {"GET", "POST"},
        k \in {"card-customization", "theme"}, u \in MCPeople \cup {None}}
    \cup {ApiRequest("POST", "c1", k, "admin", b, f) : k \in {"card-customization", "theme"},
        b \in {"good", "unreadable", "wrong"}, f \in {"own", "foreign origin", "wrong token"}}
    \cup {ApiRequest("GET", slug, "theme", "admin", "good", "own") : slug \in {"malformed", "c9", "c2"}}

MCRequests == RacingRequests \cup SingleRequests

MCEnvironments ==
    {Environment(FALSE, None, i, d) : i \in BOOLEAN, d \in BOOLEAN}
    \cup {Environment(TRUE, r, FALSE, d) : r \in {"viewer", "settings_editor", "unheard of"}, d \in BOOLEAN}
    \cup {[Environment(TRUE, "tenant_admin", FALSE, TRUE) EXCEPT !.developmentTenant = FALSE]}

-----------------------------------------------------------------------------
InitOfPart ==
    /\ part \in Parts
    /\ Init
    /\ Api!Init
    /\ part # "answers" => env = Environment(FALSE, None, TRUE, TRUE)

\* The requests that workers handle are of the part's kind.
Handling(some) == \A w \in Workers : apiJob'[w].request \in some \cup {None}

Races == Api!Next /\ Handling(RacingRequests) /\ apiClock' = 0

Answers == Api!Next /\ Handling(SingleRequests) /\ requests' <= 1 /\ apiClock' <= 1

\* The routes have answered their requests.
Answered ==
    /\ part # "sessions"
    /\ \A w \in Workers : apiPc[w] = "idle"
    /\ UNCHANGED <<vars, apiVars>>

NextOfPart ==
    /\ UNCHANGED part
    /\ \/ part = "sessions" /\ Next /\ UNCHANGED apiVars
       \/ part = "races" /\ Races /\ UNCHANGED vars
       \/ part = "answers" /\ Answers /\ UNCHANGED vars
       \/ Answered

SpecOfPart == InitOfPart /\ [][NextOfPart]_<<part, vars, apiVars>>

\* Request handlers and fresh session ids are interchangeable.
Symmetry == Permutations(Workers) \cup Permutations(Sessions)
=============================================================================
