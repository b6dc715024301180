--------------------------- MODULE SettingsInputs ---------------------------
(***************************************************************************)
(* The three readings of a card's receptionist settings: the schema of the *)
(* settings API, the behaviour the card resolves, and the preview that the *)
(* dashboard makes of them.  Each has validation code of its own; nothing  *)
(* but their agreement makes an accepted setting work.  Beside them, the   *)
(* claims of a trusted caller and the decision that is made with them.     *)
(*                                                                         *)
(* A greeting is None, "blank", "plain" or "unsafe".  Voice, mood and      *)
(* e-mail are TRUE when they are among the values or of the form that is   *)
(* expected; the lists of the two packages have the same members.          *)
(***************************************************************************)
EXTENDS Naturals, Sequences, FiniteSets, SequencesExt

CONSTANTS
  Languages,        \* the languages of receptionistLanguages
  RequestTypes,     \* cardCustomizationRequestTypes
  Inputs,           \* receptionist settings that may be written
  Payloads,         \* claims: actor, tenant, role, cards, expiry
  Cards, Now, None

VARIABLES
  input,      \* the receptionist settings somebody wrote
  accepted,   \* the answer of the settings API
  card,       \* what the card resolved
  preview,    \* what the dashboard previews
  payload,    \* the claims of a caller
  context     \* the authorization context made of them

vars == <<input, accepted, card, preview, payload, context>>

-----------------------------------------------------------------------------
\* receptionistSettingsConfigSchema.
SchemaAccepts(s) ==
  /\ s.custom # "blank" /\ s.standard # "blank"
  /\ s.default \in Languages
  /\ s.mode \in {"standard", "custom"}
  /\ s.email /\ s.mood /\ s.voice
  /\ s.types # <<>> /\ Range(s.types) \subseteq RequestTypes
  /\ s.supported # <<>> /\ Range(s.supported) \subseteq Languages
  /\ s.mode = "custom" => s.custom # None

-----------------------------------------------------------------------------
(***************************************************************************)
(* The card (services/card-customization)                                  *)
(***************************************************************************)

\* Mutant: the words of a custom greeting are not looked at.
CardIssuesOfBlanks(s) ==
  {f \in {"voice", "mood", "supported", "default", "types", "custom"} :
    \/ f = "voice" /\ ~s.voice
    \/ f = "mood" /\ ~s.mood
    \/ f = "supported" /\ ~(Range(s.supported) \subseteq Languages)
    \/ f = "default" /\ s.default \notin Languages
    \/ f = "types" /\ ~(Range(s.types) \subseteq RequestTypes)
    \/ f = "custom" /\ s.mode = "custom" /\ s.custom \in {None, "blank"}}

CardIssues(s) ==
  {f \in {"voice", "mood", "supported", "default", "types", "custom"} :
    \/ f = "voice" /\ ~s.voice
    \/ f = "mood" /\ ~s.mood
    \/ f = "supported" /\ ~(Range(s.supported) \subseteq Languages)
    \/ f = "default" /\ s.default \notin Languages
    \/ f = "types" /\ ~(Range(s.types) \subseteq RequestTypes)
    \/ f = "custom" /\ s.mode = "custom" /\ s.custom \in {None, "blank", "unsafe"}}

\* A blank custom greeting is still a greeting here; the issues replace it.
ResolveReceptionistBehavior(s) ==
  LET own == IF s.mode = "custom" /\ s.custom # None THEN s.custom ELSE s.standard IN
  [greeting |-> IF s.enabled /\ CardIssues(s) # {} THEN s.standard ELSE own,
   issues |-> CardIssues(s),
   language |-> s.default,
   requestType |-> IF s.types = <<>> THEN "general_inquiry" ELSE s.types[1],
   routing |-> IF ~s.enabled THEN "disabled"
               ELSE IF CardIssues(s) # {} THEN "invalid" ELSE "handoff_email"]

\* The receptionist of a disabled card is not rendered; an invalid one is.
Rendered(behavior) == behavior.routing # "disabled"

-----------------------------------------------------------------------------
(***************************************************************************)
(* The dashboard's preview (packages/settings)                             *)
(***************************************************************************)
KnownOnly(languages) == SelectSeq(languages, LAMBDA l : l \in Languages)

\* Unknown languages are dropped and the default one is put in front.
CreateReceptionistPreviewSettings(s) ==
  LET default == IF s.default \in Languages THEN s.default ELSE "English"
      known == KnownOnly(s.supported) IN
  [enabled |-> s.enabled,
   default |-> default,
   supported |-> IF default \in Range(known) THEN known ELSE <<default>> \o known,
   rules |-> [i \in DOMAIN s.types |->
               [intent |-> s.types[i], destination |-> s.email, enabled |-> s.enabled]],
   disclosure |-> s.consentRequired,
   mode |-> s.mode, custom |-> s.custom, standard |-> s.standard,
   voice |-> s.voice, mood |-> s.mood, contact |-> s.email]

RuleIsValid(rule) == rule.intent \in RequestTypes \cup {"urgent", "unknown"}

\* validateReceptionistSettings of packages/settings.  The recording policy, the
\* fallback and the after-hours behaviour of a preview are constants.
PreviewIsValid(p) ==
  /\ p.default \in Languages
  /\ p.supported # <<>> /\ Range(p.supported) \subseteq Languages
  /\ p.default \in Range(p.supported)
  /\ p.enabled => p.voice
  /\ p.mood
  /\ p.mode \in {"standard", "custom"}
  /\ p.mode = "custom" => p.custom \notin {None, "blank"}
  /\ p.mode = "standard" => p.standard # "blank"
  /\ p.enabled => p.disclosure
  /\ \A i \in DOMAIN p.rules : RuleIsValid(p.rules[i])
  /\ p.contact

CreateReceptionistSettingsPreview(p) ==
  [status |-> IF ~p.enabled THEN "disabled" ELSE IF PreviewIsValid(p) THEN "ready" ELSE "invalid",
   greeting |-> IF p.mode = "custom" THEN p.custom ELSE p.standard,
   consentConfigured |-> p.disclosure,
   default |-> p.default,
   languages |-> p.supported,
   routes |-> Cardinality({i \in DOMAIN p.rules : p.rules[i].enabled})]

-----------------------------------------------------------------------------
(***************************************************************************)
(* Trusted claims                                                          *)
(***************************************************************************)
ActorRoles ==
  {"administrator", "system", "tenant_owner", "tenant_admin", "executive", "settings_editor",
   "receptionist_manager", "viewer"}

\* parseStringArray: a list with an empty entry counts as an empty list.
ParsedCards(cards) == IF cards = None THEN None ELSE IF "" \in cards THEN {} ELSE cards

ValidateTrustedSettingsAuthClaims(p, resource) ==
  LET cards == ParsedCards(p.cards) IN
  /\ p.actor
  /\ p.tenant = resource.tenant
  /\ p.role \in ActorRoles
  /\ cards # {}
  /\ \/ p.role \in {"administrator", "system"}
     \/ cards # None /\ resource.card \in cards
  /\ p.expires # None => p.expires > Now

\* cardAllowed of the authorization that follows.
CardAllowed(ctx, resource) ==
  \/ ctx.role \in {"tenant_owner", "tenant_admin", "administrator", "system"}
  \/ ctx.cards # None /\ resource.card \in ctx.cards

-----------------------------------------------------------------------------
Init ==
  /\ input \in Inputs
  /\ payload \in Payloads
  /\ accepted = None /\ card = None /\ preview = None /\ context = None

SubmitSettings ==
  /\ input # None /\ accepted = None
  /\ accepted' = SchemaAccepts(input)
  /\ UNCHANGED <<input, card, preview, payload, context>>

RenderCard ==
  /\ accepted # None /\ card = None
  /\ card' = ResolveReceptionistBehavior(input)
  /\ UNCHANGED <<input, accepted, preview, payload, context>>

RenderPreview ==
  /\ card # None /\ preview = None
  /\ preview' = CreateReceptionistSettingsPreview(CreateReceptionistPreviewSettings(input))
  /\ UNCHANGED <<input, accepted, card, payload, context>>

Resources == [tenant : {"own", "other"}, card : Cards]

\* createSettingsAuthorizationContextFromClaims, for a resource.
TrustClaims ==
  /\ payload # None /\ context = None
  /\ \E r \in Resources :
       context' = [resource |-> r,
                   ok |-> ValidateTrustedSettingsAuthClaims(payload, r),
                   role |-> payload.role, tenant |-> payload.tenant,
                   cards |-> ParsedCards(payload.cards)]
  /\ UNCHANGED <<input, accepted, card, preview, payload>>

Next == SubmitSettings \/ RenderCard \/ RenderPreview \/ TrustClaims

Spec == Init /\ [][Next]_vars

-----------------------------------------------------------------------------
(***************************************************************************)
(* Properties                                                              *)
(***************************************************************************)

\* The card works with what the API took, but for the words of a greeting,
\* which only the card reads.
AcceptedWorks ==
  accepted = TRUE /\ card # None =>
    /\ card.routing = "invalid" => input.mode = "custom" /\ input.custom = "unsafe"
    /\ card.language \in Languages
    /\ card.greeting \notin {None, "blank"}

\* No custom greeting with unsafe words is rendered, accepted or not.
UnsafeIsNotRendered ==
  card # None /\ Rendered(card) =>
    (card.greeting = "unsafe" => input.standard = "unsafe")

\* A preview that is ready can speak, in a supported language, with consent; and
\* of accepted settings exactly the ones that ask for consent are ready.
ReadyMeansReady ==
  preview # None =>
    /\ preview.status = "ready" =>
         /\ preview.greeting \notin {None, "blank"}
         /\ preview.consentConfigured
         /\ preview.default \in Range(preview.languages)
         /\ preview.routes = Len(input.types)
    /\ accepted = TRUE /\ input.enabled => (preview.status = "ready" <=> input.consentRequired)

\* A preview that is ready of settings with known languages is a card that routes.
ReadyMeansRouted ==
  preview # None =>
    (preview.status = "ready" /\ card.routing = "invalid" =>
      card.issues \subseteq {"default", "supported", "types", "custom"}
        /\ ("custom" \in card.issues => input.custom = "unsafe")
        /\ (accepted => card.issues = {"custom"}))

\* Claims that were trusted for a resource pass the authorization's own test.
TrustedIsAllowed ==
  context # None =>
    (context.ok => CardAllowed(context, context.resource)
                   /\ context.tenant = context.resource.tenant)

\* What the API accepts the card can use and the preview shows as it is; what
\* is ready in the preview routes on the card; no unsafe custom greeting is
\* rendered; claims validated for a card authorize for that card.
InputsAreSound ==
  AcceptedWorks /\ UnsafeIsNotRendered /\ ReadyMeansReady /\ ReadyMeansRouted /\ TrustedIsAllowed

=============================================================================
