---------------------------- MODULE BrandTokens ----------------------------
(***************************************************************************)
(* How a tenant's theme becomes colours: the token resolver's own colour   *)
(* arithmetic (packages/tokens) and the card's theme validation            *)
(* (services/card-customization), which parse and measure colours by two   *)
(* separate pieces of code.                                                *)
(*                                                                         *)
(* A written colour is its form and its numbers, a parsed one is its three *)
(* channels.  The numbers of an rgb colour may have decimals and are in    *)
(* tenths; those of hsl, which only the resolver reads, are whole.  Luminance is in hundred-thousandths, contrast in hundredths. *)
(* Linear is the sRGB curve of channelToLinear and linearize, as a table.  *)
(***************************************************************************)
EXTENDS Integers, FiniteSets

CONSTANTS
  Linear,      \* Linear[c]: 10^5 times the linear value of channel c
  Themes,      \* themes an owner may write: their colours and approval
  Styles,      \* radius, motion and contrast values of a profile
  Minimums,    \* minimum contrast ratios, in hundredths
  None

VARIABLES
  theme, style, minimum,   \* what was written
  shown,                   \* what the card and its preview render
  tokens,                  \* the resolved tokens, and what they were resolved from
  again                    \* the tokens of the resolved colours, resolved again

vars == <<theme, style, minimum, shown, tokens, again>>

-----------------------------------------------------------------------------
(***************************************************************************)
(* Colours as packages/tokens reads them                                   *)
(***************************************************************************)
Clamp(x, low, high) == IF x < low THEN low ELSE IF x > high THEN high ELSE x

\* Math.round of a number in tenths: halves go up.
Rounded(x) == (x + 5) \div 10

Doubled(v) == [i \in 1..3 |-> 17 * v[i]]

\* hueToRgb in degrees; the result is in 600000ths.
HueToRgb(p, q, hue) ==
  LET t == IF hue < 0 THEN hue + 360 ELSE IF hue > 360 THEN hue - 360 ELSE hue IN
  IF t < 60 THEN 60 * p + (q - p) * t
  ELSE IF t < 180 THEN 60 * q
  ELSE IF t < 240 THEN 60 * p + (q - p) * (240 - t)
  ELSE 60 * p

HslToRgb(v) ==
  LET h == v[1] % 360
      s == Clamp(v[2], 0, 100)
      l == Clamp(v[3], 0, 100)
      q == IF l < 50 THEN l * (100 + s) ELSE 100 * (l + s) - l * s
      p == 200 * l - q
      Channel(hue) == (510 * HueToRgb(p, q, hue) + 600000) \div 1200000 IN
  <<Channel(h + 120), Channel(h), Channel(h - 120)>>

NormalizeColorToHex(c) ==
  CASE c.form \in {"hex", "bare"} -> c.v
    [] c.form = "hex3" -> Doubled(c.v)
    [] c.form = "rgb" -> [i \in 1..3 |-> Clamp(Rounded(c.v[i]), 0, 255)]
    [] c.form = "hsl" -> HslToRgb(c.v)
    [] OTHER -> None

RelativeLuminance(rgb) ==
  (2126 * Linear[rgb[1]] + 7152 * Linear[rgb[2]] + 722 * Linear[rgb[3]]) \div 10000

Lighter(a, b) == 5000 + IF a > b THEN a ELSE b
Darker(a, b) == 5000 + IF a > b THEN b ELSE a

\* The ratio is rounded to two decimals before anyone compares it.
ContrastRatio(a, b) ==
  LET l == Lighter(RelativeLuminance(a), RelativeLuminance(b))
      d == Darker(RelativeLuminance(a), RelativeLuminance(b)) IN
  (200 * l + d) \div (2 * d)

White == <<255, 255, 255>>
Black == <<17, 17, 17>>
Gold == <<212, 175, 55>>
Charcoal == <<26, 26, 26>>

ChooseAccessibleTextColor(background, preferred) ==
  LET Of(c) == ContrastRatio(c, background) IN
  IF Of(preferred) >= Of(White) /\ Of(preferred) >= Of(Black) THEN preferred
  ELSE IF Of(White) >= Of(Black) THEN White ELSE Black

-----------------------------------------------------------------------------
(***************************************************************************)
(* validateTenantBrandProfile and resolveBrandTokens                       *)
(***************************************************************************)
BrandFields == {"primary", "secondary", "accent", "background", "text"}

DefaultBrandColors ==
  [primary |-> Gold, secondary |-> Charcoal, accent |-> Gold, background |-> Black,
   text |-> <<245, 245, 245>>]

NormalizeBrandColors(profile) ==
  [f \in BrandFields |->
    LET c == NormalizeColorToHex(profile[f]) IN IF c = None THEN DefaultBrandColors[f] ELSE c]

\* validateBrandContrast: the fields it warns of.
ContrastIssues(colors, min) ==
  {f \in {"text", "accent"} :
    \/ f = "text" /\ ContrastRatio(colors.text, colors.background) < min
    \/ f = "accent" /\ ContrastRatio(Black, colors.accent) < min}

InvalidColors(profile) == {f \in BrandFields : NormalizeColorToHex(profile[f]) = None}

\* Mutant: an unreadable text loses its colour and the background stays.
ApplyContrastFallbacksOfText(colors, min) ==
  [colors EXCEPT
    !.text = IF "text" \in ContrastIssues(colors, min) THEN DefaultBrandColors.text ELSE @,
    !.accent = IF "accent" \in ContrastIssues(colors, min) THEN Gold ELSE @]

ApplyContrastFallbacks(colors, min) ==
  LET unsafe == ContrastIssues(colors, min) IN
  [colors EXCEPT
    !.background = IF "text" \in unsafe THEN DefaultBrandColors.background ELSE @,
    !.text = IF "text" \in unsafe THEN DefaultBrandColors.text ELSE @,
    !.accent = IF "accent" \in unsafe THEN Gold ELSE @]

Radii == {"0", "0.125rem", "0.25rem", "0.375rem", "0.5rem", "0.75rem", "9999px"}
Motions == {"none", "reduced", "standard", "expressive"}

Approved(value, values, fallback) == IF value \in values THEN value ELSE fallback

ResolveDuration(motion) ==
  CASE motion = "none" -> "instant"
    [] motion = "reduced" -> "fast"
    [] motion = "expressive" -> "slow"
    [] OTHER -> "normal"

\* mapToResolvedTokens; the snapshot hash is taken of all of it.
MapToResolvedTokens(profile, colors, fallback, min, st) ==
  LET actionText == ChooseAccessibleTextColor(colors.accent, Black)
      motion == Approved(st.motion, Motions, "standard")
      secondary == NormalizeColorToHex(profile.secondary)
      textContrast == ContrastRatio(colors.text, colors.background)
      actionContrast == ContrastRatio(actionText, colors.accent) IN
  [colors |-> colors,
   surface |-> IF secondary = None THEN Charcoal ELSE secondary,
   actionText |-> actionText,
   buttonRadius |-> Approved(st.button, Radii, "0.5rem"),
   cardRadius |-> Approved(st.card, Radii, "0.75rem"),
   motion |-> motion,
   duration |-> ResolveDuration(motion),
   contrastMode |-> Approved(st.contrast, {"standard", "high_contrast", "soft_luxury"}, "standard"),
   textContrast |-> textContrast,
   actionContrast |-> actionContrast,
   fallbackApplied |-> fallback,
   wcagLevel |-> IF textContrast >= min /\ actionContrast >= min THEN "AA" ELSE "below-aa",
   invalid |-> InvalidColors(profile),
   warned |-> ContrastIssues(NormalizeBrandColors(profile), min)]

ResolveBrandTokens(profile, min, st) ==
  LET colors == NormalizeBrandColors(profile)
      safe == ApplyContrastFallbacks(colors, min) IN
  MapToResolvedTokens(profile, safe, ContrastIssues(colors, min) # {}, min, st)

\* createTenantBrandProfile takes five of the theme's seven colours.
CreateTenantBrandProfile(t) == [f \in BrandFields |-> t.colors[f]]

-----------------------------------------------------------------------------
(***************************************************************************)
(* Colours as the card's theme validation reads them                       *)
(***************************************************************************)
Token == <<"token">>

\* Number.parseInt of a number in tenths: the decimals are cut off.
ParseInt(x) == IF x < 0 THEN -((-x) \div 10) ELSE x \div 10

ParseThemeColor(c) ==
  CASE c.form = "var" -> Token
    [] c.form \in {"hex", "hex8"} -> <<c.v[1], c.v[2], c.v[3]>>
    [] c.form = "hex3" -> Doubled(c.v)
    [] c.form \in {"rgb", "rgb spaced"} /\ \A i \in 1..3 : ParseInt(c.v[i]) \in 0..255 ->
         [i \in 1..3 |-> ParseInt(c.v[i])]
    [] OTHER -> None

\* getContrastRatio, not rounded, is at least 4.5.
Readable(text, background) ==
  LET a == RelativeLuminance(text)  b == RelativeLuminance(background) IN
  10 * Lighter(a, b) >= 45 * Darker(a, b)

ThemeFields == BrandFields \cup {"surface", "mutedText"}

\* A colour that is a CSS variable has no contrast and passes.
ValidateBrandThemeConfig(t) ==
  LET Parsed(f) == ParseThemeColor(t.colors[f]) IN
  /\ \A f \in ThemeFields : Parsed(f) # None
  /\ Token \notin {Parsed("text"), Parsed("background")} => Readable(Parsed("text"), Parsed("background"))

Hex(v) == [form |-> "hex", v |-> v]

DefaultExecutiveBrandTheme ==
  [approved |-> TRUE,
   colors |-> [primary |-> Hex(Gold), secondary |-> Hex(Black), accent |-> Hex(Gold),
               background |-> Hex(<<11, 14, 17>>), surface |-> Hex(Charcoal),
               text |-> Hex(White), mutedText |-> Hex(<<138, 138, 138>>)]]

\* The card and the customization preview render this, not the tokens.
ResolveBrandThemeConfig(t) ==
  IF t.approved /\ ValidateBrandThemeConfig(t) THEN t ELSE DefaultExecutiveBrandTheme

-----------------------------------------------------------------------------
Init ==
  /\ theme \in Themes /\ style \in Styles /\ minimum \in Minimums
  /\ shown = None /\ tokens = None /\ again = None

RenderCard ==
  /\ shown = None
  /\ shown' = ResolveBrandThemeConfig(theme)
  /\ UNCHANGED <<theme, style, minimum, tokens, again>>

PreviewTokens ==
  /\ tokens = None
  /\ tokens' = ResolveBrandTokens(CreateTenantBrandProfile(theme), minimum, style)
  /\ UNCHANGED <<theme, style, minimum, shown, again>>

\* The owner takes over the colours the resolver settled on.
ResolveAgain ==
  /\ tokens # None /\ again = None
  /\ again' = ResolveBrandTokens([f \in BrandFields |-> Hex(tokens.colors[f])], minimum,
                [button |-> tokens.buttonRadius, card |-> tokens.cardRadius,
                 motion |-> tokens.motion, contrast |-> tokens.contrastMode])
  /\ UNCHANGED <<theme, style, minimum, shown, tokens>>

Next == RenderCard \/ PreviewTokens \/ ResolveAgain

Spec == Init /\ [][Next]_vars

-----------------------------------------------------------------------------
(***************************************************************************)
(* Properties                                                              *)
(***************************************************************************)

\* The ratio of a and b before it is rounded misses min by less than 0.005.
AlmostReaches(a, b, min) ==
  LET x == RelativeLuminance(a)  y == RelativeLuminance(b) IN
  200 * Lighter(x, y) >= (2 * min - 1) * Darker(x, y)

TokensAreReadable ==
  /\ tokens.wcagLevel = "AA"
  /\ AlmostReaches(tokens.colors.text, tokens.colors.background, minimum)
  /\ AlmostReaches(tokens.actionText, tokens.colors.accent, minimum)

\* Nothing is replaced without a warning, and nothing safe is replaced.
ReplacementsAreWarned ==
  LET written == CreateTenantBrandProfile(theme)
      parsed == [f \in BrandFields |-> NormalizeColorToHex(written[f])] IN
  /\ \A f \in BrandFields : parsed[f] # None /\ tokens.colors[f] # parsed[f] =>
       /\ tokens.fallbackApplied
       /\ f = "accent" => "accent" \in tokens.warned
       /\ f # "accent" => "text" \in tokens.warned /\ f \in {"text", "background"}
  /\ \A f \in BrandFields : parsed[f] = None => f \in tokens.invalid

ResolvingIsFinal ==
  again # None => /\ again.colors = tokens.colors
                  /\ ~again.fallbackApplied
                  /\ again.invalid = {}

CardIsReadable ==
  LET Parsed(f) == ParseThemeColor(shown.colors[f]) IN
  \/ Token \in {Parsed("text"), Parsed("background")}
  \/ Readable(Parsed("text"), Parsed("background"))

Whole(c) == c.form = "rgb" => \A i \in 1..3 : c.v[i] % 10 = 0

\* What the card shows of text and background, the tokens show too, when both
\* pieces of code can read the way the colours are written and no channel has
\* decimals; with decimals the two readings are at most one apart.
CardAndTokensAgree ==
  LET pair == {"text", "background"}
      written == {theme.colors[f] : f \in pair} IN
  (shown = theme /\ minimum = 450
    /\ \A c \in written : c.form \in {"hex", "hex3", "rgb"}) =>
      /\ (\A c \in written : Whole(c)) =>
           \A f \in pair : tokens.colors[f] = ParseThemeColor(shown.colors[f])
      /\ \A c \in written, i \in 1..3 :
           NormalizeColorToHex(c)[i] - ParseThemeColor(c)[i] \in 0..1

\* Whatever colours an owner writes, the tokens that are resolved reach the
\* minimum contrast up to the rounding of the ratio, resolving them again
\* changes nothing, and a readable colour is replaced by no one.  The card shows
\* readable text, and the tokens agree with it up to the reading of decimals.
BrandIsSound ==
  /\ tokens # None => TokensAreReadable /\ ReplacementsAreWarned /\ ResolvingIsFinal
  /\ shown # None => CardIsReadable
  /\ tokens # None /\ shown # None => CardAndTokensAgree

=============================================================================
