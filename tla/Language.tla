------------------------------- MODULE Language -------------------------------
(***************************************************************************)
(* The language of the window (i18n/index.tsx, SettingsPage.tsx) and its   *)
(* dictionaries (i18n/lang), by what they have and what their texts ask    *)
(* the pages for.                                                          *)
(***************************************************************************)

CONSTANTS OsLocale, NavigatorLocale,   \* base languages of the two locales
          Chosen                       \* languages the user chooses among

Unset == "unset"
SystemPlaceholder == "system"

-----------------------------------------------------------------------------
(* The dictionaries.  A message that shows no value is known by its        *)
(* section, as dictionaries have or lack whole sections; one whose text    *)
(* has a placeholder, by its own name and the value the text asks for.     *)

\* One for each page or part of the window.
Translated == {"common", "nav", "status", "welcome", "login", "wallet", "market", "seller",
               "deposit", "depositPage", "account", "faq", "layout", "update", "password",
               "settings"}

Asked == [activeSessionsCount |-> "count", activeStreams |-> "count", proxyN |-> "n",
          streamsOne |-> "count", streamsOther |-> "count", updateAvailable |-> "version",
          a14 |-> "proxyAddress", ready |-> "version", downloading |-> "percent",
          available |-> "version", systemLangLabel |-> "lang"]

\* The messages of the tunnel and of the country selector exist in English only.
En == [sections |-> Translated \cup {"tunnel", "market.allCountries"},
       asks |-> [m \in DOMAIN Asked \cup {"flows"} |-> IF m = "flows" THEN "count" ELSE Asked[m]]]
Es == [sections |-> Translated, asks |-> Asked]
Fr == [sections |-> Translated, asks |-> Asked]
De == [sections |-> Translated, asks |-> Asked]
It == [sections |-> Translated, asks |-> Asked]
Pt == [sections |-> Translated, asks |-> Asked]
Ru == [sections |-> Translated, asks |-> Asked]
Zh == [sections |-> Translated, asks |-> Asked]
Ja == [sections |-> Translated, asks |-> Asked]
Ko == [sections |-> Translated, asks |-> Asked]
Ar == [sections |-> Translated, asks |-> Asked]
Tr == [sections |-> Translated, asks |-> Asked]

\* Mutant: the plural's number was translated away.
Pl_Plural == [sections |-> Translated,
              asks |-> [m \in DOMAIN Asked |-> IF m = "streamsOther" THEN "none" ELSE Asked[m]]]

Pl == [sections |-> Translated, asks |-> Asked]
Uk == [sections |-> Translated, asks |-> Asked]
Vi == [sections |-> Translated, asks |-> Asked]
Id == [sections |-> Translated, asks |-> Asked]

Languages == {"en", "es", "fr", "de", "it", "pt", "ru", "zh", "ja", "ko", "ar", "tr", "pl",
              "uk", "vi", "id"}

Translations == [lang \in Languages |->
    CASE lang = "en" -> En [] lang = "es" -> Es [] lang = "fr" -> Fr [] lang = "de" -> De
      [] lang = "it" -> It [] lang = "pt" -> Pt [] lang = "ru" -> Ru [] lang = "zh" -> Zh
      [] lang = "ja" -> Ja [] lang = "ko" -> Ko [] lang = "ar" -> Ar [] lang = "tr" -> Tr
      [] lang = "pl" -> Pl [] lang = "uk" -> Uk [] lang = "vi" -> Vi [] lang = "id" -> Id]

\* A locale is known by its base: no language has a tag with a region.
MatchLanguage(locale) == IF locale \in Languages THEN locale ELSE "en"

Has(lang, key) == key \in Translations[lang].sections \cup DOMAIN Translations[lang].asks

\* The language whose text t shows for a message.
T(lang, key) == IF Has(lang, key) THEN lang ELSE "en"

\* The values the pages hand to t: <<message, value>>.
MarketGives == {<<"activeSessionsCount", "count">>}
SellerGives == {<<"activeStreams", "count">>, <<"proxyN", "n">>}
AccountGives == {<<"streamsOne", "count">>, <<"streamsOther", "count">>,
                 <<"updateAvailable", "version">>}
FaqGives == {<<"a14", "proxyAddress">>}
BannerGives == {<<"ready", "version">>, <<"downloading", "percent">>, <<"available", "version">>}
SettingsGive == {<<"systemLangLabel", "lang">>}
TunnelGives == {<<"flows", "count">>}
Given == MarketGives \cup SellerGives \cup AccountGives \cup FaqGives \cup BannerGives
           \cup SettingsGive \cup TunnelGives

-----------------------------------------------------------------------------
(* The provider.                                                           *)

VARIABLES
    storage,           \* localStorage works
    storedLanguage,
    language,
    isSystemDefault,
    detections         \* detections in progress: "first" ones are remembered

languageVars == <<storage, storedLanguage, language, isSystemDefault, detections>>

\* The operating system's locale, or the browser's when it fails.
Detectable == {MatchLanguage(OsLocale), MatchLanguage(NavigatorLocale)}

PersistLanguage(code) == storedLanguage' = IF storage THEN code ELSE storedLanguage

LanguageInit ==
    /\ storage \in BOOLEAN
    /\ storedLanguage = Unset
    /\ language = MatchLanguage(NavigatorLocale)
    /\ isSystemDefault = TRUE
    /\ detections = {"first"}

\* The window is loaded again: the watchdog does so, or the application starts.
ReloadWindow ==
    /\ isSystemDefault' = (storedLanguage \in {Unset, SystemPlaceholder})
    /\ language' = IF isSystemDefault' THEN MatchLanguage(NavigatorLocale) ELSE storedLanguage
    /\ detections' = CASE storedLanguage = Unset -> {"first"}
                       [] storedLanguage = SystemPlaceholder -> {"follow"}
                       [] OTHER -> {}
    /\ UNCHANGED <<storage, storedLanguage>>

\* A detection that ends late replaces a language chosen meanwhile.
DetectSystemLanguage ==
    /\ \E d \in detections :
         /\ detections' = detections \ {d}
         /\ language' \in Detectable
         /\ IF d = "first" THEN PersistLanguage(language') ELSE UNCHANGED storedLanguage
    /\ UNCHANGED <<storage, isSystemDefault>>

SetLanguage ==
    /\ language' \in Chosen \cap Languages
    /\ isSystemDefault' = FALSE
    /\ PersistLanguage(language')
    /\ UNCHANGED <<storage, detections>>

\* Mutant: the language is followed from the next start on.
SetSystemLanguage_NextStart ==
    /\ isSystemDefault' = TRUE
    /\ PersistLanguage(SystemPlaceholder)
    /\ UNCHANGED <<storage, language, detections>>

SetSystemLanguage ==
    /\ isSystemDefault' = TRUE
    /\ PersistLanguage(SystemPlaceholder)
    /\ detections' = detections \cup {"follow"}
    /\ UNCHANGED <<storage, language>>

LanguageNext ==
    \/ ReloadWindow \/ DetectSystemLanguage \/ SetLanguage \/ SetSystemLanguage

LanguageTypeOK ==
    /\ storage \in BOOLEAN /\ isSystemDefault \in BOOLEAN
    /\ storedLanguage \in Languages \cup {Unset, SystemPlaceholder}
    /\ language \in Languages
    /\ detections \subseteq {"first", "follow"}

\* Once detection has ended a window that says it follows the system does.
SystemIsFollowed == isSystemDefault /\ detections = {} => language \in Detectable

\* In the language the window has come to, by detection or by choice, each text
\* shows the value its page hands over, no more and no less, and only the tunnel
\* and the country selector speak English: no two of the pages, the dictionaries
\* and the fallback to English disagree.
TextsAgreeWithPages ==
    /\ \A key \in En.sections \cup DOMAIN En.asks :
         T(language, key) # language => key \in {"tunnel", "flows", "market.allCountries"}
    /\ \A g \in Given :
         LET text == Translations[T(language, g[1])] IN
         g[1] \in DOMAIN text.asks /\ text.asks[g[1]] = g[2]
    /\ DOMAIN Translations[language].asks \subseteq {g[1] : g \in Given}
=============================================================================
