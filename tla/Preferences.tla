---------------------------- MODULE Preferences ----------------------------
(***************************************************************************)
(* Language, theme and cookie consent: usePrefs and ThemeProvider of       *)
(* ds-core, with the banner, the footer and the dialogs of the layout      *)
(* package. The shell of ds-components keeps the consent in a cookie of    *)
(* its own and has no preferences dialog.                                  *)
(*                                                                         *)
(* All pages and applications of the domain share the cookies; nothing     *)
(* tells a page that another one wrote. A step is one callback of a page.  *)
(***************************************************************************)
CONSTANTS
  Langs, DefaultLang,
  None  \* no cookie, or one that cannot be decoded; no consent

Themes == {"light", "dark"}
Consents == {"all", "essential", None}
Prefs == [lang : Langs, theme : Themes, consent : Consents]
DefaultPrefs == [lang |-> DefaultLang, theme |-> "light", consent |-> None]

ConstantsAssumption == DefaultLang \in Langs /\ None \notin Prefs

VARIABLES
  kit,            \* "layout", or "appshell" of ds-components
  cookie,         \* ds-prefs
  consentCookie,  \* ds-cookie-consent
  prefersDark,    \* of the operating system
  page,
  choices         \* what was chosen last on any page, for the properties

vars == <<kit, cookie, consentCookie, prefersDark, page, choices>>

\* header, banner, modal: what they rendered last. theme: of the ThemeProvider.
Page == [header : Prefs, banner : Consents, modal : Consents, selected : Consents,
         cookiesOpen : BOOLEAN, prefsOpen : BOOLEAN, theme : Themes \cup {"system"}, root : Themes]

-----------------------------------------------------------------------------
(* The store.                                                              *)

GetPrefsFromCookie(c) == IF c = None THEN DefaultPrefs ELSE c

Consent(c, own) == IF kit = "layout" THEN GetPrefsFromCookie(c).consent ELSE own

\* The modal's selection follows the consent when that changes, and only then.
Synced(p, level) ==
  [p EXCEPT !.modal = level, !.selected = IF p.modal = level THEN @ ELSE level]

\* The footer renders, with banner and modal.
FooterRendered(p, c, own) ==
  Synced([p EXCEPT !.banner = Consent(c, own)], Consent(c, own))

HeaderRendered(p, c) == [p EXCEPT !.header = GetPrefsFromCookie(c)]

\* notifyListeners: all that subscribed render.
Notified(p, c, own) == HeaderRendered(FooterRendered(p, c, own), c)

\* MUTANT: a setter builds on what the page shows.
ShownPrefs == page.header

\* Every setter starts from the cookie as it is now.
Current == GetPrefsFromCookie(cookie)

SavePrefs(p, prefs) ==
  /\ cookie' = prefs
  /\ page' = Notified(p, prefs, consentCookie)
  /\ choices' = [choices EXCEPT !.lang = prefs.lang, !.theme = prefs.theme]
  /\ UNCHANGED <<kit, consentCookie, prefersDark>>

\* setConsent of either kit.
SetConsent(p, level) ==
  LET prefs == [Current EXCEPT !.consent = level] IN
  /\ IF kit = "layout" THEN cookie' = prefs /\ UNCHANGED consentCookie
                       ELSE consentCookie' = level /\ UNCHANGED cookie
  /\ page' = Notified(p, cookie', consentCookie')
  /\ choices' = [choices EXCEPT !.consent = level]
  /\ UNCHANGED <<kit, prefersDark>>

\* A step of the page that stores nothing.
OnPage(p) ==
  /\ page' = p
  /\ UNCHANGED <<kit, cookie, consentCookie, prefersDark, choices>>

-----------------------------------------------------------------------------
(* The banner and the cookie settings: what is not shown is not rendered.  *)

\* The banner and the dialogs of both kits.
LayoutBanner == kit = "layout" /\ page.banner = None
AppshellBanner == kit = "appshell" /\ page.banner = None
LayoutCookies == kit = "layout" /\ page.cookiesOpen
AppshellCookies == kit = "appshell" /\ page.cookiesOpen
CookiesShown == LayoutCookies \/ AppshellCookies
PrefsShown == page.prefsOpen

Accept(level) == (LayoutBanner \/ AppshellBanner) /\ SetConsent(page, level)

HandleOpenPreferences ==
  OnPage([FooterRendered(page, cookie, consentCookie) EXCEPT !.cookiesOpen = TRUE])

\* By a button or a click beside it.
CloseCookies ==
  /\ CookiesShown
  /\ OnPage([FooterRendered(page, cookie, consentCookie) EXCEPT !.cookiesOpen = FALSE])

\* The modal renders on its own; the banner does not.
ToggleOptional ==
  /\ CookiesShown
  /\ OnPage(Synced([page EXCEPT !.selected = IF @ = "all" THEN "essential" ELSE "all"],
                   Consent(cookie, consentCookie)))

HandleSave ==
  /\ CookiesShown
  /\ LET closed == [page EXCEPT !.cookiesOpen = FALSE] IN
       IF page.selected = None THEN OnPage(FooterRendered(closed, cookie, consentCookie))
                               ELSE SetConsent(closed, page.selected)

-----------------------------------------------------------------------------
(* The preferences dialog and the theme.                                   *)

OpenPrefs ==
  /\ kit = "layout"
  /\ OnPage([HeaderRendered(page, cookie) EXCEPT !.prefsOpen = TRUE])

ClosePrefs ==
  /\ PrefsShown
  /\ OnPage([HeaderRendered(page, cookie) EXCEPT !.prefsOpen = FALSE])

\* Both dialogs listen to the key.
Escape ==
  /\ CookiesShown \/ PrefsShown
  /\ LET left == IF page.cookiesOpen THEN FooterRendered(page, cookie, consentCookie)
                                     ELSE page
         right == IF page.prefsOpen THEN HeaderRendered(left, cookie) ELSE left
     IN OnPage([right EXCEPT !.cookiesOpen = FALSE, !.prefsOpen = FALSE])

\* i18n, which has its own place in localStorage, is told as well.
HandleLangChange(lang) ==
  /\ PrefsShown
  /\ SavePrefs(page, [Current EXCEPT !.lang = lang])

\* Tells the document, but not the ThemeProvider.
SetTheme(theme) ==
  /\ PrefsShown
  /\ SavePrefs([page EXCEPT !.root = theme], [Current EXCEPT !.theme = theme])

Resolved(theme, dark) ==
  IF theme # "system" THEN theme ELSE IF dark THEN "dark" ELSE "light"

NextTheme(theme) ==
  CASE theme = "light" -> "dark" [] theme = "dark" -> "system" [] OTHER -> "light"

\* The header's button sets the theme of the ThemeProvider, and stores nothing.
CycleTheme ==
  LET theme == NextTheme(page.theme) IN
  OnPage([Notified(page, cookie, consentCookie) EXCEPT
            !.theme = theme, !.root = Resolved(theme, prefersDark)])

\* The listener applies the ThemeProvider's theme, whatever it is.
SystemChange ==
  /\ prefersDark' = ~prefersDark
  /\ page' = [(IF page.theme = "system" THEN Notified(page, cookie, consentCookie)
                                         ELSE page)
                EXCEPT !.root = Resolved(page.theme, ~prefersDark)]
  /\ UNCHANGED <<kit, cookie, consentCookie, choices>>

-----------------------------------------------------------------------------
(* The world around the page.                                              *)

\* The page is loaded with these cookies.
Loaded(c, own) ==
  LET prefs == GetPrefsFromCookie(c)
      level == Consent(c, own)
  IN [header |-> prefs, banner |-> level, modal |-> level, selected |-> level,
      cookiesOpen |-> FALSE, prefsOpen |-> FALSE,
      theme |-> prefs.theme, root |-> prefs.theme]

Init ==
  /\ kit \in {"layout", "appshell"}
  /\ cookie \in Prefs \cup {None}
  /\ consentCookie = None
  /\ prefersDark \in BOOLEAN
  /\ page = Loaded(cookie, consentCookie)
  /\ choices = [GetPrefsFromCookie(cookie) EXCEPT !.consent = Consent(cookie, consentCookie)]

Reload ==
  OnPage(Loaded(cookie, consentCookie))

\* The page renders for reasons of its own.
Render == OnPage(Notified(page, cookie, consentCookie))

\* Another page stores a choice; this one is not told.
Elsewhere ==
  /\ \E prefs \in {[Current EXCEPT !.lang = x] : x \in Langs}
                    \cup {[Current EXCEPT !.theme = x] : x \in Themes} :
       /\ cookie' = prefs
       /\ choices' = [choices EXCEPT !.lang = prefs.lang, !.theme = prefs.theme]
  /\ UNCHANGED <<kit, consentCookie, prefersDark, page>>

ConsentElsewhere(level) ==
  /\ IF kit = "layout" THEN /\ cookie' = [Current EXCEPT !.consent = level]
                            /\ UNCHANGED consentCookie
                       ELSE consentCookie' = level /\ UNCHANGED cookie
  /\ choices' = [choices EXCEPT !.consent = level]
  /\ UNCHANGED <<kit, prefersDark, page>>

\* The user clears the cookies, or ds-prefs ends with the browser's session.
LoseCookies ==
  /\ cookie' = None
  /\ consentCookie' = None
  /\ choices' = DefaultPrefs
  /\ UNCHANGED <<kit, prefersDark, page>>

Next ==
  \/ \E level \in {"all", "essential"} : Accept(level) \/ ConsentElsewhere(level)
  \/ HandleOpenPreferences \/ CloseCookies \/ ToggleOptional \/ HandleSave
  \/ OpenPrefs \/ ClosePrefs \/ Escape
  \/ \E lang \in Langs : HandleLangChange(lang)
  \/ \E theme \in Themes : SetTheme(theme)
  \/ CycleTheme \/ SystemChange
  \/ Reload \/ Render \/ Elsewhere \/ LoseCookies

Spec == Init /\ [][Next]_vars

-----------------------------------------------------------------------------
(* Properties.                                                             *)

(* Cookies and page have their types.                                      *)
TypeOK ==
  /\ kit \in {"layout", "appshell"}
  /\ cookie \in Prefs \cup {None} /\ consentCookie \in Consents
  /\ prefersDark \in BOOLEAN
  /\ page \in Page
  /\ choices \in Prefs

(* Pages write the three choices as one cookie and do not hear of each     *)
(* other; still none of them undoes a choice made on another page.         *)
ChoicesAreKept ==
  choices = [GetPrefsFromCookie(cookie) EXCEPT
               !.consent = Consent(cookie, consentCookie)]
=============================================================================
