----------------------------- MODULE PartsProofs -----------------------------
(***************************************************************************)
(* Theorems about the parts of an application, for every value of their    *)
(* constants: each part has an invariant that its steps keep, and so do    *)
(* the steps of the parts together.                                        *)
(***************************************************************************)
EXTENDS ApplicationParts, AuthSessionProofs, TLAPS

-----------------------------------------------------------------------------
(***************************************************************************)
(* Preferences.                                                            *)
(***************************************************************************)

LEMMA PrefsValues ==
  ASSUME NEW c \in P!Prefs \cup {None}
  PROVE  P!DefaultPrefs \in P!Prefs /\ P!GetPrefsFromCookie(c) \in P!Prefs
  BY PartsAssumption
  DEF P!ConstantsAssumption, P!GetPrefsFromCookie, P!DefaultPrefs, P!Prefs, P!Themes, P!Consents

\* One preference is set.
LEMMA PrefsSet ==
  ASSUME NEW prefs \in P!Prefs
  PROVE  /\ \A lang \in Langs :
              /\ [prefs EXCEPT !.lang = lang] \in P!Prefs
              /\ [prefs EXCEPT !.lang = lang].consent = prefs.consent
         /\ \A theme \in P!Themes :
              /\ [prefs EXCEPT !.theme = theme] \in P!Prefs
              /\ [prefs EXCEPT !.theme = theme].consent = prefs.consent
         /\ \A level \in P!Consents : [prefs EXCEPT !.consent = level] \in P!Prefs
  BY DEF P!Prefs

LEMMA ConsentValue ==
  ASSUME NEW c \in P!Prefs \cup {None}, NEW own \in P!Consents
  PROVE  P!Consent(c, own) \in P!Consents
  BY PrefsValues DEF P!Consent, P!Prefs

\* What renders stays a page.
LEMMA RenderedPages ==
  ASSUME NEW p \in P!Page, NEW c \in P!Prefs \cup {None}, NEW own \in P!Consents
  PROVE  /\ \A level \in P!Consents : P!Synced(p, level) \in P!Page
         /\ P!FooterRendered(p, c, own) \in P!Page
         /\ P!HeaderRendered(p, c) \in P!Page
         /\ P!Notified(p, c, own) \in P!Page
<1>1. ASSUME NEW q \in P!Page, NEW level \in P!Consents PROVE P!Synced(q, level) \in P!Page
  BY DEF P!Synced, P!Page
<1>2. ASSUME NEW q \in P!Page PROVE P!HeaderRendered(q, c) \in P!Page
  BY PrefsValues DEF P!HeaderRendered, P!Page
<1>3. P!FooterRendered(p, c, own) \in P!Page
  <2>1. P!Consent(c, own) \in P!Consents
    BY ConsentValue
  <2>2. [p EXCEPT !.banner = P!Consent(c, own)] \in P!Page
    BY <2>1 DEF P!Page
  <2> QED  BY <1>1, <2>1, <2>2 DEF P!FooterRendered
<1> QED  BY <1>1, <1>2, <1>3 DEF P!Notified

LEMMA LoadedPage ==
  ASSUME NEW c \in P!Prefs \cup {None}, NEW own \in P!Consents
  PROVE  P!Loaded(c, own) \in P!Page
  BY PrefsValues, ConsentValue DEF P!Loaded, P!Page, P!Prefs

\* The last choices, field by field.
ChoicesMatch ==
  /\ choices.lang = P!GetPrefsFromCookie(cookie).lang
  /\ choices.theme = P!GetPrefsFromCookie(cookie).theme
  /\ choices.consent = P!Consent(cookie, consentCookie)

LEMMA ChoicesByField ==
  ASSUME choices \in P!Prefs, cookie \in P!Prefs \cup {None}, consentCookie \in P!Consents
  PROVE  P!ChoicesAreKept <=> ChoicesMatch
<1> DEFINE prefs == P!GetPrefsFromCookie(cookie)
<1>1. prefs \in P!Prefs /\ P!Consent(cookie, consentCookie) \in P!Consents
  BY PrefsValues, ConsentValue
<1> HIDE DEF prefs
<1>2. (choices = [prefs EXCEPT !.consent = P!Consent(cookie, consentCookie)])
        <=> /\ choices.lang = prefs.lang /\ choices.theme = prefs.theme
            /\ choices.consent = P!Consent(cookie, consentCookie)
  BY <1>1 DEF P!Prefs
<1> QED  BY <1>2 DEF P!ChoicesAreKept, ChoicesMatch, prefs

PreferencesInv == P!TypeOK /\ P!ChoicesAreKept

LEMMA PreferencesInit == P!Init => PreferencesInv
<1> SUFFICES ASSUME P!Init PROVE PreferencesInv
  OBVIOUS
<1>1. /\ cookie \in P!Prefs \cup {None} /\ consentCookie \in P!Consents
      /\ P!GetPrefsFromCookie(cookie) \in P!Prefs
      /\ P!Consent(cookie, consentCookie) \in P!Consents
  BY PrefsValues, ConsentValue DEF P!Init, P!Consents
<1>2. page \in P!Page
  BY <1>1, LoadedPage DEF P!Init
<1>3. choices \in P!Prefs
  BY <1>1 DEF P!Init, P!Prefs
<1> QED  BY <1>1, <1>2, <1>3 DEF P!Init, PreferencesInv, P!TypeOK, P!ChoicesAreKept

\* A step of the page that stores nothing.
LEMMA PreferencesOnPage ==
  ASSUME PreferencesInv, NEW p \in P!Page, P!OnPage(p)
  PROVE  PreferencesInv'
  BY DEF P!OnPage, PreferencesInv, P!TypeOK, P!ChoicesAreKept, P!Consent

\* Language and theme of the cookie are replaced, and the choices with them.
LEMMA PreferencesStored ==
  ASSUME PreferencesInv, NEW prefs \in P!Prefs,
         prefs.consent = P!Current.consent, cookie' = prefs,
         choices' = [choices EXCEPT !.lang = prefs.lang, !.theme = prefs.theme],
         UNCHANGED <<edition, consentCookie, prefersDark>>, page' \in P!Page
  PROVE  PreferencesInv'
<1>1. prefs # None
  BY PartsAssumption DEF P!ConstantsAssumption
<1>2. choices' \in P!Prefs
  BY DEF PreferencesInv, P!TypeOK, P!Prefs
<1>3. ChoicesMatch
  BY ChoicesByField DEF PreferencesInv, P!TypeOK
<1>4. /\ choices'.lang = prefs.lang /\ choices'.theme = prefs.theme
      /\ choices'.consent = choices.consent
  BY DEF PreferencesInv, P!TypeOK, P!Prefs
<1>5. ChoicesMatch'
  BY <1>1, <1>3, <1>4 DEF ChoicesMatch, P!GetPrefsFromCookie, P!Consent, P!Current
<1>6. P!TypeOK'
  BY <1>2 DEF PreferencesInv, P!TypeOK
<1>7. (P!ChoicesAreKept <=> ChoicesMatch)'
  BY <1>6, ChoicesByField, PTL DEF P!TypeOK
<1> QED  BY <1>5, <1>6, <1>7 DEF PreferencesInv

\* The consent is replaced, where the kit keeps it, and the choice with it.
LEMMA PreferencesConsent ==
  ASSUME PreferencesInv, NEW level \in P!Consents,
         IF edition = "layout"
           THEN cookie' = [P!Current EXCEPT !.consent = level] /\ UNCHANGED consentCookie
           ELSE consentCookie' = level /\ UNCHANGED cookie,
         choices' = [choices EXCEPT !.consent = level],
         UNCHANGED <<edition, prefersDark>>, page' \in P!Page
  PROVE  PreferencesInv'
<1> DEFINE prefs == [P!Current EXCEPT !.consent = level]
<1>1. P!Current \in P!Prefs
  BY PrefsValues DEF PreferencesInv, P!TypeOK, P!Current
<1>2. prefs \in P!Prefs /\ prefs # None
  BY <1>1, PartsAssumption DEF P!ConstantsAssumption, P!Prefs
<1>3. prefs.lang = P!Current.lang /\ prefs.theme = P!Current.theme /\ prefs.consent = level
  BY <1>1 DEF P!Prefs
<1>4. choices' \in P!Prefs
  BY DEF PreferencesInv, P!TypeOK, P!Prefs
<1>5. /\ choices'.lang = choices.lang /\ choices'.theme = choices.theme
      /\ choices'.consent = level
  BY DEF PreferencesInv, P!TypeOK, P!Prefs
<1>6. ChoicesMatch
  BY ChoicesByField DEF PreferencesInv, P!TypeOK
<1>7. IF edition = "layout" THEN cookie' = prefs /\ UNCHANGED consentCookie
                            ELSE consentCookie' = level /\ UNCHANGED cookie
  OBVIOUS
<1> HIDE DEF prefs
<1>8. ChoicesMatch'
  BY <1>2, <1>3, <1>5, <1>6, <1>7
  DEF ChoicesMatch, P!GetPrefsFromCookie, P!Consent, P!Current
<1>9. P!TypeOK'
  BY <1>2, <1>4, <1>7 DEF PreferencesInv, P!TypeOK
<1>10. (P!ChoicesAreKept <=> ChoicesMatch)'
  BY <1>9, ChoicesByField, PTL DEF P!TypeOK
<1> QED  BY <1>8, <1>9, <1>10 DEF PreferencesInv

LEMMA PreferencesSetConsent ==
  ASSUME PreferencesInv, NEW p \in P!Page, NEW level \in P!Consents, P!SetConsent(p, level)
  PROVE  PreferencesInv'
<1>1. P!Current \in P!Prefs
  BY PrefsValues DEF PreferencesInv, P!TypeOK, P!Current
<1>2. cookie' \in P!Prefs \cup {None} /\ consentCookie' \in P!Consents
  BY <1>1, PrefsSet DEF PreferencesInv, P!TypeOK, P!SetConsent
<1>3. page' \in P!Page
  BY <1>2, RenderedPages DEF P!SetConsent
<1> QED  BY <1>3, PreferencesConsent DEF P!SetConsent

LEMMA PreferencesSave ==
  ASSUME PreferencesInv, NEW p \in P!Page, NEW prefs \in P!Prefs,
         prefs.consent = P!Current.consent, P!SavePrefs(p, prefs)
  PROVE  PreferencesInv'
<1>1. page' \in P!Page
  BY RenderedPages DEF PreferencesInv, P!TypeOK, P!SavePrefs
<1> QED  BY <1>1, PreferencesStored DEF P!SavePrefs

\* The page, its parts opened and closed, and its themes.
LEMMA PageValues ==
  ASSUME NEW p \in P!Page
  PROVE  /\ \A b, c \in BOOLEAN :
              /\ [p EXCEPT !.cookiesOpen = b] \in P!Page
              /\ [p EXCEPT !.prefsOpen = b] \in P!Page
              /\ [p EXCEPT !.cookiesOpen = b, !.prefsOpen = c] \in P!Page
         /\ \A theme \in P!Themes \cup {"system"}, root \in P!Themes :
              /\ [p EXCEPT !.root = root] \in P!Page
              /\ [p EXCEPT !.theme = theme, !.root = root] \in P!Page
         /\ \A level \in P!Consents : [p EXCEPT !.selected = level] \in P!Page
  BY DEF P!Page

LEMMA ResolvedTheme ==
  ASSUME NEW theme \in P!Themes \cup {"system"}
  PROVE  /\ \A dark \in BOOLEAN : P!Resolved(theme, dark) \in P!Themes
         /\ P!NextTheme(theme) \in P!Themes \cup {"system"}
  BY DEF P!Resolved, P!NextTheme, P!Themes

\* Every action of a page that stores nothing makes a page of a page.
LEMMA PreferencesShow ==
  ASSUME PreferencesInv,
         \/ P!HandleOpenPreferences \/ P!CloseCookies \/ P!ToggleOptional
         \/ P!OpenPrefs \/ P!ClosePrefs \/ P!Escape
         \/ P!CycleTheme \/ P!Reload \/ P!Render
  PROVE  PreferencesInv'
<1>1. /\ page \in P!Page /\ cookie \in P!Prefs \cup {None}
      /\ consentCookie \in P!Consents /\ prefersDark \in BOOLEAN
  BY DEF PreferencesInv, P!TypeOK
<1>2. ASSUME NEW p \in P!Page
      PROVE  /\ P!FooterRendered(p, cookie, consentCookie) \in P!Page
             /\ P!HeaderRendered(p, cookie) \in P!Page
             /\ P!Notified(p, cookie, consentCookie) \in P!Page
  BY <1>1, RenderedPages
<1>3. P!Consent(cookie, consentCookie) \in P!Consents
  BY <1>1, ConsentValue
<1>4. page.theme \in P!Themes \cup {"system"} /\ page.selected \in P!Consents
  BY <1>1 DEF P!Page
<1>5. \E p \in P!Page : P!OnPage(p)
  <2>1. CASE P!HandleOpenPreferences \/ P!CloseCookies
    BY <1>1, <1>2, <2>1, PageValues DEF P!HandleOpenPreferences, P!CloseCookies
  <2>2. CASE P!ToggleOptional
    <3> DEFINE other == IF page.selected = "all" THEN "essential" ELSE "all"
               q == [page EXCEPT !.selected = other]
    <3>1. q \in P!Page
      <4>1. other \in P!Consents
        BY DEF P!Consents
      <4> HIDE DEF other
      <4> QED  BY <1>1, <4>1, PageValues
    <3>2. P!OnPage(P!Synced(q, P!Consent(cookie, consentCookie)))
      BY <2>2 DEF P!ToggleOptional
    <3> HIDE DEF q
    <3>3. P!Synced(q, P!Consent(cookie, consentCookie)) \in P!Page
      BY <1>1, <1>3, <3>1, RenderedPages
    <3> QED  BY <3>2, <3>3
  <2>3. CASE P!OpenPrefs \/ P!ClosePrefs
    BY <1>1, <1>2, <2>3, PageValues DEF P!OpenPrefs, P!ClosePrefs
  <2>4. CASE P!Escape
    <3> DEFINE left == IF page.cookiesOpen
                         THEN P!FooterRendered(page, cookie, consentCookie) ELSE page
               right == IF page.prefsOpen THEN P!HeaderRendered(left, cookie) ELSE left
    <3>1. left \in P!Page
      BY <1>1, <1>2
    <3>2. right \in P!Page
      <4> HIDE DEF left
      <4> QED  BY <1>2, <3>1
    <3>3. P!OnPage([right EXCEPT !.cookiesOpen = FALSE, !.prefsOpen = FALSE])
      BY <2>4 DEF P!Escape
    <3> HIDE DEF right
    <3> QED  BY <3>2, <3>3, PageValues
  <2>5. CASE P!CycleTheme
    <3> DEFINE theme == P!NextTheme(page.theme)
    <3>1. theme \in P!Themes \cup {"system"} /\ P!Resolved(theme, prefersDark) \in P!Themes
      BY <1>1, <1>4, ResolvedTheme
    <3>2. P!OnPage([P!Notified(page, cookie, consentCookie) EXCEPT
                      !.theme = theme, !.root = P!Resolved(theme, prefersDark)])
      BY <2>5 DEF P!CycleTheme
    <3> HIDE DEF theme
    <3> QED  BY <1>1, <1>2, <3>1, <3>2, PageValues
  <2>6. CASE P!Reload \/ P!Render
    BY <1>1, <1>2, <2>6, LoadedPage DEF P!Reload, P!Render
  <2> QED  BY <2>1, <2>2, <2>3, <2>4, <2>5, <2>6
<1> QED  BY <1>5, PreferencesOnPage

LEMMA PreferencesChoose ==
  ASSUME PreferencesInv,
         \/ \E level \in {"all", "essential"} : P!Accept(level) \/ P!ConsentElsewhere(level)
         \/ P!HandleSave
         \/ \E lang \in Langs : P!HandleLangChange(lang)
         \/ \E theme \in P!Themes : P!SetTheme(theme)
         \/ P!Elsewhere
  PROVE  PreferencesInv'
<1>1. /\ page \in P!Page /\ cookie \in P!Prefs \cup {None}
      /\ consentCookie \in P!Consents /\ P!Current \in P!Prefs
      /\ page.selected \in P!Consents
  BY PrefsValues DEF PreferencesInv, P!TypeOK, P!Current, P!Page
<1>2. ASSUME NEW level \in {"all", "essential"}, P!Accept(level) PROVE PreferencesInv'
  BY <1>1, <1>2, PreferencesSetConsent DEF P!Accept, P!Consents
<1>3. ASSUME NEW level \in {"all", "essential"}, P!ConsentElsewhere(level)
      PROVE  PreferencesInv'
  BY <1>1, <1>3, PreferencesConsent DEF P!ConsentElsewhere, P!Consents
<1>4. CASE P!HandleSave
  <2> DEFINE closed == [page EXCEPT !.cookiesOpen = FALSE]
  <2>1. closed \in P!Page
    BY <1>1, PageValues
  <2>2. \/ P!OnPage(P!FooterRendered(closed, cookie, consentCookie))
        \/ P!SetConsent(closed, page.selected)
    BY <1>4 DEF P!HandleSave
  <2> HIDE DEF closed
  <2>3. P!FooterRendered(closed, cookie, consentCookie) \in P!Page
    BY <1>1, <2>1, RenderedPages
  <2> QED  BY <1>1, <2>1, <2>2, <2>3, PreferencesOnPage, PreferencesSetConsent
<1>5. ASSUME NEW lang \in Langs, P!HandleLangChange(lang) PROVE PreferencesInv'
  BY <1>1, <1>5, PrefsSet, PreferencesSave DEF P!HandleLangChange
<1>6. ASSUME NEW theme \in P!Themes, P!SetTheme(theme) PROVE PreferencesInv'
  BY <1>1, <1>6, PrefsSet, PageValues, PreferencesSave DEF P!SetTheme
<1>7. CASE P!Elsewhere
  <2>1. PICK prefs \in {[P!Current EXCEPT !.lang = x] : x \in Langs}
                         \cup {[P!Current EXCEPT !.theme = x] : x \in P!Themes} :
          /\ cookie' = prefs
          /\ choices' = [choices EXCEPT !.lang = prefs.lang, !.theme = prefs.theme]
    BY <1>7 DEF P!Elsewhere
  <2>2. prefs \in P!Prefs /\ prefs.consent = P!Current.consent
    <3>1. CASE \E x \in Langs : prefs = [P!Current EXCEPT !.lang = x]
      BY <1>1, <3>1, PrefsSet
    <3>2. CASE \E x \in P!Themes : prefs = [P!Current EXCEPT !.theme = x]
      BY <1>1, <3>2, PrefsSet
    <3> QED  BY <2>1, <3>1, <3>2
  <2> QED  BY <1>1, <1>7, <2>1, <2>2, PreferencesStored DEF P!Elsewhere
<1> QED  BY <1>2, <1>3, <1>4, <1>5, <1>6, <1>7

LEMMA PreferencesWorld ==
  ASSUME PreferencesInv, P!SystemChange \/ P!LoseCookies
  PROVE  PreferencesInv'
<1>1. CASE P!SystemChange
  <2> DEFINE shown == IF page.theme = "system"
                        THEN P!Notified(page, cookie, consentCookie) ELSE page
  <2>1. shown \in P!Page
    BY RenderedPages DEF PreferencesInv, P!TypeOK
  <2>2. P!Resolved(page.theme, ~prefersDark) \in P!Themes
    BY ResolvedTheme DEF PreferencesInv, P!TypeOK, P!Page
  <2>3. page' = [shown EXCEPT !.root = P!Resolved(page.theme, ~prefersDark)]
    BY <1>1 DEF P!SystemChange
  <2> HIDE DEF shown
  <2>4. page' \in P!Page
    BY <2>1, <2>2, <2>3, PageValues
  <2> QED  BY <1>1, <2>4
           DEF P!SystemChange, PreferencesInv, P!TypeOK, P!ChoicesAreKept, P!Consent
<1>2. CASE P!LoseCookies
  <2>1. P!DefaultPrefs \in P!Prefs /\ None \in P!Consents
    BY PrefsValues DEF P!Consents
  <2>2. P!TypeOK'
    BY <1>2, <2>1 DEF P!LoseCookies, PreferencesInv, P!TypeOK
  <2>3. ChoicesMatch'
    BY <1>2 DEF P!LoseCookies, ChoicesMatch, P!GetPrefsFromCookie, P!Consent, P!DefaultPrefs
  <2>4. (P!ChoicesAreKept <=> ChoicesMatch)'
    BY <2>2, ChoicesByField, PTL DEF P!TypeOK
  <2> QED  BY <2>2, <2>3, <2>4 DEF PreferencesInv
<1> QED  BY <1>1, <1>2

LEMMA PreferencesNext == PreferencesInv /\ [P!Next]_preferencesVars => PreferencesInv'
<1> SUFFICES ASSUME PreferencesInv, [P!Next]_preferencesVars PROVE PreferencesInv'
  OBVIOUS
<1>1. CASE P!Next
  BY <1>1, PreferencesShow, PreferencesChoose, PreferencesWorld DEF P!Next
<1>2. CASE UNCHANGED preferencesVars
  BY <1>2 DEF preferencesVars, PreferencesInv, P!TypeOK, P!ChoicesAreKept, P!Consent
<1> QED  BY <1>1, <1>2

-----------------------------------------------------------------------------
(***************************************************************************)
(* The navigation menu.                                                    *)
(***************************************************************************)

Opened(m) == openSubmenu \in m.visible /\ N!IsTrigger(m, openSubmenu)

\* The elements that hold the ref while submenu g is open: the copy in the
\* mobile menu, if there is one; else the main one, if any.
Holders(mobileOpen, g) ==
  IF "mobile" \in N!Rendered(mobileOpen) THEN {<<"mobile", g>>} ELSE {<<"main", g>>, None}

RefOK ==
  IF Opened(menu) THEN submenuRef \in Holders(mobileMenuOpen, openSubmenu)
                ELSE submenuRef = None

NavigationInv == N!TypeOK /\ RefOK

LEMMA RenderedCopies ==
  ASSUME NEW b
  PROVE  /\ "main" \in N!Rendered(b) /\ N!Rendered(b) \subseteq N!Copies
         /\ "mobile" \in N!Rendered(b) => "drawer" \notin N!Rendered(b)
  BY DEF N!Rendered, N!Copies

LEMMA RefIsGiven ==
  ASSUME NEW m, NEW b, NEW g
  PROVE  N!GivenRef(m, b, g) =
           IF g \in m.visible /\ N!IsTrigger(m, g) THEN N!Rendered(b) \X {g} ELSE {}
  BY DEF N!GivenRef

\* React gives the ref to the copies in the order of the document.
LEMMA LastIs ==
  ASSUME NEW S \in SUBSET N!Copies, NEW g, S # {},
         "main" \in S \/ S = {"mobile"}, "mobile" \in S => "drawer" \notin S
  PROVE  N!LastOf(S \X {g}) = IF "mobile" \in S THEN <<"mobile", g>> ELSE <<"main", g>>
<1> DEFINE last == IF "mobile" \in S THEN <<"mobile", g>> ELSE <<"main", g>>
           Is(e) == \A f \in S \X {g} : f[1] # e[1] => (e[1] = "mobile" \/ f[1] = "drawer")
<1>1. last \in S \X {g} /\ Is(last)
  BY DEF N!Copies
<1>2. ASSUME NEW e \in S \X {g}, Is(e) PROVE e = last
  <2>1. PICK c \in S : e = <<c, g>>
    OBVIOUS
  <2>2. c = "mobile" \/ "mobile" \notin S
    <3> SUFFICES ASSUME "mobile" \in S, c # "mobile" PROVE FALSE
      OBVIOUS
    <3>1. <<"mobile", g>> \in S \X {g} /\ <<"mobile", g>>[1] = "mobile" /\ e[1] = c
      BY <2>1
    <3> QED  BY <1>2, <3>1
  <2>3. CASE "mobile" \in S
    BY <2>1, <2>2, <2>3
  <2>4. CASE "mobile" \notin S
    <3>1. "main" \in S
      BY <2>4
    <3>2. <<"main", g>> \in S \X {g} /\ <<"main", g>>[1] = "main" /\ e[1] = c
      BY <2>1, <3>1
    <3>3. c = "main"
      <4> SUFFICES ASSUME c # "main" PROVE FALSE
        OBVIOUS
      <4>1. c = "drawer"
        BY <2>2, <2>4 DEF N!Copies
      <4>2. c = "mobile" \/ <<"main", g>>[1] = "drawer"
        BY <1>2, <3>2
      <4> QED  BY <4>1, <4>2
    <3> QED  BY <2>1, <2>4, <3>3
  <2> QED  BY <2>3, <2>4
<1>3. N!LastOf(S \X {g}) = CHOOSE e \in S \X {g} : Is(e)
  BY DEF N!LastOf
<1> HIDE DEF last, Is
<1>4. N!LastOf(S \X {g}) = last
  BY <1>1, <1>2, <1>3
<1> QED  BY <1>4 DEF last

\* A commit leaves the ref with a copy that holds it, whatever it renders anew.
LEMMA CommitKeepsRef ==
  ASSUME RefOK, N!Commit, UNCHANGED setup
  PROVE  RefOK'
<1> DEFINE before == N!GivenRef(menu, mobileMenuOpen, openSubmenu)
           after == N!GivenRef(menu', mobileMenuOpen', openSubmenu')
           R == N!Rendered(mobileMenuOpen)
           Q == N!Rendered(mobileMenuOpen')
<1>1. submenuRef' = IF after \ before # {} THEN N!LastOf(after \ before)
                    ELSE IF before \ after # {} THEN None ELSE submenuRef
  BY DEF N!Commit
<1>2. /\ before = IF Opened(menu) THEN R \X {openSubmenu} ELSE {}
      /\ after = IF Opened(menu)' THEN Q \X {openSubmenu'} ELSE {}
  <2>1. Opened(menu)' <=> openSubmenu' \in menu'.visible /\ N!IsTrigger(menu', openSubmenu')
    BY DEF Opened, N!IsTrigger, N!VisibleChildren
  <2> QED  BY <2>1, RefIsGiven DEF Opened
<1>3. RefOK' <=> IF Opened(menu)' THEN submenuRef' \in Holders(mobileMenuOpen', openSubmenu')
                              ELSE submenuRef' = None
  BY DEF RefOK, Holders, N!Rendered
<1>4. /\ "main" \in R /\ R \subseteq N!Copies /\ ("mobile" \in R => "drawer" \notin R)
      /\ "main" \in Q /\ Q \subseteq N!Copies /\ ("mobile" \in Q => "drawer" \notin Q)
  BY RenderedCopies
<1>5. Q \ R \subseteq {"mobile"} /\ ("drawer" \in Q <=> "drawer" \in R)
  BY DEF N!Rendered
<1> HIDE DEF before, after, R, Q
<1>6. CASE ~Opened(menu)'
  <2>1. after = {} /\ after \ before = {} /\ before \ after = before
    BY <1>2, <1>6
  <2>2. Opened(menu) => <<"main", openSubmenu>> \in before
    BY <1>2, <1>4
  <2>3. before = {} => submenuRef = None
    BY <2>2 DEF RefOK
  <2> QED  BY <1>1, <1>3, <1>6, <2>1, <2>3
<1>7. CASE Opened(menu)' /\ (~Opened(menu) \/ openSubmenu' # openSubmenu)
  <2>1. after = Q \X {openSubmenu'} /\ after \ before = after /\ after # {}
    <3>1. after = Q \X {openSubmenu'}
      BY <1>2, <1>7
    <3>2. <<"main", openSubmenu'>> \in after
      BY <1>4, <3>1
    <3>3. before = {} \/ (before = R \X {openSubmenu} /\ openSubmenu' # openSubmenu)
      BY <1>2, <1>7
    <3>4. after \cap before = {}
      <4> SUFFICES ASSUME NEW e \in after, e \in before PROVE FALSE
        OBVIOUS
      <4>1. e[2] = openSubmenu' /\ e[2] = openSubmenu /\ openSubmenu' # openSubmenu
        BY <3>1, <3>3
      <4> QED  BY <4>1
    <3> QED  BY <3>1, <3>2, <3>4
  <2>2. N!LastOf(after) =
          IF "mobile" \in Q THEN <<"mobile", openSubmenu'>> ELSE <<"main", openSubmenu'>>
    BY <1>4, <2>1, LastIs
  <2> QED  BY <1>1, <1>3, <1>7, <2>1, <2>2 DEF Holders, Q
<1>8. CASE Opened(menu)' /\ Opened(menu) /\ openSubmenu' = openSubmenu
  <2>1. before = R \X {openSubmenu} /\ after = Q \X {openSubmenu}
    BY <1>2, <1>8
  <2>2. submenuRef \in Holders(mobileMenuOpen, openSubmenu)
    BY <1>8 DEF RefOK
  <2>3. CASE Q \ R = {"mobile"}
    <3>1. after \ before = {"mobile"} \X {openSubmenu} /\ "mobile" \in Q
      BY <2>1, <2>3
    <3>2. N!LastOf({"mobile"} \X {openSubmenu}) = <<"mobile", openSubmenu>>
      BY LastIs DEF N!Copies
    <3> QED  BY <1>1, <1>3, <1>8, <3>1, <3>2 DEF Holders, Q
  <2>4. CASE Q \ R = {} /\ R \ Q # {}
    <3>1. after \ before = {} /\ before \ after # {}
      <4>1. PICK c \in R : c \notin Q
        BY <2>4
      <4>2. <<c, openSubmenu>> \in before /\ <<c, openSubmenu>> \notin after
        BY <2>1, <4>1
      <4>3. Q \subseteq R
        BY <2>4
      <4> QED  BY <2>1, <4>2, <4>3
    <3>2. "mobile" \notin Q
      BY <2>4, <1>4 DEF N!Rendered, Q, R
    <3> QED  BY <1>1, <1>3, <1>8, <3>1, <3>2 DEF Holders, Q
  <2>5. CASE Q = R
    <3>1. submenuRef' = submenuRef
      BY <1>1, <2>1, <2>5
    <3> QED  BY <1>3, <1>8, <2>2, <2>5, <3>1 DEF Holders, Q, R
  <2> QED  BY <1>5, <2>3, <2>4, <2>5
<1> QED  BY <1>6, <1>7, <1>8

LEMMA NavigationInit == N!Init => NavigationInv
<1> SUFFICES ASSUME N!Init PROVE NavigationInv
  OBVIOUS
<1>1. ~Opened(menu)
  BY PartsAssumption DEF N!Init, Opened, N!IsTrigger, N!ConstantsAssumption
<1> QED  BY <1>1 DEF N!Init, NavigationInv, N!TypeOK, RefOK, N!Elements

LEMMA HolderIsElement ==
  ASSUME NavigationInv
  PROVE  submenuRef \in N!Elements
BY DEF NavigationInv, N!TypeOK

\* What an event does to the submenu, and what the pointer is left at.
NavigationStep ==
  /\ UNCHANGED setup
  /\ wide' \in BOOLEAN /\ menu' \in Menus
  /\ mobileMenuOpen' \in BOOLEAN /\ drawerOpen' \in BOOLEAN /\ collapsed' \in BOOLEAN
  /\ openSubmenu' \in Groups \cup {None} /\ pressed' \in N!Elements
  /\ \/ N!Commit
     \/ UNCHANGED <<menu, mobileMenuOpen, openSubmenu, submenuRef>>

LEMMA ActivateSteps ==
  ASSUME N!TypeOK, NEW i \in N!Items, N!Activate(i), pressed' \in N!Elements
  PROVE  NavigationStep
<1>1. /\ mobileMenuOpen' \in BOOLEAN /\ drawerOpen' \in BOOLEAN /\ collapsed' \in BOOLEAN
      /\ openSubmenu' \in Groups \cup {None}
  <2>1. CASE N!IsTrigger(menu, i)
    BY <2>1 DEF N!Activate, N!ToggleSubmenu, N!TypeOK, N!IsTrigger
  <2>2. CASE ~N!IsTrigger(menu, i)
    <3>1. N!Follow \/ N!HandleItemClick(i)
      BY <2>2 DEF N!Activate
    <3> QED  BY <3>1 DEF N!Follow, N!HandleItemClick, N!CloseAll, N!TypeOK
  <2> QED  BY <2>1, <2>2
<1> QED  BY <1>1 DEF N!Activate, NavigationStep, N!TypeOK

LEMMA EventsStep ==
  ASSUME N!TypeOK, [N!Next]_navigationVars
  PROVE  NavigationStep
<1> USE DEF N!TypeOK, NavigationStep, N!Elements
<1>1. ASSUME NEW c \in N!Copies, NEW i \in N!Items, N!Press(c, i) PROVE NavigationStep
  BY <1>1 DEF N!Press
<1>2. ASSUME NEW c \in N!Copies, NEW i \in N!Items, N!Enter(c, i) PROVE NavigationStep
  BY <1>2, ActivateSteps DEF N!Enter
<1>3. CASE N!Click
  <2>1. pressed[2] \in N!Items
    BY <1>3 DEF N!Click
  <2> QED  BY <1>3, <2>1, ActivateSteps DEF N!Click
<1>4. CASE N!Release \/ N!PressElsewhere
  BY <1>4 DEF N!Release, N!PressElsewhere
<1>5. CASE N!ToggleMobileMenu \/ N!ToggleDrawer
  BY <1>5 DEF N!ToggleMobileMenu, N!ToggleDrawer
<1>6. CASE N!ToggleCollapsed \/ N!SyncCollapsed
  BY <1>6 DEF N!ToggleCollapsed, N!SyncCollapsed
<1>7. CASE N!NewMenu \/ N!Resize
  BY <1>7 DEF N!NewMenu, N!Resize
<1>8. CASE UNCHANGED navigationVars
  BY <1>8 DEF navigationVars
<1> QED  BY <1>1, <1>2, <1>3, <1>4, <1>5, <1>6, <1>7, <1>8 DEF N!Next

LEMMA NavigationNext == NavigationInv /\ [N!Next]_navigationVars => NavigationInv'
<1> SUFFICES ASSUME NavigationInv, [N!Next]_navigationVars PROVE NavigationInv'
  OBVIOUS
<1>1. NavigationStep
  BY EventsStep DEF NavigationInv
<1>2. RefOK'
  <2>1. CASE N!Commit
    BY <1>1, <2>1, CommitKeepsRef DEF NavigationInv, NavigationStep
  <2>2. CASE UNCHANGED <<setup, menu, mobileMenuOpen, openSubmenu, submenuRef>>
    BY <2>2 DEF NavigationInv, RefOK, Opened, Holders, N!Rendered, N!IsTrigger, N!VisibleChildren
  <2> QED  BY <1>1, <2>1, <2>2 DEF NavigationStep
<1>3. submenuRef' \in N!Elements
  <2>1. Opened(menu)' => openSubmenu' \in N!Items
    BY DEF Opened, N!IsTrigger, N!Items
  <2> QED  BY <1>2, <2>1 DEF RefOK, Holders, N!Elements, N!Copies
<1>4. N!TypeOK'
  BY <1>1, <1>3 DEF NavigationInv, N!TypeOK, NavigationStep, N!Elements
<1> QED  BY <1>2, <1>4 DEF NavigationInv

\* What the ref holds decides which copies can be used.
LEMMA RefKeepsUsable ==
  ASSUME NavigationInv
  PROVE  N!SubmenuStaysUsable
<1>1. ASSUME NEW i \in Children, N!Shown(i)
      PROVE  submenuRef \in Holders(mobileMenuOpen, Parent[i]) \cup {None}
  BY <1>1 DEF N!Shown, NavigationInv, RefOK
<1>2. ~N!Unusable("mobile")
  <2> SUFFICES ASSUME NEW i \in Children, N!Shown(i), N!InSight("mobile"),
                      N!Outside("mobile", i)
               PROVE  FALSE
    BY DEF N!Unusable
  <2>1. submenuRef \in {<<"mobile", Parent[i]>>, None}
    BY <1>1 DEF N!InSight, N!Displayed, Holders
  <2> QED  BY <2>1 DEF N!Outside
<1>3. ASSUME setup.vertical \/ ~mobileMenuOpen PROVE ~N!Unusable("main")
  <2> SUFFICES ASSUME NEW i \in Children, N!Shown(i), N!Outside("main", i) PROVE FALSE
    BY DEF N!Unusable
  <2>1. submenuRef \in {<<"main", Parent[i]>>, None}
    BY <1>1, <1>3 DEF Holders, N!Rendered
  <2> QED  BY <2>1 DEF N!Outside
<1> QED  BY <1>2, <1>3 DEF N!SubmenuStaysUsable

-----------------------------------------------------------------------------
(***************************************************************************)
(* The menu of the header.                                                 *)
(***************************************************************************)

\* The runs of the effect that still count are for the user as he is now.
RunsMatch(runs, isAuthenticated) ==
  \A f \in H!Fetches : runs[f] # H!NoFetch =>
    /\ "appsApiUrl" \in given
    /\ ~runs[f].cancelled => runs[f].isAuthenticated = isAuthenticated

HeaderInv ==
  /\ H!TypeOK
  /\ RunsMatch(fetches, user.isAuthenticated)
  /\ fetchedApps # None => "appsApiUrl" \in given
  /\ H!AppsMatchUser

LEMMA RunRecords ==
  /\ H!NoFetch \in H!Fetch /\ H!NoFetch.phase = "none"
  /\ \A u \in H!User :
       LET run == [H!NoFetch EXCEPT !.phase = "sent", !.isAuthenticated = u.isAuthenticated]
       IN run \in H!Fetch /\ run.isAuthenticated = u.isAuthenticated
  /\ \A run \in H!Fetch :
       /\ [run EXCEPT !.cancelled = TRUE] \in H!Fetch
       /\ [run EXCEPT !.cancelled = TRUE].cancelled
BY DEF H!Fetch, H!NoFetch, H!Registry, H!User

\* A new run of the effect is for the user, and cancels all others.
LEMMA RanMatches ==
  ASSUME NEW runs \in [H!Fetches -> H!Fetch], NEW f, NEW u \in H!User,
         "appsApiUrl" \in given
  PROVE  /\ H!Ran(runs, f, u) \in [H!Fetches -> H!Fetch]
         /\ RunsMatch(H!Ran(runs, f, u), u.isAuthenticated)
<1> DEFINE run == [H!NoFetch EXCEPT !.phase = "sent", !.isAuthenticated = u.isAuthenticated]
           ran == [g \in H!Fetches |->
                     IF g = f THEN run
                     ELSE IF runs[g] = H!NoFetch THEN H!NoFetch
                     ELSE [runs[g] EXCEPT !.cancelled = TRUE]]
<1>1. run \in H!Fetch /\ run.isAuthenticated = u.isAuthenticated
  BY RunRecords
<1>2. H!Ran(runs, f, u) = ran
  BY DEF H!Ran
<1> HIDE DEF run
<1>3. ran \in [H!Fetches -> H!Fetch]
  BY <1>1, RunRecords
<1>4. ASSUME NEW g \in H!Fetches, ran[g] # H!NoFetch, ~ran[g].cancelled
      PROVE  ran[g].isAuthenticated = u.isAuthenticated
  BY <1>1, <1>4, RunRecords
<1> HIDE DEF ran
<1> QED  BY <1>2, <1>3, <1>4 DEF RunsMatch

LEMMA FirstRunMatches ==
  /\ H!Guest \in H!User
  /\ H!FirstRun(H!Guest) \in [H!Fetches -> H!Fetch]
  /\ RunsMatch(H!FirstRun(H!Guest), H!Guest.isAuthenticated)
<1> DEFINE none == [f \in H!Fetches |-> H!NoFetch]
<1>1. H!Guest \in H!User
  BY DEF H!Guest, H!User
<1>2. none \in [H!Fetches -> H!Fetch] /\ RunsMatch(none, H!Guest.isAuthenticated)
  BY RunRecords DEF RunsMatch
<1>3. CASE "appsApiUrl" \in given
  BY <1>1, <1>2, <1>3, RanMatches DEF H!FirstRun
<1>4. CASE "appsApiUrl" \notin given
  BY <1>1, <1>2, <1>4 DEF H!FirstRun
<1> QED  BY <1>3, <1>4

LEMMA HeaderInit == H!Init => HeaderInv
<1> SUFFICES ASSUME H!Init PROVE HeaderInv
  OBVIOUS
<1>1. given \subseteq H!Flags
  BY PartsAssumption DEF H!ConstantsAssumption, H!Init
<1>2. registry \in H!Registry
  BY DEF H!Init, H!Registry
<1>3. RunsMatch(fetches, user.isAuthenticated)
  BY FirstRunMatches DEF H!Init
<1>4. user \in H!User /\ fetches \in [H!Fetches -> H!Fetch]
  BY FirstRunMatches DEF H!Init
<1>5. appsLoading \in BOOLEAN /\ fetchedApps = None
  BY DEF H!Init
<1>6. shell \in H!Shells /\ given \in Setups
      /\ menuOpen \in BOOLEAN /\ preferencesOpen \in BOOLEAN /\ answer = registry
  BY DEF H!Init
<1> QED  BY <1>1, <1>2, <1>3, <1>4, <1>5, <1>6 DEF HeaderInv, H!TypeOK, H!AppsMatchUser

\* The page is loaded anew.
LEMMA HeaderMounted == HeaderInv /\ H!Mounted => HeaderInv'
<1> SUFFICES ASSUME HeaderInv, H!Mounted PROVE HeaderInv'
  OBVIOUS
<1>1. RunsMatch(fetches, user.isAuthenticated)'
  BY FirstRunMatches DEF H!Mounted, RunsMatch, H!Fetches
<1>2. (user \in H!User)' /\ (fetches \in [H!Fetches -> H!Fetch])'
  BY FirstRunMatches DEF H!Mounted
<1>3. appsLoading' \in BOOLEAN /\ fetchedApps' = None
  BY DEF H!Mounted
<1>4. menuOpen' \in BOOLEAN /\ preferencesOpen' \in BOOLEAN
      /\ UNCHANGED <<shell, given, registry, answer>>
  BY DEF H!Mounted
<1> QED  BY <1>1, <1>2, <1>3, <1>4 DEF HeaderInv, H!TypeOK, H!AppsMatchUser

\* Nothing else in the menu is for a tenant.
LEMMA TenantsAreTenants ==
  ASSUME shell \in H!Shells, NEW e \in H!Entries, e[1] = "tenant"
  PROVE  e \in H!TenantEntries
<1>1. ASSUME NEW flags, NEW x, e \in H!Offers(flags, x) PROVE e = x
  BY <1>1 DEF H!Offers
<1>2. e \notin H!NavLinks /\ e \notin H!HamburgerMenuContent
  BY DEF H!NavLinks, H!HamburgerMenuContent, H!MenuItems, H!Content
<1>3. e \notin H!AppEntries /\ e \notin H!AppEntriesCopy
  BY <1>2 DEF H!AppEntries, H!AppEntriesCopy
<1>4. e \in H!AccountEntries \/ e \in H!AccountEntriesCopy
  BY <1>2, <1>3 DEF H!Entries
<1>5. e \in H!AccountEntries => e \in H!TenantEntries
  BY <1>1 DEF H!AccountEntries
<1>6. e \in H!AccountEntriesCopy => e \in H!TenantEntries
  BY <1>1 DEF H!AccountEntriesCopy
<1> QED  BY <1>4, <1>5, <1>6

\* What the user does in the menu, and the registry: no run and no list changes.
LEMMA HeaderAside ==
  ASSUME HeaderInv,
         \/ \E a \in Apps, status \in {"public", "internal", "withdrawn"} : H!Publish(a, status)
         \/ \E e \in H!Entries : H!SwitchTenant(e) \/ H!OpenPreferences(e)
         \/ H!ClosePreferences \/ H!ToggleMenu \/ UNCHANGED headerVars
  PROVE  HeaderInv'
<1>1. /\ shell' = shell /\ given' = given /\ fetches' = fetches
      /\ fetchedApps' = fetchedApps /\ appsLoading' = appsLoading /\ answer' = answer
      /\ menuOpen' \in BOOLEAN /\ preferencesOpen' \in BOOLEAN
  BY DEF HeaderInv, H!TypeOK, H!Publish, H!SwitchTenant, H!OpenPreferences,
         H!ClosePreferences, H!ToggleMenu, headerVars
<1>2. registry' \in H!Registry
  BY DEF HeaderInv, H!TypeOK, H!Publish, H!SwitchTenant, H!OpenPreferences,
         H!ClosePreferences, H!ToggleMenu, headerVars, H!Registry
<1>3. user' \in H!User /\ user'.isAuthenticated = user.isAuthenticated
  <2>1. CASE \E e \in H!Entries : H!SwitchTenant(e)
    <3>1. PICK e \in H!Entries : H!SwitchTenant(e)
      BY <2>1
    <3>2. e \in H!TenantEntries
      BY <3>1, TenantsAreTenants DEF H!SwitchTenant, HeaderInv, H!TypeOK
    <3>3. e[2] \in Tenants \cup {None}
      BY <3>2 DEF H!TenantEntries, HeaderInv, H!TypeOK, H!User
    <3> QED  BY <3>1, <3>3 DEF H!SwitchTenant, HeaderInv, H!TypeOK, H!User
  <2>2. CASE user' = user
    BY <2>2 DEF HeaderInv, H!TypeOK
  <2> QED  BY <2>1, <2>2 DEF H!Publish, H!SwitchTenant, H!OpenPreferences,
                             H!ClosePreferences, H!ToggleMenu, headerVars
<1> QED  BY <1>1, <1>2, <1>3
         DEF HeaderInv, H!TypeOK, H!AppsMatchUser, RunsMatch, H!Fetches, H!Filtered

\* The session is found, or found to have ended.
LEMMA HeaderAuth ==
  ASSUME HeaderInv, NEW u \in H!User, H!AuthChanges(u)
  PROVE  HeaderInv'
<1>1. CASE "appsApiUrl" \in given
  <2>1. PICK f \in H!Fetches : fetches' = H!Ran(fetches, f, u)
    BY <1>1 DEF H!AuthChanges, H!FetchApps
  <2>2. fetches' \in [H!Fetches -> H!Fetch] /\ RunsMatch(fetches', u.isAuthenticated)
    BY <1>1, <2>1, RanMatches DEF HeaderInv, H!TypeOK
  <2>3. RunsMatch(fetches, user.isAuthenticated)'
    BY <2>2 DEF H!AuthChanges, RunsMatch, H!Fetches
  <2> QED  BY <1>1, <2>2, <2>3 DEF HeaderInv, H!TypeOK, H!AuthChanges, H!FetchApps, H!AppsMatchUser
<1>2. CASE "appsApiUrl" \notin given
  BY <1>2 DEF HeaderInv, H!TypeOK, H!AuthChanges, H!FetchApps, H!AppsMatchUser, RunsMatch, H!Fetches
<1> QED  BY <1>1, <1>2

\* One run changes, and counts for the same user as before, or is over.
LEMMA RunsStillMatch ==
  ASSUME HeaderInv, NEW f \in H!Fetches, NEW run \in H!Fetch,
         fetches' = [fetches EXCEPT ![f] = run], UNCHANGED <<given, user>>,
         run = H!NoFetch \/ (/\ fetches[f] # H!NoFetch
                             /\ run.isAuthenticated = fetches[f].isAuthenticated
                             /\ run.cancelled = fetches[f].cancelled)
  PROVE  /\ fetches' \in [H!Fetches -> H!Fetch]
         /\ RunsMatch(fetches, user.isAuthenticated)'
BY DEF HeaderInv, H!TypeOK, RunsMatch, H!Fetches

LEMMA HeaderReply ==
  ASSUME HeaderInv, NEW f \in H!Fetches, H!Reply(f)
  PROVE  HeaderInv'
<1> DEFINE run == [fetches[f] EXCEPT !.phase = "answered", !.apps = registry]
<1>1. fetches' = [fetches EXCEPT ![f] = run]
  BY DEF H!Reply, HeaderInv, H!TypeOK
<1>2. fetches[f] \in H!Fetch /\ fetches[f] # H!NoFetch
  BY DEF H!Reply, HeaderInv, H!TypeOK, H!NoFetch
<1>3. registry \in H!Registry
  BY DEF HeaderInv, H!TypeOK
<1>4. /\ run \in H!Fetch
      /\ run.isAuthenticated = fetches[f].isAuthenticated
      /\ run.cancelled = fetches[f].cancelled
  BY <1>2, <1>3 DEF H!Fetch
<1> HIDE DEF run
<1>5. /\ fetches' \in [H!Fetches -> H!Fetch]
      /\ RunsMatch(fetches, user.isAuthenticated)'
  BY <1>1, <1>2, <1>4, RunsStillMatch DEF H!Reply
<1> QED  BY <1>5 DEF HeaderInv, H!TypeOK, H!Reply, H!AppsMatchUser, H!Filtered

\* A run that counts ends with the list that the user may see, or none.
LEMMA HeaderEnded ==
  ASSUME HeaderInv, NEW f \in H!Fetches, NEW apps, NEW heard \in H!Registry,
         fetches[f] # H!NoFetch, H!Ended(f, apps, heard),
         apps = None \/ apps = H!Filtered(heard, fetches[f].isAuthenticated)
  PROVE  HeaderInv'
<1>1. /\ fetches' \in [H!Fetches -> H!Fetch]
      /\ RunsMatch(fetches, user.isAuthenticated)'
  BY RunsStillMatch, RunRecords DEF H!Ended
<1>2. /\ "appsApiUrl" \in given
      /\ ~fetches[f].cancelled => fetches[f].isAuthenticated = user.isAuthenticated
  BY DEF HeaderInv, RunsMatch
<1>3. fetchedApps' \in (SUBSET Apps) \cup {None} /\ answer' \in H!Registry
  BY DEF H!Ended, H!NotCancelled, HeaderInv, H!TypeOK, H!Filtered
<1>4. H!AppsMatchUser'
  BY <1>2 DEF H!Ended, H!NotCancelled, HeaderInv, H!AppsMatchUser, H!Filtered
<1> QED  BY <1>1, <1>2, <1>3, <1>4 DEF HeaderInv, H!TypeOK, H!Ended, H!NotCancelled

LEMMA HeaderNext == HeaderInv /\ [H!Next]_headerVars => HeaderInv'
<1> SUFFICES ASSUME HeaderInv, [H!Next]_headerVars PROVE HeaderInv'
  OBVIOUS
<1>1. ASSUME NEW f \in H!Fetches, H!Reply(f) \/ H!Receive(f) \/ H!Fail(f) PROVE HeaderInv'
  <2>1. fetches[f] \in H!Fetch /\ answer \in H!Registry
    BY DEF HeaderInv, H!TypeOK
  <2>2. fetches[f].apps \in H!Registry
    BY <2>1 DEF H!Fetch
  <2>3. H!Receive(f) => fetches[f] # H!NoFetch
    BY DEF H!Receive, H!NoFetch
  <2>4. CASE H!Receive(f)
    BY <2>2, <2>3, <2>4, HeaderEnded DEF H!Receive
  <2>5. CASE H!Fail(f)
    BY <2>1, <2>5, HeaderEnded DEF H!Fail
  <2> QED  BY <1>1, <2>4, <2>5, HeaderReply
<1>2. ASSUME NEW e \in H!Entries, H!Leave(e) PROVE HeaderInv'
  BY <1>2, HeaderMounted DEF H!Leave
<1>3. ASSUME NEW u \in H!User, H!AuthChanges(u) PROVE HeaderInv'
  BY <1>3, HeaderAuth
<1> QED  BY <1>1, <1>2, <1>3, HeaderAside DEF H!Next

-----------------------------------------------------------------------------
(***************************************************************************)
(* The stacks.                                                             *)
(***************************************************************************)

\* How stacks are set up: what is production for a stack is it for its policies.
SetUp ==
  /\ kind = "runtime" => environment = "prod"
  /\ kind = "local" => environment # "production"

\* A deployed stack has all its resources, and one under way those it has made.
Provisioned ==
  /\ stack.status \in {"complete", "updating", "reverting", "stuck"} =>
       stack.running > 0 /\ \A r \in A!Resources : at[r] # 0
  /\ stack.status \in {"creating", "updating"} => stack.target > 0
  /\ stack.status = "creating" =>
       \A r \in A!Resources \ stack.todo : at[r] = stack.target

\* Which version of the code and of the manifest each phase of a deployment has.
Registered ==
  "registration" \in A!Resources =>
    /\ stack.status = "complete" =>
         at["function"] = stack.running /\ manifest = stack.running
    /\ stack.status = "creating" /\ "registration" \notin stack.todo =>
         manifest = stack.target
    /\ stack.status = "updating" =>
         /\ stack.todo \subseteq A!Changed
         /\ at["function"] =
              IF "function" \in stack.todo THEN stack.running ELSE stack.target
         /\ manifest =
              IF "registration" \in stack.todo THEN stack.running ELSE stack.target
    /\ stack.status \in {"reverting", "stuck"} =>
         /\ "function" \notin stack.todo => at["function"] = stack.running
         /\ "registration" \notin stack.todo => manifest = stack.running
    /\ stack.status = "stuck" => "registration" \in stack.todo

StackInv == A!TypeOK /\ SetUp /\ Provisioned /\ Registered /\ A!DataSurvives

\* In production what holds data is retained; a manifest is of a function.
LEMMA PoliciesProtect ==
  ASSUME kind \in A!Stacks, environment \in A!Environments, SetUp
  PROVE  /\ (environment \in {"prod", "production"} \/ kind = "runtime") =>
              A!Data \subseteq A!Retained
         /\ "registration" \in A!Resources => "function" \in A!Resources
         /\ A!Changed \subseteq A!Resources /\ A!Data \subseteq A!Resources
<1> USE DEF A!Data, A!Changed, A!Retained, A!Resources
<1>1. CASE kind = "developer"
  BY <1>1 DEF A!DeveloperResources, A!Backend, A!Frontend, A!Monitoring
<1>2. CASE kind = "runtime"
  BY <1>2 DEF SetUp, A!RetainedArtifacts, A!SharedRuntimeResources, A!SharedRuntimeCdn
<1>3. CASE kind = "constructs"
  BY <1>3 DEF A!RetainedTable, A!RetainedBucket, A!IsProdEnvironment, A!DataTable,
              A!ApiLambda, A!SpaHosting, A!ManifestRegistration
<1>4. CASE kind = "ds-cdk"
  BY <1>4 DEF A!RetainedTable, A!RetainedBucket, A!IsProdEnvironment, A!CopiedDataTable,
              A!CopiedApiLambda, A!CopiedSpaHosting
<1>5. CASE kind = "local"
  BY <1>5 DEF SetUp, A!RetainedLocally, A!LocalDataTable, A!LocalApiLambda, A!LocalSpaHosting
<1> QED  BY <1>1, <1>2, <1>3, <1>4, <1>5 DEF A!Stacks

\* The resources of a stack are what they were when it was set up.
LEMMA SameResources ==
  ASSUME UNCHANGED <<kind, environment, skipRegistration>>
  PROVE  /\ A!Resources' = A!Resources /\ A!Changed' = A!Changed /\ A!Data' = A!Data
         /\ A!Retained' = A!Retained /\ A!Stack' = A!Stack
<1>1. A!Resources' = A!Resources
  BY DEF A!Resources, A!ManifestRegistration
<1>2. A!Retained' = A!Retained
  BY DEF A!Retained
<1> QED  BY <1>1, <1>2 DEF A!Changed, A!Data, A!Stack, A!Versions

LEMMA StackInit == A!Init => StackInv
<1> SUFFICES ASSUME A!Init PROVE StackInv
  OBVIOUS
<1>1. 0 \in A!Versions /\ 1 \in A!Versions
  BY PartsAssumption DEF A!ConstantsAssumption, A!Versions
<1>2. CASE /\ stack = A!Nothing /\ at = [r \in A!Resources |-> 0] /\ manifest = 0
  <2>1. stack \in A!Stack /\ stack.status = "none"
    BY <1>1, <1>2 DEF A!Nothing, A!Stack
  <2> QED  BY <1>1, <1>2, <2>1
           DEF A!Init, StackInv, A!TypeOK, SetUp, Provisioned, Registered, A!DataSurvives
<1>3. CASE /\ stack = [A!Nothing EXCEPT !.status = "complete", !.running = 1, !.target = 1]
           /\ at = [r \in A!Resources |-> 1]
           /\ manifest = IF "registration" \in A!Resources THEN 1 ELSE 0
  <2>1. stack \in A!Stack /\ stack.status = "complete" /\ stack.running = 1
    BY <1>1, <1>3 DEF A!Nothing, A!Stack
  <2>2. SetUp /\ kind \in A!Stacks /\ environment \in A!Environments
    BY DEF A!Init, SetUp
  <2>3. Registered
    BY <1>3, <2>1, <2>2, PoliciesProtect DEF Registered
  <2> QED  BY <1>1, <1>3, <2>1, <2>2, <2>3
           DEF A!Init, StackInv, A!TypeOK, Provisioned, A!DataSurvives
<1> QED  BY <1>2, <1>3 DEF A!Init

LEMMA StackFields ==
  ASSUME StackInv
  PROVE  /\ stack.running \in A!Versions /\ stack.target \in A!Versions
         /\ stack.todo \subseteq A!Resources
         /\ stack.status \in {"none", "creating", "updating", "undoing", "reverting",
                              "deleting", "complete", "stuck"}
         /\ kind \in A!Stacks /\ environment \in A!Environments
BY DEF StackInv, A!TypeOK, A!Stack

\* A deployment begins, ends or turns back: only the stack's record changes.
LEMMA StackTurns ==
  ASSUME StackInv,
         \/ \E version \in A!Versions : A!Deploy(version)
         \/ A!Complete \/ A!ContinueRollback \/ A!Reverted \/ A!Destroy \/ A!Gone
  PROVE  StackInv'
<1>1. UNCHANGED <<kind, environment, skipRegistration, at, orphans, stored, manifest>>
  BY DEF A!Deploy, A!Complete, A!ContinueRollback, A!Reverted, A!Destroy, A!Gone
<1>2. SetUp /\ Provisioned /\ Registered /\ A!DataSurvives /\ stack \in A!Stack
  BY DEF StackInv, A!TypeOK
<1>3. "registration" \in A!Resources => A!Changed = {"function", "registration"}
  BY PoliciesProtect DEF StackInv, A!TypeOK, A!Changed
<1>4. stack' \in A!Stack /\ Provisioned' /\ Registered'
  <2> USE SameResources
  <2>1. ASSUME NEW version \in A!Versions, A!Deploy(version)
        PROVE  stack' \in A!Stack /\ Provisioned' /\ Registered'
    <3>1. /\ stack'.status = IF stack.status = "none" THEN "creating" ELSE "updating"
          /\ stack'.todo = IF stack.status = "none" THEN A!Resources ELSE A!Changed
          /\ stack'.running = stack.running /\ stack'.target = version
          /\ stack' \in A!Stack
      BY <2>1, <1>2, PoliciesProtect DEF A!Deploy, A!Stack, StackInv, A!TypeOK
    <3>2. stack.status \in {"none", "complete"} /\ version > 0
      BY <2>1 DEF A!Deploy
    <3> QED  BY <1>1, <1>2, <1>3, <3>1, <3>2 DEF Provisioned, Registered
  <2>2. CASE A!Complete
    <3>1. /\ stack'.status = "complete" /\ stack'.running = stack.target
          /\ stack' \in A!Stack /\ stack.todo = {}
          /\ stack.status \in {"creating", "updating"}
      BY <2>2, <1>2 DEF A!Complete, A!Stack
    <3>2. stack.target # 0 /\ stack.target > 0
      BY <1>2, <3>1, StackFields, PartsAssumption
      DEF Provisioned, A!Versions, A!ConstantsAssumption
    <3>3. Provisioned'
      BY <1>1, <1>2, <3>1, <3>2 DEF Provisioned
    <3>4. Registered'
      BY <1>1, <1>2, <3>1, StackFields, PoliciesProtect DEF Provisioned, Registered
    <3> QED  BY <3>1, <3>3, <3>4
  <2>3. CASE A!ContinueRollback
    <3>1. /\ stack'.status = "reverting" /\ stack'.running = stack.running
          /\ stack' \in A!Stack /\ stack'.todo = stack.todo /\ stack.status = "stuck"
      BY <2>3, <1>2 DEF A!ContinueRollback, A!Stack
    <3> QED  BY <1>1, <1>2, <3>1 DEF Provisioned, Registered
  <2>4. CASE A!Reverted
    <3>1. /\ stack'.status = "complete" /\ stack'.running = stack.running
          /\ stack' \in A!Stack /\ stack.todo = {} /\ stack.status = "reverting"
      BY <2>4, <1>2 DEF A!Reverted, A!Stack
    <3> QED  BY <1>1, <1>2, <3>1 DEF Provisioned, Registered
  <2>5. CASE A!Destroy
    <3>1. stack'.status = "deleting" /\ stack' \in A!Stack
      BY <2>5, <1>2 DEF A!Destroy, A!Stack
    <3> QED  BY <1>1, <3>1 DEF Provisioned, Registered
  <2>6. CASE A!Gone
    <3>1. 0 \in A!Versions
      BY PartsAssumption DEF A!ConstantsAssumption, A!Versions
    <3>2. stack'.status = "none" /\ stack' \in A!Stack
      BY <2>6, <3>1, <1>2 DEF A!Gone, A!Stack, A!Nothing
    <3> QED  BY <1>1, <3>2 DEF Provisioned, Registered
  <2> QED  BY <2>1, <2>2, <2>3, <2>4, <2>5, <2>6
<1> QED  BY <1>1, <1>2, <1>4, SameResources
         DEF StackInv, A!TypeOK, SetUp, A!DataSurvives, A!Versions

\* r is done: it is at a version, and the manifest with it.
LEMMA StackDoes ==
  ASSUME StackInv, NEW r \in A!Resources,
         A!Provision(r) \/ A!Revert(r) \/ (r = "registration" /\ A!Register)
  PROVE  StackInv'
<1>1. UNCHANGED <<kind, environment, skipRegistration, orphans, stored>>
  BY DEF A!Provision, A!Revert, A!Register
<1>2. /\ SetUp /\ Provisioned /\ Registered /\ A!DataSurvives /\ stack \in A!Stack
      /\ at \in [A!Resources -> A!Versions] /\ manifest \in A!Versions
  BY DEF StackInv, A!TypeOK
<1>3. /\ stack'.status = stack.status /\ stack'.running = stack.running
      /\ stack'.target = stack.target /\ stack'.todo = stack.todo \ {r}
      /\ stack' \in A!Stack /\ r \in stack.todo
  BY <1>2 DEF A!Provision, A!Revert, A!Register, A!Ready, A!Stack
<1> DEFINE version == IF stack.status = "reverting" THEN stack.running ELSE stack.target
<1>4. /\ at' = [at EXCEPT ![r] = version]
      /\ manifest' = IF r = "registration" THEN version ELSE manifest
      /\ stack.status \in {"creating", "updating", "reverting"}
  BY DEF A!Provision, A!Revert, A!Register, A!Ready, A!Posted, A!Registers, A!Event
<1>5. version \in A!Versions /\ version > 0 /\ version # 0
  BY <1>2, <1>4, StackFields, PartsAssumption DEF Provisioned, A!Versions, A!ConstantsAssumption
<1> HIDE DEF version
<1>6. at' \in [A!Resources -> A!Versions] /\ manifest' \in A!Versions
  BY <1>2, <1>4, <1>5
<1>7. /\ at'[r] = version
      /\ \A q \in A!Resources \ {r} : at'[q] = at[q]
  BY <1>2, <1>4
<1>8. "registration" \in A!Resources =>
        "function" \in A!Resources /\ "function" \in A!Changed /\ "registration" \in A!Changed
  BY <1>2, PoliciesProtect, StackFields DEF A!Changed
<1>9. Provisioned'
  <2>1. ASSUME stack.status # "creating", NEW q \in A!Resources, at[q] # 0 PROVE at'[q] # 0
    BY <2>1, <1>5, <1>7
  <2>2. ASSUME stack.status = "creating", NEW q \in A!Resources \ stack'.todo
        PROVE  at'[q] = stack.target
    BY <2>2, <1>2, <1>3, <1>7 DEF Provisioned, version
  <2> QED  BY <1>1, <1>2, <1>3, <1>4, <2>1, <2>2, SameResources DEF Provisioned
<1>10. Registered'
  BY <1>1, <1>2, <1>3, <1>4, <1>7, <1>8, SameResources DEF Registered, version
<1>11. A!DataSurvives'
  BY <1>1, <1>2, <1>5, <1>7, StackFields, PoliciesProtect
  DEF A!DataSurvives, StackInv, A!TypeOK, A!Versions
<1> QED  BY <1>1, <1>2, <1>3, <1>6, <1>9, <1>10, <1>11, SameResources
         DEF StackInv, A!TypeOK, SetUp, A!Versions

\* Whether or not the account service has heard of the version, the rollback
\* has the registration, and so its manifest, still to do.
LEMMA StackFailures ==
  ASSUME StackInv,
         \/ \E r \in A!Resources : A!ProvisionFails(r)
         \/ A!RegisterFails \/ A!RevertFails
  PROVE  StackInv'
<1>1. UNCHANGED <<kind, environment, skipRegistration, at, orphans, stored>>
  BY DEF A!ProvisionFails, A!RegisterFails, A!RevertFails
<1>2. /\ SetUp /\ Provisioned /\ Registered /\ A!DataSurvives /\ stack \in A!Stack
      /\ at \in [A!Resources -> A!Versions] /\ manifest \in A!Versions
  BY DEF StackInv, A!TypeOK
<1>3. manifest' \in A!Versions /\ stack' \in A!Stack /\ Provisioned' /\ Registered'
  <2> USE SameResources
  <2>1. CASE A!RevertFails
    <3>1. /\ stack'.status = "stuck" /\ stack'.running = stack.running
          /\ stack'.todo = stack.todo /\ stack' \in A!Stack
          /\ stack.status = "reverting" /\ "registration" \in stack.todo
          /\ manifest' \in A!Versions
      BY <2>1, <1>2 DEF A!RevertFails, A!Stack, A!Posted, A!Registers
    <3> QED  BY <1>1, <1>2, <3>1 DEF Provisioned, Registered
  <2>2. ASSUME NEW r \in A!Resources, A!Ready(r), stack' = A!RolledBack(r),
               manifest' = manifest \/ (r = "registration" /\ manifest' \in A!Versions)
        PROVE  manifest' \in A!Versions /\ stack' \in A!Stack /\ Provisioned' /\ Registered'
    <3>1. CASE stack.status = "creating"
      <4>1. stack'.status = "undoing" /\ stack' \in A!Stack
        BY <2>2, <3>1, <1>2 DEF A!RolledBack, A!Stack
      <4> QED  BY <2>2, <1>1, <1>2, <4>1 DEF Provisioned, Registered
    <3>2. CASE stack.status = "updating"
      <4>1. /\ stack'.status = "reverting" /\ stack'.running = stack.running
            /\ stack'.todo = (A!Changed \ stack.todo) \cup {r} /\ stack' \in A!Stack
        BY <2>2, <3>2, <1>2, StackFields, PoliciesProtect DEF A!RolledBack, A!Stack
      <4>2. r \in stack.todo
        BY <2>2 DEF A!Ready
      <4>3. "registration" \in A!Resources => A!Changed = {"function", "registration"}
        BY <1>2, StackFields, PoliciesProtect DEF A!Changed
      <4>4. Provisioned'
        BY <1>1, <1>2, <3>2, <4>1 DEF Provisioned
      <4>5. Registered'
        BY <2>2, <1>1, <1>2, <3>2, <4>1, <4>2, <4>3 DEF Registered
      <4> QED  BY <2>2, <1>2, <4>1, <4>4, <4>5
    <3> QED  BY <2>2, <3>1, <3>2 DEF A!Ready
  <2>3. ASSUME NEW r \in A!Resources, A!ProvisionFails(r)
        PROVE  manifest' \in A!Versions /\ stack' \in A!Stack /\ Provisioned' /\ Registered'
    BY <2>3, <2>2 DEF A!ProvisionFails
  <2>4. CASE A!RegisterFails
    <3>1. "registration" \in A!Resources
      BY <2>4, StackFields DEF A!RegisterFails, A!Ready
    <3>2. manifest' = manifest \/ manifest' \in A!Versions
      BY <2>4, StackFields, <1>2 DEF A!RegisterFails, A!Posted, A!Registers
    <3> QED  BY <2>4, <2>2, <3>1, <3>2 DEF A!RegisterFails
  <2> QED  BY <2>1, <2>3, <2>4
<1> QED  BY <1>1, <1>2, <1>3, SameResources
         DEF StackInv, A!TypeOK, SetUp, A!DataSurvives, A!Versions

\* What holds data in production outlives its deletion.
LEMMA StackDeletes ==
  ASSUME StackInv, NEW r \in A!Resources, A!Delete(r)
  PROVE  StackInv'
<1>1. /\ UNCHANGED <<kind, environment, skipRegistration, stored, manifest>>
      /\ at' = [at EXCEPT ![r] = 0]
      /\ orphans' = IF r \in A!Retained THEN orphans \cup {r} ELSE orphans
  BY DEF A!Delete, A!Posted, A!Registers
<1>2. /\ SetUp /\ A!DataSurvives /\ stack \in A!Stack /\ 0 \in A!Versions
      /\ at \in [A!Resources -> A!Versions] /\ orphans \subseteq A!Resources
      /\ stored \subseteq A!Data
  BY PartsAssumption DEF StackInv, A!TypeOK, A!ConstantsAssumption, A!Versions
<1>3. stack' \in A!Stack /\ stack'.status \in {"undoing", "deleting"}
  BY <1>2 DEF A!Delete, A!Stack
<1>4. Provisioned' /\ Registered'
  BY <1>3 DEF Provisioned, Registered
<1>5. A!DataSurvives'
  <2>1. SUFFICES ASSUME environment \in {"prod", "production"} \/ kind = "runtime",
                        NEW q \in stored, at'[q] = 0
                 PROVE  q \in orphans'
    BY <1>1 DEF A!DataSurvives
  <2>2. CASE q = r
    BY <1>1, <1>2, <2>1, <2>2, StackFields, PoliciesProtect
  <2>3. CASE q # r
    <3>1. q \in A!Resources
      BY <1>2, StackFields, PoliciesProtect
    <3> QED  BY <1>1, <1>2, <2>1, <2>3, <3>1 DEF A!DataSurvives
  <2> QED  BY <2>2, <2>3
<1>6. at' \in [A!Resources -> A!Versions] /\ orphans' \subseteq A!Resources
  BY <1>1, <1>2
<1>7. A!TypeOK'
  BY <1>1, <1>2, <1>3, <1>6, SameResources DEF StackInv, A!TypeOK, A!Versions
<1>8. SetUp'
  BY <1>1, <1>2 DEF SetUp
<1> QED  BY <1>4, <1>5, <1>7, <1>8 DEF StackInv

LEMMA StackStores ==
  ASSUME StackInv, NEW r \in A!Resources, A!Store(r)
  PROVE  StackInv'
<1>1. /\ UNCHANGED <<kind, environment, skipRegistration, stack, at, orphans, manifest>>
      /\ stored' = stored \cup {r} /\ r \in A!Data
      /\ stack.status \in {"complete", "updating", "reverting"}
  BY DEF A!Store
<1>2. at[r] # 0
  BY <1>1 DEF StackInv, Provisioned
<1>3. A!DataSurvives'
  BY <1>1, <1>2 DEF StackInv, A!DataSurvives
<1>4. Provisioned' /\ Registered' /\ SetUp'
  BY <1>1, SameResources DEF StackInv, Provisioned, Registered, SetUp
<1> QED  BY <1>1, <1>3, <1>4, SameResources DEF StackInv, A!TypeOK, A!Versions

LEMMA StackNext == StackInv /\ [A!Next]_stackVars => StackInv'
<1> SUFFICES ASSUME StackInv, [A!Next]_stackVars PROVE StackInv'
  OBVIOUS
<1>1. A!Register => "registration" \in A!Resources
  BY StackFields DEF A!Register, A!Ready
<1>2. CASE UNCHANGED stackVars
  BY <1>2, SameResources
  DEF stackVars, StackInv, A!TypeOK, SetUp, Provisioned, Registered, A!DataSurvives, A!Versions
<1> QED  BY <1>1, <1>2, StackTurns, StackDoes, StackFailures, StackDeletes, StackStores
         DEF A!Next

\* At rest the manifest is of the version that runs.
LEMMA RegisteredAtRest == StackInv => A!ManifestIsRunning
BY DEF StackInv, Registered, A!ManifestIsRunning

-----------------------------------------------------------------------------
(***************************************************************************)
(* The command line, from its own proofs: for all files, and for files     *)
(* whose names begin with a dot.                                           *)
(***************************************************************************)

CP == INSTANCE DeveloperCLIProofs

FP == INSTANCE DeveloperCLIProofs WITH Text <- {}, Dot <- Dotfiles, Binary <- {},
                                       Safe <- Dotfiles

CommandInv == CP!TypeInv /\ CP!IInv /\ CP!CleanOK

LEMMA CommandInit == C!Init => CommandInv
<1>1. CP!ConstantsAssumption
  BY PartsAssumption DEF C!ConstantsAssumption, CP!ConstantsAssumption, C!Files, CP!Files,
      C!SyncOptions, CP!SyncOptions
<1>2. C!Init => CP!Init
  BY DEF C!Init, CP!Init, C!Files, CP!Files, C!Absent, CP!Absent, C!Idle, CP!Idle
<1> QED  BY <1>1, <1>2, CP!InitTyped, CP!InitIInv, CP!InitClean DEF CommandInv

LEMMA CommandNext == CommandInv /\ [C!Next]_cliVars => CommandInv'
<1>1. CP!ConstantsAssumption
  BY PartsAssumption DEF C!ConstantsAssumption, CP!ConstantsAssumption, C!Files, CP!Files,
      C!SyncOptions, CP!SyncOptions
<1>2. [C!Next]_cliVars => [CP!Next]_CP!vars
  <2>1. C!Next => CP!Next
    BY DEF C!Files, CP!Files, C!Absent, CP!Absent, C!Idle, CP!Idle, C!Own, CP!Own,
        C!Versions, CP!Versions, C!TransformContent, CP!TransformContent, C!AsText,
        CP!AsText, C!IsCurrent, CP!IsCurrent, C!Keeps, CP!Keeps, C!FindSafeUpdates,
        CP!FindSafeUpdates, C!Create, CP!Create, C!CloneDeveloper, CP!CloneDeveloper,
        C!PerformReplacements, CP!PerformReplacements, C!Configure, CP!Configure, C!Sync,
        CP!Sync, C!Fetch, CP!Fetch, C!Cleanup, CP!Cleanup, C!Analyze, CP!Analyze,
        C!Confirm, CP!Confirm, C!ApplyUpdate, CP!ApplyUpdate, C!UpdateFails,
        CP!UpdateFails, C!Finish, CP!Finish, C!Die, CP!Die, C!Publish, CP!Publish,
        C!Edit, CP!Edit, C!Keep, CP!Keep, C!Release, CP!Release, C!Next, CP!Next
  <2> QED  BY <2>1 DEF CP!vars, cliVars
<1> QED  BY <1>1, <1>2, CP!NextTyped, CP!NextKeeps, CP!CleanStays DEF CommandInv

LEMMA CommandSafe ==
  CommandInv => C!TypeOK /\ C!MarkedIsKept /\ C!SyncSettles
<1> SUFFICES ASSUME CommandInv PROVE C!TypeOK /\ C!MarkedIsKept /\ C!SyncSettles
  OBVIOUS
<1>1. C!TypeOK
  BY DEF CommandInv, CP!TypeInv, CP!Directory, CP!Command,
        CP!Making, CP!Syncing, C!Files, CP!Files, C!Versions, CP!Versions, C!Checkout, CP!Checkout, C!Content,
      CP!Content, C!Config, CP!Config, C!TypeOK, CP!TypeOK
<1>2. C!MarkedIsKept
  BY DEF CommandInv, CP!IInv, CP!MarkedOK, C!MarkedIsKept, C!Own, CP!Own
<1>3. CP!SyncSettles
  BY CP!CleanSettles DEF CommandInv
<1>4. C!SyncSettles
  BY <1>3
  DEF C!Files, CP!Files, C!Absent, CP!Absent, C!Idle, CP!Idle, C!Own, CP!Own,
      C!Versions, CP!Versions, C!TransformContent, CP!TransformContent, C!AsText,
      CP!AsText, C!IsCurrent, CP!IsCurrent, C!Keeps, CP!Keeps, C!FindSafeUpdates,
      CP!FindSafeUpdates, C!DiffStatus, CP!DiffStatus, C!SyncSettles, CP!SyncSettles
<1> QED  BY <1>1, <1>2, <1>4

DotfileInv == FP!TypeInv /\ FP!IInv /\ FP!CleanOK

LEMMA DotfileInit == F!Init => DotfileInv
<1>1. FP!ConstantsAssumption
  BY PartsAssumption DEF F!ConstantsAssumption, FP!ConstantsAssumption, F!Files, FP!Files,
      F!SyncOptions, FP!SyncOptions
<1>2. F!Init => FP!Init
  BY DEF F!Init, FP!Init, F!Files, FP!Files, F!Absent, FP!Absent, F!Idle, FP!Idle
<1> QED  BY <1>1, <1>2, FP!InitTyped, FP!InitIInv, FP!InitClean DEF DotfileInv

LEMMA DotfileNext == DotfileInv /\ [F!Next]_cliVars => DotfileInv'
<1>1. FP!ConstantsAssumption
  BY PartsAssumption DEF F!ConstantsAssumption, FP!ConstantsAssumption, F!Files, FP!Files,
      F!SyncOptions, FP!SyncOptions
<1>2. [F!Next]_cliVars => [FP!Next]_FP!vars
  <2>1. F!Next => FP!Next
    BY DEF F!Files, FP!Files, F!Absent, FP!Absent, F!Idle, FP!Idle, F!Own, FP!Own,
        F!Versions, FP!Versions, F!TransformContent, FP!TransformContent, F!AsText,
        FP!AsText, F!IsCurrent, FP!IsCurrent, F!Keeps, FP!Keeps, F!FindSafeUpdates,
        FP!FindSafeUpdates, F!Create, FP!Create, F!CloneDeveloper, FP!CloneDeveloper,
        F!PerformReplacements, FP!PerformReplacements, F!Configure, FP!Configure, F!Sync,
        FP!Sync, F!Fetch, FP!Fetch, F!Cleanup, FP!Cleanup, F!Analyze, FP!Analyze,
        F!Confirm, FP!Confirm, F!ApplyUpdate, FP!ApplyUpdate, F!UpdateFails,
        FP!UpdateFails, F!Finish, FP!Finish, F!Die, FP!Die, F!Publish, FP!Publish,
        F!Edit, FP!Edit, F!Keep, FP!Keep, F!Release, FP!Release, F!Next, FP!Next
  <2> QED  BY <2>1 DEF FP!vars, cliVars
<1> QED  BY <1>1, <1>2, FP!NextTyped, FP!NextKeeps, FP!CleanStays DEF DotfileInv

LEMMA DotfileSafe ==
  DotfileInv => F!TypeOK /\ F!MarkedIsKept /\ F!SyncSettles
<1> SUFFICES ASSUME DotfileInv PROVE F!TypeOK /\ F!MarkedIsKept /\ F!SyncSettles
  OBVIOUS
<1>1. F!TypeOK
  BY DEF DotfileInv, FP!TypeInv, FP!Directory, FP!Command,
        FP!Making, FP!Syncing, F!Files, FP!Files, F!Versions, FP!Versions, F!Checkout, FP!Checkout, F!Content,
      FP!Content, F!Config, FP!Config, F!TypeOK, FP!TypeOK
<1>2. F!MarkedIsKept
  BY DEF DotfileInv, FP!IInv, FP!MarkedOK, F!MarkedIsKept, F!Own, FP!Own
<1>3. FP!SyncSettles
  BY FP!CleanSettles DEF DotfileInv
<1>4. F!SyncSettles
  BY <1>3
  DEF F!Files, FP!Files, F!Absent, FP!Absent, F!Idle, FP!Idle, F!Own, FP!Own,
      F!Versions, FP!Versions, F!TransformContent, FP!TransformContent, F!AsText,
      FP!AsText, F!IsCurrent, FP!IsCurrent, F!Keeps, FP!Keeps, F!FindSafeUpdates,
      FP!FindSafeUpdates, F!DiffStatus, FP!DiffStatus, F!SyncSettles, FP!SyncSettles
<1> QED  BY <1>1, <1>2, <1>4

-----------------------------------------------------------------------------
(***************************************************************************)
(* The session, from its own proofs: as it is, and with checks that        *)
(* overlap.                                                                *)
(***************************************************************************)

OP == INSTANCE AuthSessionProofs WITH Tenants <- MoreTenants, MaxChecks <- MoreChecks

LEMMA MoreConstants == OP!ConstantsAssumption
  BY PartsAssumption DEF OP!ConstantsAssumption

LEMMA ChecksInit == O!Init => OP!IInv
<1>1. O!Init => OP!Init
  BY DEF O!Init, OP!Init, O!Checks, OP!Checks, O!NoCheck, OP!NoCheck, O!NewPage,
      OP!NewPage, O!Closed, OP!Closed
<1> QED  BY <1>1, MoreConstants, OP!InitIInv

LEMMA ChecksNext == OP!IInv /\ [O!Next]_vars => OP!IInv'
<1>1. O!Next => OP!Next
  <2>1. OP!Checks = O!Checks
    BY DEF OP!Checks, O!Checks
  <2>2. OP!NoCheck = O!NoCheck /\ OP!NewPage = O!NewPage
    BY DEF OP!NoCheck, O!NoCheck, OP!NewPage, O!NewPage
  <2>3. OP!Sent = O!Sent /\ OP!Guest = O!Guest /\ OP!Closed = O!Closed
    BY <2>2 DEF OP!Sent, O!Sent, OP!Guest, O!Guest, OP!Closed, O!Closed
  <2>4. \A t, x : OP!Start(t, x) <=> O!Start(t, x)
    BY <2>1, <2>2, <2>3 DEF OP!Start, O!Start
  <2>5. \A t : OP!Leave(t) <=> O!Leave(t)
    BY <2>1, <2>2, <2>3 DEF OP!Leave, O!Leave
  <2>6. \A t : O!TabStep(t) => OP!TabStep(t)
    <3>1. \A t : O!Login(t) <=> OP!Login(t)
      BY <2>5 DEF OP!Login, O!Login
    <3>2. \A t, x : O!SwitchTenant(t, x) <=> OP!SwitchTenant(t, x)
      BY DEF OP!SwitchTenant, O!SwitchTenant, OP!Switched, O!Switched
    <3>3. \A t : O!Open(t) <=> OP!Open(t)
      BY <2>2, <2>4 DEF OP!Open, O!Open
    <3>4. \A t : O!Refresh(t) <=> OP!Refresh(t)
      BY <2>1, <2>2, <2>3 DEF OP!Refresh, O!Refresh
    <3>5. \A t : (O!Logout(t) <=> OP!Logout(t)) /\ (O!Close(t) <=> OP!Close(t))
      BY <2>5 DEF OP!Logout, O!Logout, OP!Close, O!Close
    <3>6. \A t : O!RequireAuth(t) <=> OP!RequireAuth(t)
      BY <3>1 DEF OP!RequireAuth, O!RequireAuth
    <3> QED  BY <3>1, <3>2, <3>3, <3>4, <3>5, <3>6 DEF OP!TabStep, O!TabStep
  <2>7. \A t, c : O!CheckStep(t, c) => OP!CheckStep(t, c)
    <3>1. \A t, c : O!Reply(t, c) <=> OP!Reply(t, c)
      BY <2>3 DEF OP!Reply, O!Reply
    <3>2. \A x, y : OP!LoadSession(x, y) = O!LoadSession(x, y)
      BY DEF OP!LoadSession, O!LoadSession, OP!Restorable, O!Restorable
    <3>3. \A x : OP!CheckAuthFailed(x) = O!CheckAuthFailed(x)
      BY DEF OP!CheckAuthFailed, O!CheckAuthFailed
    <3>4. \A x, y : OP!Told(x, y) = O!Told(x, y)
      BY <3>2, <3>3
      DEF OP!Told, O!Told, OP!CheckAuth, O!CheckAuth, OP!LoadSessionTemplate,
          O!LoadSessionTemplate, OP!Restorable, O!Restorable
    <3>5. \A t, c : O!Receive(t, c) <=> OP!Receive(t, c)
      BY <2>2, <3>4 DEF OP!Receive, O!Receive
    <3>6. \A t, c : O!Fail(t, c) <=> OP!Fail(t, c)
      BY <2>2, <2>3, <3>2, <3>3 DEF OP!Fail, O!Fail
    <3> QED  BY <3>1, <3>5, <3>6 DEF OP!CheckStep, O!CheckStep
  <2>8. /\ O!Expire <=> OP!Expire
        /\ \A u, x : O!Revoke(u, x) <=> OP!Revoke(u, x)
    BY DEF OP!Expire, O!Expire, OP!Revoke, O!Revoke
  <2> QED  BY <2>1, <2>6, <2>7, <2>8 DEF OP!Next, O!Next
<1>2. [O!Next]_vars => [OP!Next]_OP!vars
  BY <1>1 DEF vars, OP!vars
<1> QED  BY <1>2, MoreConstants, OP!NextKeeps

LEMMA ChecksTyped == OP!IInv => O!TypeOK
  BY DEF OP!IInv, OP!TypeOK, O!TypeOK, OP!Tab, O!Tab, OP!Check, O!Check, OP!Checks, O!Checks

-----------------------------------------------------------------------------
(***************************************************************************)
(* All parts: each keeps its own invariant, in its steps and in those of   *)
(* the others.                                                             *)
(***************************************************************************)

PartsInv ==
  /\ part \in Parts
  /\ IF part = "checks" THEN OP!IInv ELSE IInv
  /\ PreferencesInv /\ NavigationInv /\ HeaderInv /\ StackInv
  /\ IF part = "dotfiles" THEN DotfileInv ELSE CommandInv

allVars == <<part, vars, preferencesVars, navigationVars, headerVars, cliVars, stackVars>>

\* Of each part a step is one of its own, or leaves it alone.
LEMMA StepOfParts ==
  ASSUME [PartsNext]_allVars
  PROVE  /\ part' = part
         /\ [P!Next]_preferencesVars /\ [N!Next]_navigationVars
         /\ [H!Next]_headerVars /\ [A!Next]_stackVars
         /\ IF part = "dotfiles" THEN [F!Next]_cliVars ELSE [C!Next]_cliVars
         /\ IF part = "checks" THEN [O!Next]_vars ELSE [Next]_vars
<1>1. CASE OfSession("session", Next) \/ OfSession("checks", OneTab)
  BY <1>1 DEF OfSession, OneTab
<1>2. CASE OfPreferences(P!Next)
  BY <1>2 DEF OfPreferences
<1>3. CASE OfNavigation(N!Next)
  BY <1>3 DEF OfNavigation
<1>4. CASE OfHeader(H!Next)
  BY <1>4 DEF OfHeader
<1>5. CASE OfCLI("cli", C!Next) \/ OfCLI("dotfiles", F!Next)
  BY <1>5 DEF OfCLI
<1>6. CASE OfStack(A!Next)
  BY <1>6 DEF OfStack
<1>7. CASE UNCHANGED allVars
  BY <1>7 DEF allVars
<1> QED  BY <1>1, <1>2, <1>3, <1>4, <1>5, <1>6, <1>7 DEF PartsNext

LEMMA PartsInvInit == PartsInit => PartsInv
<1> SUFFICES ASSUME PartsInit PROVE PartsInv
  OBVIOUS
<1>1. /\ part \in Parts /\ P!Init /\ N!Init /\ H!Init /\ A!Init
      /\ IF part = "dotfiles" THEN F!Init ELSE C!Init
      /\ IF part = "checks" THEN O!Init ELSE Init
  BY DEF PartsInit
<1> QED  BY <1>1, PreferencesInit, NavigationInit, HeaderInit, StackInit, DotfileInit,
            CommandInit, ChecksInit, InitIInv
         DEF PartsInv

LEMMA PartsInvNext == PartsInv /\ [PartsNext]_allVars => PartsInv'
<1> SUFFICES ASSUME PartsInv, [PartsNext]_allVars PROVE PartsInv'
  OBVIOUS
<1>1. part' = part
  BY StepOfParts
<1>2. PreferencesInv' /\ NavigationInv' /\ HeaderInv' /\ StackInv'
  BY StepOfParts, PreferencesNext, NavigationNext, HeaderNext, StackNext DEF PartsInv
<1>3. IF part = "dotfiles" THEN DotfileInv' ELSE CommandInv'
  BY StepOfParts, DotfileNext, CommandNext DEF PartsInv
<1>4. IF part = "checks" THEN OP!IInv' ELSE IInv'
  BY StepOfParts, ChecksNext, NextKeeps DEF PartsInv
<1> QED  BY <1>1, <1>2, <1>3, <1>4 DEF PartsInv

LEMMA PartsKeepInv == PartsSpec => []PartsInv
  BY PartsInvInit, PartsInvNext, PTL DEF PartsSpec, allVars

-----------------------------------------------------------------------------
(* The theorems.                                                           *)

(* Whatever is exercised, the state of that part has its type.             *)
THEOREM PartsAreTyped == PartsSpec => []PartsTypeOK
<1>1. PartsInv => PartsTypeOK
  <2> SUFFICES ASSUME PartsInv PROVE PartsTypeOK
    OBVIOUS
  <2>1. part \in {"session", "checks", "preferences", "navigation", "header",
                  "cli", "dotfiles", "stack"}
    BY PartsAssumption DEF PartsInv
  <2>2. part = "checks" => O!TypeOK
    BY ChecksTyped DEF PartsInv
  <2>3. part = "session" => TypeOK
    BY DEF PartsInv, IInv
  <2>4. P!TypeOK /\ N!TypeOK /\ H!TypeOK /\ A!TypeOK
    BY DEF PartsInv, PreferencesInv, NavigationInv, HeaderInv, StackInv
  <2>5. IF part = "dotfiles" THEN F!TypeOK ELSE C!TypeOK
    BY DotfileSafe, CommandSafe DEF PartsInv
  <2> QED  BY <2>1, <2>2, <2>3, <2>4, <2>5 DEF PartsTypeOK
<1> QED  BY <1>1, PartsKeepInv, PTL

(* Language, theme and consent that a user chose on any page are those     *)
(* that the next page finds, for either edition of the kit.                *)
THEOREM ChoicesStay == PartsSpec => []ChoicesAreKept
<1>1. PartsInv => ChoicesAreKept
  BY DEF PartsInv, PreferencesInv, ChoicesAreKept
<1> QED  BY <1>1, PartsKeepInv, PTL

(* In any menu, a press on an item of the open submenu does not close it   *)
(* under the pointer: in the mobile menu and the wide sidebar, and in the  *)
(* wide header unless the mobile menu was left open in a narrower window.  *)
THEOREM SubmenuIsUsable == PartsSpec => []SubmenuStaysUsable
<1>1. PartsInv => SubmenuStaysUsable
  BY RefKeepsUsable DEF PartsInv, SubmenuStaysUsable
<1> QED  BY <1>1, PartsKeepInv, PTL

(* However many fetches of the list of applications overlap, once none is  *)
(* awaited the menu shows what the last answer allows the present user.    *)
THEOREM AppsAreTheUsers == PartsSpec => []AppsMatchUser
<1>1. PartsInv => AppsMatchUser
  BY DEF PartsInv, HeaderInv, AppsMatchUser
<1> QED  BY <1>1, PartsKeepInv, PTL

(* What the user made his own and marked, no command replaces, whether or  *)
(* not its name begins with a dot.                                         *)
THEOREM MarkedFilesAreKept == PartsSpec => []MarkedIsKept
<1>1. PartsInv => MarkedIsKept
  BY DotfileSafe, CommandSafe DEF PartsInv, MarkedIsKept
<1> QED  BY <1>1, PartsKeepInv, PTL

(* After a sync in which nothing failed there is nothing left to sync, and *)
(* diff shows nothing, for dotfiles too.                                   *)
THEOREM SyncLeavesNothing == PartsSpec => []SyncSettles
<1>1. PartsInv => SyncSettles
  BY DotfileSafe, CommandSafe DEF PartsInv, SyncSettles
<1> QED  BY <1>1, PartsKeepInv, PTL

(* What is stored in production outlives every deployment, rollback and    *)
(* deletion of its stack, in any order.                                    *)
THEOREM ProductionDataSurvives == PartsSpec => []DataSurvives
<1>1. PartsInv => DataSurvives
  BY DEF PartsInv, StackInv, DataSurvives
<1> QED  BY <1>1, PartsKeepInv, PTL

(* Whatever failed in a deployment and its rollback, at rest the account   *)
(* service has the manifest of the version that runs.                      *)
THEOREM ManifestIsOfRunning == PartsSpec => []ManifestIsRunning
<1>1. PartsInv => ManifestIsRunning
  BY RegisteredAtRest DEF PartsInv, ManifestIsRunning
<1> QED  BY <1>1, PartsKeepInv, PTL

(* With checks that overlap in a tab, too, calls carry no other tenant     *)
(* than the page's, and none that was not granted.                         *)
THEOREM ChecksMayOverlap == PartsSpec => [](HeaderIsCurrent /\ TenantWasGranted)
<1>1. PartsInv => HeaderIsCurrent /\ TenantWasGranted
  BY DEF PartsInv, IInv, PagesOK, PageOK, OP!IInv, OP!PagesOK, OP!PageOK,
         HeaderIsCurrent, TenantWasGranted
<1> QED  BY <1>1, PartsKeepInv, PTL
=============================================================================
