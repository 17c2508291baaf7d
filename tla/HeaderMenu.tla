----------------------------- MODULE HeaderMenu -----------------------------
(***************************************************************************)
(* DSHeader and the shells around it, of the layout package and of the     *)
(* component @digistratum/appshell: the menu behind the one button of the  *)
(* header, for the user that the application passes, with the applications *)
(* that the registry lists. Whether the user is signed in is found out     *)
(* while the list is under way, so that fetches of both kinds overlap.     *)
(*                                                                         *)
(* The registry is external. A step is one callback, with its commit.      *)
(***************************************************************************)
EXTENDS Naturals

CONSTANTS
  Apps, DefaultApps,  \* of the registry; what the application or the component lists
  CurrentApp,
  Tenants, None,
  Setups,             \* what applications pass: subsets of Flags
  MaxFetches          \* bound of the model: fetches at a time

\* The properties of the shells that the header or its menu depends on.
DSAppShellProps == {"auth", "theme", "navLinks", "apps", "appsApiUrl",
  "showAppSwitcher", "showThemeToggle", "showUserMenu", "showPreferences",
  "showTenantSwitcher"}
AppShellProps == {"menuItems", "hideNavigation", "menuContent"}
Flags == DSAppShellProps \cup AppShellProps

Shells == {"AppShell", "DSAppShell", "appshell"}
Fetches == 1..MaxFetches

ConstantsAssumption == Setups \subseteq SUBSET Flags /\ MaxFetches \in Nat

VARIABLES
  shell, given,
  user,         \* whom the application passes
  registry,     \* what is known of each application
  menuOpen, preferencesOpen,
  fetchedApps, appsLoading,
  fetches,      \* the runs of the effect that still wait
  answer        \* the last that was heard of the registry, for the properties

vars == <<shell, given, user, registry, menuOpen, preferencesOpen,
          fetchedApps, appsLoading, fetches, answer>>

\* A guest belongs to no tenant.
User == [isAuthenticated : BOOLEAN, tenants : SUBSET Tenants,
         current : Tenants \cup {None}]
Guest == [isAuthenticated |-> FALSE, tenants |-> {}, current |-> None]

\* "withdrawn": without a URL, or not in production.
Registry == [Apps -> {"public", "internal", "withdrawn"}]

Fetch == [phase : {"none", "sent", "answered"}, isAuthenticated : BOOLEAN,
          cancelled : BOOLEAN, apps : Registry]

-----------------------------------------------------------------------------
(* The list of applications.                                               *)

\* What the effect's run keeps of an answer.
Filtered(apps, isAuthenticated) ==
  {a \in Apps : apps[a] = "public" \/ (apps[a] = "internal" /\ isAuthenticated)}

NoFetch == [phase |-> "none", isAuthenticated |-> FALSE, cancelled |-> FALSE,
            apps |-> [a \in Apps |-> "withdrawn"]]

\* The effect runs in the slot f; its clean-up cancels the runs before.
Ran(runs, f, u) ==
  [g \in Fetches |->
     IF g = f THEN [NoFetch EXCEPT !.phase = "sent",
                                   !.isAuthenticated = u.isAuthenticated]
     ELSE IF runs[g] = NoFetch THEN NoFetch
     ELSE [runs[g] EXCEPT !.cancelled = TRUE]]

\* The effect's first run in a page.
FirstRun(u) ==
  LET none == [f \in Fetches |-> NoFetch] IN
  IF "appsApiUrl" \in given THEN Ran(none, 1, u) ELSE none

FetchApps(u) ==
  IF "appsApiUrl" \notin given THEN UNCHANGED <<fetches, appsLoading>>
  ELSE /\ \E f \in Fetches : fetches[f] = NoFetch /\ fetches' = Ran(fetches, f, u)
       /\ appsLoading' = TRUE

\* MUTANT: an answer counts although the effect ran again.
AlwaysCurrent(run) == TRUE

NotCancelled(run) == ~run.cancelled

Reply(f) ==
  /\ fetches[f].phase = "sent"
  /\ fetches' = [fetches EXCEPT ![f].phase = "answered", ![f].apps = registry]
  /\ UNCHANGED <<shell, given, user, registry, menuOpen, preferencesOpen,
                 fetchedApps, appsLoading, answer>>

\* What a run leaves behind: its list, or None for the defaults.
Ended(f, apps, heard) ==
  /\ fetches' = [fetches EXCEPT ![f] = NoFetch]
  /\ IF NotCancelled(fetches[f])
     THEN fetchedApps' = apps /\ answer' = heard /\ appsLoading' = FALSE
     ELSE UNCHANGED <<fetchedApps, answer, appsLoading>>
  /\ UNCHANGED <<shell, given, user, registry, menuOpen, preferencesOpen>>

Receive(f) ==
  /\ fetches[f].phase = "answered"
  /\ Ended(f, Filtered(fetches[f].apps, fetches[f].isAuthenticated), fetches[f].apps)

Fail(f) == fetches[f] # NoFetch /\ Ended(f, None, answer)

\* The registry changes.
Publish(a, status) ==
  /\ registry' = [registry EXCEPT ![a] = status]
  /\ UNCHANGED <<shell, given, user, menuOpen, preferencesOpen, fetchedApps,
                 appsLoading, fetches, answer>>

-----------------------------------------------------------------------------
(* What the shell passes to the header, and what the menu offers.          *)

CurrentTenant == IF user.current \in user.tenants THEN user.current ELSE None

MenuItems ==
  IF "menuItems" \in given /\ "hideNavigation" \notin given
  THEN {<<"item", CurrentTenant>>} ELSE {}

Content == IF "menuContent" \in given THEN {<<"content", None>>} ELSE {}

\* What the shells put together for the menu; DSAppShell has links instead.
HamburgerMenuContent ==
  IF shell = "DSAppShell" THEN {} ELSE MenuItems \cup Content

NavLinks ==
  IF shell = "DSAppShell" /\ "navLinks" \in given THEN {<<"link", None>>} ELSE {}

Offers(flags, entry) == IF flags \subseteq given THEN {entry} ELSE {}

TenantEntries ==
  IF {"auth", "showTenantSwitcher"} \subseteq given /\ user.tenants # {}
  THEN {<<"tenant", x>> : x \in user.tenants \cup {None}} ELSE {}

\* Account section of the layout package.
AccountEntries ==
  IF ~user.isAuthenticated
  THEN Offers({"showUserMenu", "auth"}, <<"signIn", None>>)
         \cup Offers({"showThemeToggle", "theme"}, <<"theme", None>>)
         \cup Offers({"showPreferences"}, <<"preferences", None>>)
  ELSE IF "showUserMenu" \notin given THEN {}
  ELSE {<<"account", None>>} \cup TenantEntries
         \cup Offers({"showPreferences"}, <<"preferences", None>>)
         \cup Offers({"auth"}, <<"signOut", None>>)

\* Account section of the component: settings are a page, for users only.
AccountEntriesCopy ==
  IF ~user.isAuthenticated
  THEN Offers({"showUserMenu", "auth"}, <<"signIn", None>>)
         \cup Offers({"showThemeToggle", "theme"}, <<"theme", None>>)
  ELSE IF "showUserMenu" \notin given THEN {}
  ELSE {<<"account", None>>} \cup TenantEntries
         \cup Offers({"showThemeToggle", "theme"}, <<"theme", None>>)
         \cup Offers({"showPreferences"}, <<"settings", None>>)
         \cup Offers({"auth"}, <<"signOut", None>>)

GivenApps == IF "apps" \in given THEN DefaultApps ELSE {}

\* Without an answer the layout package shows no others, the component its own.
ListedApps ==
  IF fetchedApps # None THEN fetchedApps
  ELSE IF shell = "appshell" THEN DefaultApps ELSE GivenApps

AppEntries ==
  IF "showAppSwitcher" \notin given THEN {}
  ELSE {<<"app", a>> : a \in ListedApps \ {CurrentApp}} \cup HamburgerMenuContent

\* The component shows the content beside the list, whether there is one or not.
AppEntriesCopy ==
  HamburgerMenuContent \cup
    (IF "showAppSwitcher" \in given THEN {<<"app", a>> : a \in ListedApps \ {CurrentApp}} ELSE {})

\* The controls with menus of their own are hidden in windows of every width.
Entries ==
  IF ~menuOpen THEN {}
  ELSE NavLinks \cup IF shell = "appshell" THEN AccountEntriesCopy \cup AppEntriesCopy
                                           ELSE AccountEntries \cup AppEntries

-----------------------------------------------------------------------------
(* What the user does.                                                     *)

\* The page is loaded: a guest, until the session says otherwise.
Mounted ==
  /\ user' = Guest
  /\ menuOpen' = FALSE /\ preferencesOpen' = FALSE /\ fetchedApps' = None
  /\ appsLoading' = ("appsApiUrl" \in given)
  /\ fetches' = FirstRun(Guest)
  /\ UNCHANGED <<shell, given, registry, answer>>

\* Links, signing in and signing out lead to another page, or back to this one.
Leave(e) ==
  /\ e[1] \in {"item", "link", "account", "settings", "signIn", "signOut", "app"}
  /\ Mounted

SwitchTenant(e) ==
  /\ e[1] = "tenant"
  /\ user' = [user EXCEPT !.current = e[2]]
  /\ menuOpen' = FALSE
  /\ UNCHANGED <<shell, given, registry, preferencesOpen, fetchedApps, appsLoading,
                 fetches, answer>>

OpenPreferences(e) ==
  /\ e[1] = "preferences"
  /\ menuOpen' = FALSE /\ preferencesOpen' = TRUE
  /\ UNCHANGED <<shell, given, user, registry, fetchedApps, appsLoading, fetches,
                 answer>>

ClosePreferences ==
  /\ preferencesOpen
  /\ preferencesOpen' = FALSE
  /\ UNCHANGED <<shell, given, user, registry, menuOpen, fetchedApps, appsLoading,
                 fetches, answer>>

\* Nothing but this button and the menu's own entries closes the menu.
ToggleMenu ==
  /\ menuOpen' = ~menuOpen
  /\ UNCHANGED <<shell, given, user, registry, preferencesOpen, fetchedApps,
                 appsLoading, fetches, answer>>

\* The session is found, or found to have ended: the effect runs again.
AuthChanges(u) ==
  /\ "auth" \in given
  /\ u.isAuthenticated # user.isAuthenticated
  /\ user' = u
  /\ FetchApps(u)
  /\ UNCHANGED <<shell, given, registry, menuOpen, preferencesOpen, fetchedApps, answer>>

Init ==
  /\ shell \in Shells /\ given \in Setups
  /\ user = Guest
  /\ registry = [a \in Apps |-> "internal"]
  /\ menuOpen = FALSE /\ preferencesOpen = FALSE /\ fetchedApps = None
  /\ answer = registry
  /\ appsLoading = ("appsApiUrl" \in given)
  /\ fetches = FirstRun(Guest)

Next ==
  \/ \E f \in Fetches : Reply(f) \/ Receive(f) \/ Fail(f)
  \/ \E a \in Apps, status \in {"public", "internal", "withdrawn"} : Publish(a, status)
  \/ \E e \in Entries : Leave(e) \/ SwitchTenant(e) \/ OpenPreferences(e)
  \/ ClosePreferences \/ ToggleMenu
  \/ \E u \in User : (u.isAuthenticated \/ u = Guest) /\ AuthChanges(u)

Spec == Init /\ [][Next]_vars

-----------------------------------------------------------------------------
(* Properties.                                                             *)

(* The header's state has its type.                                        *)
TypeOK ==
  /\ shell \in Shells /\ given \in Setups /\ given \subseteq Flags
  /\ user \in User /\ registry \in Registry
  /\ menuOpen \in BOOLEAN /\ preferencesOpen \in BOOLEAN /\ appsLoading \in BOOLEAN
  /\ fetchedApps \in (SUBSET Apps) \cup {None}
  /\ fetches \in [Fetches -> Fetch] /\ answer \in Registry

(* Once no list is under way, the menu has the applications that the last  *)
(* answer allows the user it is shown to: however fetches for a guest and  *)
(* for a user overtake each other, neither gets the other's list.          *)
AppsMatchUser ==
  fetchedApps # None /\ ~appsLoading =>
    fetchedApps = Filtered(answer, user.isAuthenticated)
=============================================================================
