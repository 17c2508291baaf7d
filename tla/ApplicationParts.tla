-------------------------- MODULE ApplicationParts --------------------------
(***************************************************************************)
(* The parts of an application that do not wait for one another: the       *)
(* session (AuthSession), the preferences, the two menus of the header,    *)
(* and outside of the browser the command line that makes an application   *)
(* and the stacks that deploy it. They share no state, so a behaviour      *)
(* exercises one of them and leaves the others in one initial state.       *)
(***************************************************************************)
EXTENDS AuthSession

CONSTANTS
  Parts,                             \* the parts to exercise
  OnlyTab, MoreTenants, MoreChecks,  \* AuthSession once more, in the part "checks"
  Langs, DefaultLang,                               \* Preferences
  Groups, Children, Parent, Links, Buttons, Menus,  \* NavigationMenu
  Apps, DefaultApps, CurrentApp, Setups,            \* HeaderMenu
  Text, Dot, Binary, Safe,           \* DeveloperCLI, in the part "cli"
  Options,
  Dotfiles,                          \* and by themselves in the part "dotfiles"
  MaxFetches, MaxVersion

VARIABLES
  part,
  edition, cookie, consentCookie, prefersDark, page, choices,
  setup, wide, menu, mobileMenuOpen, drawerOpen, collapsed, openSubmenu,
  submenuRef, pressed,
  shell, given, user, registry, menuOpen, preferencesOpen, fetchedApps,
  appsLoading, fetches, answer,
  developer, app, config, temp, cli, clean, marked,
  kind, environment, skipRegistration, stack, at, orphans, stored, manifest

preferencesVars ==
  <<edition, cookie, consentCookie, prefersDark, page, choices>>
navigationVars ==
  <<setup, wide, menu, mobileMenuOpen, drawerOpen, collapsed, openSubmenu,
    submenuRef, pressed>>
headerVars ==
  <<shell, given, user, registry, menuOpen, preferencesOpen, fetchedApps,
    appsLoading, fetches, answer>>
cliVars == <<developer, app, config, temp, cli, clean, marked>>
stackVars ==
  <<kind, environment, skipRegistration, stack, at, orphans, stored, manifest>>

-----------------------------------------------------------------------------
(* The instances.                                                          *)

\* Checks that overlap in one tab, with tenants of its own.
O == INSTANCE AuthSession WITH Tenants <- MoreTenants, MaxChecks <- MoreChecks

P == INSTANCE Preferences WITH kit <- edition

N == INSTANCE NavigationMenu

H == INSTANCE HeaderMenu

C == INSTANCE DeveloperCLI

F == INSTANCE DeveloperCLI WITH Text <- {}, Dot <- Dotfiles, Binary <- {},
                                Safe <- Dotfiles

A == INSTANCE AppStack

ASSUME PartsAssumption ==
  /\ Parts \subseteq {"session", "checks", "preferences", "navigation", "header",
                      "cli", "dotfiles", "stack"}
  /\ MoreChecks \in Nat \ {0} /\ None \notin Users \cup MoreTenants
  /\ P!ConstantsAssumption /\ N!ConstantsAssumption /\ H!ConstantsAssumption
  /\ C!ConstantsAssumption /\ F!ConstantsAssumption /\ A!ConstantsAssumption

-----------------------------------------------------------------------------

PartsInit ==
  /\ part \in Parts
  /\ IF part = "checks" THEN O!Init ELSE Init
  /\ part \notin {"session", "checks"} =>
       kit = "core" /\ account = None /\ \A u \in Users : members[u] = {}
  /\ P!Init
  /\ part # "preferences" => edition = "layout" /\ cookie = None /\ ~prefersDark
  /\ N!Init
  /\ part # "navigation" =>
       wide /\ ~collapsed /\ menu = (CHOOSE m \in Menus : TRUE)
         /\ \A p \in DOMAIN setup : setup[p]
  /\ H!Init
  /\ part # "header" => shell = "AppShell" /\ given = (CHOOSE s \in Setups : TRUE)
  /\ IF part = "dotfiles" THEN F!Init ELSE C!Init
  /\ part \notin {"cli", "dotfiles"} => app = None /\ \A f \in C!Files : developer[f] = 1
  /\ A!Init
  /\ part # "stack" => kind = "runtime" /\ ~skipRegistration /\ stack = A!Nothing

OfSession(size, Step) ==
  /\ part = size /\ Step
  /\ UNCHANGED <<part, preferencesVars, navigationVars, headerVars, cliVars, stackVars>>
OfPreferences(Step) ==
  /\ part = "preferences" /\ Step
  /\ UNCHANGED <<part, vars, navigationVars, headerVars, cliVars, stackVars>>
OfNavigation(Step) ==
  /\ part = "navigation" /\ Step
  /\ UNCHANGED <<part, vars, preferencesVars, headerVars, cliVars, stackVars>>
OfHeader(Step) ==
  /\ part = "header" /\ Step
  /\ UNCHANGED <<part, vars, preferencesVars, navigationVars, cliVars, stackVars>>
OfCLI(files, Step) ==
  /\ part = files /\ Step
  /\ UNCHANGED <<part, vars, preferencesVars, navigationVars, headerVars, stackVars>>
OfStack(Step) ==
  /\ part = "stack" /\ Step
  /\ UNCHANGED <<part, vars, preferencesVars, navigationVars, headerVars, cliVars>>

\* Only one tab is ever open.
OneTab == O!Next /\ \A t \in Tabs \ {OnlyTab} : ~tabs'[t].open

PartsNext ==
  \/ OfSession("session", Next) \/ OfSession("checks", OneTab)
  \/ OfPreferences(P!Next) \/ OfNavigation(N!Next)
  \/ OfHeader(H!Next) \/ OfCLI("cli", C!Next) \/ OfCLI("dotfiles", F!Next)
  \/ OfStack(A!Next)

PartsSpec ==
  PartsInit /\ [][PartsNext]_<<part, vars, preferencesVars, navigationVars,
                               headerVars, cliVars, stackVars>>

-----------------------------------------------------------------------------

(* The state of the part that is exercised has its type.                   *)
PartsTypeOK ==
  CASE part = "session" -> TypeOK
    [] part = "checks" -> O!TypeOK
    [] part = "preferences" -> P!TypeOK
    [] part = "navigation" -> N!TypeOK
    [] part = "header" -> H!TypeOK
    [] part = "cli" -> C!TypeOK
    [] part = "dotfiles" -> F!TypeOK
    [] part = "stack" -> A!TypeOK

(* No page undoes a choice that was made on another page.                  *)
ChoicesAreKept == P!ChoicesAreKept

(* A press inside the open submenu does not close it under the pointer.    *)
SubmenuStaysUsable == N!SubmenuStaysUsable

(* NavigationMenu.tsx:111, "Close submenu on outside click": a press       *)
(* inside closes it in no copy of the menu.                                *)
SubmenuCanBeUsed == N!SubmenuCanBeUsed

(* Once no request for the applications is under way, the header's list is *)
(* the one that the last answer has for a guest or for a user, whichever   *)
(* it is shown to. While one is, a guest may still be shown a user's list. *)
AppsMatchUser == H!AppsMatchUser

(* What the user made his own, and marked while no command ran, outlives   *)
(* every sync, --force or not, until it is marked no longer.               *)
MarkedIsKept == IF part = "dotfiles" THEN F!MarkedIsKept ELSE C!MarkedIsKept

(* After a sync without failures nothing is left to sync, or to show.      *)
SyncSettles == IF part = "dotfiles" THEN F!SyncSettles ELSE C!SyncSettles

(* sync.ts:349, "Force update even if files are customized": it updates    *)
(* none of those.                                                          *)
ForcedSyncUpdatesAll == C!ForcedSyncUpdatesAll

(* What is stored in production outlives the stack.                        *)
DataSurvives == A!DataSurvives

(* At rest, the manifest of the version that runs is registered.           *)
ManifestIsRunning == A!ManifestIsRunning
=============================================================================
