---------------------------- MODULE AuthSession ----------------------------
(***************************************************************************)
(* Who is signed in and for which tenant, as a page of an application      *)
(* knows it: the AuthProvider of ds-auth-ts, and those of ds-core and of   *)
(* the scaffolded application, which fetch the session once. Pages in      *)
(* several tabs share the session cookie and the tenant in localStorage.   *)
(*                                                                         *)
(* The account service is external. A step is one callback of one page.    *)
(***************************************************************************)
EXTENDS Naturals

CONSTANTS
  Tabs, Users, Tenants, None,
  MaxChecks  \* bound of the model: checks of the session at a time in a tab

Checks == 1..MaxChecks

ASSUME ConstantsAssumption ==
  /\ MaxChecks \in Nat \ {0}
  /\ None \notin Users \cup Tenants

VARIABLES
  kit,      \* the package the application is built with
  account,  \* whom the session cookie stands for
  members,  \* the tenants of each user
  saved,    \* the tenant in localStorage
  tabs,
  checks    \* the checks of the session under way in each tab

vars == <<kit, account, members, saved, tabs, checks>>

\* tenant: currentTenant; header: the X-Tenant-ID of the API client.
\* granted: all tenants that answers gave this page, for the properties.
Tab == [open : BOOLEAN, isLoading : BOOLEAN,
        user : Users \cup {None}, tenants : SUBSET Tenants,
        tenant : Tenants \cup {None}, header : Tenants \cup {None},
        granted : SUBSET (Tenants \cup {None})]

\* MUTANT: a page starts without knowing that it checks.
NewPageUnknown == [open |-> TRUE, isLoading |-> None, user |-> None,
                   tenants |-> {}, tenant |-> None, header |-> None,
                   granted |-> {}]

NewPage == [open |-> TRUE, isLoading |-> TRUE, user |-> None, tenants |-> {},
            tenant |-> None, header |-> None, granted |-> {}]
Closed == [NewPage EXCEPT !.open = FALSE]

\* A check, and what the session endpoint answers; active: the session's own tenant.
Check == [phase : {"none", "sent", "answered"}, user : Users \cup {None},
          tenants : SUBSET Tenants, active : Tenants \cup {None}]
NoCheck == [phase |-> "none", user |-> None, tenants |-> {}, active |-> None]
Sent == [NoCheck EXCEPT !.phase = "sent"]
Guest == [NoCheck EXCEPT !.phase = "answered"]

Init ==
  /\ kit \in {"auth", "core", "template"}
  /\ account \in Users \cup {None}
  /\ members \in [Users -> SUBSET Tenants]
  /\ saved = None
  /\ tabs = [t \in Tabs |-> Closed]
  /\ checks = [t \in Tabs |-> [c \in Checks |-> NoCheck]]

-----------------------------------------------------------------------------
(* Checking the session.                                                   *)

Start(t, tab) ==
  /\ tabs' = [tabs EXCEPT ![t] = tab]
  /\ checks' = [checks EXCEPT ![t] = [c \in Checks |->
                  IF c = 1 THEN Sent ELSE NoCheck]]

\* A page is loaded; its provider checks the session.
Open(t) ==
  /\ ~tabs[t].open
  /\ Start(t, NewPage)
  /\ UNCHANGED <<kit, account, members, saved>>

\* refresh, which only ds-auth-ts has.
Refresh(t) ==
  /\ kit = "auth" /\ tabs[t].open
  /\ \E c \in Checks :
       /\ checks[t][c] = NoCheck
       /\ checks' = [checks EXCEPT ![t][c] = Sent]
  /\ tabs' = [tabs EXCEPT ![t].isLoading = TRUE]
  /\ UNCHANGED <<kit, account, members, saved>>

\* The service answers for the account that is signed in now.
Reply(t, c) ==
  /\ checks[t][c] = Sent
  /\ \/ account = None /\ checks' = [checks EXCEPT ![t][c] = Guest]
     \/ /\ account # None
        /\ \E x \in members[account] \cup {None} :
             checks' = [checks EXCEPT ![t][c] =
               [phase |-> "answered", user |-> account,
                tenants |-> members[account], active |-> x]]
  /\ UNCHANGED <<kit, account, members, saved, tabs>>

\* MUTANT: whatever was saved is restored.
RestorableUnchecked(a) == saved # None

Restorable(a) == saved # None /\ saved \in a.tenants

\* checkAuth of ds-auth-ts: without a tenant to restore, the tenant stays.
CheckAuth(tab, a) ==
  IF Restorable(a) THEN [tab EXCEPT !.user = a.user, !.tenants = a.tenants,
                                    !.tenant = saved, !.header = saved]
                   ELSE [tab EXCEPT !.user = a.user, !.tenants = a.tenants]

\* Neither a failure nor a refusal takes the tenant from the page.
CheckAuthFailed(tab) ==
  [tab EXCEPT !.user = None, !.tenants = {}, !.header = None,
              !.isLoading = FALSE]

\* loadSession of ds-core. A guest, or a failure, has no tenant.
LoadSession(tab, a) ==
  [tab EXCEPT !.user = a.user, !.tenants = a.tenants,
              !.tenant = IF Restorable(a) THEN saved ELSE a.active]

\* loadSession of the scaffolded application.
LoadSessionTemplate(tab, a) ==
  IF a.user = None THEN [tab EXCEPT !.user = None, !.tenants = {}]
  ELSE LoadSession(tab, a)

Told(tab, a) ==
  IF kit = "auth" THEN IF a.user = None THEN CheckAuthFailed(tab)
                                        ELSE CheckAuth(tab, a)
  ELSE IF kit = "core" THEN LoadSession(tab, a) ELSE LoadSessionTemplate(tab, a)

\* The answer arrives.
Receive(t, c) ==
  /\ checks[t][c].phase = "answered"
  /\ LET a == checks[t][c] IN
       tabs' = [tabs EXCEPT ![t] =
         [Told(tabs[t], a) EXCEPT !.isLoading = FALSE,
                                  !.granted = @ \cup a.tenants \cup {a.active}]]
  /\ checks' = [checks EXCEPT ![t][c] = NoCheck]
  /\ UNCHANGED <<kit, account, members, saved>>

\* The answer is lost, or is an error.
Fail(t, c) ==
  /\ checks[t][c] # NoCheck
  /\ tabs' = [tabs EXCEPT ![t] =
       IF kit = "auth" THEN CheckAuthFailed(tabs[t])
       ELSE [LoadSession(tabs[t], Guest) EXCEPT !.isLoading = FALSE]]
  /\ checks' = [checks EXCEPT ![t][c] = NoCheck]
  /\ UNCHANGED <<kit, account, members, saved>>

-----------------------------------------------------------------------------
(* What the user does.                                                     *)

\* MUTANT: the API client is not told.
SwitchedSilently(tab, x) == [tab EXCEPT !.tenant = x]

\* Only ds-auth-ts tells its API client.
Switched(tab, x) ==
  [tab EXCEPT !.tenant = x, !.header = IF kit = "auth" THEN x ELSE @]

\* switchTenant, among those that the page lists.
SwitchTenant(t, x) ==
  /\ tabs[t].open /\ tabs[t].user # None
  /\ x \in tabs[t].tenants \cup {None}
  /\ tabs' = [tabs EXCEPT ![t] = Switched(@, x)]
  /\ saved' = x
  /\ UNCHANGED <<kit, account, members, checks>>

\* The page goes away, with all that it waits for.
Leave(t) ==
  /\ tabs' = [tabs EXCEPT ![t] = Closed]
  /\ checks' = [checks EXCEPT ![t] = [c \in Checks |-> NoCheck]]

\* Signing in; who signed in elsewhere is signed in already.
Login(t) ==
  /\ tabs[t].open /\ tabs[t].user = None
  /\ IF account = None THEN account' \in Users ELSE UNCHANGED account
  /\ Leave(t)
  /\ UNCHANGED <<kit, members, saved>>

\* RequireAuth of ds-auth-ts does so on its own, once nothing is loading.
RequireAuth(t) == kit = "auth" /\ ~tabs[t].isLoading /\ Login(t)

Logout(t) ==
  /\ tabs[t].open /\ tabs[t].user # None
  /\ saved' = None
  /\ account' = None
  /\ Leave(t)
  /\ UNCHANGED <<kit, members>>

Close(t) == tabs[t].open /\ Leave(t) /\ UNCHANGED <<kit, account, members, saved>>

\* The session expires; a user is taken out of a tenant.
Expire ==
  /\ account # None
  /\ account' = None
  /\ UNCHANGED <<kit, members, saved, tabs, checks>>

Revoke(u, x) ==
  /\ x \in members[u]
  /\ members' = [members EXCEPT ![u] = @ \ {x}]
  /\ UNCHANGED <<kit, account, saved, tabs, checks>>

TabStep(t) ==
  \/ Open(t) \/ Refresh(t) \/ Login(t) \/ RequireAuth(t) \/ Logout(t) \/ Close(t)
  \/ \E x \in Tenants \cup {None} : SwitchTenant(t, x)

CheckStep(t, c) == Reply(t, c) \/ Receive(t, c) \/ Fail(t, c)

Next ==
  \/ \E t \in Tabs : TabStep(t) \/ \E c \in Checks : CheckStep(t, c)
  \/ Expire
  \/ \E u \in Users, x \in Tenants : Revoke(u, x)

Spec == Init /\ [][Next]_vars

-----------------------------------------------------------------------------
(* Properties.                                                             *)

(* Account, pages and checks have their types.                             *)
TypeOK ==
  /\ kit \in {"auth", "core", "template"}
  /\ account \in Users \cup {None}
  /\ members \in [Users -> SUBSET Tenants]
  /\ saved \in Tenants \cup {None}
  /\ tabs \in [Tabs -> Tab]
  /\ checks \in [Tabs -> [Checks -> Check]]

(* The X-Tenant-ID of API calls is never another tenant than the page      *)
(* shows, however checks and switches overlap.                             *)
HeaderIsCurrent ==
  \A t \in Tabs : tabs[t].header # None => tabs[t].header = tabs[t].tenant

(* A page works for a tenant only if the service gave it to the page's own *)
(* session once: what another user, or another tab, left in localStorage   *)
(* is not enough.                                                          *)
TenantWasGranted ==
  \A t \in Tabs : tabs[t].tenant # None => tabs[t].tenant \in tabs[t].granted
=============================================================================
