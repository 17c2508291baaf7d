-------------------------- MODULE AuthSessionProofs --------------------------
(***************************************************************************)
(* For any number of tabs, users, tenants and overlapping checks: the      *)
(* tenant of API calls is the page's, and was granted to it.               *)
(***************************************************************************)
EXTENDS AuthSession, TLAPS

\* What a page knows of its tenant.
PageOK(tab) ==
  /\ tab.header # None => tab.header = tab.tenant
  /\ tab.tenant # None => tab.tenant \in tab.granted
  /\ tab.tenants \subseteq tab.granted

\* Only ds-auth-ts gives its API client a tenant.
OnlyAuthTells == \A t \in Tabs : kit # "auth" => tabs[t].header = None

PagesOK == \A t \in Tabs : PageOK(tabs[t])

-----------------------------------------------------------------------------
(* The values that pages and checks take.                                  *)

LEMMA Constants == 1 \in Checks /\ None \notin Users \cup Tenants
  BY ConstantsAssumption DEF Checks

LEMMA ClosedPage ==
  /\ NewPage \in Tab /\ Closed \in Tab
  /\ PageOK(NewPage) /\ PageOK(Closed)
  /\ NewPage.header = None /\ Closed.header = None
  BY DEF NewPage, Closed, Tab, PageOK

LEMMA CheckValues == NoCheck \in Check /\ Sent \in Check /\ Guest \in Check
  BY DEF NoCheck, Sent, Guest, Check

\* Every page that an answer leads to, whatever the kit.
LEMMA ToldIsTab ==
  ASSUME NEW tab \in Tab, NEW a \in Check, saved \in Tenants \cup {None}
  PROVE  Told(tab, a) \in Tab /\ CheckAuthFailed(tab) \in Tab
           /\ LoadSession(tab, a) \in Tab
<1>1. CheckAuthFailed(tab) \in Tab
  BY DEF CheckAuthFailed, Tab
<1>2. CheckAuth(tab, a) \in Tab
  <2>1. CASE Restorable(a)
    BY <2>1 DEF CheckAuth, Tab, Check
  <2>2. CASE ~Restorable(a)
    BY <2>2 DEF CheckAuth, Tab, Check
  <2> QED  BY <2>1, <2>2
<1>3. LoadSession(tab, a) \in Tab
  BY DEF LoadSession, Tab, Check
<1>4. LoadSessionTemplate(tab, a) \in Tab
  BY <1>3 DEF LoadSessionTemplate, Tab
<1> QED  BY <1>1, <1>2, <1>3, <1>4 DEF Told

\* The page that has received an answer a; of a failure only a guest's.
Received(tab, a) ==
  [Told(tab, a) EXCEPT !.isLoading = FALSE,
                       !.granted = @ \cup a.tenants \cup {a.active}]
Failed(tab) ==
  IF kit = "auth" THEN CheckAuthFailed(tab)
  ELSE [LoadSession(tab, Guest) EXCEPT !.isLoading = FALSE]

\* What Told makes of a page, field by field.
LEMMA ToldFields ==
  ASSUME NEW tab \in Tab, NEW a \in Check, PageOK(tab),
         kit # "auth" => tab.header = None
  PROVE  /\ Told(tab, a).granted = tab.granted
         /\ Told(tab, a).tenants \in {{}, a.tenants}
         /\ Told(tab, a).header # None => Told(tab, a).header = Told(tab, a).tenant
         /\ \/ Told(tab, a).tenant = tab.tenant
            \/ Told(tab, a).tenant \in a.tenants \cup {a.active}
         /\ kit # "auth" => Told(tab, a).header = None
<1>1. ASSUME kit = "auth", a.user = None
      PROVE  Told(tab, a) = CheckAuthFailed(tab)
  BY <1>1 DEF Told
<1>2. ASSUME kit = "auth", a.user # None
      PROVE  Told(tab, a) = CheckAuth(tab, a)
  BY <1>2 DEF Told
<1>3. ASSUME kit # "auth"
      PROVE  \/ Told(tab, a) = LoadSession(tab, a)
             \/ Told(tab, a) = [tab EXCEPT !.user = None, !.tenants = {}]
  BY <1>3 DEF Told, LoadSessionTemplate
<1>4. /\ CheckAuthFailed(tab).granted = tab.granted
      /\ CheckAuthFailed(tab).tenants = {}
      /\ CheckAuthFailed(tab).header = None
      /\ CheckAuthFailed(tab).tenant = tab.tenant
  BY DEF CheckAuthFailed, Tab
<1>5. /\ CheckAuth(tab, a).granted = tab.granted
      /\ CheckAuth(tab, a).tenants = a.tenants
      /\ CheckAuth(tab, a).header = IF Restorable(a) THEN saved ELSE tab.header
      /\ CheckAuth(tab, a).tenant = IF Restorable(a) THEN saved ELSE tab.tenant
  BY DEF CheckAuth, Tab
<1>6. /\ LoadSession(tab, a).granted = tab.granted
      /\ LoadSession(tab, a).tenants = a.tenants
      /\ LoadSession(tab, a).header = tab.header
      /\ LoadSession(tab, a).tenant = IF Restorable(a) THEN saved ELSE a.active
  BY DEF LoadSession, Tab
<1>7. Restorable(a) => saved \in a.tenants
  BY DEF Restorable
<1>8. CASE kit = "auth"
  BY <1>1, <1>2, <1>4, <1>5, <1>7, <1>8 DEF PageOK
<1>9. CASE kit # "auth"
  <2>1. CASE Told(tab, a) = LoadSession(tab, a)
    BY <1>6, <1>7, <1>9, <2>1
  <2>2. CASE Told(tab, a) = [tab EXCEPT !.user = None, !.tenants = {}]
    BY <1>9, <2>2 DEF Tab
  <2> QED  BY <1>3, <1>9, <2>1, <2>2
<1> QED  BY <1>8, <1>9

LEMMA ReceivedIsOK ==
  ASSUME NEW tab \in Tab, NEW a \in Check, saved \in Tenants \cup {None},
         PageOK(tab), kit # "auth" => tab.header = None
  PROVE  /\ Received(tab, a) \in Tab /\ PageOK(Received(tab, a))
         /\ kit # "auth" => Received(tab, a).header = None
<1> DEFINE p == Told(tab, a)
<1>1. p \in Tab
  BY ToldIsTab
<1>2. /\ p.granted = tab.granted /\ p.tenants \in {{}, a.tenants}
      /\ p.header # None => p.header = p.tenant
      /\ p.tenant = tab.tenant \/ p.tenant \in a.tenants \cup {a.active}
      /\ kit # "auth" => p.header = None
  BY ToldFields
<1>3. Received(tab, a) = [p EXCEPT !.isLoading = FALSE,
                                   !.granted = @ \cup a.tenants \cup {a.active}]
  BY DEF Received
<1> HIDE DEF p
<1>4. Received(tab, a) \in Tab
  <2> DEFINE g == p.granted \cup a.tenants \cup {a.active}
  <2>1. g \in SUBSET (Tenants \cup {None})
    BY <1>1 DEF Tab, Check
  <2>2. Received(tab, a) = [p EXCEPT !.isLoading = FALSE, !.granted = g]
    BY <1>3
  <2> HIDE DEF g
  <2> QED  BY <1>1, <2>1, <2>2 DEF Tab
<1>5. /\ Received(tab, a).granted = tab.granted \cup a.tenants \cup {a.active}
      /\ Received(tab, a).tenants = p.tenants
      /\ Received(tab, a).tenant = p.tenant
      /\ Received(tab, a).header = p.header
  BY <1>1, <1>2, <1>3 DEF Tab
<1>6. PageOK(Received(tab, a))
  BY <1>2, <1>5 DEF PageOK
<1> QED  BY <1>2, <1>4, <1>5, <1>6

LEMMA FailedIsOK ==
  ASSUME NEW tab \in Tab, saved \in Tenants \cup {None},
         PageOK(tab), kit # "auth" => tab.header = None
  PROVE  /\ Failed(tab) \in Tab /\ PageOK(Failed(tab))
         /\ kit # "auth" => Failed(tab).header = None
<1>1. CASE kit = "auth"
  BY <1>1 DEF Failed, CheckAuthFailed, PageOK, Tab
<1>2. CASE kit # "auth"
  BY <1>2 DEF Failed, LoadSession, Restorable, Guest, NoCheck, PageOK, Tab
<1> QED  BY <1>1, <1>2

LEMMA SwitchedIsOK ==
  ASSUME NEW tab \in Tab, NEW x \in tab.tenants \cup {None},
         PageOK(tab), kit # "auth" => tab.header = None
  PROVE  /\ Switched(tab, x) \in Tab /\ PageOK(Switched(tab, x))
         /\ kit # "auth" => Switched(tab, x).header = None
  BY DEF Switched, PageOK, Tab

-----------------------------------------------------------------------------
(* The inductive invariant.                                                *)

IInv == TypeOK /\ OnlyAuthTells /\ PagesOK

\* One page changes to an acceptable one, and its checks to checks.
LEMMA PageChanges ==
  ASSUME IInv, NEW t \in Tabs, NEW tab \in Tab, PageOK(tab),
         kit # "auth" => tab.header = None,
         tabs' = [tabs EXCEPT ![t] = tab],
         kit' = kit, account' \in Users \cup {None}, members' = members,
         saved' \in Tenants \cup {None}, checks' \in [Tabs -> [Checks -> Check]]
  PROVE  IInv'
<1>1. tabs' \in [Tabs -> Tab] /\ \A s \in Tabs : tabs'[s] = IF s = t THEN tab ELSE tabs[s]
  BY DEF IInv, TypeOK
<1>2. TypeOK'
  BY <1>1 DEF IInv, TypeOK
<1>3. OnlyAuthTells'
  BY <1>1 DEF IInv, OnlyAuthTells
<1>4. \A s \in Tabs : PageOK(tabs'[s])
  BY <1>1 DEF IInv, PagesOK
<1>5. PagesOK'
  BY <1>4 DEF PagesOK, PageOK
<1> QED  BY <1>2, <1>3, <1>5 DEF IInv

LEMMA OthersChange ==
  ASSUME IInv, UNCHANGED <<kit, tabs>>, account' \in Users \cup {None},
         members' \in [Users -> SUBSET Tenants],
         saved' \in Tenants \cup {None}, checks' \in [Tabs -> [Checks -> Check]]
  PROVE  IInv'
<1>1. TypeOK'
  BY DEF IInv, TypeOK
<1>2. OnlyAuthTells'
  BY DEF IInv, OnlyAuthTells
<1>3. PagesOK'
  BY DEF IInv, PagesOK, PageOK
<1> QED  BY <1>1, <1>2, <1>3 DEF IInv

LEMMA InitIInv == Init => IInv
<1> SUFFICES ASSUME Init PROVE IInv
  OBVIOUS
<1>1. TypeOK
  BY ClosedPage, CheckValues DEF Init, TypeOK
<1>2. OnlyAuthTells /\ PagesOK
  BY ClosedPage DEF Init, OnlyAuthTells, PagesOK
<1> QED  BY <1>1, <1>2 DEF IInv

LEMMA LeaveKeeps ==
  ASSUME IInv, NEW t \in Tabs, Leave(t), kit' = kit, members' = members,
         account' \in Users \cup {None}, saved' \in Tenants \cup {None}
  PROVE  IInv'
<1>1. checks' \in [Tabs -> [Checks -> Check]]
  BY CheckValues DEF Leave, IInv, TypeOK
<1> QED  BY <1>1, ClosedPage, PageChanges DEF Leave

LEMMA LoginKeeps == ASSUME IInv, NEW t \in Tabs, Login(t) PROVE IInv'
<1>1. account' \in Users \cup {None}
  BY DEF Login, IInv, TypeOK
<1>2. saved' \in Tenants \cup {None}
  BY DEF Login, IInv, TypeOK
<1> QED  BY <1>1, <1>2, LeaveKeeps DEF Login

LEMMA TabStepKeeps == ASSUME IInv, NEW t \in Tabs, TabStep(t) PROVE IInv'
<1>0. tabs[t] \in Tab /\ PageOK(tabs[t]) /\ saved \in Tenants \cup {None}
        /\ account \in Users \cup {None} /\ checks \in [Tabs -> [Checks -> Check]]
        /\ (kit # "auth" => tabs[t].header = None)
  BY DEF IInv, TypeOK, PagesOK, OnlyAuthTells
<1>1. CASE Open(t)
  <2>1. checks' \in [Tabs -> [Checks -> Check]]
    BY <1>0, <1>1, CheckValues DEF Open, Start
  <2> QED  BY <2>1, <1>0, <1>1, ClosedPage, PageChanges DEF Open, Start
<1>2. CASE Refresh(t)
  <2> DEFINE tab == [tabs[t] EXCEPT !.isLoading = TRUE]
  <2>1. tab \in Tab /\ PageOK(tab) /\ (kit # "auth" => tab.header = None)
    BY <1>0 DEF Tab, PageOK
  <2>2. checks' \in [Tabs -> [Checks -> Check]]
    BY <1>0, <1>2, CheckValues DEF Refresh
  <2>3. tabs' = [tabs EXCEPT ![t] = tab]
    BY <1>2 DEF Refresh
  <2> HIDE DEF tab
  <2> QED  BY <1>0, <1>2, <2>1, <2>2, <2>3, PageChanges DEF Refresh
<1>3. CASE Login(t) \/ RequireAuth(t)
  BY <1>3, LoginKeeps DEF RequireAuth
<1>4. CASE Logout(t)
  BY <1>4, LeaveKeeps DEF Logout
<1>5. CASE Close(t)
  BY <1>0, <1>5, LeaveKeeps DEF Close
<1>6. ASSUME NEW x \in Tenants \cup {None}, SwitchTenant(t, x)
      PROVE  IInv'
  <2>1. /\ x \in tabs[t].tenants \cup {None}
        /\ tabs' = [tabs EXCEPT ![t] = Switched(tabs[t], x)]
    BY <1>6 DEF SwitchTenant
  <2>2. /\ Switched(tabs[t], x) \in Tab /\ PageOK(Switched(tabs[t], x))
        /\ kit # "auth" => Switched(tabs[t], x).header = None
    BY <1>0, <2>1, SwitchedIsOK
  <2> QED  BY <1>0, <1>6, <2>1, <2>2, PageChanges DEF SwitchTenant
<1> QED  BY <1>1, <1>2, <1>3, <1>4, <1>5, <1>6 DEF TabStep

LEMMA CheckStepKeeps ==
  ASSUME IInv, NEW t \in Tabs, NEW c \in Checks, CheckStep(t, c)
  PROVE  IInv'
<1>0. tabs[t] \in Tab /\ PageOK(tabs[t]) /\ saved \in Tenants \cup {None}
        /\ account \in Users \cup {None} /\ checks \in [Tabs -> [Checks -> Check]]
        /\ members \in [Users -> SUBSET Tenants]
        /\ (kit # "auth" => tabs[t].header = None)
  BY DEF IInv, TypeOK, PagesOK, OnlyAuthTells
<1>1. CASE Reply(t, c)
  <2>1. PICK a \in Check : checks' = [checks EXCEPT ![t][c] = a]
    <3>1. CASE account = None
      BY <1>1, <3>1, CheckValues DEF Reply
    <3>2. CASE account # None
      <4>1. PICK x \in members[account] \cup {None} :
              checks' = [checks EXCEPT ![t][c] =
                [phase |-> "answered", user |-> account,
                 tenants |-> members[account], active |-> x]]
        BY <1>1, <3>2 DEF Reply
      <4>2. members[account] \subseteq Tenants /\ account \in Users
        BY <1>0, <3>2
      <4>3. [phase |-> "answered", user |-> account,
             tenants |-> members[account], active |-> x] \in Check
        BY <4>1, <4>2 DEF Check
      <4> QED  BY <4>1, <4>3
    <3> QED  BY <3>1, <3>2
  <2>2. checks' \in [Tabs -> [Checks -> Check]]
    BY <1>0, <2>1
  <2> QED  BY <1>0, <1>1, <2>2, OthersChange DEF Reply
<1>2. CASE Receive(t, c)
  <2>1. checks[t][c] \in Check
    BY <1>0
  <2>2. tabs' = [tabs EXCEPT ![t] = Received(tabs[t], checks[t][c])]
    BY <1>2 DEF Receive, Received
  <2>3. checks' \in [Tabs -> [Checks -> Check]]
    BY <1>0, <1>2, CheckValues DEF Receive
  <2>4. /\ Received(tabs[t], checks[t][c]) \in Tab
        /\ PageOK(Received(tabs[t], checks[t][c]))
        /\ kit # "auth" => Received(tabs[t], checks[t][c]).header = None
    BY <1>0, <2>1, ReceivedIsOK
  <2> QED  BY <1>0, <1>2, <2>2, <2>3, <2>4, PageChanges DEF Receive
<1>3. CASE Fail(t, c)
  <2>1. tabs' = [tabs EXCEPT ![t] = Failed(tabs[t])]
    BY <1>3 DEF Fail, Failed
  <2>2. checks' \in [Tabs -> [Checks -> Check]]
    BY <1>0, <1>3, CheckValues DEF Fail
  <2>3. /\ Failed(tabs[t]) \in Tab /\ PageOK(Failed(tabs[t]))
        /\ kit # "auth" => Failed(tabs[t]).header = None
    BY <1>0, FailedIsOK
  <2> QED  BY <1>0, <1>3, <2>1, <2>2, <2>3, PageChanges DEF Fail
<1> QED  BY <1>1, <1>2, <1>3 DEF CheckStep

LEMMA NextKeeps == IInv /\ [Next]_vars => IInv'
<1> SUFFICES ASSUME IInv, [Next]_vars PROVE IInv'
  OBVIOUS
<1>0. TypeOK
  BY DEF IInv
<1>1. CASE Next
  <2>1. ASSUME NEW t \in Tabs, TabStep(t) PROVE IInv'
    BY <2>1, TabStepKeeps
  <2>2. ASSUME NEW t \in Tabs, NEW c \in Checks, CheckStep(t, c) PROVE IInv'
    BY <2>2, CheckStepKeeps
  <2>3. CASE Expire
    BY <1>0, <2>3, OthersChange DEF Expire, TypeOK
  <2>4. ASSUME NEW u \in Users, NEW x \in Tenants, Revoke(u, x) PROVE IInv'
    <3>1. members' \in [Users -> SUBSET Tenants]
      BY <1>0, <2>4 DEF Revoke, TypeOK
    <3> QED  BY <1>0, <2>4, <3>1, OthersChange DEF Revoke, TypeOK
  <2> QED  BY <1>1, <2>1, <2>2, <2>3, <2>4 DEF Next
<1>2. CASE UNCHANGED vars
  BY <1>0, <1>2, OthersChange DEF vars, TypeOK
<1> QED  BY <1>1, <1>2

LEMMA Invariance == Spec => []IInv
  BY InitIInv, NextKeeps, PTL DEF Spec

-----------------------------------------------------------------------------
(* The theorems.                                                           *)

(* Account, pages and checks keep their types.                             *)
THEOREM TypeCorrect == Spec => []TypeOK
<1>1. IInv => TypeOK
  BY DEF IInv
<1> QED  BY <1>1, Invariance, PTL

(* However checks and switches overlap, API calls carry no other tenant    *)
(* than the page's.                                                        *)
THEOREM HeaderStaysCurrent == Spec => []HeaderIsCurrent
<1>1. IInv => HeaderIsCurrent
  BY DEF IInv, PagesOK, PageOK, HeaderIsCurrent
<1> QED  BY <1>1, Invariance, PTL

(* No page works for a tenant that the service has not given to its        *)
(* session, whoever left it in localStorage.                               *)
THEOREM TenantIsGranted == Spec => []TenantWasGranted
<1>1. IInv => TenantWasGranted
  BY DEF IInv, PagesOK, PageOK, TenantWasGranted
<1> QED  BY <1>1, Invariance, PTL
=============================================================================
