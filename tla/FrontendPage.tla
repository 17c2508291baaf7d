---------------------------- MODULE FrontendPage ----------------------------
(***************************************************************************)
(* A page of the application (frontend/src/App.tsx): the remote shell      *)
(* around it, the session that decides what it shows (useAuth of ds-core), *)
(* the dashboard behind ProtectedRoute, and what happens to errors of its  *)
(* API calls (api/client.ts, ApiErrorProvider, ApiErrorView) and of its    *)
(* rendering (ErrorBoundary).                                              *)
(*                                                                         *)
(* A step is one callback, with everything that React renders after it.    *)
(* The menu and the header's links load a new page.                        *)
(***************************************************************************)
EXTENDS RemoteShell

CONSTANTS
  Countdown,            \* countdownSeconds
  MaxCalls, MaxVisits   \* bounds of the model: calls under way, pages loaded

ASSUME ConstantsAssumption ==
  /\ Countdown \in Nat \ {0} /\ MaxCalls \in Nat /\ MaxVisits \in Nat \ {0}

VARIABLES
  asks,    \* the requests of this page for the session
  calls,   \* API calls of this page under way
  visits,  \* pages loaded so far
  page

pageVars == <<asks, calls, visits, page>>
vars == <<shellVars, pageVars>>

\* bare: a user whose tenants are null. DashboardPage reads their length.
Who == {"guest", "member", "bare"}
Paths == {"/", "/dashboard"}

\* handler: the error handler of the API client is that of an
\* ApiErrorProvider that is mounted, or gone by now. leaving: the path of
\* this application that window.location.href was set to, or that signing
\* in or out comes back to.
Page == [path : Paths, session : Who \cup {"loading", "failed"},
         crashed : BOOLEAN, error : BOOLEAN, countdown : 0..Countdown,
         paused : BOOLEAN, handler : {None, "mounted", "gone"},
         leaving : {None} \cup Paths]

NewPage(path) ==
  [path |-> path, session |-> "loading", crashed |-> FALSE, error |-> FALSE,
   countdown |-> Countdown, paused |-> FALSE, handler |-> None,
   leaving |-> None]

\* The effect of AuthProvider, which runs twice in a development build.
SessionAsked(build) ==
  [i \in Loads |-> IF build \/ i = 2 THEN "sent" ELSE "none"]

Init ==
  /\ ShellInit
  /\ asks = SessionAsked(dev)
  /\ calls = 0
  /\ visits = 1
  /\ \E path \in Paths : page = NewPage(path)

-----------------------------------------------------------------------------
(* What the page shows.                                                    *)

IsAuthenticated(p) == p.session \in {"member", "bare"}

\* SessionLoader and ProtectedRoute.
Route(p) ==
  IF p.session = "loading" THEN "session loading"
  ELSE IF p.path = "/" THEN "home"
  ELSE IF ~IsAuthenticated(p) THEN "redirect"
  ELSE IF p.error THEN "api error" ELSE "dashboard"

ScreenIn(state, p) ==
  IF ShellShows(state) # "children" THEN ShellShows(state)
  ELSE IF p.crashed THEN "boundary" ELSE Route(p)

Screen(p) == ScreenIn(shell.state, p)

\* ApiErrorProvider and its state are gone; its handler stays registered.
WithoutProvider(p) ==
  [p EXCEPT !.error = FALSE, !.countdown = Countdown, !.paused = FALSE,
            !.handler = IF @ = "mounted" THEN "gone" ELSE @]

\* ErrorBoundary has caught an error and shows itself instead of the routes.
Caught(p) == [WithoutProvider(p) EXCEPT !.crashed = TRUE]

\* What rendering p, under the shell of the next state, makes of it:
\* Navigate replaces the path, ErrorBoundary catches what the dashboard
\* throws, and ApiErrorWiring registers the handler.
Rendered(state, p) ==
  LET screen == ScreenIn(state, p) IN
    IF screen = "redirect" THEN [WithoutProvider(p) EXCEPT !.path = "/"]
    ELSE IF screen = "dashboard" /\ p.session = "bare"
      THEN Caught(p)
    ELSE IF screen \in {"dashboard", "api error"}
      THEN [p EXCEPT !.handler = "mounted"]
    ELSE p

\* A step of the page itself.
Become(p) == page' = Rendered(shell.state, p)

-----------------------------------------------------------------------------

LoadShell(i) ==
  /\ ShellStep(i)
  /\ page' = Rendered(shell'.state, page)
  /\ UNCHANGED <<asks, calls, visits>>

\* MUTANT: a failure leaves the page loading.
KeepLoading(p) == p

SessionFailed(p) == [p EXCEPT !.session = "failed"]

\* loadSession gets its answer, which may differ each time, or none.
ReceiveSession(i) ==
  /\ asks[i] = "sent"
  /\ asks' = [asks EXCEPT ![i] = "none"]
  /\ UNCHANGED <<shellVars, calls, visits>>
  /\ \/ \E who \in Who : Become([page EXCEPT !.session = who])
     \/ Become(SessionFailed(page))

\* The content of the dashboard calls the API.
CallApi ==
  /\ Screen(page) = "dashboard" /\ calls < MaxCalls
  /\ calls' = calls + 1
  /\ UNCHANGED <<shellVars, asks, visits, page>>

\* The call succeeds, or gets no response: the handler hears of neither.
CallEnds ==
  /\ calls > 0
  /\ calls' = calls - 1
  /\ UNCHANGED <<shellVars, asks, visits, page>>

\* Any other response is an error for the handler, wherever that leads. One
\* that comes while an error is shown takes over its countdown.
CallFails ==
  /\ calls > 0
  /\ calls' = calls - 1
  /\ Become(IF page.handler = "mounted" THEN [page EXCEPT !.error = TRUE]
                                        ELSE page)
  /\ UNCHANGED <<shellVars, asks, visits>>

\* handleRedirect: the error is cleared, which shows the dashboard again
\* until the browser has left the page.
HandleRedirect(p) ==
  [p EXCEPT !.error = FALSE, !.countdown = Countdown, !.paused = FALSE,
            !.leaving = "/"]

\* MUTANT: the countdown goes on to zero, where its effect returns early.
CountedToZero(p) ==
  IF p.countdown = 0 THEN HandleRedirect(p)
                     ELSE [p EXCEPT !.countdown = @ - 1]

Counted(p) ==
  IF p.countdown <= 1 THEN HandleRedirect(p)
                      ELSE [p EXCEPT !.countdown = @ - 1]

Tick ==
  /\ Screen(page) = "api error" /\ ~page.paused /\ page.countdown > 0
  /\ Become(Counted(page))
  /\ UNCHANGED <<shellVars, asks, calls, visits>>

HandleCancel ==
  /\ Screen(page) = "api error" /\ page.countdown > 0
  /\ Become([page EXCEPT !.paused = TRUE])
  /\ UNCHANGED <<shellVars, asks, calls, visits>>

HandleGoNow ==
  /\ Screen(page) = "api error"
  /\ Become(HandleRedirect(page))
  /\ UNCHANGED <<shellVars, asks, calls, visits>>

\* ErrorBoundary, Try Again; its resetKey does not change in a page.
HandleRetry ==
  /\ Screen(page) = "boundary"
  /\ Become([page EXCEPT !.crashed = FALSE])
  /\ UNCHANGED <<shellVars, asks, calls, visits>>

-----------------------------------------------------------------------------
(* Leaving the page.                                                       *)

\* The home page has the application's Layout. The dashboard has what the
\* shell provides, and tells it the name of the application only.
HeaderHasAuth ==
  \/ Screen(page) = "home"
  \/ Screen(page) \in {"dashboard", "api error"} /\ LayoutOf(shell.module) = "Layout"

LeaveFor(path) ==
  /\ page' = [page EXCEPT !.leaving = path]
  /\ UNCHANGED <<shellVars, asks, calls, visits>>

Login == HeaderHasAuth /\ ~IsAuthenticated(page) /\ LeaveFor(page.path)

Logout == HeaderHasAuth /\ IsAuthenticated(page) /\ LeaveFor("/")

\* A page is loaded; all that the last one had under way is lost.
Load(path) ==
  /\ visits < MaxVisits
  /\ visits' = visits + 1
  /\ page' = NewPage(path)
  /\ asks' = SessionAsked(dev)
  /\ calls' = 0
  /\ ShellReload

Arrive ==
  /\ page.leaving # None
  /\ Load(page.leaving)

\* A link of the menu, Go Home and Try Again of the error pages, the
\* browser's own controls. Any other path leads to / .
Open == \E path \in Paths : Load(path)

PageWorks ==
  \/ \E i \in Loads : LoadShell(i) \/ ReceiveSession(i)
  \/ CallEnds \/ CallFails \/ Tick \/ Arrive

Next ==
  \/ PageWorks
  \/ CallApi \/ HandleCancel \/ HandleGoNow \/ HandleRetry
  \/ Login \/ Logout \/ Open

Spec == Init /\ [][Next]_vars

\* Timers fire, imports and requests end.
FairSpec ==
  /\ Spec
  /\ \A i \in Loads : WF_vars(LoadShell(i)) /\ WF_vars(ReceiveSession(i))
  /\ WF_vars(Tick)

-----------------------------------------------------------------------------
(* Properties.                                                             *)

(* The page, its shell and its requests have their types.                  *)
TypeOK ==
  /\ ShellTypeOK
  /\ asks \in [Loads -> {"none", "sent"}]
  /\ calls \in 0..MaxCalls /\ visits \in 1..MaxVisits
  /\ page \in Page

(* Once a shell is shown it stays until another page is loaded: a script   *)
(* that comes after the timeout, or a load that was cancelled, does not    *)
(* replace it, which would mount the whole page anew.                      *)
ShellStays ==
  [][shell.state # "pending" /\ visits' = visits => shell' = shell]_vars

(* No page shows for ever that it loads its shell or the session, whatever *)
(* becomes of the CDN and of the requests.                                 *)
PageSettles ==
  LET Waits == Screen(page) \in {"shell loading", "session loading"} IN
    Waits ~> ~Waits

(* "Auto-redirects to app root after countdown": an error of the API does  *)
(* not stay on the screen for ever unless the user asked for it, however   *)
(* many errors come meanwhile.                                             *)
ErrorLeadsAway ==
  LET Counts == Screen(page) = "api error" /\ ~page.paused IN
    Counts ~> ~Counts
=============================================================================
