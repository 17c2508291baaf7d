----------------------------- MODULE MCBrowser -----------------------------
(***************************************************************************)
(* The parts of a page that wait for the network: FrontendPage, and from   *)
(* ds-core Discovery and SessionData. They share no state, so a behaviour  *)
(* exercises one of them and leaves the others in their initial states.    *)
(***************************************************************************)
EXTENDS FrontendPage

CONSTANTS
  Tabs, Names, TTL, MaxRequests, MaxVersion, MaxTime,       \* Discovery
  Hooks, Immediate, Keys, Values, Absent, Kept, MaxInFlight \* SessionData

VARIABLES
  part,
  now, registry, memory, pending, stored, fetches, views,  \* Discovery
  server, history, copies, transfers                       \* SessionData

discoveryVars == <<now, registry, memory, pending, stored, fetches, views>>
sessionVars == <<server, history, copies, transfers>>
allVars == <<part, vars, discoveryVars, sessionVars>>

D == INSTANCE Discovery WITH requests <- fetches, hooks <- views
S == INSTANCE SessionData WITH hooks <- copies, requests <- transfers

ASSUME PartsAssumption == D!ConstantsAssumption /\ S!ConstantsAssumption

BrowserInit ==
  /\ part \in {"page", "discovery", "session"}
  /\ Init /\ D!Init /\ S!Init
  /\ part # "page" => dev /\ page.path = "/"

\* A step A of one part.
OfPage(A) == part = "page" /\ A /\ UNCHANGED <<part, discoveryVars, sessionVars>>
OfDiscovery(A) == part = "discovery" /\ A /\ UNCHANGED <<part, vars, sessionVars>>
OfSession(A) == part = "session" /\ A /\ UNCHANGED <<part, vars, discoveryVars>>

BrowserNext == OfPage(Next) \/ OfDiscovery(D!Next) \/ OfSession(S!Next)

\* The fairness that each part assumes.
BrowserSpec ==
  /\ BrowserInit /\ [][BrowserNext]_allVars
  /\ \A i \in Loads :
       WF_allVars(OfPage(LoadShell(i))) /\ WF_allVars(OfPage(ReceiveSession(i)))
  /\ WF_allVars(OfPage(Tick))
  /\ \A r \in D!Requests : WF_allVars(OfDiscovery(D!RequestStep(r)))
  /\ \A s \in S!Slots : WF_allVars(OfSession(S!Transfer(s)))

-----------------------------------------------------------------------------

(* Every part of the state has its type.                                   *)
BrowserTypeOK == TypeOK /\ D!TypeOK /\ S!TypeOK

(* Concurrent callers of a tab share the request for a resource.           *)
OneRequestEach == D!OneRequestEach

(* No cached resource is served longer than TTL after its request ended.   *)
ServedIsRecent == D!ServedIsRecent

(* A refresh ends with what the registry had when it was called, or newer. *)
RefreshIsFresh == D!RefreshIsFresh

(* What a component shows that wrote alone is what the session has.        *)
AloneIsInSync == S!AloneIsInSync

(* What a component shows at rest is what the session had at some moment.  *)
SettledIsConfirmed == S!SettledIsConfirmed

(* A component that waits for a resource does not show loading for ever.   *)
DiscoveryLoadingEnds == part = "discovery" => D!LoadingEnds

(* One that waits for the session's data does not show loading for ever.   *)
SessionLoadingEnds == part = "session" => S!LoadingEnds

(* A page does not show for ever that it loads its shell or the session.   *)
PageSettlesHere == part = "page" => PageSettles

(* An error of the API does not stay unless the user asked for it.         *)
ErrorLeadsAwayHere == part = "page" => ErrorLeadsAway
=============================================================================
