---------------------------- MODULE TenantTheme ----------------------------
(***************************************************************************)
(* useTenantTheme of ds-core: a component asks the backend for the theme   *)
(* of the tenant and keeps it in three places, its own state, a style      *)
(* element of the document and sessionStorage, where the next page of the  *)
(* tab finds it. Requests are aborted by a timer, by the next request and  *)
(* when the component goes.                                                *)
(*                                                                         *)
(* The theme service is external. A step is one callback; an abort rejects *)
(* the request before any other callback runs. The favicon is left out.    *)
(***************************************************************************)
EXTENDS Naturals

CONSTANTS
  Default,     \* the empty configuration
  Themes,      \* the other ones
  Styled,      \* those with cssVars
  None,
  MaxRequests  \* bound of the model: requests at a time

Requests == 1..MaxRequests
Configs == Themes \cup {Default}

ConstantsAssumption == Styled \subseteq Themes /\ None \notin Configs

VARIABLES
  service,     \* the theme of the tenant
  mounted, hook,
  style,       \* the theme whose style element the document has
  cached,      \* the copy in sessionStorage
  requests,
  controller,  \* abortControllerRef
  heard        \* history: the answer to the request that was made last

vars == <<service, mounted, hook, style, cached, requests, controller, heard>>

Hook == [theme : Configs, isLoading : BOOLEAN, error : BOOLEAN]
NewHook == [theme |-> Default, isLoading |-> TRUE, error |-> FALSE]

\* received: the timer is stopped and the body on its way.
Request == [phase : {"none", "sent", "received"}, theme : Configs]
NoRequest == [phase |-> "none", theme |-> Default]
UnderWay == {r \in Requests : requests[r] # NoRequest}

Init ==
  /\ service \in Configs
  /\ mounted = FALSE /\ hook = NewHook /\ style = None /\ cached = None
  /\ requests = [r \in Requests |-> NoRequest]
  /\ controller = None /\ heard = None

-----------------------------------------------------------------------------

\* applyTheme replaces the style element, or removes it.
Applied(config) == IF config \in Styled THEN config ELSE None

\* MUTANT: a request goes on when the next one is made.
LetRun == {}

Aborted == UnderWay \cap {controller}

\* fetchTheme of the hook before, with the copy there is. The request that it
\* aborts falls back to the defaults afterwards, and ends the loading.
FetchTheme(before, copy) ==
  /\ \E r \in Requests \ UnderWay :
       /\ requests' = [q \in Requests |->
            IF q = r THEN [NoRequest EXCEPT !.phase = "sent"]
            ELSE IF q \in Aborted THEN NoRequest ELSE requests[q]]
       /\ controller' = r
  /\ hook' = [before EXCEPT
       !.theme = IF Aborted # {} THEN Default ELSE IF copy # None THEN copy ELSE @,
       !.isLoading = @ /\ copy = None /\ Aborted = {}]
  /\ style' = IF copy # None THEN Applied(copy) ELSE style
  /\ cached' = copy
  /\ heard' = None

Mount ==
  /\ ~mounted /\ mounted' = TRUE
  /\ FetchTheme(NewHook, cached)
  /\ UNCHANGED service

\* The effect again, for another endpoint or timeout, or in StrictMode.
Rerun ==
  /\ mounted
  /\ FetchTheme(hook, cached)
  /\ UNCHANGED <<service, mounted>>

Refresh ==
  /\ mounted
  /\ FetchTheme([hook EXCEPT !.isLoading = TRUE, !.error = FALSE], None)
  /\ UNCHANGED <<service, mounted>>

Respond(r) ==
  /\ requests[r].phase = "sent"
  /\ requests' = [requests EXCEPT ![r] = [phase |-> "received", theme |-> service]]
  /\ UNCHANGED <<service, mounted, hook, style, cached, controller, heard>>

Receive(r) ==
  LET data == requests[r].theme IN
  /\ requests[r].phase = "received"
  /\ requests' = [requests EXCEPT ![r] = NoRequest]
  /\ cached' = data /\ style' = Applied(data)
  /\ hook' = [theme |-> data, isLoading |-> FALSE, error |-> FALSE]
  /\ heard' = IF r = controller THEN data ELSE heard
  /\ UNCHANGED <<service, mounted, controller>>

\* Falling back leaves the style element and the copy as they are.
Ended(r, failed) ==
  /\ requests' = [requests EXCEPT ![r] = NoRequest]
  /\ hook' = [theme |-> Default, isLoading |-> FALSE, error |-> hook.error \/ failed]
  /\ UNCHANGED <<service, mounted, style, cached, controller, heard>>

Timeout(r) == requests[r].phase = "sent" /\ Ended(r, FALSE)

\* An error status, a broken answer, or one that sessionStorage has no room for.
Fail(r) == r \in UnderWay /\ Ended(r, TRUE)

\* The style element outlives the component.
Unmount ==
  /\ mounted /\ mounted' = FALSE
  /\ requests' = [r \in Requests |-> IF r \in Aborted THEN NoRequest ELSE requests[r]]
  /\ hook' = NewHook /\ controller' = None /\ heard' = None
  /\ UNCHANGED <<service, style, cached>>

\* Another page in the tab.
Load ==
  /\ mounted' = FALSE /\ hook' = NewHook /\ style' = None
  /\ requests' = [r \in Requests |-> NoRequest]
  /\ controller' = None /\ heard' = None
  /\ UNCHANGED <<service, cached>>

\* The tenant is switched, or its theme changed.
Publish(config) ==
  /\ service' = config
  /\ UNCHANGED <<mounted, hook, style, cached, requests, controller, heard>>

Next ==
  \/ Mount \/ Rerun \/ Refresh \/ Unmount \/ Load
  \/ \E r \in Requests : Respond(r) \/ Receive(r) \/ Timeout(r) \/ Fail(r)
  \/ \E config \in Configs : Publish(config)

Spec == Init /\ [][Next]_vars

-----------------------------------------------------------------------------
(* Properties.                                                             *)

(* The hook's state has its type.                                          *)
TypeOK ==
  /\ service \in Configs /\ mounted \in BOOLEAN /\ hook \in Hook
  /\ style \in Styled \cup {None} /\ cached \in Configs \cup {None}
  /\ requests \in [Requests -> Request]
  /\ controller \in Requests \cup {None} /\ heard \in Configs \cup {None}

(* Once the request made last is answered, the component, the document and *)
(* the copy for the next page all have that answer, whatever earlier       *)
(* requests, timers and switches of the tenant did.                        *)
ThemeIsTheLastHeard ==
  heard # None => /\ hook.theme = heard /\ ~hook.isLoading
                  /\ style = Applied(heard) /\ cached = heard
=============================================================================
