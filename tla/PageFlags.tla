------------------------------ MODULE PageFlags ------------------------------
(***************************************************************************)
(* The feature flags of a page: FeatureFlagsProvider of ds-core asks the   *)
(* backend to evaluate them, and keeps the answer in its state and in      *)
(* sessionStorage, from which the next page of the tab begins. FeatureFlag *)
(* shows content by them. One flag stands for all.                         *)
(*                                                                         *)
(* The backend evaluates for whoever is signed in when a request arrives;  *)
(* it and the account service are external. A provider lives as long as    *)
(* its page.                                                               *)
(***************************************************************************)
EXTENDS Naturals

CONSTANTS
  Visitors,    \* those who may be signed in; a guest is one of them
  None,
  MaxChecks    \* bound of the model: requests at a time

Checks == 1..MaxChecks

ConstantsAssumption == MaxChecks \in Nat \ {0}

VARIABLES
  account,     \* whom the session cookie stands for
  evaluation,  \* for whom the backend enables the flag
  page, copy,
  checks,      \* the requests under way
  seen         \* history: who was signed in since the page began

vars == <<account, evaluation, page, copy, checks, seen>>

\* What the backend found, and for whom.
Flags == [for : Visitors, enabled : BOOLEAN]

CacheEntry == [flags : Flags, valid : BOOLEAN]

Check == [phase : {"none", "sent", "answered"}, flags : Flags \cup {None}]
NoCheck == [phase |-> "none", flags |-> None]
Sent == [NoCheck EXCEPT !.phase = "sent"]

LoadCachedFlags == IF copy # None /\ copy.valid THEN copy.flags ELSE None

\* MUTANT: a page that finds a copy does not wait for the backend.
WithoutCopy(flags) == flags = None

LoadsAtFirst(flags) == TRUE

Provider(flags) ==
  [flags |-> flags, isLoading |-> LoadsAtFirst(flags), error |-> FALSE]

FirstCheck == [c \in Checks |-> IF c = 1 THEN Sent ELSE NoCheck]

Init ==
  /\ account \in Visitors /\ evaluation \in SUBSET Visitors
  /\ copy = None
  /\ page = Provider(None) /\ checks = FirstCheck
  /\ seen = {account}

-----------------------------------------------------------------------------

\* The next page of the tab.
Load ==
  /\ page' = Provider(LoadCachedFlags) /\ checks' = FirstCheck
  /\ seen' = {account}
  /\ UNCHANGED <<account, evaluation, copy>>

\* refresh, or the effect again: in StrictMode, or for another endpoint.
FetchFlags(c) ==
  /\ checks[c] = NoCheck /\ checks' = [checks EXCEPT ![c] = Sent]
  /\ UNCHANGED <<account, evaluation, page, copy, seen>>

Evaluate(c) ==
  /\ checks[c] = Sent
  /\ checks' = [checks EXCEPT ![c] =
       [phase |-> "answered",
        flags |-> [for |-> account, enabled |-> account \in evaluation]]]
  /\ UNCHANGED <<account, evaluation, page, copy, seen>>

\* sessionStorage may refuse the copy, which nobody learns.
SaveFlagsToCache(flags) == copy' \in {[flags |-> flags, valid |-> TRUE], copy}

\* Whatever was asked or answered since this request was sent.
Receive(c) ==
  /\ checks[c].phase = "answered"
  /\ page' = [flags |-> checks[c].flags, isLoading |-> FALSE, error |-> FALSE]
  /\ SaveFlagsToCache(checks[c].flags)
  /\ checks' = [checks EXCEPT ![c] = NoCheck]
  /\ UNCHANGED <<account, evaluation, seen>>

Fail(c) ==
  /\ checks[c] # NoCheck
  /\ page' = [page EXCEPT !.isLoading = FALSE, !.error = TRUE]
  /\ checks' = [checks EXCEPT ![c] = NoCheck]
  /\ UNCHANGED <<account, evaluation, copy, seen>>

\* FLAGS_CACHE_TTL passes.
Age ==
  /\ copy # None /\ copy' = [copy EXCEPT !.valid = FALSE]
  /\ UNCHANGED <<account, evaluation, page, checks, seen>>

\* In this tab or in another one.
SignIn(visitor) ==
  /\ account' = visitor /\ seen' = seen \cup {visitor}
  /\ UNCHANGED <<evaluation, page, copy, checks>>

\* The flag is changed.
Change(visitors) ==
  /\ evaluation' = visitors
  /\ UNCHANGED <<account, page, copy, checks, seen>>

Next ==
  \/ Load \/ Age
  \/ \E c \in Checks : FetchFlags(c) \/ Evaluate(c) \/ Receive(c) \/ Fail(c)
  \/ \E visitor \in Visitors : SignIn(visitor)
  \/ \E visitors \in SUBSET Visitors : Change(visitors)

Spec == Init /\ [][Next]_vars

-----------------------------------------------------------------------------
(* What is shown.                                                          *)

IsEnabled == page.flags # None /\ page.flags.enabled

\* Whether FeatureFlag shows its children; otherwise it shows its fallback.
FeatureFlag(inverse) ==
  /\ page.isLoading => IsEnabled
  /\ IF inverse THEN ~IsEnabled ELSE IsEnabled

-----------------------------------------------------------------------------
(* Properties.                                                             *)

(* Provider, copy and requests have their types.                           *)
TypeOK ==
  /\ account \in Visitors /\ evaluation \in SUBSET Visitors
  /\ page \in [flags : Flags \cup {None}, isLoading : BOOLEAN, error : BOOLEAN]
  /\ copy \in CacheEntry \cup {None}
  /\ checks \in [Checks -> Check]
  /\ seen \in SUBSET Visitors

(* The copy that a page begins with may be that of another user, who used  *)
(* the tab before. Unless a request of the page has failed, what it shows  *)
(* is by flags that were evaluated for somebody who was signed in since it *)
(* began, with one exception: while it loads, the children of flags that   *)
(* the copy enables. Those of inverse flags wait.                          *)
FlagsAreOfThisPage ==
  \/ page.error
  \/ page.flags # None /\ page.flags.for \in seen
  \/ page.isLoading /\ ~FeatureFlag(TRUE)
=============================================================================
