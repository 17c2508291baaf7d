----------------------------- MODULE Discovery -----------------------------
(***************************************************************************)
(* Service discovery in the browser: the client of ds-core                 *)
(* (utils/discovery.ts), one in each tab, with its memory cache, its       *)
(* pending requests and the copy of the cache in localStorage that all     *)
(* tabs share; and the hook useDiscovery, one component of which is in     *)
(* each tab. All other callers of the client are Prefetch and Invalidate.  *)
(*                                                                         *)
(* A step is one callback of one tab. When a request settles, everyone who *)
(* waits for it continues before any other callback runs.                  *)
(***************************************************************************)
EXTENDS Integers

CONSTANTS
  Tabs, Names,
  TTL,            \* cacheTTL
  None,
  MaxRequests, MaxVersion, MaxTime  \* bounds of the model, not of the code

Requests == 1..MaxRequests
Versions == 0..MaxVersion
Times == 0..MaxTime

ConstantsAssumption ==
  /\ TTL \in Nat
  /\ MaxRequests \in Nat /\ MaxVersion \in Nat /\ MaxTime \in Nat
  /\ None \notin Requests \cup Versions \cup Names

VARIABLES
  now,       \* Date.now()
  registry,  \* the version of each resource that the registry has
  memory,    \* memoryCache of each tab
  pending,   \* pendingRequests of each tab
  stored,    \* the cache in localStorage
  requests,  \* the requests so far
  hooks      \* the component in each tab that uses useDiscovery

vars == <<now, registry, memory, pending, stored, requests, hooks>>

\* by: the request that brought the entry, which the code does not record.
Entry == [version : Versions, cachedAt : Times, by : Requests]
NoEntry == [version |-> 0, cachedAt |-> 0, by |-> None]
Cache == [Names -> Entry \cup {NoEntry}]
Empty == [n \in Names |-> NoEntry]

\* ended: when the answer arrived; lost: a reload dropped it.
Request == [phase : {"unused", "sent", "answered", "over", "failed", "lost"},
            tab : Tabs \cup {None}, name : Names \cup {None},
            version : Versions, ended : Times]

InFlight == {r \in Requests : requests[r].phase \in {"sent", "answered"}}

\* expects: the version that the registry had when refresh was last called
\* for this name; joined: a request was under way at that moment.
Hook == [name : Names \cup {None}, shows : Names \cup {None},
         version : Versions, loading : BOOLEAN, error : BOOLEAN,
         waits : SUBSET Requests,
         expects : Versions \cup {None}, joined : BOOLEAN]

Unmounted == [name |-> None, shows |-> None, version |-> 0,
              loading |-> TRUE, error |-> FALSE, waits |-> {},
              expects |-> None, joined |-> FALSE]

Init ==
  /\ now = 0
  /\ registry = [n \in Names |-> 0]
  /\ memory = [t \in Tabs |-> Empty]
  /\ pending = [t \in Tabs |-> [n \in Names |-> None]]
  /\ stored = Empty
  /\ requests = [r \in Requests |->
       [phase |-> "unused", tab |-> None, name |-> None, version |-> 0,
        ended |-> 0]]
  /\ hooks = [t \in Tabs |-> Unmounted]

-----------------------------------------------------------------------------
(* The client of tab t.                                                    *)

Fresh(e) == e # NoEntry /\ now - e.cachedAt <= TTL

\* MUTANT: callers do not look for a pending request.
NeverPending(t, n) == FALSE

Pending(t, n) == pending[t][n] # None

\* What getCachedResource leaves: it deletes an expired entry.
Evicted(t, names) ==
  [n \in Names |-> IF n \in names /\ ~Fresh(memory[t][n])
                     THEN NoEntry ELSE memory[t][n]]

NextRequest(r) ==
  /\ requests[r].phase = "unused"
  /\ \A q \in 1..(r - 1) : requests[q].phase # "unused"

\* MUTANT: the request does not say for which name it is.
SentBlank(t, n) == [phase |-> "sent", tab |-> t, name |-> None, version |-> 0,
                    ended |-> 0]

Sent(t, n) == [phase |-> "sent", tab |-> t, name |-> n, version |-> 0,
               ended |-> 0]

\* discoverResource, if cache is what the tab has in memory and n is not in
\* it: the caller waits for r, which is pending or new.
Ask(t, n, r) ==
  \/ Pending(t, n) /\ r = pending[t][n] /\ UNCHANGED <<pending, requests>>
  \/ /\ ~Pending(t, n) /\ NextRequest(r)
     /\ requests' = [requests EXCEPT ![r] = Sent(t, n)]
     /\ pending' = [pending EXCEPT ![t][n] = r]

\* prefetchResources, or discoverResource from elsewhere, for one name.
Prefetch(t, n) ==
  /\ ~Fresh(memory[t][n])
  /\ memory' = [memory EXCEPT ![t] = Evicted(t, {n})]
  /\ \E r \in Requests : Ask(t, n, r)
  /\ UNCHANGED <<now, registry, stored, hooks>>

\* MUTANT: only the copy in localStorage is invalidated.
KeepMemory(t, names) == memory[t]

Invalidated(t, names) ==
  [n \in Names |-> IF n \in names THEN NoEntry ELSE memory[t][n]]

\* invalidateCache, for one name or for all, also for other tabs to load.
Invalidate(t, names) ==
  /\ memory' = [memory EXCEPT ![t] = Invalidated(t, names)]
  /\ stored' = memory'[t]
  /\ UNCHANGED <<now, registry, pending, requests, hooks>>

-----------------------------------------------------------------------------
(* The component in tab t.                                                 *)

Mounted(t) == hooks[t].name # None

\* fetchResource: the state of the hook once n was asked for, and how the
\* client answers: at once, or when request r settles.
FetchResource(t, n, hook, cache) ==
  \/ /\ Fresh(cache[n])
     /\ hooks' = [hooks EXCEPT ![t] =
          [hook EXCEPT !.name = n, !.shows = n, !.version = cache[n].version,
                       !.loading = FALSE, !.error = FALSE]]
     /\ UNCHANGED <<pending, requests>>
  \/ /\ ~Fresh(cache[n])
     /\ \E r \in Requests :
          /\ Ask(t, n, r)
          /\ hooks' = [hooks EXCEPT ![t] =
               [hook EXCEPT !.name = n, !.loading = TRUE, !.error = FALSE,
                            !.waits = @ \cup {r}]]

\* The component is mounted, or asks for another name.
UseDiscovery(t, n) ==
  /\ n # hooks[t].name
  /\ FetchResource(t, n,
       [hooks[t] EXCEPT !.expects = None, !.joined = FALSE], memory[t])
  /\ memory' = [memory EXCEPT ![t] = Evicted(t, {n})]
  /\ UNCHANGED <<now, registry, stored>>

Unmount(t) ==
  /\ Mounted(t)
  /\ hooks' = [hooks EXCEPT ![t] = Unmounted]
  /\ UNCHANGED <<now, registry, memory, pending, stored, requests>>

\* refresh: invalidate the name, then ask for it.
Refresh(t) ==
  /\ Mounted(t)
  /\ LET n == hooks[t].name IN
       /\ memory' = [memory EXCEPT ![t] = Invalidated(t, {n})]
       /\ stored' = memory'[t]
       /\ FetchResource(t, n,
            [hooks[t] EXCEPT !.expects = registry[n],
                             !.joined = pending[t][n] # None], memory'[t])
  /\ UNCHANGED <<now, registry>>

-----------------------------------------------------------------------------
(* The registry and the requests.                                          *)

\* A service moves: the registry has another resource by that name.
Move(n) ==
  /\ registry[n] < MaxVersion
  /\ registry' = [registry EXCEPT ![n] = @ + 1]
  /\ UNCHANGED <<now, memory, pending, stored, requests, hooks>>

Answer(r) ==
  /\ requests[r].phase = "sent"
  /\ requests' = [requests EXCEPT ![r].phase = "answered",
                                  ![r].version = registry[requests[r].name]]
  /\ UNCHANGED <<now, registry, memory, pending, stored, hooks>>

\* MUTANT: the hook stops loading when there is an answer only.
LoadsOn(phase) == phase = "failed"

StillLoading(phase) == FALSE

\* The request is over; hooks that waited for it have become told.
End(r, phase, told) ==
  /\ requests' = [requests EXCEPT ![r].phase = phase, ![r].ended = now]
  /\ pending' = [pending EXCEPT ![requests[r].tab][requests[r].name] = None]
  /\ hooks' = [t \in Tabs |->
       IF r \in hooks[t].waits
         THEN [told[t] EXCEPT !.loading = StillLoading(phase), !.waits = @ \ {r}]
         ELSE hooks[t]]

\* The answer arrives: cacheResource, then everyone who waits gets it.
Receive(r) ==
  LET t == requests[r].tab
      n == requests[r].name
      v == requests[r].version
  IN
  /\ requests[r].phase = "answered"
  /\ memory' = [memory EXCEPT ![t][n] =
       [version |-> v, cachedAt |-> now, by |-> r]]
  /\ stored' = memory'[t]
  /\ End(r, "over",
       [h \in Tabs |-> [hooks[h] EXCEPT !.shows = n, !.version = v]])
  /\ UNCHANGED <<now, registry>>

\* The network or the registry fails, or has no such resource.
Fail(r) ==
  /\ r \in InFlight
  /\ End(r, "failed", [h \in Tabs |-> [hooks[h] EXCEPT !.error = TRUE]])
  /\ UNCHANGED <<now, registry, memory, stored>>

-----------------------------------------------------------------------------

\* MUTANT: an entry that is loaded counts as cached just now.
Restamp(e) == IF Fresh(e) THEN [e EXCEPT !.cachedAt = now] ELSE NoEntry

Loaded(e) == IF Fresh(e) THEN e ELSE NoEntry

\* The tab is closed and opened again: loadPersistedCache.
Reload(t) ==
  /\ memory' = [memory EXCEPT ![t] = [n \in Names |-> Loaded(stored[n])]]
  /\ pending' = [pending EXCEPT ![t] = [n \in Names |-> None]]
  /\ requests' = [r \in Requests |->
       IF r \in InFlight /\ requests[r].tab = t
         THEN [requests[r] EXCEPT !.phase = "lost"] ELSE requests[r]]
  /\ hooks' = [hooks EXCEPT ![t] = Unmounted]
  /\ UNCHANGED <<now, registry, stored>>

Tick ==
  /\ now < MaxTime
  /\ now' = now + 1
  /\ UNCHANGED <<registry, memory, pending, stored, requests, hooks>>

TabStep(t) ==
  \/ \E n \in Names : Prefetch(t, n) \/ UseDiscovery(t, n) \/ Invalidate(t, {n})
  \/ Invalidate(t, Names) \/ Unmount(t) \/ Refresh(t) \/ Reload(t)

RequestStep(r) == Answer(r) \/ Receive(r) \/ Fail(r)

Next ==
  \/ \E t \in Tabs : TabStep(t)
  \/ \E r \in Requests : RequestStep(r)
  \/ \E n \in Names : Move(n)
  \/ Tick

Spec == Init /\ [][Next]_vars

\* A browser lets no request hang for ever: it is answered or it fails.
FairSpec == Spec /\ \A r \in Requests : WF_vars(RequestStep(r))

-----------------------------------------------------------------------------
(* Properties.                                                             *)

\* Caches, requests and hooks have their types.
TypeOK ==
  /\ now \in Times
  /\ registry \in [Names -> Versions]
  /\ memory \in [Tabs -> Cache] /\ stored \in Cache
  /\ pending \in [Tabs -> [Names -> Requests \cup {None}]]
  /\ requests \in [Requests -> Request]
  /\ \A r \in InFlight : requests[r].tab \in Tabs /\ requests[r].name \in Names
  /\ hooks \in [Tabs -> Hook]

(* Concurrent callers of a tab share the request for a name, whatever was  *)
(* invalidated or reloaded in the meantime.                                *)
OneRequestEach ==
  \A q, r \in InFlight :
    requests[q].tab = requests[r].tab /\ requests[q].name = requests[r].name
      => q = r

(* What a tab serves from its cache is what the registry answered to a     *)
(* request for that name that ended at most TTL ago, whichever tab it was  *)
(* that asked and however often the entry went through localStorage.       *)
ServedIsRecent ==
  \A t \in Tabs, n \in Names :
    LET e == memory[t][n] IN
      Fresh(e) => LET r == requests[e.by] IN
                    /\ r.phase = "over" /\ r.name = n
                    /\ r.version = e.version /\ now - r.ended <= TTL

Settled(t) == Mounted(t) /\ ~hooks[t].loading /\ ~hooks[t].error

(* A refresh that found no request under way ends with what the registry   *)
(* had when it was called, or with something newer.                        *)
RefreshIsFresh ==
  \A t \in Tabs :
    LET hook == hooks[t] IN
      Settled(t) /\ hook.shows = hook.name /\ hook.expects # None /\ ~hook.joined
        => hook.version >= hook.expects

(* No component shows that it is loading for ever.                         *)
LoadingEnds ==
  \A t \in Tabs :
    Mounted(t) /\ hooks[t].loading ~> ~(Mounted(t) /\ hooks[t].loading)
=============================================================================
