---------------------------- MODULE BrowserProofs ----------------------------
(***************************************************************************)
(* Theorems about the parts of a page that wait for the network, for every *)
(* value of their constants: requests and callbacks in any order.          *)
(***************************************************************************)
EXTENDS MCBrowser, TLAPS

-----------------------------------------------------------------------------
(***************************************************************************)
(* Service discovery.                                                      *)
(***************************************************************************)

\* A request under way is the pending one of its tab for its name, and no
\* other is pending.
PendingOK ==
  \A t \in Tabs, n \in Names, r \in D!Requests :
    pending[t][n] = r <=>
      r \in D!InFlight /\ fetches[r].tab = t /\ fetches[r].name = n

\* An entry says what a request for its name brought, and when.
EntryOK(e, n) ==
  e # D!NoEntry =>
    /\ fetches[e.by].phase = "over" /\ fetches[e.by].name = n
    /\ fetches[e.by].version = e.version /\ fetches[e.by].ended = e.cachedAt

CachesOK ==
  \A n \in Names : EntryOK(stored[n], n) /\ \A t \in Tabs : EntryOK(memory[t][n], n)

\* A component waits for requests of its own tab. The answers that it waits for
\* since a refresh that joined no request are as new as the refresh, and so is
\* what it shows.
ViewOK(t, view) ==
  /\ \A r \in view.waits : r \in D!InFlight /\ fetches[r].tab = t
  /\ view.expects # None =>
       view.name \in Names /\ view.expects <= registry[view.name]
  /\ view.expects # None /\ ~view.joined =>
       /\ \A r \in view.waits :
            fetches[r].phase = "answered" /\ fetches[r].name = view.name =>
              fetches[r].version >= view.expects
       /\ view.shows = view.name /\ ~view.loading /\ ~view.error =>
            view.version >= view.expects

DiscoveryInv ==
  /\ D!TypeOK /\ PendingOK /\ CachesOK
  /\ \A t \in Tabs : ViewOK(t, views[t])

LEMMA DiscoveryInit == D!Init => DiscoveryInv
<1> SUFFICES ASSUME D!Init PROVE DiscoveryInv
  OBVIOUS
<1> USE PartsAssumption DEF D!ConstantsAssumption
<1>1. D!InFlight = {}
  BY DEF D!Init, D!InFlight
<1>2. D!TypeOK
  <2>1. 0 \in D!Times /\ 0 \in D!Versions
    BY DEF D!Times, D!Versions
  <2>2. D!Unmounted \in D!Hook
    BY <2>1 DEF D!Unmounted, D!Hook
  <2>3. D!Empty \in D!Cache
    BY DEF D!Empty, D!Cache
  <2>4. fetches \in [D!Requests -> D!Request]
    BY <2>1 DEF D!Init, D!Request
  <2> QED  BY <1>1, <2>1, <2>2, <2>3, <2>4 DEF D!Init, D!TypeOK
<1>3. PendingOK
  BY <1>1 DEF D!Init, PendingOK
<1>4. CachesOK
  BY DEF D!Init, D!Empty, CachesOK, EntryOK
<1>5. \A t \in Tabs : ViewOK(t, views[t])
  BY DEF D!Init, D!Unmounted, ViewOK
<1> QED  BY <1>2, <1>3, <1>4, <1>5 DEF DiscoveryInv

\* What a cache has, if no entry is written.
LEMMA CachesStay ==
  ASSUME DiscoveryInv, memory' \in [Tabs -> D!Cache], stored' \in D!Cache,
         \A r \in D!Requests : fetches[r].phase = "over" => fetches'[r] = fetches[r],
         \A n \in Names :
           \/ stored'[n] \in {stored[n], D!NoEntry}
           \/ \E t \in Tabs : stored'[n] = memory[t][n],
         \A t \in Tabs, n \in Names :
           memory'[t][n] \in {memory[t][n], stored[n], D!NoEntry}
  PROVE  CachesOK'
<1>1. /\ memory \in [Tabs -> D!Cache] /\ stored \in D!Cache
  BY DEF DiscoveryInv, D!TypeOK
<1>2. ASSUME NEW n \in Names, NEW e \in D!Entry \cup {D!NoEntry}, EntryOK(e, n), e # D!NoEntry
      PROVE  /\ fetches'[e.by].phase = "over" /\ fetches'[e.by].name = n
             /\ fetches'[e.by].version = e.version /\ fetches'[e.by].ended = e.cachedAt
  <2>1. e.by \in D!Requests
    BY <1>2 DEF D!Entry
  <2>2. fetches'[e.by] = fetches[e.by]
    BY <1>2, <2>1 DEF EntryOK
  <2> QED  BY <1>2, <2>2 DEF EntryOK
<1>3. ASSUME NEW n \in Names PROVE EntryOK(stored[n], n)'
  <2>1. stored'[n] = D!NoEntry \/ EntryOK(stored'[n], n)
    BY DEF DiscoveryInv, CachesOK
  <2>2. stored'[n] \in D!Entry \cup {D!NoEntry}
    BY DEF D!Cache
  <2> QED  BY <1>2, <2>1, <2>2 DEF EntryOK, D!NoEntry
<1>4. ASSUME NEW t \in Tabs, NEW n \in Names PROVE EntryOK(memory[t][n], n)'
  <2>1. memory'[t][n] = D!NoEntry \/ EntryOK(memory'[t][n], n)
    BY DEF DiscoveryInv, CachesOK
  <2>2. memory'[t][n] \in D!Entry \cup {D!NoEntry}
    BY DEF D!Cache
  <2> QED  BY <1>2, <2>1, <2>2 DEF EntryOK, D!NoEntry
<1> QED  BY <1>3, <1>4 DEF CachesOK

\* A component to which nothing happens, whatever becomes of the registry and of
\* the requests that it waits for.
LEMMA ViewStays ==
  ASSUME DiscoveryInv, NEW t \in Tabs, views'[t] = views[t],
         registry' \in [Names -> D!Versions],
         \A n \in Names : registry'[n] >= registry[n],
         \A r \in views[t].waits :
           /\ r \in D!InFlight' /\ fetches'[r].tab = t
           /\ fetches'[r].name = fetches[r].name
           /\ fetches'[r] = fetches[r] \/ fetches'[r].version = registry[fetches[r].name]
  PROVE  ViewOK(t, views[t])'
<1>1. ViewOK(t, views[t]) /\ views[t] \in D!Hook /\ registry \in [Names -> D!Versions]
  BY DEF DiscoveryInv, D!TypeOK
<1>2. \A v \in D!Versions : v \in Nat
  BY DEF D!Versions
<1>3. views[t].expects # None =>
        views[t].name \in Names /\ views[t].expects <= registry'[views[t].name]
  <2> SUFFICES ASSUME views[t].expects # None
               PROVE  views[t].name \in Names /\ views[t].expects <= registry'[views[t].name]
    OBVIOUS
  <2>1. views[t].name \in Names /\ views[t].expects <= registry[views[t].name]
    BY <1>1 DEF ViewOK
  <2>2. views[t].expects \in D!Versions
    BY <1>1 DEF D!Hook
  <2>3. /\ registry[views[t].name] \in D!Versions /\ registry'[views[t].name] \in D!Versions
        /\ registry'[views[t].name] >= registry[views[t].name]
    BY <1>1, <2>1
  <2> HIDE DEF D!Versions
  <2> QED  BY <1>2, <2>1, <2>2, <2>3
<1>4. ASSUME views[t].expects # None, ~views[t].joined, NEW r \in views[t].waits,
             fetches'[r].phase = "answered", fetches'[r].name = views[t].name
      PROVE  fetches'[r].version >= views[t].expects
  <2>1. CASE fetches'[r] = fetches[r]
    BY <1>1, <1>4, <2>1 DEF ViewOK
  <2>2. CASE fetches'[r].version = registry[fetches[r].name]
    <3>1. registry[views[t].name] >= views[t].expects
      <4>1. registry[views[t].name] \in D!Versions /\ views[t].expects \in D!Versions
        BY <1>1, <1>4 DEF ViewOK, D!Hook
      <4> QED  BY <1>1, <1>2, <1>4, <4>1 DEF ViewOK
    <3> QED  BY <1>4, <2>2, <3>1
  <2> QED  BY <2>1, <2>2
<1> QED  BY <1>1, <1>3, <1>4 DEF ViewOK

\* A caller joins the request of its tab for the name, or sends the first.
LEMMA AskKeeps ==
  ASSUME DiscoveryInv, NEW t \in Tabs, NEW n \in Names, NEW r \in D!Requests, D!Ask(t, n, r)
  PROVE  /\ fetches' \in [D!Requests -> D!Request]
         /\ pending' \in [Tabs -> [Names -> D!Requests \cup {None}]]
         /\ D!InFlight' = D!InFlight \cup {r}
         /\ fetches'[r].tab = t /\ fetches'[r].name = n
         /\ \A q \in D!Requests : q # r \/ D!Pending(t, n) => fetches'[q] = fetches[q]
         /\ ~D!Pending(t, n) =>
              /\ fetches[r].phase = "unused" /\ fetches'[r].phase = "sent"
              /\ \A q \in D!InFlight : ~(fetches[q].tab = t /\ fetches[q].name = n)
         /\ PendingOK'
<1>1. /\ fetches \in [D!Requests -> D!Request]
      /\ pending \in [Tabs -> [Names -> D!Requests \cup {None}]]
      /\ PendingOK /\ None \notin D!Requests
  BY PartsAssumption DEF DiscoveryInv, D!TypeOK, D!ConstantsAssumption
<1>2. \A q \in D!InFlight : q \in D!Requests
  BY DEF D!InFlight
<1>3. CASE D!Pending(t, n) /\ r = pending[t][n] /\ UNCHANGED <<pending, fetches>>
  <2>1. r \in D!InFlight /\ fetches[r].tab = t /\ fetches[r].name = n
    BY <1>1, <1>3 DEF PendingOK
  <2> QED  BY <1>1, <1>3, <2>1 DEF PendingOK, D!InFlight
<1>4. CASE /\ ~D!Pending(t, n) /\ D!NextRequest(r)
           /\ fetches' = [fetches EXCEPT ![r] = D!Sent(t, n)]
           /\ pending' = [pending EXCEPT ![t][n] = r]
  <2>1. /\ D!Sent(t, n) \in D!Request /\ D!Sent(t, n).phase = "sent"
        /\ D!Sent(t, n).tab = t /\ D!Sent(t, n).name = n
    <3>1. 0 \in D!Times /\ 0 \in D!Versions
      BY PartsAssumption DEF D!ConstantsAssumption, D!Times, D!Versions
    <3> QED  BY <3>1 DEF D!Sent, D!Request
  <2>2. fetches'[r] = D!Sent(t, n) /\ \A q \in D!Requests \ {r} : fetches'[q] = fetches[q]
    BY <1>1, <1>4
  <2>3. fetches[r].phase = "unused" /\ r \notin D!InFlight
    BY <1>4 DEF D!NextRequest, D!InFlight
  <2>4. \A q \in D!Requests : q \in D!InFlight' <=> q \in D!InFlight \/ q = r
    BY <2>1, <2>2 DEF D!InFlight
  <2>5. D!InFlight' = D!InFlight \cup {r}
    BY <1>2, <2>4 DEF D!InFlight
  <2>6. \A q \in D!InFlight : ~(fetches[q].tab = t /\ fetches[q].name = n)
    BY <1>1, <1>2, <1>4 DEF PendingOK, D!Pending
  <2>7. \A x \in Tabs, m \in Names :
          pending'[x][m] = IF x = t /\ m = n THEN r ELSE pending[x][m]
    BY <1>1, <1>4
  <2>8. \A x \in Tabs, m \in Names : pending[x][m] # r
    BY <1>1, <2>3 DEF PendingOK
  <2>9. ASSUME NEW x \in Tabs, NEW m \in Names, NEW q \in D!Requests
        PROVE  pending'[x][m] = q <=>
                 q \in D!InFlight' /\ fetches'[q].tab = x /\ fetches'[q].name = m
    <3>1. CASE q = r
      BY <2>1, <2>2, <2>4, <2>7, <2>8, <3>1
    <3>2. CASE q # r
      <4>1. fetches'[q] = fetches[q] /\ (q \in D!InFlight' <=> q \in D!InFlight)
        BY <2>2, <2>4, <3>2
      <4>2. pending[x][m] = q <=>
              q \in D!InFlight /\ fetches[q].tab = x /\ fetches[q].name = m
        BY <1>1 DEF PendingOK
      <4>3. x = t /\ m = n => ~(pending[x][m] = q)
        BY <1>1, <1>4 DEF D!Pending
      <4> QED  BY <2>7, <3>2, <4>1, <4>2, <4>3
    <3> QED  BY <3>1, <3>2
  <2>10. PendingOK'
    BY <2>9 DEF PendingOK, D!Requests
  <2> QED  BY <1>1, <1>4, <2>1, <2>2, <2>3, <2>5, <2>6, <2>10
<1> QED  BY <1>3, <1>4 DEF D!Ask

\* The types of what is in flight, when a caller asked.
LEMMA AskTypes ==
  ASSUME DiscoveryInv, NEW t \in Tabs, NEW n \in Names, NEW r \in D!Requests, D!Ask(t, n, r)
  PROVE  /\ \A q \in D!InFlight' : fetches'[q].tab \in Tabs /\ fetches'[q].name \in Names
         /\ \A q \in D!InFlight : q \in D!InFlight' /\ fetches'[q] = fetches[q]
         /\ \A q \in D!Requests : fetches[q].phase = "over" => fetches'[q] = fetches[q]
<1>1. \A q \in D!InFlight : q \in D!Requests /\ fetches[q].phase \in {"sent", "answered"}
  BY DEF D!InFlight
<1>2. \A q \in D!InFlight : q \in D!InFlight' /\ fetches'[q] = fetches[q]
  BY <1>1, AskKeeps
<1>3. \A q \in D!InFlight : fetches[q].tab \in Tabs /\ fetches[q].name \in Names
  BY DEF DiscoveryInv, D!TypeOK
<1>4. \A q \in D!InFlight' : q = r \/ q \in D!InFlight
  BY AskKeeps
<1>5. fetches'[r].tab = t /\ fetches'[r].name = n
  BY AskKeeps
<1>6. \A q \in D!Requests : fetches[q].phase = "over" => fetches'[q] = fetches[q]
  BY AskKeeps
<1> QED  BY <1>2, <1>3, <1>4, <1>5, <1>6

\* The component of t asks for n, as it is mounted or refreshed. A refresh has
\* emptied the cache, and joins a request that is pending.
LEMMA FetchResourceKeeps ==
  ASSUME DiscoveryInv, NEW t \in Tabs, NEW n \in Names, NEW hook \in D!Hook, NEW cache,
         cache \in D!Cache, hook.waits = views[t].waits, registry' = registry,
         hook.expects # None =>
           /\ cache[n] = D!NoEntry /\ hook.expects = registry[n]
           /\ hook.joined \/ ~D!Pending(t, n),
         D!FetchResource(t, n, hook, cache)
  PROVE  /\ fetches' \in [D!Requests -> D!Request]
         /\ pending' \in [Tabs -> [Names -> D!Requests \cup {None}]]
         /\ views' \in [Tabs -> D!Hook]
         /\ \A q \in D!InFlight' : fetches'[q].tab \in Tabs /\ fetches'[q].name \in Names
         /\ \A q \in D!Requests : fetches[q].phase = "over" => fetches'[q] = fetches[q]
         /\ PendingOK'
         /\ \A x \in Tabs : ViewOK(x, views[x])'
<1>1. /\ fetches \in [D!Requests -> D!Request]
      /\ pending \in [Tabs -> [Names -> D!Requests \cup {None}]]
      /\ views \in [Tabs -> D!Hook] /\ registry \in [Names -> D!Versions]
      /\ \A q \in D!InFlight : fetches[q].tab \in Tabs /\ fetches[q].name \in Names
      /\ PendingOK /\ \A x \in Tabs : ViewOK(x, views[x])
  BY DEF DiscoveryInv, D!TypeOK
<1>2. \A v \in D!Versions : v \in Nat
  BY DEF D!Versions
<1>3. ASSUME NEW x \in Tabs, views'[x] = views[x],
             \A q \in D!InFlight : q \in D!InFlight' /\ fetches'[q] = fetches[q]
      PROVE  ViewOK(x, views[x])'
  <2>1. \A q \in views[x].waits : q \in D!InFlight /\ fetches[q].tab = x
    BY <1>1 DEF ViewOK
  <2>2. \A m \in Names : registry'[m] >= registry[m]
    BY <1>1, <1>2
  <2> QED  BY <1>1, <1>3, <2>1, <2>2, ViewStays
<1>4. CASE D!Fresh(cache[n])
  <2> DEFINE view == [hook EXCEPT !.name = n, !.shows = n, !.version = cache[n].version,
                                  !.loading = FALSE, !.error = FALSE]
  <2>1. views' = [views EXCEPT ![t] = view] /\ UNCHANGED <<pending, fetches>>
    BY <1>4 DEF D!FetchResource
  <2>2. cache[n] \in D!Entry /\ hook.expects = None
    BY <1>4 DEF D!Fresh, D!Cache
  <2>3. view \in D!Hook /\ view.expects = None /\ view.waits = views[t].waits
    BY <2>2 DEF D!Hook, D!Entry
  <2> HIDE DEF view
  <2>4. /\ views' \in [Tabs -> D!Hook] /\ views'[t] = view
        /\ \A x \in Tabs \ {t} : views'[x] = views[x]
    BY <1>1, <2>1, <2>3
  <2>5. D!InFlight' = D!InFlight /\ PendingOK'
    BY <1>1, <2>1 DEF D!InFlight, PendingOK, D!Requests
  <2>6. ViewOK(t, views[t])'
    BY <1>1, <2>1, <2>3, <2>4, <2>5 DEF ViewOK
  <2>7. \A x \in Tabs \ {t} : ViewOK(x, views[x])'
    BY <1>3, <2>1, <2>4, <2>5
  <2> QED  BY <1>1, <2>1, <2>4, <2>5, <2>6, <2>7
<1>5. CASE ~D!Fresh(cache[n])
  <2>1. PICK r \in D!Requests :
          /\ D!Ask(t, n, r)
          /\ views' = [views EXCEPT ![t] =
               [hook EXCEPT !.name = n, !.loading = TRUE, !.error = FALSE,
                            !.waits = @ \cup {r}]]
    BY <1>5 DEF D!FetchResource
  <2> DEFINE view == [hook EXCEPT !.name = n, !.loading = TRUE, !.error = FALSE,
                                  !.waits = @ \cup {r}]
  <2>2. /\ view \in D!Hook /\ view.expects = hook.expects /\ view.joined = hook.joined
        /\ view.name = n /\ view.loading /\ view.waits = views[t].waits \cup {r}
    BY DEF D!Hook
  <2>3. views' = [views EXCEPT ![t] = view]
    BY <2>1
  <2> HIDE DEF view
  <2>4. /\ views' \in [Tabs -> D!Hook] /\ views'[t] = view
        /\ \A x \in Tabs \ {t} : views'[x] = views[x]
    BY <1>1, <2>2, <2>3
  <2>5. /\ fetches' \in [D!Requests -> D!Request]
        /\ pending' \in [Tabs -> [Names -> D!Requests \cup {None}]]
        /\ r \in D!InFlight' /\ fetches'[r].tab = t /\ PendingOK'
        /\ ~D!Pending(t, n) =>
             /\ fetches'[r].phase = "sent"
             /\ \A q \in D!InFlight : ~(fetches[q].tab = t /\ fetches[q].name = n)
    BY <2>1, AskKeeps
  <2>6. /\ \A q \in D!InFlight' : fetches'[q].tab \in Tabs /\ fetches'[q].name \in Names
        /\ \A q \in D!InFlight : q \in D!InFlight' /\ fetches'[q] = fetches[q]
        /\ \A q \in D!Requests : fetches[q].phase = "over" => fetches'[q] = fetches[q]
    BY <2>1, AskTypes
  <2>7. \A q \in views[t].waits : q \in D!InFlight /\ fetches[q].tab = t
    BY <1>1 DEF ViewOK
  <2>8. \A q \in view.waits : q \in D!InFlight' /\ fetches'[q].tab = t
    BY <2>2, <2>5, <2>6, <2>7
  <2>9. view.expects # None =>
          view.name \in Names /\ view.expects <= registry'[view.name]
    BY <1>1, <1>2, <2>2
  <2>10. ASSUME view.expects # None, ~view.joined, NEW q \in view.waits
         PROVE  ~(fetches'[q].phase = "answered" /\ fetches'[q].name = view.name)
    <3>1. ~D!Pending(t, n)
      BY <2>2, <2>10
    <3>2. CASE q = r
      BY <2>5, <3>1, <3>2
    <3>3. CASE q \in views[t].waits
      BY <2>2, <2>5, <2>6, <2>7, <3>1, <3>3
    <3> QED  BY <2>2, <2>10, <3>2, <3>3
  <2>11. ViewOK(t, views[t])'
    BY <2>2, <2>4, <2>8, <2>9, <2>10 DEF ViewOK
  <2>12. \A x \in Tabs \ {t} : ViewOK(x, views[x])'
    BY <1>3, <2>4, <2>6
  <2> QED  BY <2>4, <2>5, <2>6, <2>11, <2>12
<1> QED  BY <1>4, <1>5

\* What the caches become has their type.
LEMMA NewCaches ==
  ASSUME DiscoveryInv, NEW t \in Tabs, NEW names
  PROVE  /\ D!Evicted(t, names) \in D!Cache /\ D!Invalidated(t, names) \in D!Cache
         /\ [n \in Names |-> D!Loaded(stored[n])] \in D!Cache
         /\ \A n \in Names :
              /\ D!Evicted(t, names)[n] \in {memory[t][n], D!NoEntry}
              /\ D!Invalidated(t, names)[n] \in {memory[t][n], D!NoEntry}
              /\ n \in names => D!Invalidated(t, names)[n] = D!NoEntry
              /\ D!Loaded(stored[n]) \in {stored[n], D!NoEntry}
BY DEF DiscoveryInv, D!TypeOK, D!Cache, D!Evicted, D!Invalidated, D!Loaded

\* A step in which only what t has in memory, and perhaps the copy, loses entries,
\* keeps what the caches promise.
LEMMA CacheShrinks ==
  ASSUME DiscoveryInv, NEW t \in Tabs, NEW cache \in D!Cache,
         memory' = [memory EXCEPT ![t] = cache],
         \A n \in Names : cache[n] \in {memory[t][n], stored[n], D!NoEntry},
         stored' = stored \/ stored' = cache,
         \A r \in D!Requests : fetches[r].phase = "over" => fetches'[r] = fetches[r]
  PROVE  memory' \in [Tabs -> D!Cache] /\ stored' \in D!Cache /\ CachesOK'
<1>1. memory \in [Tabs -> D!Cache] /\ stored \in D!Cache
  BY DEF DiscoveryInv, D!TypeOK
<1>2. memory' \in [Tabs -> D!Cache] /\ stored' \in D!Cache
  BY <1>1
<1>3. \A n \in Names : \/ stored'[n] \in {stored[n], D!NoEntry}
                       \/ \E x \in Tabs : stored'[n] = memory[x][n]
  OBVIOUS
<1>4. \A x \in Tabs, n \in Names : memory'[x][n] \in {memory[x][n], stored[n], D!NoEntry}
  BY <1>1
<1> QED  BY <1>2, <1>3, <1>4, CachesStay

\* The types of the state after a step.
LEMMA DiscoveryTyped ==
  ASSUME now' \in D!Times, registry' \in [Names -> D!Versions],
         memory' \in [Tabs -> D!Cache], stored' \in D!Cache,
         pending' \in [Tabs -> [Names -> D!Requests \cup {None}]],
         fetches' \in [D!Requests -> D!Request],
         \A r \in D!InFlight' : fetches'[r].tab \in Tabs /\ fetches'[r].name \in Names,
         views' \in [Tabs -> D!Hook]
  PROVE  D!TypeOK'
BY DEF D!TypeOK, D!Times, D!Versions, D!Cache, D!Entry, D!NoEntry, D!Requests, D!Request,
       D!Hook, D!InFlight

\* A request is over. Its tab may send another; who waited for it is told, and what
\* it shows then is new enough if it asked for that.
LEMMA EndKeeps ==
  ASSUME DiscoveryInv, NEW r \in D!InFlight, NEW phase \in {"over", "failed"}, NEW told,
         \A x \in Tabs :
           /\ told[x] \in D!Hook
           /\ told[x].waits = views[x].waits /\ told[x].name = views[x].name
           /\ told[x].expects = views[x].expects /\ told[x].joined = views[x].joined
           /\ r \in views[x].waits /\ views[x].expects # None /\ ~views[x].joined
              /\ told[x].shows = told[x].name /\ ~told[x].error =>
                told[x].version >= told[x].expects,
         D!End(r, phase, told), UNCHANGED <<now, registry>>
  PROVE  /\ fetches' \in [D!Requests -> D!Request]
         /\ fetches'[r] = [fetches[r] EXCEPT !.phase = phase, !.ended = now]
         /\ \A q \in D!Requests \ {r} : fetches'[q] = fetches[q]
         /\ pending' \in [Tabs -> [Names -> D!Requests \cup {None}]]
         /\ views' \in [Tabs -> D!Hook]
         /\ \A q \in D!InFlight' : fetches'[q].tab \in Tabs /\ fetches'[q].name \in Names
         /\ PendingOK'
         /\ \A x \in Tabs : ViewOK(x, views[x])'
<1>1. /\ fetches \in [D!Requests -> D!Request]
      /\ pending \in [Tabs -> [Names -> D!Requests \cup {None}]]
      /\ views \in [Tabs -> D!Hook] /\ registry \in [Names -> D!Versions]
      /\ \A q \in D!InFlight : fetches[q].tab \in Tabs /\ fetches[q].name \in Names
      /\ PendingOK /\ \A x \in Tabs : ViewOK(x, views[x])
      /\ now \in D!Times /\ r \in D!Requests /\ None \notin D!Requests
  BY PartsAssumption DEF DiscoveryInv, D!TypeOK, D!InFlight, D!ConstantsAssumption
<1> DEFINE ended == [fetches[r] EXCEPT !.phase = phase, !.ended = now]
<1>2. /\ ended \in D!Request /\ ended.phase = phase
      /\ ended.tab = fetches[r].tab /\ ended.name = fetches[r].name
  BY <1>1 DEF D!Request
<1>3. fetches' = [fetches EXCEPT ![r] = ended]
  BY <1>1 DEF D!End
<1> HIDE DEF ended
<1>4. /\ fetches' \in [D!Requests -> D!Request] /\ fetches'[r] = ended
      /\ \A q \in D!Requests \ {r} : fetches'[q] = fetches[q]
  BY <1>1, <1>2, <1>3
<1>5. \A q \in D!Requests : q \in D!InFlight' <=> q \in D!InFlight /\ q # r
  BY <1>2, <1>4 DEF D!InFlight
<1>6. \A q \in D!InFlight' : q \in D!InFlight \ {r} /\ q \in D!Requests /\ fetches'[q] = fetches[q]
  BY <1>4, <1>5 DEF D!InFlight
<1>7. /\ pending' = [pending EXCEPT ![fetches[r].tab][fetches[r].name] = None]
      /\ fetches[r].tab \in Tabs /\ fetches[r].name \in Names
  BY <1>1 DEF D!End
<1>8. /\ pending' \in [Tabs -> [Names -> D!Requests \cup {None}]]
      /\ \A x \in Tabs, n \in Names : pending'[x][n] =
           IF x = fetches[r].tab /\ n = fetches[r].name THEN None ELSE pending[x][n]
  BY <1>1, <1>7
<1>9. ASSUME NEW x \in Tabs, NEW n \in Names, NEW q \in D!Requests
      PROVE  pending'[x][n] = q <=>
               q \in D!InFlight' /\ fetches'[q].tab = x /\ fetches'[q].name = n
  <2>1. \A p \in D!Requests : pending[x][n] = p <=>
          p \in D!InFlight /\ fetches[p].tab = x /\ fetches[p].name = n
    BY <1>1 DEF PendingOK
  <2>2. CASE x = fetches[r].tab /\ n = fetches[r].name
    BY <1>1, <1>5, <1>6, <1>8, <2>1, <2>2
  <2>3. CASE ~(x = fetches[r].tab /\ n = fetches[r].name)
    <3>1. pending'[x][n] = pending[x][n] /\ pending[x][n] # r
      BY <1>1, <1>8, <2>1, <2>3
    <3> QED  BY <1>1, <1>4, <1>5, <2>1, <3>1
  <2> QED  BY <2>2, <2>3
<1>10. PendingOK'
  BY <1>9 DEF PendingOK, D!Requests
<1>11. \A x \in Tabs : views'[x] =
         IF r \in views[x].waits
           THEN [told[x] EXCEPT !.loading = FALSE, !.waits = @ \ {r}]
           ELSE views[x]
  BY DEF D!End, D!StillLoading
<1>12. ASSUME NEW x \in Tabs, r \in views[x].waits
       PROVE  views'[x] \in D!Hook /\ ViewOK(x, views[x])'
  <2> DEFINE view == [told[x] EXCEPT !.loading = FALSE, !.waits = @ \ {r}]
  <2>1. /\ view \in D!Hook /\ view.waits = views[x].waits \ {r}
        /\ view.name = views[x].name /\ view.expects = views[x].expects
        /\ view.joined = views[x].joined
        /\ view.shows = told[x].shows /\ view.error = told[x].error
        /\ view.version = told[x].version
    BY DEF D!Hook
  <2>2. views'[x] = view
    BY <1>11, <1>12
  <2> HIDE DEF view
  <2>3. \A q \in view.waits : q \in views[x].waits /\ q \in D!InFlight' /\ fetches'[q] = fetches[q]
    <3>1. \A q \in view.waits : q \in D!InFlight /\ q # r /\ q \in D!Requests
      BY <1>1, <2>1 DEF ViewOK, D!InFlight
    <3> QED  BY <1>4, <1>5, <2>1, <3>1
  <2> QED  BY <1>1, <1>12, <2>1, <2>2, <2>3 DEF ViewOK
<1>13. ASSUME NEW x \in Tabs, r \notin views[x].waits
       PROVE  views'[x] \in D!Hook /\ ViewOK(x, views[x])'
  <2>1. views'[x] = views[x]
    BY <1>11, <1>13
  <2>2. \A q \in views[x].waits : q \in D!InFlight /\ q # r /\ q \in D!Requests /\ fetches[q].tab = x
    BY <1>1, <1>13 DEF ViewOK, D!InFlight
  <2>3. \A n \in Names : registry'[n] >= registry[n]
    BY <1>1 DEF D!Versions
  <2>4. ViewOK(x, views[x])'
    BY <1>1, <1>4, <1>5, <2>1, <2>2, <2>3, ViewStays
  <2> QED  BY <1>1, <2>1, <2>4
<1>14. views' \in [Tabs -> D!Hook]
  <2>1. \A x \in Tabs : views'[x] \in D!Hook
    BY <1>12, <1>13
  <2> QED  BY <2>1 DEF D!End, D!StillLoading
<1> QED  BY <1>1, <1>4, <1>6, <1>8, <1>10, <1>12, <1>13, <1>14 DEF ended

LEMMA FailKeeps ==
  ASSUME DiscoveryInv, NEW r \in D!Requests, D!Fail(r)
  PROVE  DiscoveryInv'
<1> DEFINE told == [x \in Tabs |-> [views[x] EXCEPT !.error = TRUE]]
<1>1. /\ r \in D!InFlight /\ D!End(r, "failed", told) /\ UNCHANGED <<now, registry, memory, stored>>
  BY DEF D!Fail
<1>2. views \in [Tabs -> D!Hook]
  BY DEF DiscoveryInv, D!TypeOK
<1>3. \A x \in Tabs :
        /\ told[x] \in D!Hook
        /\ told[x].waits = views[x].waits /\ told[x].name = views[x].name
        /\ told[x].expects = views[x].expects /\ told[x].joined = views[x].joined
        /\ told[x].error
  BY <1>2 DEF D!Hook
<1> HIDE DEF told
<1>4. /\ fetches' \in [D!Requests -> D!Request]
      /\ fetches'[r] = [fetches[r] EXCEPT !.phase = "failed", !.ended = now]
      /\ \A q \in D!Requests \ {r} : fetches'[q] = fetches[q]
      /\ pending' \in [Tabs -> [Names -> D!Requests \cup {None}]]
      /\ views' \in [Tabs -> D!Hook]
      /\ \A q \in D!InFlight' : fetches'[q].tab \in Tabs /\ fetches'[q].name \in Names
      /\ PendingOK'
      /\ \A x \in Tabs : ViewOK(x, views[x])'
  <2>1. \A x \in Tabs :
           /\ told[x] \in D!Hook
           /\ told[x].waits = views[x].waits /\ told[x].name = views[x].name
           /\ told[x].expects = views[x].expects /\ told[x].joined = views[x].joined
           /\ r \in views[x].waits /\ views[x].expects # None /\ ~views[x].joined
              /\ told[x].shows = told[x].name /\ ~told[x].error =>
                told[x].version >= told[x].expects
    BY <1>3
  <2> QED  BY <1>1, <2>1, EndKeeps
<1>5. \A q \in D!Requests : fetches[q].phase = "over" => fetches'[q] = fetches[q]
  BY <1>1, <1>4 DEF D!InFlight
<1>6. CachesOK'
  BY <1>1, <1>5, CachesStay DEF DiscoveryInv, D!TypeOK
<1> QED  BY <1>1, <1>4, <1>6, DiscoveryTyped DEF DiscoveryInv, D!TypeOK

LEMMA ReceiveResource ==
  ASSUME DiscoveryInv, NEW r \in D!Requests, D!Receive(r)
  PROVE  DiscoveryInv'
<1> DEFINE t == fetches[r].tab
           n == fetches[r].name
           v == fetches[r].version
           told == [x \in Tabs |-> [views[x] EXCEPT !.shows = n, !.version = v]]
           entry == [version |-> v, cachedAt |-> now, by |-> r]
<1>1. /\ r \in D!InFlight /\ fetches[r].phase = "answered"
      /\ D!End(r, "over", told) /\ UNCHANGED <<now, registry>>
      /\ memory' = [memory EXCEPT ![t][n] = entry] /\ stored' = memory'[t]
  BY DEF D!Receive, D!InFlight
<1>2. /\ views \in [Tabs -> D!Hook] /\ fetches[r] \in D!Request
      /\ memory \in [Tabs -> D!Cache] /\ stored \in D!Cache /\ now \in D!Times
      /\ t \in Tabs /\ n \in Names /\ v \in D!Versions
  BY <1>1 DEF DiscoveryInv, D!TypeOK, D!Request
<1>3. ASSUME NEW x \in Tabs
      PROVE  /\ told[x] \in D!Hook
             /\ told[x].waits = views[x].waits /\ told[x].name = views[x].name
             /\ told[x].expects = views[x].expects /\ told[x].joined = views[x].joined
             /\ told[x].shows = n /\ told[x].version = v
  <2>1. told[x] = [views[x] EXCEPT !.shows = n, !.version = v] /\ views[x] \in D!Hook
    BY <1>2
  <2> HIDE DEF told, n, v
  <2> QED  BY <1>2, <2>1 DEF D!Hook
<1> HIDE DEF told
<1>4. ASSUME NEW x \in Tabs, r \in views[x].waits, views[x].expects # None, ~views[x].joined,
             n = views[x].name
      PROVE  v >= views[x].expects
  BY <1>1, <1>4 DEF DiscoveryInv, ViewOK
<1>5. /\ fetches' \in [D!Requests -> D!Request]
      /\ fetches'[r] = [fetches[r] EXCEPT !.phase = "over", !.ended = now]
      /\ \A q \in D!Requests \ {r} : fetches'[q] = fetches[q]
      /\ pending' \in [Tabs -> [Names -> D!Requests \cup {None}]]
      /\ views' \in [Tabs -> D!Hook]
      /\ \A q \in D!InFlight' : fetches'[q].tab \in Tabs /\ fetches'[q].name \in Names
      /\ PendingOK'
      /\ \A x \in Tabs : ViewOK(x, views[x])'
  <2>1. \A x \in Tabs :
           /\ told[x] \in D!Hook
           /\ told[x].waits = views[x].waits /\ told[x].name = views[x].name
           /\ told[x].expects = views[x].expects /\ told[x].joined = views[x].joined
           /\ r \in views[x].waits /\ views[x].expects # None /\ ~views[x].joined
              /\ told[x].shows = told[x].name /\ ~told[x].error =>
                told[x].version >= told[x].expects
    BY <1>3, <1>4
  <2> HIDE DEF t, n, v
  <2> QED  BY <1>1, <2>1, EndKeeps
<1>6. /\ fetches'[r].phase = "over" /\ fetches'[r].name = n /\ fetches'[r].version = v
      /\ fetches'[r].ended = now
  BY <1>2, <1>5 DEF D!Request
<1>7. entry \in D!Entry /\ entry.by = r /\ entry.version = v /\ entry.cachedAt = now
  BY <1>2 DEF D!Entry
<1> HIDE DEF t, n, v, entry
<1>8. /\ memory' \in [Tabs -> D!Cache]
      /\ \A x \in Tabs, m \in Names :
           memory'[x][m] = IF x = t /\ m = n THEN entry ELSE memory[x][m]
  BY <1>1, <1>2, <1>7 DEF D!Cache
<1>9. \A q \in D!Requests : fetches[q].phase = "over" => fetches'[q] = fetches[q]
  BY <1>1, <1>5
<1>10. ASSUME NEW x \in Tabs, NEW m \in Names PROVE EntryOK(memory[x][m], m)'
  <2>1. CASE x = t /\ m = n
    BY <1>6, <1>7, <1>8, <2>1 DEF EntryOK
  <2>2. CASE ~(x = t /\ m = n)
    <3>1. memory'[x][m] = memory[x][m] /\ EntryOK(memory[x][m], m)
      BY <1>8, <2>2 DEF DiscoveryInv, CachesOK
    <3>2. memory[x][m] # D!NoEntry =>
            fetches'[memory[x][m].by] = fetches[memory[x][m].by]
      BY <1>2, <1>9, <3>1 DEF D!Cache, D!Entry, EntryOK
    <3> QED  BY <3>1, <3>2 DEF EntryOK, D!NoEntry
  <2> QED  BY <2>1, <2>2
<1>11. stored' \in D!Cache /\ CachesOK'
  BY <1>1, <1>2, <1>8, <1>10 DEF CachesOK
<1> QED  BY <1>1, <1>2, <1>5, <1>8, <1>11, DiscoveryTyped DEF DiscoveryInv, D!TypeOK

LEMMA PrefetchKeeps ==
  ASSUME DiscoveryInv, NEW t \in Tabs, NEW n \in Names, D!Prefetch(t, n)
  PROVE  DiscoveryInv'
<1>1. PICK r \in D!Requests : D!Ask(t, n, r)
  BY DEF D!Prefetch
<1>2. /\ memory' = [memory EXCEPT ![t] = D!Evicted(t, {n})]
      /\ UNCHANGED <<now, registry, stored, views>>
  BY DEF D!Prefetch
<1>3. /\ fetches' \in [D!Requests -> D!Request]
      /\ pending' \in [Tabs -> [Names -> D!Requests \cup {None}]] /\ PendingOK'
  BY <1>1, AskKeeps
<1>4. /\ \A q \in D!InFlight' : fetches'[q].tab \in Tabs /\ fetches'[q].name \in Names
      /\ \A q \in D!InFlight : q \in D!InFlight' /\ fetches'[q] = fetches[q]
      /\ \A q \in D!Requests : fetches[q].phase = "over" => fetches'[q] = fetches[q]
  BY <1>1, AskTypes
<1>5. memory' \in [Tabs -> D!Cache] /\ stored' \in D!Cache /\ CachesOK'
  <2>1. /\ D!Evicted(t, {n}) \in D!Cache
        /\ \A m \in Names :
             D!Evicted(t, {n})[m] \in {memory[t][m], stored[m], D!NoEntry}
    BY NewCaches
  <2> QED  BY <1>2, <1>4, <2>1, CacheShrinks
<1>6. ASSUME NEW x \in Tabs PROVE ViewOK(x, views[x])'
  <2>1. \A q \in views[x].waits : q \in D!InFlight /\ fetches[q].tab = x
    BY DEF DiscoveryInv, ViewOK
  <2>2. /\ registry' \in [Names -> D!Versions]
        /\ \A m \in Names : registry'[m] >= registry[m]
    BY <1>2 DEF DiscoveryInv, D!TypeOK, D!Versions
  <2> QED  BY <1>2, <1>4, <2>1, <2>2, ViewStays
<1> QED  BY <1>2, <1>3, <1>4, <1>5, <1>6, DiscoveryTyped DEF DiscoveryInv, D!TypeOK

\* Steps that neither send a request nor end one.
LEMMA RequestsStay ==
  ASSUME DiscoveryInv, UNCHANGED <<pending, fetches>>
  PROVE  /\ D!InFlight' = D!InFlight /\ PendingOK'
         /\ fetches' \in [D!Requests -> D!Request]
         /\ pending' \in [Tabs -> [Names -> D!Requests \cup {None}]]
         /\ \A q \in D!InFlight' : fetches'[q].tab \in Tabs /\ fetches'[q].name \in Names
BY DEF DiscoveryInv, D!TypeOK, D!InFlight, PendingOK, D!Requests

LEMMA WaitsStay ==
  ASSUME DiscoveryInv, NEW x \in Tabs, views'[x] = views[x],
         D!InFlight \subseteq D!InFlight', \A q \in D!InFlight : fetches'[q] = fetches[q],
         registry' \in [Names -> D!Versions],
         \A m \in Names : registry'[m] >= registry[m]
  PROVE  ViewOK(x, views[x])'
<1>1. \A q \in views[x].waits : q \in D!InFlight /\ fetches[q].tab = x
  BY DEF DiscoveryInv, ViewOK
<1> QED  BY <1>1, ViewStays

LEMMA RegistryStays ==
  ASSUME DiscoveryInv, UNCHANGED registry
  PROVE  /\ registry' \in [Names -> D!Versions]
         /\ \A m \in Names : registry'[m] >= registry[m]
BY DEF DiscoveryInv, D!TypeOK, D!Versions

LEMMA InvalidateKeeps ==
  ASSUME DiscoveryInv, NEW t \in Tabs, NEW names, D!Invalidate(t, names)
  PROVE  DiscoveryInv'
<1>1. /\ memory' = [memory EXCEPT ![t] = D!Invalidated(t, names)]
      /\ stored' = D!Invalidated(t, names)
      /\ UNCHANGED <<now, registry, pending, fetches, views>>
  BY DEF D!Invalidate, DiscoveryInv, D!TypeOK
<1>2. memory' \in [Tabs -> D!Cache] /\ stored' \in D!Cache /\ CachesOK'
  <2>1. /\ D!Invalidated(t, names) \in D!Cache
        /\ \A m \in Names :
             D!Invalidated(t, names)[m] \in {memory[t][m], stored[m], D!NoEntry}
    BY NewCaches
  <2> QED  BY <1>1, <2>1, CacheShrinks
<1>3. \A x \in Tabs : ViewOK(x, views[x])'
  BY <1>1, RequestsStay, RegistryStays, WaitsStay
<1> QED  BY <1>1, <1>2, <1>3, RequestsStay, DiscoveryTyped DEF DiscoveryInv, D!TypeOK

LEMMA UseDiscoveryKeeps ==
  ASSUME DiscoveryInv, NEW t \in Tabs, NEW n \in Names, D!UseDiscovery(t, n)
  PROVE  DiscoveryInv'
<1> DEFINE hook == [views[t] EXCEPT !.expects = None, !.joined = FALSE]
<1>1. /\ D!FetchResource(t, n, hook, memory[t])
      /\ memory' = [memory EXCEPT ![t] = D!Evicted(t, {n})]
      /\ UNCHANGED <<now, registry, stored>>
  BY DEF D!UseDiscovery
<1>2. /\ hook \in D!Hook /\ hook.waits = views[t].waits /\ hook.expects = None
      /\ memory[t] \in D!Cache
  <2>1. views \in [Tabs -> D!Hook] /\ memory \in [Tabs -> D!Cache]
    BY DEF DiscoveryInv, D!TypeOK
  <2>2. views[t] \in D!Hook /\ memory[t] \in D!Cache
    BY <2>1
  <2> QED  BY <2>2 DEF D!Hook
<1> HIDE DEF hook
<1>3. /\ fetches' \in [D!Requests -> D!Request]
      /\ pending' \in [Tabs -> [Names -> D!Requests \cup {None}]]
      /\ views' \in [Tabs -> D!Hook]
      /\ \A q \in D!InFlight' : fetches'[q].tab \in Tabs /\ fetches'[q].name \in Names
      /\ \A q \in D!Requests : fetches[q].phase = "over" => fetches'[q] = fetches[q]
      /\ PendingOK'
      /\ \A x \in Tabs : ViewOK(x, views[x])'
  BY <1>1, <1>2, FetchResourceKeeps
<1>4. memory' \in [Tabs -> D!Cache] /\ stored' \in D!Cache /\ CachesOK'
  <2>1. /\ D!Evicted(t, {n}) \in D!Cache
        /\ \A m \in Names :
             D!Evicted(t, {n})[m] \in {memory[t][m], stored[m], D!NoEntry}
    BY NewCaches
  <2> QED  BY <1>1, <1>3, <2>1, CacheShrinks
<1> QED  BY <1>1, <1>3, <1>4, DiscoveryTyped DEF DiscoveryInv, D!TypeOK

LEMMA RefreshKeeps ==
  ASSUME DiscoveryInv, NEW t \in Tabs, D!Refresh(t)
  PROVE  DiscoveryInv'
<1> DEFINE n == views[t].name
           cache == D!Invalidated(t, {n})
           joined == pending[t][n] # None
           hook == [views[t] EXCEPT !.expects = registry[n], !.joined = joined]
<1>1. /\ memory \in [Tabs -> D!Cache] /\ views[t] \in D!Hook /\ n \in Names
      /\ registry \in [Names -> D!Versions]
  BY DEF DiscoveryInv, D!TypeOK, D!Hook, D!Refresh, D!Mounted
<1>2. /\ memory' = [memory EXCEPT ![t] = cache] /\ memory'[t] = cache
      /\ stored' = cache /\ UNCHANGED <<now, registry>>
  BY <1>1 DEF D!Refresh
<1>3. D!FetchResource(t, n, hook, cache)
  BY <1>2 DEF D!Refresh
<1>4. joined \in BOOLEAN /\ (joined <=> D!Pending(t, n))
  BY DEF D!Pending
<1>5. cache \in D!Cache /\ cache[n] = D!NoEntry
  <2>1. cache \in D!Cache
    BY NewCaches
  <2>2. \A m \in Names : m \in {n} => cache[m] = D!NoEntry
    BY NewCaches
  <2> HIDE DEF cache
  <2> QED  BY <1>1, <2>1, <2>2
<1> HIDE DEF joined
<1>6. /\ hook \in D!Hook /\ hook.waits = views[t].waits
      /\ hook.expects = registry[n] /\ hook.joined = joined
  BY <1>1, <1>4 DEF D!Hook
<1>7. \A m \in Names : cache[m] \in {memory[t][m], stored[m], D!NoEntry}
  BY NewCaches
<1> HIDE DEF n, hook, cache
<1>8. /\ fetches' \in [D!Requests -> D!Request]
      /\ pending' \in [Tabs -> [Names -> D!Requests \cup {None}]]
      /\ views' \in [Tabs -> D!Hook]
      /\ \A q \in D!InFlight' : fetches'[q].tab \in Tabs /\ fetches'[q].name \in Names
      /\ \A q \in D!Requests : fetches[q].phase = "over" => fetches'[q] = fetches[q]
      /\ PendingOK'
      /\ \A x \in Tabs : ViewOK(x, views[x])'
  BY <1>1, <1>2, <1>3, <1>4, <1>5, <1>6, FetchResourceKeeps
<1>9. memory' \in [Tabs -> D!Cache] /\ stored' \in D!Cache /\ CachesOK'
  BY <1>2, <1>5, <1>7, <1>8, CacheShrinks
<1> QED  BY <1>2, <1>8, <1>9, DiscoveryTyped DEF DiscoveryInv, D!TypeOK

\* A component that is unmounted waits for nothing.
LEMMA UnmountedView ==
  /\ D!Unmounted \in D!Hook
  /\ \A t : views'[t] = D!Unmounted => ViewOK(t, views[t])'
<1>1. D!Unmounted \in D!Hook
  <2>1. 0 \in D!Versions
    BY PartsAssumption DEF D!ConstantsAssumption, D!Versions
  <2> QED  BY <2>1 DEF D!Unmounted, D!Hook
<1> QED  BY <1>1 DEF D!Unmounted, ViewOK

LEMMA UnmountViewKeeps ==
  ASSUME DiscoveryInv, NEW t \in Tabs, D!Unmount(t)
  PROVE  DiscoveryInv'
<1>1. /\ views' = [views EXCEPT ![t] = D!Unmounted]
      /\ UNCHANGED <<now, registry, memory, pending, stored, fetches>>
  BY DEF D!Unmount
<1>2. /\ views' \in [Tabs -> D!Hook] /\ views'[t] = D!Unmounted
      /\ \A x \in Tabs \ {t} : views'[x] = views[x]
  BY <1>1, UnmountedView DEF DiscoveryInv, D!TypeOK
<1>3. CachesOK'
  BY <1>1, CachesStay DEF DiscoveryInv, D!TypeOK
<1>4. \A x \in Tabs : ViewOK(x, views[x])'
  BY <1>1, <1>2, UnmountedView, RequestsStay, RegistryStays, WaitsStay
<1> QED  BY <1>1, <1>2, <1>3, <1>4, RequestsStay, DiscoveryTyped DEF DiscoveryInv, D!TypeOK

LEMMA MoveKeeps ==
  ASSUME DiscoveryInv, NEW n \in Names, D!Move(n)
  PROVE  DiscoveryInv'
<1>1. /\ registry[n] < MaxVersion /\ registry' = [registry EXCEPT ![n] = @ + 1]
      /\ UNCHANGED <<now, memory, pending, stored, fetches, views>>
  BY DEF D!Move
<1>2. registry \in [Names -> D!Versions]
  BY DEF DiscoveryInv, D!TypeOK
<1>3. /\ registry' \in [Names -> D!Versions]
      /\ \A m \in Names : registry'[m] >= registry[m]
  BY <1>1, <1>2, PartsAssumption DEF D!Versions, D!ConstantsAssumption
<1>4. CachesOK'
  BY <1>1, CachesStay DEF DiscoveryInv, D!TypeOK
<1>5. \A x \in Tabs : ViewOK(x, views[x])'
  BY <1>1, <1>3, RequestsStay, WaitsStay
<1> QED  BY <1>1, <1>3, <1>4, <1>5, RequestsStay, DiscoveryTyped DEF DiscoveryInv, D!TypeOK

LEMMA TickKeeps ==
  ASSUME DiscoveryInv, D!Tick
  PROVE  DiscoveryInv'
<1>1. UNCHANGED <<registry, memory, pending, stored, fetches, views>>
  BY DEF D!Tick
<1>2. now' \in D!Times
  BY PartsAssumption DEF D!Tick, DiscoveryInv, D!TypeOK, D!Times, D!ConstantsAssumption
<1>3. CachesOK'
  BY <1>1, CachesStay DEF DiscoveryInv, D!TypeOK
<1>4. \A x \in Tabs : ViewOK(x, views[x])'
  BY <1>1, RequestsStay, RegistryStays, WaitsStay
<1> QED  BY <1>1, <1>2, <1>3, <1>4, RequestsStay, DiscoveryTyped DEF DiscoveryInv, D!TypeOK

LEMMA AnswerKeeps ==
  ASSUME DiscoveryInv, NEW r \in D!Requests, D!Answer(r)
  PROVE  DiscoveryInv'
<1> DEFINE answered == [fetches[r] EXCEPT !.phase = "answered",
                                          !.version = registry[fetches[r].name]]
<1>1. /\ r \in D!InFlight /\ fetches[r].phase = "sent"
      /\ UNCHANGED <<now, registry, memory, pending, stored, views>>
  BY DEF D!Answer, D!InFlight
<1>2. /\ fetches \in [D!Requests -> D!Request] /\ fetches[r].name \in Names
      /\ registry \in [Names -> D!Versions]
      /\ \A q \in D!InFlight : fetches[q].tab \in Tabs /\ fetches[q].name \in Names
  BY <1>1 DEF DiscoveryInv, D!TypeOK
<1>3. /\ answered \in D!Request /\ answered.phase = "answered"
      /\ answered.tab = fetches[r].tab /\ answered.name = fetches[r].name
      /\ answered.version = registry[fetches[r].name]
  BY <1>2 DEF D!Request
<1>4. fetches' = [fetches EXCEPT ![r] = answered]
  BY <1>2 DEF D!Answer
<1> HIDE DEF answered
<1>5. /\ fetches' \in [D!Requests -> D!Request] /\ fetches'[r] = answered
      /\ \A q \in D!Requests \ {r} : fetches'[q] = fetches[q]
  BY <1>2, <1>3, <1>4
<1>6. /\ \A q \in D!Requests : q \in D!InFlight' <=> q \in D!InFlight
      /\ \A q \in D!InFlight' : q \in D!Requests
  BY <1>1, <1>3, <1>5 DEF D!InFlight
<1>7. \A q \in D!Requests : fetches'[q].tab = fetches[q].tab /\ fetches'[q].name = fetches[q].name
  BY <1>3, <1>5
<1>8. PendingOK'
  <2>1. ASSUME NEW x \in Tabs, NEW n \in Names, NEW q \in D!Requests
        PROVE  pending'[x][n] = q <=>
                 q \in D!InFlight' /\ fetches'[q].tab = x /\ fetches'[q].name = n
    BY <1>1, <1>6, <1>7 DEF DiscoveryInv, PendingOK
  <2> QED  BY <2>1 DEF PendingOK, D!Requests
<1>9. CachesOK'
  <2>1. \A q \in D!Requests : fetches[q].phase = "over" => fetches'[q] = fetches[q]
    BY <1>1, <1>5
  <2> QED  BY <1>1, <2>1, CachesStay DEF DiscoveryInv, D!TypeOK
<1>10. ASSUME NEW x \in Tabs PROVE ViewOK(x, views[x])'
  <2>1. \A q \in views[x].waits : q \in D!InFlight /\ q \in D!Requests /\ fetches[q].tab = x
    BY DEF DiscoveryInv, ViewOK, D!InFlight
  <2>2. \A q \in views[x].waits :
          fetches'[q] = fetches[q] \/ fetches'[q].version = registry[fetches[q].name]
    BY <1>3, <1>5, <2>1
  <2> QED  BY <1>1, <1>6, <1>7, <2>1, <2>2, RegistryStays, ViewStays
<1>11. \A q \in D!InFlight' : fetches'[q].tab \in Tabs /\ fetches'[q].name \in Names
  BY <1>2, <1>6, <1>7
<1> QED  BY <1>1, <1>5, <1>8, <1>9, <1>10, <1>11, DiscoveryTyped DEF DiscoveryInv, D!TypeOK

LEMMA ReloadKeeps ==
  ASSUME DiscoveryInv, NEW t \in Tabs, D!Reload(t)
  PROVE  DiscoveryInv'
<1> DEFINE cache == [n \in Names |-> D!Loaded(stored[n])]
<1>1. /\ memory' = [memory EXCEPT ![t] = cache] /\ UNCHANGED <<now, registry, stored>>
      /\ pending' = [pending EXCEPT ![t] = [n \in Names |-> None]]
      /\ views' = [views EXCEPT ![t] = D!Unmounted]
  BY DEF D!Reload
<1>2. /\ fetches \in [D!Requests -> D!Request] /\ views \in [Tabs -> D!Hook]
      /\ pending \in [Tabs -> [Names -> D!Requests \cup {None}]] /\ None \notin D!Requests
      /\ \A q \in D!InFlight : fetches[q].tab \in Tabs /\ fetches[q].name \in Names
  BY PartsAssumption DEF DiscoveryInv, D!TypeOK, D!ConstantsAssumption
<1>3. cache \in D!Cache /\ \A n \in Names : cache[n] \in {memory[t][n], stored[n], D!NoEntry}
  BY NewCaches
<1> HIDE DEF cache
<1>4. ASSUME NEW q \in D!Requests
      PROVE  /\ fetches'[q] \in D!Request
             /\ fetches'[q].tab = fetches[q].tab /\ fetches'[q].name = fetches[q].name
             /\ q \in D!InFlight' <=> q \in D!InFlight /\ fetches[q].tab # t
             /\ ~(q \in D!InFlight /\ fetches[q].tab = t) => fetches'[q] = fetches[q]
  <2>1. fetches[q] \in D!Request
    BY <1>2
  <2>2. fetches'[q] = IF q \in D!InFlight /\ fetches[q].tab = t
                        THEN [fetches[q] EXCEPT !.phase = "lost"] ELSE fetches[q]
    BY DEF D!Reload
  <2>3. CASE q \in D!InFlight /\ fetches[q].tab = t
    <3>1. fetches'[q] = [fetches[q] EXCEPT !.phase = "lost"]
      BY <2>2, <2>3
    <3>2. /\ fetches'[q] \in D!Request /\ fetches'[q].phase = "lost"
          /\ fetches'[q].tab = fetches[q].tab /\ fetches'[q].name = fetches[q].name
      BY <2>1, <3>1 DEF D!Request
    <3> QED  BY <2>3, <3>2 DEF D!InFlight
  <2>4. CASE ~(q \in D!InFlight /\ fetches[q].tab = t)
    BY <2>1, <2>2, <2>4 DEF D!InFlight
  <2> QED  BY <2>3, <2>4
<1>5. fetches' \in [D!Requests -> D!Request]
  <2>1. \A q \in D!Requests : fetches'[q] \in D!Request
    BY <1>4
  <2> QED  BY <2>1 DEF D!Reload
<1>6. \A q \in D!InFlight' : q \in D!Requests
  BY DEF D!InFlight, D!Requests
<1>7. /\ pending' \in [Tabs -> [Names -> D!Requests \cup {None}]]
      /\ \A x \in Tabs, n \in Names :
           pending'[x][n] = IF x = t THEN None ELSE pending[x][n]
  BY <1>1, <1>2
<1>8. ASSUME NEW x \in Tabs, NEW n \in Names, NEW q \in D!Requests
      PROVE  pending'[x][n] = q <=>
               q \in D!InFlight' /\ fetches'[q].tab = x /\ fetches'[q].name = n
  BY <1>2, <1>4, <1>7 DEF DiscoveryInv, PendingOK
<1>9. PendingOK'
  BY <1>8 DEF PendingOK, D!Requests
<1>10. memory' \in [Tabs -> D!Cache] /\ stored' \in D!Cache /\ CachesOK'
  <2>1. \A q \in D!Requests : fetches[q].phase = "over" => fetches'[q] = fetches[q]
    BY <1>4 DEF D!InFlight
  <2> QED  BY <1>1, <1>3, <2>1, CacheShrinks
<1>11. /\ views' \in [Tabs -> D!Hook] /\ views'[t] = D!Unmounted
       /\ \A x \in Tabs \ {t} : views'[x] = views[x]
  BY <1>1, <1>2, UnmountedView
<1>12. ASSUME NEW x \in Tabs \ {t} PROVE ViewOK(x, views[x])'
  <2>1. \A q \in views[x].waits : q \in D!InFlight /\ q \in D!Requests /\ fetches[q].tab = x
    BY DEF DiscoveryInv, ViewOK, D!InFlight
  <2> QED  BY <1>1, <1>4, <1>11, <2>1, RegistryStays, ViewStays
<1>13. \A x \in Tabs : ViewOK(x, views[x])'
  BY <1>11, <1>12, UnmountedView
<1>14. \A q \in D!InFlight' : fetches'[q].tab \in Tabs /\ fetches'[q].name \in Names
  BY <1>2, <1>4, <1>6
<1> QED
  BY <1>1, <1>5, <1>7, <1>9, <1>10, <1>11, <1>13, <1>14, DiscoveryTyped
  DEF DiscoveryInv, D!TypeOK

LEMMA DiscoveryNext == DiscoveryInv /\ [D!Next]_discoveryVars => DiscoveryInv'
<1> SUFFICES ASSUME DiscoveryInv, [D!Next]_discoveryVars PROVE DiscoveryInv'
  OBVIOUS
<1>1. ASSUME NEW t \in Tabs, D!TabStep(t) PROVE DiscoveryInv'
  BY <1>1, PrefetchKeeps, UseDiscoveryKeeps, InvalidateKeeps, UnmountViewKeeps, RefreshKeeps,
     ReloadKeeps DEF D!TabStep
<1>2. ASSUME NEW r \in D!Requests, D!RequestStep(r) PROVE DiscoveryInv'
  BY <1>2, AnswerKeeps, ReceiveResource, FailKeeps DEF D!RequestStep
<1>3. CASE UNCHANGED discoveryVars
  <2>1. UNCHANGED <<now, registry, memory, pending, stored, fetches, views>>
    BY <1>3 DEF discoveryVars
  <2>2. CachesOK'
    BY <2>1, CachesStay DEF DiscoveryInv, D!TypeOK
  <2>3. \A x \in Tabs : ViewOK(x, views[x])'
    BY <2>1, RequestsStay, RegistryStays, WaitsStay
  <2> QED  BY <2>1, <2>2, <2>3, RequestsStay, DiscoveryTyped DEF DiscoveryInv, D!TypeOK
<1> QED  BY <1>1, <1>2, <1>3, MoveKeeps, TickKeeps DEF D!Next

LEMMA DiscoverySafe ==
  DiscoveryInv => D!OneRequestEach /\ D!ServedIsRecent /\ D!RefreshIsFresh
<1> SUFFICES ASSUME DiscoveryInv
             PROVE  D!OneRequestEach /\ D!ServedIsRecent /\ D!RefreshIsFresh
  OBVIOUS
<1>1. D!OneRequestEach
  <2> SUFFICES ASSUME NEW q \in D!InFlight, NEW r \in D!InFlight,
                      fetches[q].tab = fetches[r].tab, fetches[q].name = fetches[r].name
               PROVE  q = r
    BY DEF D!OneRequestEach
  <2>1. /\ q \in D!Requests /\ r \in D!Requests
        /\ fetches[r].tab \in Tabs /\ fetches[r].name \in Names
    BY DEF DiscoveryInv, D!TypeOK, D!InFlight
  <2>2. /\ pending[fetches[r].tab][fetches[r].name] = q
        /\ pending[fetches[r].tab][fetches[r].name] = r
    BY <2>1 DEF DiscoveryInv, PendingOK
  <2> QED  BY <2>2
<1>2. D!ServedIsRecent
  BY DEF DiscoveryInv, CachesOK, EntryOK, D!ServedIsRecent, D!Fresh
<1>3. D!RefreshIsFresh
  BY DEF DiscoveryInv, ViewOK, D!RefreshIsFresh, D!Settled
<1> QED  BY <1>1, <1>2, <1>3

-----------------------------------------------------------------------------
(***************************************************************************)
(* The session's data.                                                     *)
(***************************************************************************)

RequestsOK ==
  /\ server \in history
  /\ \A s \in S!Busy :
       /\ transfers[s].get => transfers[s].change = S!Nothing
       /\ transfers[s].answered => transfers[s].answer \in history

\* Nobody else writes since the last request of h, which is its only one.
AloneOK(h) ==
  copies[h].alone =>
    /\ S!Writes \subseteq S!Of(h)
    /\ \A s, q \in S!Of(h) : s = q
    /\ \A s \in S!Of(h) : transfers[s].answered => transfers[s].answer = server
    /\ S!AtRest(h) /\ ~copies[h].error => copies[h].data = server /\ copies[h].session

SessionInv ==
  /\ S!TypeOK /\ RequestsOK
  /\ \A h \in Hooks : AloneOK(h)
  /\ S!SettledIsConfirmed

LEMMA SessionValues ==
  /\ S!NoData \in S!Data /\ S!NoData \in S!Change /\ S!Nothing \in S!Change
  /\ S!Unmounted \in S!Hook /\ S!NoRequest \notin S!Request
  /\ Absent \notin Hooks
<1>1. S!NoRequest \notin S!Request
  <2> SUFFICES ASSUME S!NoRequest \in S!Request PROVE FALSE
    OBVIOUS
  <2>1. DOMAIN S!NoRequest = {"hook", "get", "change", "answered", "answer"}
    BY DEF S!Request
  <2>2. DOMAIN S!NoRequest = {"hook"}
    BY DEF S!NoRequest
  <2> QED  BY <2>1, <2>2
<1>2. S!NoData \in S!Data /\ S!NoData \in S!Change /\ S!Nothing \in S!Change
  BY DEF S!NoData, S!Data, S!Change, S!Nothing
<1>3. S!Unmounted \in S!Hook
  BY <1>2 DEF S!Unmounted, S!Hook
<1> QED  BY <1>1, <1>2, <1>3, PartsAssumption DEF S!ConstantsAssumption

LEMMA ChangedIsData ==
  ASSUME NEW data \in S!Data, NEW c \in S!Change
  PROVE  S!Changed(data, c) \in S!Data /\ S!Changed(data, S!Nothing) = data
BY DEF S!Changed, S!Data, S!Change, S!Nothing

LEMMA SentRequest ==
  ASSUME NEW h \in Hooks, NEW get \in BOOLEAN, NEW c \in S!Change
  PROVE  /\ S!Sent(h, get, c) \in S!Request
         /\ S!Sent(h, get, c).hook = h /\ S!Sent(h, get, c).get = get
         /\ S!Sent(h, get, c).change = c /\ ~S!Sent(h, get, c).answered
BY SessionValues DEF S!Sent, S!Request

\* The sets of slots after a step.
LEMMA SlotsAfter ==
  /\ \A s : s \in S!Busy' <=> s \in S!Slots /\ transfers'[s] # S!NoRequest
  /\ \A s : s \in S!Writes' <=>
              s \in S!Slots /\ transfers'[s] # S!NoRequest /\ ~transfers'[s].get
  /\ \A h, s : s \in S!Of(h)' <=>
              s \in S!Slots /\ transfers'[s] # S!NoRequest /\ transfers'[s].hook = h
BY DEF S!Busy, S!Writes, S!Of, S!Slots, S!NoRequest

LEMMA SessionInit == S!Init => SessionInv
<1> SUFFICES ASSUME S!Init PROVE SessionInv
  OBVIOUS
<1>1. S!TypeOK
  BY SessionValues DEF S!Init, S!TypeOK
<1>2. S!Busy = {}
  BY DEF S!Init, S!Busy
<1>3. RequestsOK
  BY <1>2 DEF S!Init, RequestsOK
<1>4. \A h \in Hooks : ~copies[h].alone /\ ~copies[h].mounted
  BY DEF S!Init, S!Unmounted
<1> QED  BY <1>1, <1>3, <1>4 DEF SessionInv, AloneOK, S!SettledIsConfirmed, S!AtRest

\* A component sends a request in a slot that is free or its own.
LEMMA SendKeeps ==
  ASSUME SessionInv, NEW h \in Hooks, NEW s \in S!Slots, NEW get \in BOOLEAN,
         NEW c \in S!Change, NEW hook \in S!Hook, get => c = S!Nothing,
         s \in S!Busy => transfers[s].hook = h,
         S!Send(h, s, get, c, hook), UNCHANGED <<server, history>>
  PROVE  SessionInv'
<1> DEFINE request == S!Sent(h, get, c)
           alone == (S!Writes \cup S!Of(h)) \ {s} = {}
<1>1. /\ request \in S!Request /\ request.hook = h /\ request.get = get
      /\ request.change = c /\ ~request.answered /\ request # S!NoRequest
  BY SentRequest, SessionValues
<1> HIDE DEF request
<1>2. /\ transfers' = [transfers EXCEPT ![s] = request]
      /\ copies' = [x \in Hooks |->
           IF x = h THEN [hook EXCEPT !.alone = alone]
           ELSE [copies[x] EXCEPT !.alone = @ /\ get]]
  BY DEF S!Send, request
<1>3. /\ transfers \in [S!Slots -> S!Request \cup {S!NoRequest}]
      /\ copies \in [Hooks -> S!Hook]
  BY DEF SessionInv, S!TypeOK
<1>4. transfers' \in [S!Slots -> S!Request \cup {S!NoRequest}]
  BY <1>1, <1>2, <1>3
<1>5. transfers'[s] = request /\ \A q \in S!Slots \ {s} : transfers'[q] = transfers[q]
  BY <1>2, <1>3
<1>6. /\ S!Busy' = S!Busy \cup {s}
      /\ S!Writes' = IF get THEN S!Writes \ {s} ELSE S!Writes \cup {s}
      /\ S!Of(h)' = S!Of(h) \cup {s}
      /\ \A x \in Hooks \ {h} : S!Of(x)' = S!Of(x)
  BY <1>1, <1>5, SlotsAfter DEF S!Busy, S!Writes, S!Of
<1>7. alone \in BOOLEAN
  OBVIOUS
<1> HIDE DEF alone
<1>8. copies'[h] \in S!Hook /\ copies'[h].alone = alone
  BY <1>2, <1>7 DEF S!Hook
<1>9. ASSUME NEW x \in Hooks \ {h}
      PROVE  /\ copies'[x] \in S!Hook /\ copies'[x].alone = (copies[x].alone /\ get)
             /\ copies'[x].mounted = copies[x].mounted /\ copies'[x].data = copies[x].data
             /\ copies'[x].session = copies[x].session /\ copies'[x].error = copies[x].error
  <2>1. copies'[x] = [copies[x] EXCEPT !.alone = @ /\ get]
    BY <1>2
  <2>2. copies[x] \in S!Hook
    BY <1>3
  <2> QED  BY <2>1, <2>2 DEF S!Hook
<1>10. copies' \in [Hooks -> S!Hook]
  <2>1. \A x \in Hooks : copies'[x] \in S!Hook
    BY <1>8, <1>9
  <2> QED  BY <1>2, <2>1
<1>11. S!TypeOK'
  BY <1>4, <1>10 DEF SessionInv, S!TypeOK, S!Data, S!Slots, S!Request, S!NoRequest,
         S!Hook, S!Change
<1>12. RequestsOK'
  <2>1. ASSUME NEW q \in S!Busy'
        PROVE  /\ transfers'[q].get => transfers'[q].change = S!Nothing
               /\ transfers'[q].answered => transfers'[q].answer \in history
    <3>1. CASE q = s
      BY <1>1, <1>5, <3>1
    <3>2. CASE q # s
      <4>1. q \in S!Busy /\ q \in S!Slots \ {s}
        BY <1>6, <2>1, <3>2 DEF S!Busy
      <4> QED  BY <1>5, <4>1 DEF SessionInv, RequestsOK
    <3> QED  BY <3>1, <3>2
  <2> QED  BY <2>1 DEF SessionInv, RequestsOK, S!Nothing
<1>13. AloneOK(h)'
  <2> SUFFICES ASSUME alone
               PROVE  /\ S!Writes' \subseteq S!Of(h)' /\ (\A r, q \in S!Of(h)' : r = q)
                      /\ (\A r \in S!Of(h)' : transfers'[r].answered =>
                                               transfers'[r].answer = server')
                      /\ ~S!AtRest(h)'
    BY <1>8 DEF AloneOK
  <2>1. S!Writes \subseteq {s} /\ S!Of(h)' = {s}
    BY <1>6 DEF alone
  <2>2. S!Writes' \subseteq {s} /\ ~transfers'[s].answered
    BY <1>1, <1>5, <1>6, <2>1
  <2> QED  BY <2>1, <2>2 DEF S!AtRest
<1>14. ASSUME NEW x \in Hooks \ {h} PROVE AloneOK(x)'
  <2> SUFFICES ASSUME copies[x].alone, get
               PROVE  /\ S!Writes' \subseteq S!Of(x)' /\ (\A r, q \in S!Of(x)' : r = q)
                      /\ (\A r \in S!Of(x)' : transfers'[r].answered =>
                                               transfers'[r].answer = server')
                      /\ S!AtRest(x)' /\ ~copies'[x].error =>
                           copies'[x].data = server' /\ copies'[x].session
    BY <1>9 DEF AloneOK
  <2>1. AloneOK(x) /\ S!Of(x)' = S!Of(x) /\ S!Writes' \subseteq S!Writes
    BY <1>6 DEF SessionInv
  <2>2. \A r \in S!Of(x) : r \in S!Slots \ {s}
    BY DEF S!Of, S!Busy
  <2>3. S!AtRest(x)' => S!AtRest(x)
    BY <1>9, <2>1 DEF S!AtRest
  <2> QED  BY <1>5, <1>9, <2>1, <2>2, <2>3 DEF AloneOK
<1>15. S!SettledIsConfirmed'
  <2> SUFFICES ASSUME NEW x \in Hooks, S!AtRest(x)', copies'[x].session
               PROVE  copies'[x].data \in history
    BY DEF S!SettledIsConfirmed
  <2>1. x # h
    BY <1>6 DEF S!AtRest
  <2>2. S!AtRest(x)
    BY <1>6, <1>9, <2>1 DEF S!AtRest
  <2> QED  BY <1>9, <2>1, <2>2 DEF SessionInv, S!SettledIsConfirmed
<1> QED  BY <1>11, <1>12, <1>13, <1>14, <1>15 DEF SessionInv

\* What a component sends, and what it is then.
LEMMA SentHooks ==
  ASSUME NEW hook \in S!Hook
  PROVE  /\ S!Fetching(hook) \in S!Hook /\ S!FetchFailed(hook) \in S!Hook
         /\ S!FetchFailed(hook).error
         /\ ~S!FetchFailed(hook).session
         /\ S!FetchFailed(hook).mounted = hook.mounted
         /\ S!FetchFailed(hook).alone = hook.alone
         /\ \A data \in S!Data : [hook EXCEPT !.data = data, !.error = FALSE] \in S!Hook
         /\ [hook EXCEPT !.mounted = TRUE] \in S!Hook
BY SessionValues DEF S!Fetching, S!FetchFailed, S!Hook

LEMMA WriteKeeps ==
  ASSUME SessionInv, NEW h \in Hooks, NEW c \in S!Change, S!Write(h, c)
  PROVE  SessionInv'
<1> DEFINE hook == [copies[h] EXCEPT !.data = S!Changed(@, c), !.error = FALSE]
<1>1. copies[h] \in S!Hook /\ copies[h].data \in S!Data
  BY DEF SessionInv, S!TypeOK, S!Hook
<1>2. S!Changed(copies[h].data, c) \in S!Data
  BY <1>1, ChangedIsData
<1>3. hook \in S!Hook
  BY <1>1, <1>2, SentHooks
<1>4. PICK s \in S!Slots : S!Free(s) /\ S!Send(h, s, FALSE, c, hook)
  BY DEF S!Write
<1>5. s \notin S!Busy /\ UNCHANGED <<server, history>>
  BY <1>4 DEF S!Free, S!Write
<1> HIDE DEF hook
<1> QED  BY <1>3, <1>4, <1>5, SendKeeps

LEMMA FetchKeeps ==
  ASSUME SessionInv, NEW h \in Hooks, S!FetchSessionData(h)
  PROVE  SessionInv'
<1>1. copies[h] \in S!Hook
  BY DEF SessionInv, S!TypeOK
<1>2. PICK s \in S!Slots :
        S!Free(s) /\ S!Send(h, s, TRUE, S!Nothing, S!Fetching(copies[h]))
  BY DEF S!FetchSessionData
<1>3. s \notin S!Busy /\ UNCHANGED <<server, history>>
  BY <1>2 DEF S!Free, S!FetchSessionData
<1> QED  BY <1>1, <1>2, <1>3, SentHooks, SessionValues, SendKeeps

\* A component changes that has no answer and was not confirmed, and leaves the
\* requests of others as they are.
LEMMA CopyChanges ==
  ASSUME SessionInv, NEW h \in Hooks, NEW hook \in S!Hook,
         ~hook.alone, ~hook.mounted \/ ~hook.session,
         copies' = [copies EXCEPT ![h] = hook],
         transfers' \in [S!Slots -> S!Request \cup {S!NoRequest}],
         \A s \in S!Slots :
           \/ transfers'[s] = transfers[s]
           \/ /\ s \in S!Of(h)
              /\ transfers'[s] = [transfers[s] EXCEPT !.hook = Absent],
         UNCHANGED <<server, history>>
  PROVE  SessionInv'
<1>1. /\ transfers \in [S!Slots -> S!Request \cup {S!NoRequest}]
      /\ copies \in [Hooks -> S!Hook]
  BY DEF SessionInv, S!TypeOK
<1>2. ASSUME NEW s \in S!Slots
      PROVE  /\ s \in S!Busy' <=> s \in S!Busy
             /\ s \in S!Busy => /\ transfers'[s].get = transfers[s].get
                                /\ transfers'[s].change = transfers[s].change
                                /\ transfers'[s].answered = transfers[s].answered
                                /\ transfers'[s].answer = transfers[s].answer
             /\ \A x \in Hooks \ {h} : s \in S!Of(x)' <=> s \in S!Of(x)
  <2>1. CASE transfers'[s] = transfers[s]
    BY <2>1, SlotsAfter DEF S!Busy, S!Of
  <2>2. CASE s \in S!Of(h) /\ transfers'[s] = [transfers[s] EXCEPT !.hook = Absent]
    <3>1. transfers[s] \in S!Request /\ s \in S!Busy /\ transfers[s].hook = h
      BY <1>1, <2>2 DEF S!Of, S!Busy
    <3>2. /\ transfers'[s] \in S!Request /\ transfers'[s].hook = Absent
          /\ transfers'[s].get = transfers[s].get
          /\ transfers'[s].change = transfers[s].change
          /\ transfers'[s].answered = transfers[s].answered
          /\ transfers'[s].answer = transfers[s].answer
      BY <2>2, <3>1 DEF S!Request
    <3> QED  BY <3>1, <3>2, SlotsAfter, SessionValues DEF S!Of
  <2> QED  BY <2>1, <2>2
<1>3. copies'[h] = hook /\ \A x \in Hooks \ {h} : copies'[x] = copies[x]
  BY <1>1
<1>4. S!TypeOK'
  <2>1. copies' \in [Hooks -> S!Hook]
    BY <1>1
  <2> QED  BY <2>1 DEF SessionInv, S!TypeOK, S!Data, S!Slots, S!Request, S!NoRequest,
                       S!Hook, S!Change
<1>5. S!Busy' = S!Busy /\ S!Busy \subseteq S!Slots
  BY <1>2, SlotsAfter DEF S!Busy
<1>6. S!Writes' = S!Writes
  BY <1>2, <1>5 DEF S!Writes
<1>7. \A x \in Hooks \ {h} : S!Of(x)' = S!Of(x)
  BY <1>2, SlotsAfter DEF S!Of, S!Busy
<1>8. RequestsOK'
  BY <1>2, <1>5 DEF SessionInv, RequestsOK, S!Nothing
<1>9. ASSUME NEW x \in Hooks PROVE AloneOK(x)'
  <2>1. CASE x = h
    BY <1>3, <2>1 DEF AloneOK
  <2>2. CASE x # h
    <3>1. \A r \in S!Of(x) : r \in S!Busy /\ r \in S!Slots
      BY DEF S!Of, S!Busy
    <3>2. AloneOK(x) /\ copies'[x] = copies[x] /\ S!Of(x)' = S!Of(x)
      BY <1>3, <1>7, <2>2 DEF SessionInv
    <3> QED  BY <1>2, <1>6, <3>1, <3>2 DEF AloneOK, S!AtRest
  <2> QED  BY <2>1, <2>2
<1>10. S!SettledIsConfirmed'
  <2> SUFFICES ASSUME NEW x \in Hooks, S!AtRest(x)', copies'[x].session
               PROVE  copies'[x].data \in history
    BY DEF S!SettledIsConfirmed
  <2>1. x # h
    BY <1>3 DEF S!AtRest
  <2>2. S!AtRest(x) /\ copies'[x] = copies[x]
    BY <1>3, <1>7, <2>1 DEF S!AtRest
  <2> QED  BY <2>2 DEF SessionInv, S!SettledIsConfirmed
<1> QED  BY <1>4, <1>8, <1>9, <1>10 DEF SessionInv

LEMMA MountKeeps ==
  ASSUME SessionInv, NEW h \in Hooks, S!Mount(h)
  PROVE  SessionInv'
<1> DEFINE hook == [S!Unmounted EXCEPT !.mounted = TRUE]
<1>1. hook \in S!Hook
  BY SessionValues, SentHooks
<1>2. ~hook.alone /\ ~hook.session
  BY DEF S!Unmounted
<1>3. CASE h \in Immediate
  <2>1. PICK s \in S!Slots : S!Free(s) /\ S!Send(h, s, TRUE, S!Nothing, hook)
    BY <1>3 DEF S!Mount
  <2>2. s \notin S!Busy /\ UNCHANGED <<server, history>>
    BY <2>1 DEF S!Free, S!Mount
  <2> HIDE DEF hook
  <2> QED  BY <1>1, <2>1, <2>2, SessionValues, SendKeeps
<1>4. CASE h \notin Immediate
  <2>1. copies' = [copies EXCEPT ![h] = hook] /\ UNCHANGED <<server, history, transfers>>
    BY <1>4 DEF S!Mount
  <2>2. transfers \in [S!Slots -> S!Request \cup {S!NoRequest}]
    BY DEF SessionInv, S!TypeOK
  <2> HIDE DEF hook
  <2> QED  BY <1>1, <1>2, <2>1, <2>2, CopyChanges
<1> QED  BY <1>3, <1>4

LEMMA UnmountKeeps ==
  ASSUME SessionInv, NEW h \in Hooks, S!Unmount(h)
  PROVE  SessionInv'
<1>1. transfers \in [S!Slots -> S!Request \cup {S!NoRequest}]
  BY DEF SessionInv, S!TypeOK
<1>2. transfers' = [s \in S!Slots |->
        IF s \in S!Of(h) THEN [transfers[s] EXCEPT !.hook = Absent] ELSE transfers[s]]
  BY DEF S!Unmount
<1>3. ASSUME NEW s \in S!Of(h)
      PROVE  [transfers[s] EXCEPT !.hook = Absent] \in S!Request
  <2>1. transfers[s] \in S!Request
    BY <1>1 DEF S!Of, S!Busy
  <2> QED  BY <2>1 DEF S!Request
<1>4. transfers' \in [S!Slots -> S!Request \cup {S!NoRequest}]
  BY <1>1, <1>2, <1>3
<1>5. ~S!Unmounted.alone /\ ~S!Unmounted.mounted
  BY DEF S!Unmounted
<1> QED  BY <1>2, <1>4, <1>5, SessionValues, CopyChanges DEF S!Unmount

\* A request is over: its component, if it is still there, has the session's data
\* if it wrote alone, or an error, and what it shows was the session's once.
LEMMA SlotFreed ==
  ASSUME SessionInv, NEW s \in S!Busy, S!End(s), UNCHANGED <<server, history>>,
         copies' \in [Hooks -> S!Hook],
         \A x \in Hooks :
           IF transfers[s].hook = x
             THEN /\ copies'[x].alone = copies[x].alone
                  /\ copies[x].alone =>
                       \/ copies'[x].error
                       \/ copies'[x].data = server /\ copies'[x].session
                  /\ copies'[x].session => copies'[x].data \in history
             ELSE copies'[x] = copies[x]
  PROVE  SessionInv'
<1>1. transfers \in [S!Slots -> S!Request \cup {S!NoRequest}] /\ s \in S!Slots
  BY DEF SessionInv, S!TypeOK, S!Busy
<1>2. /\ transfers' \in [S!Slots -> S!Request \cup {S!NoRequest}]
      /\ transfers'[s] = S!NoRequest
      /\ \A q \in S!Slots \ {s} : transfers'[q] = transfers[q]
  BY <1>1 DEF S!End
<1>3. /\ S!Busy' = S!Busy \ {s} /\ S!Writes' = S!Writes \ {s}
      /\ \A x : S!Of(x)' = S!Of(x) \ {s}
  BY <1>2, SlotsAfter DEF S!Busy, S!Writes, S!Of
<1>4. S!TypeOK'
  BY <1>2 DEF SessionInv, S!TypeOK, S!Data, S!Slots, S!Request, S!NoRequest, S!Hook, S!Change
<1>5. RequestsOK'
  <2>1. \A q \in S!Busy' : q \in S!Busy /\ q \in S!Slots \ {s}
    BY <1>3 DEF S!Busy
  <2> QED  BY <1>2, <2>1 DEF SessionInv, RequestsOK, S!Nothing
<1>6. ASSUME NEW x \in Hooks PROVE AloneOK(x)'
  <2>1. AloneOK(x) /\ copies'[x].alone = copies[x].alone
    BY DEF SessionInv
  <2> SUFFICES ASSUME copies[x].alone
               PROVE  /\ S!Writes' \subseteq S!Of(x)' /\ (\A r, q \in S!Of(x)' : r = q)
                      /\ (\A r \in S!Of(x)' : transfers'[r].answered =>
                                               transfers'[r].answer = server')
                      /\ S!AtRest(x)' /\ ~copies'[x].error =>
                           copies'[x].data = server' /\ copies'[x].session
    BY <2>1 DEF AloneOK
  <2>2. \A r \in S!Of(x)' : r \in S!Of(x) /\ r \in S!Slots \ {s}
    BY <1>3 DEF S!Of, S!Busy
  <2>3. S!AtRest(x)' /\ ~copies'[x].error => copies'[x].data = server /\ copies'[x].session
    <3>1. CASE transfers[s].hook = x
      BY <3>1
    <3>2. CASE transfers[s].hook # x
      <4>1. S!Of(x)' = S!Of(x) /\ copies'[x] = copies[x]
        BY <1>3, <3>2 DEF S!Of
      <4> QED  BY <2>1, <4>1 DEF AloneOK, S!AtRest
    <3> QED  BY <3>1, <3>2
  <2> QED  BY <1>2, <1>3, <2>1, <2>2, <2>3 DEF AloneOK
<1>7. S!SettledIsConfirmed'
  <2> SUFFICES ASSUME NEW x \in Hooks, S!AtRest(x)', copies'[x].session
               PROVE  copies'[x].data \in history
    BY DEF S!SettledIsConfirmed
  <2>1. CASE transfers[s].hook = x
    BY <2>1
  <2>2. CASE transfers[s].hook # x
    <3>1. S!Of(x)' = S!Of(x) /\ copies'[x] = copies[x]
      BY <1>3, <2>2 DEF S!Of
    <3> QED  BY <3>1 DEF SessionInv, S!SettledIsConfirmed, S!AtRest
  <2> QED  BY <2>1, <2>2
<1> QED  BY <1>4, <1>5, <1>6, <1>7 DEF SessionInv

LEMMA AnsweredHook ==
  ASSUME NEW hook \in S!Hook, NEW r \in S!Request
  PROVE  /\ S!Answered(hook, r) \in S!Hook
         /\ S!Answered(hook, r).data = r.answer /\ S!Answered(hook, r).session
         /\ S!Answered(hook, r).alone = hook.alone
<1>1. (hook.isLoading /\ ~r.get) \in BOOLEAN
  OBVIOUS
<1> DEFINE still == hook.isLoading /\ ~r.get
<1>2. S!Answered(hook, r) = [hook EXCEPT !.data = r.answer, !.session = TRUE,
                                         !.isLoading = still]
  BY DEF S!Answered, S!Hook
<1> HIDE DEF still
<1>3. r.answer \in S!Data
  BY DEF S!Request
<1> QED  BY <1>1, <1>2, <1>3 DEF S!Hook, still

\* One component takes notice.
LEMMA Updated ==
  ASSUME SessionInv, NEW h, NEW hook, h \in Hooks => hook \in S!Hook, S!Update(h, hook)
  PROVE  /\ copies' \in [Hooks -> S!Hook]
         /\ \A x \in Hooks : copies'[x] = IF x = h THEN hook ELSE copies[x]
BY DEF SessionInv, S!TypeOK, S!Update

LEMMA ReceiveKeeps ==
  ASSUME SessionInv, NEW s \in S!Slots, S!Receive(s)
  PROVE  SessionInv'
<1> DEFINE h == transfers[s].hook
           hook == S!Answered(copies[h], transfers[s])
<1>1. /\ s \in S!Busy /\ transfers[s].answered /\ S!End(s)
      /\ S!Update(h, hook) /\ UNCHANGED <<server, history>>
  BY DEF S!Receive
<1>2. transfers[s] \in S!Request /\ copies \in [Hooks -> S!Hook]
  BY <1>1 DEF SessionInv, S!TypeOK, S!Busy
<1>3. h \in Hooks => /\ hook \in S!Hook /\ hook.data = transfers[s].answer /\ hook.session
                     /\ hook.alone = copies[h].alone
  BY <1>2, AnsweredHook
<1>4. transfers[s].answer \in history
  BY <1>1 DEF SessionInv, RequestsOK
<1>5. h \in Hooks /\ copies[h].alone => transfers[s].answer = server
  BY <1>1 DEF SessionInv, AloneOK, S!Of
<1> HIDE DEF hook
<1>6. /\ copies' \in [Hooks -> S!Hook]
      /\ \A x \in Hooks : copies'[x] = IF x = h THEN hook ELSE copies[x]
  BY <1>1, <1>3, Updated
<1> QED  BY <1>1, <1>3, <1>4, <1>5, <1>6, SlotFreed

LEMMA LoseKeeps ==
  ASSUME SessionInv, NEW s \in S!Slots, S!LoseGet(s) \/ S!LoseWrite(s)
  PROVE  SessionInv'
<1> DEFINE h == transfers[s].hook
<1>1. s \in S!Busy /\ UNCHANGED <<server, history>> /\ copies \in [Hooks -> S!Hook]
  BY DEF S!LoseGet, S!LoseWrite, S!Writes, SessionInv, S!TypeOK
<1>2. CASE S!LoseGet(s)
  <2> DEFINE hook == S!FetchFailed(copies[h])
  <2>1. S!End(s) /\ S!Update(h, hook)
    BY <1>2 DEF S!LoseGet
  <2>2. h \in Hooks => /\ hook \in S!Hook /\ hook.error /\ ~hook.session
                       /\ hook.alone = copies[h].alone
    BY <1>1, SentHooks
  <2> HIDE DEF hook
  <2>3. /\ copies' \in [Hooks -> S!Hook]
        /\ \A x \in Hooks : copies'[x] = IF x = h THEN hook ELSE copies[x]
    BY <2>1, <2>2, Updated
  <2> QED  BY <1>1, <2>1, <2>2, <2>3, SlotFreed
<1>3. CASE S!LoseWrite(s) /\ h \in Hooks
  <2>1. S!Send(h, s, TRUE, S!Nothing, S!Fetching(copies[h]))
    BY <1>3 DEF S!LoseWrite, S!Restore
  <2>2. PICK x \in Hooks : x = h
    BY <1>3
  <2> HIDE DEF h
  <2>3. S!Send(x, s, TRUE, S!Nothing, S!Fetching(copies[x])) /\ S!Fetching(copies[x]) \in S!Hook
    BY <1>1, <2>1, <2>2, SentHooks
  <2>4. transfers[s].hook = x
    BY <2>2 DEF h
  <2> QED  BY <1>1, <2>3, <2>4, SessionValues, SendKeeps
<1>4. CASE S!LoseWrite(s) /\ h \notin Hooks
  BY <1>1, <1>4, SlotFreed DEF S!LoseWrite
<1> QED  BY <1>2, <1>3, <1>4

\* The server's data change: no component is alone but the one that asked for it.
LEMMA ServeKeeps ==
  ASSUME SessionInv, NEW s \in S!Slots, S!Serve(s)
  PROVE  SessionInv'
<1> DEFINE request == [transfers[s] EXCEPT !.answered = TRUE, !.answer = server']
<1>1. /\ s \in S!Busy /\ history' = history \cup {server'} /\ copies' = copies
      /\ server' = S!Changed(server, transfers[s].change)
  BY DEF S!Serve
<1>2. /\ transfers \in [S!Slots -> S!Request \cup {S!NoRequest}]
      /\ transfers[s] \in S!Request /\ server \in S!Data
  BY <1>1 DEF SessionInv, S!TypeOK, S!Busy
<1>3. server' \in S!Data /\ (transfers[s].get => server' = server)
  BY <1>1, <1>2, ChangedIsData DEF S!Request, SessionInv, RequestsOK
<1>4. transfers' = [transfers EXCEPT ![s] = request]
  BY <1>2 DEF S!Serve
<1>5. /\ request \in S!Request /\ request.hook = transfers[s].hook
      /\ request.get = transfers[s].get /\ request.change = transfers[s].change
      /\ request.answer = server'
  BY <1>2, <1>3 DEF S!Request
<1> HIDE DEF request
<1>6. /\ transfers' \in [S!Slots -> S!Request \cup {S!NoRequest}]
      /\ transfers'[s] = request
      /\ \A q \in S!Slots \ {s} : transfers'[q] = transfers[q]
  BY <1>2, <1>4, <1>5
<1>7. S!Busy' = S!Busy /\ S!Writes' = S!Writes /\ \A x : S!Of(x)' = S!Of(x)
  BY <1>1, <1>5, <1>6, SessionValues, SlotsAfter DEF S!Busy, S!Writes, S!Of
<1>8. S!TypeOK'
  BY <1>1, <1>3, <1>6
  DEF SessionInv, S!TypeOK, S!Data, S!Slots, S!Request, S!NoRequest, S!Hook, S!Change
<1>9. RequestsOK'
  <2>1. ASSUME NEW q \in S!Busy
        PROVE  /\ transfers'[q].get => transfers'[q].change = S!Nothing
               /\ transfers'[q].answered => transfers'[q].answer \in history'
    <3>1. q \in S!Slots
      BY DEF S!Busy
    <3> QED  BY <1>1, <1>5, <1>6, <3>1 DEF SessionInv, RequestsOK
  <2> QED  BY <1>1, <1>7, <2>1 DEF RequestsOK, S!Nothing
<1>10. ASSUME NEW x \in Hooks PROVE AloneOK(x)'
  <2> SUFFICES ASSUME copies[x].alone
               PROVE  /\ S!Writes \subseteq S!Of(x) /\ (\A r, q \in S!Of(x) : r = q)
                      /\ (\A r \in S!Of(x) : transfers'[r].answered =>
                                               transfers'[r].answer = server')
                      /\ S!AtRest(x) /\ ~copies[x].error =>
                           copies[x].data = server' /\ copies[x].session
    BY <1>1, <1>7 DEF AloneOK, S!AtRest
  <2>1. AloneOK(x)
    BY DEF SessionInv
  <2>2. s \in S!Of(x) \/ server' = server
    BY <1>1, <1>3, <2>1 DEF AloneOK, S!Writes
  <2>3. \A r \in S!Of(x) : r \in S!Slots
    BY DEF S!Of, S!Busy
  <2> QED  BY <1>5, <1>6, <2>1, <2>2, <2>3 DEF AloneOK, S!AtRest
<1>11. S!SettledIsConfirmed'
  BY <1>1, <1>7 DEF SessionInv, S!SettledIsConfirmed, S!AtRest
<1> QED  BY <1>8, <1>9, <1>10, <1>11 DEF SessionInv

LEMMA SessionNext == SessionInv /\ [S!Next]_sessionVars => SessionInv'
<1> SUFFICES ASSUME SessionInv, [S!Next]_sessionVars PROVE SessionInv'
  OBVIOUS
<1>1. ASSUME NEW h \in Hooks, S!Operate(h) PROVE SessionInv'
  <2>1. ASSUME NEW k \in Keys, S!Remove(h, k) \/ \E v \in Values : S!Set(h, k, v)
        PROVE  SessionInv'
    <3>1. \A v \in Values \cup {Absent} : [S!Nothing EXCEPT ![k] = v] \in S!Change
      BY SessionValues DEF S!Change
    <3> QED  BY <2>1, <3>1, WriteKeeps DEF S!Remove, S!Set
  <2>2. ASSUME NEW partial \in S!Data, S!Merge(h, partial) PROVE SessionInv'
    <3>1. [k \in Keys |-> IF partial[k] = Absent THEN Kept ELSE partial[k]] \in S!Change
      BY DEF S!Data, S!Change
    <3> QED  BY <2>2, <3>1, WriteKeeps DEF S!Merge
  <2>3. CASE S!Clear(h)
    BY <2>3, SessionValues, WriteKeeps DEF S!Clear
  <2> QED  BY <1>1, <2>1, <2>2, <2>3, MountKeeps, FetchKeeps, UnmountKeeps DEF S!Operate
<1>2. ASSUME NEW s \in S!Slots, S!Transfer(s) PROVE SessionInv'
  BY <1>2, ServeKeeps, ReceiveKeeps, LoseKeeps DEF S!Transfer
<1>3. CASE UNCHANGED sessionVars
  BY <1>3 DEF sessionVars, SessionInv, S!TypeOK, RequestsOK, AloneOK, S!SettledIsConfirmed,
              S!AtRest, S!Of, S!Writes, S!Busy, S!Slots, S!NoRequest, S!Nothing, S!Data,
              S!Request, S!Hook, S!Change
<1> QED  BY <1>1, <1>2, <1>3 DEF S!Next

LEMMA SessionSafe == SessionInv => S!AloneIsInSync
BY DEF SessionInv, AloneOK, S!AloneIsInSync

-----------------------------------------------------------------------------
(***************************************************************************)
(* The page and its shell.                                                 *)
(***************************************************************************)

\* The run that was cancelled does not come to the last resort, and the other
\* has set the state only once it is over.
ShellOK ==
  /\ loads[1] # "lastResort"
  /\ loads[2] # "over" => shell = Pending

PageInv == TypeOK /\ ShellOK

LEMMA ShellValues ==
  /\ Pending \in ShellState /\ Loaded \in ShellState /\ Failed \in ShellState
  /\ \A e \in BOOLEAN : Fallback(e) \in ShellState
  /\ \A build : Started(build) \in [Loads -> {"local", "begin", "script", "lastResort", "over"}]
  /\ \A build : Started(build)[1] # "lastResort"
BY DEF Pending, Loaded, Failed, Fallback, ShellState, Started, Loads

\* A run of loadShell goes on.
LEMMA ShellSteps ==
  ASSUME ShellTypeOK, ShellOK, NEW i \in Loads, ShellStep(i)
  PROVE  /\ ShellTypeOK' /\ ShellOK'
         /\ shell.state # "pending" => shell' = shell
<1> USE DEF Loads, ShellOK, ShellTypeOK, Cancelled
<1>1. i = 2 /\ loads[2] # "over" => shell.state = "pending"
  BY DEF Pending
<1>2. CASE ImportLocal(i)
  BY <1>1, <1>2, ShellValues DEF ImportLocal, SetState
<1>3. CASE LoadShellViaScript(i)
  BY <1>1, <1>3, ShellValues DEF LoadShellViaScript, Resolve, SetState
<1>4. CASE ScriptLoads(i)
  BY <1>1, <1>4, ShellValues DEF ScriptLoads, Resolve, Reject, SetState
<1>5. CASE ScriptFails(i)
  BY <1>1, <1>5, ShellValues DEF ScriptFails, Reject
<1>6. CASE Timeout(i)
  BY <1>1, <1>6, ShellValues DEF Timeout, Reject
<1>7. CASE LastResort(i)
  BY <1>1, <1>7, ShellValues DEF LastResort
<1> QED  BY <1>2, <1>3, <1>4, <1>5, <1>6, <1>7 DEF ShellStep

\* What a page becomes is a page.
LEMMA NewPages ==
  /\ \A path \in Paths : NewPage(path) \in Page
  /\ \A p \in Page : /\ WithoutProvider(p) \in Page /\ HandleRedirect(p) \in Page
                     /\ Counted(p) \in Page /\ SessionFailed(p) \in Page
<1>1. \A path \in Paths : NewPage(path) \in Page
  BY ConstantsAssumption DEF NewPage, Page
<1>2. Countdown \in 0..Countdown /\ "/" \in Paths
  BY ConstantsAssumption DEF Paths
<1>3. ASSUME NEW p \in Page
      PROVE  WithoutProvider(p) \in Page /\ HandleRedirect(p) \in Page /\ SessionFailed(p) \in Page
  BY <1>2 DEF WithoutProvider, HandleRedirect, SessionFailed, Page
<1>4. ASSUME NEW p \in Page PROVE Counted(p) \in Page
  <2>1. CASE p.countdown <= 1
    BY <1>3, <2>1 DEF Counted
  <2>2. CASE ~(p.countdown <= 1)
    <3>1. p.countdown - 1 \in 0..Countdown
      BY <2>2, ConstantsAssumption DEF Page
    <3> QED  BY <2>2, <3>1 DEF Counted, Page
  <2> QED  BY <2>1, <2>2
<1> QED  BY <1>1, <1>3, <1>4

LEMMA RenderedIsPage ==
  ASSUME NEW p \in Page, NEW state
  PROVE  Rendered(state, p) \in Page
<1>1. WithoutProvider(p) \in Page
  BY NewPages
<1>2. [WithoutProvider(p) EXCEPT !.path = "/"] \in Page
  BY <1>1 DEF Page, Paths
<1>3. Caught(p) \in Page
  BY <1>1 DEF Caught, Page
<1>4. [p EXCEPT !.handler = "mounted"] \in Page
  BY DEF Page
<1> QED  BY <1>2, <1>3, <1>4 DEF Rendered, Caught

LEMMA PageInit == Init => PageInv
<1> SUFFICES ASSUME Init PROVE PageInv
  OBVIOUS
<1>1. ShellTypeOK /\ ShellOK
  BY ShellValues DEF Init, ShellInit, ShellTypeOK, ShellOK, Loads
<1>2. page \in Page
  BY NewPages DEF Init
<1>3. asks \in [Loads -> {"none", "sent"}]
  BY DEF Init, SessionAsked
<1> QED  BY <1>1, <1>2, <1>3, ConstantsAssumption DEF Init, PageInv, TypeOK

\* A page is loaded, with its shell.
LEMMA PageLoads ==
  ASSUME PageInv, NEW path \in Paths, Load(path)
  PROVE  PageInv' /\ visits' # visits
<1>1. ShellTypeOK' /\ ShellOK'
  BY ShellValues DEF PageInv, TypeOK, Load, ShellReload, ShellTypeOK, ShellOK, Loads
<1>2. page' \in Page
  BY NewPages DEF Load
<1>3. asks' \in [Loads -> {"none", "sent"}]
  BY DEF Load, SessionAsked
<1>4. visits' \in 1..MaxVisits /\ visits' # visits /\ calls' \in 0..MaxCalls
  BY ConstantsAssumption DEF PageInv, TypeOK, Load
<1> QED  BY <1>1, <1>2, <1>3, <1>4 DEF PageInv, TypeOK

\* Everything else in a page leaves its shell alone.
LEMMA PageSteps ==
  ASSUME PageInv,
         \/ \E i \in Loads : ReceiveSession(i)
         \/ CallEnds \/ CallFails \/ Tick \/ CallApi
         \/ HandleCancel \/ HandleGoNow \/ HandleRetry \/ Login \/ Logout
  PROVE  PageInv' /\ shell' = shell
<1>1. UNCHANGED <<shellVars, visits>>
  BY DEF ReceiveSession, CallEnds, CallFails, Tick, CallApi, HandleCancel, HandleGoNow,
         HandleRetry, Login, Logout, LeaveFor
<1>2. page' \in Page
  <2> USE NewPages, RenderedIsPage DEF PageInv, TypeOK, Become
  <2>1. ASSUME NEW i \in Loads, ReceiveSession(i) PROVE page' \in Page
    <3>1. \A who \in Who : [page EXCEPT !.session = who] \in Page
      BY DEF Page
    <3> QED  BY <2>1, <3>1 DEF ReceiveSession
  <2>2. CASE CallEnds \/ CallApi
    BY <2>2 DEF CallEnds, CallApi
  <2>3. CASE CallFails
    <3>1. [page EXCEPT !.error = TRUE] \in Page
      BY DEF Page
    <3> QED  BY <2>3, <3>1 DEF CallFails
  <2>4. CASE Tick
    BY <2>4 DEF Tick
  <2>5. CASE HandleCancel \/ HandleRetry
    <3>1. [page EXCEPT !.paused = TRUE] \in Page /\ [page EXCEPT !.crashed = FALSE] \in Page
      BY DEF Page
    <3> QED  BY <2>5, <3>1 DEF HandleCancel, HandleRetry
  <2>6. CASE HandleGoNow
    BY <2>6 DEF HandleGoNow
  <2>7. CASE Login \/ Logout
    <3>1. \A path \in Paths : [page EXCEPT !.leaving = path] \in Page
      BY DEF Page
    <3>2. page.path \in Paths /\ "/" \in Paths
      BY DEF Page, Paths
    <3> QED  BY <2>7, <3>1, <3>2 DEF Login, Logout, LeaveFor
  <2> QED  BY <2>1, <2>2, <2>3, <2>4, <2>5, <2>6, <2>7
<1>3. asks' \in [Loads -> {"none", "sent"}]
  BY DEF PageInv, TypeOK, ReceiveSession, CallEnds, CallFails, Tick, CallApi, HandleCancel,
         HandleGoNow, HandleRetry, Login, Logout, LeaveFor
<1>4. calls' \in 0..MaxCalls
  <2>1. CASE CallEnds \/ CallFails \/ CallApi
    BY <2>1, ConstantsAssumption DEF PageInv, TypeOK, CallEnds, CallFails, CallApi
  <2>2. CASE calls' = calls
    BY <2>2 DEF PageInv, TypeOK
  <2> QED  BY <2>1, <2>2 DEF ReceiveSession, Tick, HandleCancel, HandleGoNow, HandleRetry,
                             Login, Logout, LeaveFor
<1> QED  BY <1>1, <1>2, <1>3, <1>4 DEF PageInv, TypeOK, shellVars, ShellTypeOK, ShellOK

LEMMA PageNext ==
  PageInv /\ [Next]_vars =>
    PageInv' /\ (shell.state # "pending" /\ visits' = visits => shell' = shell)
<1> SUFFICES ASSUME PageInv, [Next]_vars
             PROVE  PageInv' /\ (shell.state # "pending" /\ visits' = visits => shell' = shell)
  OBVIOUS
<1>1. ASSUME NEW i \in Loads, LoadShell(i)
      PROVE  PageInv' /\ (shell.state # "pending" => shell' = shell)
  <2>1. ShellTypeOK' /\ ShellOK' /\ (shell.state # "pending" => shell' = shell)
    BY <1>1, ShellSteps DEF LoadShell, PageInv, TypeOK
  <2>2. page' \in Page
    BY <1>1, RenderedIsPage DEF LoadShell, PageInv, TypeOK
  <2> QED  BY <1>1, <2>1, <2>2 DEF LoadShell, PageInv, TypeOK
<1>2. CASE Arrive
  <2>1. page.leaving \in Paths
    BY <1>2 DEF Arrive, PageInv, TypeOK, Page
  <2> QED  BY <1>2, <2>1, PageLoads DEF Arrive
<1>3. CASE Open
  BY <1>3, PageLoads DEF Open
<1>4. CASE UNCHANGED vars
  BY <1>4 DEF vars, pageVars, shellVars, PageInv, TypeOK, ShellTypeOK, ShellOK
<1> QED  BY <1>1, <1>2, <1>3, <1>4, PageSteps DEF Next, PageWorks
-----------------------------------------------------------------------------
(***************************************************************************)
(* The parts together.                                                     *)
(***************************************************************************)

BrowserInv == DiscoveryInv /\ SessionInv /\ PageInv

\* A step of one part is a step of it and leaves the others alone.
LEMMA BrowserSteps ==
  [BrowserNext]_allVars =>
    [Next]_vars /\ [D!Next]_discoveryVars /\ [S!Next]_sessionVars
<1> SUFFICES ASSUME [BrowserNext]_allVars
             PROVE  [Next]_vars /\ [D!Next]_discoveryVars /\ [S!Next]_sessionVars
  OBVIOUS
<1>1. CASE OfPage(Next)
  BY <1>1 DEF OfPage
<1>2. CASE OfDiscovery(D!Next)
  BY <1>2 DEF OfDiscovery
<1>3. CASE OfSession(S!Next)
  BY <1>3 DEF OfSession
<1>4. CASE UNCHANGED allVars
  BY <1>4 DEF allVars
<1> QED  BY <1>1, <1>2, <1>3, <1>4 DEF BrowserNext

LEMMA BrowserSafety == BrowserSpec => BrowserInit /\ [][BrowserNext]_allVars
BY PTL DEF BrowserSpec

LEMMA BrowserKeepsInv == BrowserSpec => []BrowserInv
<1>1. BrowserInit => BrowserInv
  BY DiscoveryInit, SessionInit, PageInit DEF BrowserInit, BrowserInv
<1>2. BrowserInv /\ [BrowserNext]_allVars => BrowserInv'
  BY BrowserSteps, DiscoveryNext, SessionNext, PageNext DEF BrowserInv
<1> QED  BY <1>1, <1>2, BrowserSafety, PTL

-----------------------------------------------------------------------------

(* The state of a page, of the discovery client in each tab and of the     *)
(* hooks that share a session has its types, whatever the network does.    *)
THEOREM BrowserIsTyped == BrowserSpec => []BrowserTypeOK
<1>1. BrowserInv => BrowserTypeOK
  BY DEF BrowserInv, DiscoveryInv, SessionInv, PageInv, BrowserTypeOK
<1> QED  BY <1>1, BrowserKeepsInv, PTL

(* However many callers of a tab ask for a resource, and however often its *)
(* cache is invalidated meanwhile, one request for it is under way.        *)
THEOREM RequestsAreShared == BrowserSpec => []OneRequestEach
<1>1. BrowserInv => OneRequestEach
  BY DiscoverySafe DEF BrowserInv, OneRequestEach
<1> QED  BY <1>1, BrowserKeepsInv, PTL

(* An entry that a tab serves was answered at most TTL ago, however many   *)
(* tabs and reloads it went through in localStorage.                       *)
THEOREM CacheIsRecent == BrowserSpec => []ServedIsRecent
<1>1. BrowserInv => ServedIsRecent
  BY DiscoverySafe DEF BrowserInv, ServedIsRecent
<1> QED  BY <1>1, BrowserKeepsInv, PTL

(* A refresh that joined no request ends with what the registry had when   *)
(* it was called or newer, also if answers to older requests come later.   *)
THEOREM RefreshBringsNews == BrowserSpec => []RefreshIsFresh
<1>1. BrowserInv => RefreshIsFresh
  BY DiscoverySafe DEF BrowserInv, RefreshIsFresh
<1> QED  BY <1>1, BrowserKeepsInv, PTL

(* A component that writes the session's data while nobody else does shows *)
(* what the server has once its request ended without an error.            *)
THEOREM LoneWriterIsInSync == BrowserSpec => []AloneIsInSync
<1>1. BrowserInv => AloneIsInSync
  BY SessionSafe DEF BrowserInv, AloneIsInSync
<1> QED  BY <1>1, BrowserKeepsInv, PTL

(* What a component shows at rest the server once had, however its writes  *)
(* and those of others overlapped and failed.                              *)
THEOREM ShownWasConfirmed == BrowserSpec => []SettledIsConfirmed
<1>1. BrowserInv => SettledIsConfirmed
  BY DEF BrowserInv, SessionInv, SettledIsConfirmed
<1> QED  BY <1>1, BrowserKeepsInv, PTL

(* A shell that is shown, or the fallback, stays until another page is     *)
(* loaded: neither a late script nor the run that was cancelled, which     *)
(* StrictMode starts in development, replaces it.                          *)
THEOREM ShellIsKept == BrowserSpec => ShellStays
<1>1. BrowserInv /\ [BrowserNext]_allVars =>
        [shell.state # "pending" /\ visits' = visits => shell' = shell]_vars
  BY BrowserSteps, PageNext DEF BrowserInv
<1> QED  BY <1>1, BrowserKeepsInv, BrowserSafety, PTL DEF ShellStays
=============================================================================
