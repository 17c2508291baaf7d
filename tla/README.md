# Verification of ds-app-developer

TLA+ modules, TLC configurations and TLAPS proofs for the stateful parts of
ds-app-developer: the component registry and its command line, component
synchronisation, feature flags, what a page of an application does in the
browser (shell, session, tenant, discovery, preferences, menus), the developer
command line, and the stacks that deploy it all. Sources are cited as paths
under `src/`.

- `tlc -config X.cfg M` checks module `M` under configuration `X.cfg`.
- `tlapm M.tla` checks the proofs of `M`.
- `PROJECT.json` lists the components, runs, mutants, findings, hazards and
  theorems, and maps every definition that models code to the lines it models.

## 1. Inventory

The repository is an application template and the tools around it: a Go
backend that runs on AWS Lambda (`backend/`), a Go command line
(`cmd/ds-components`), React packages (`packages/ds-core`, `packages/layout`,
`packages/ds-auth-ts`), a React front end (`frontend/`), infrastructure (`cdk/`
and the CDK packages), shell scripts and documentation.

| component | state it keeps | operations | whom it talks to |
|---|---|---|---|
| component registry (`backend/internal/components`, `cmd/ds-components` register, push, pull) | METADATA and VERSION# items in DynamoDB, artifacts in S3 | register, publish, upload, deprecate, delete, list, pull | DynamoDB (conditional writes, transactions, eventually consistent reads), S3 (presigned URLs), many clients at once |
| component sync (`cmd/ds-components/cmd/{sync,update}.go`) | `ds-components.json`, `ds-components.lock`, component directories | sync, update, each with `--dry-run` | the registry's HTTP API, the file system |
| feature flags (`backend/internal/featureflags`; in the browser `useFeatureFlags` and `FeatureFlag` of `packages/ds-core`) | a table, a cache in each instance with one expiry time; the flags of a page and their copy in sessionStorage | evaluate, list, update, delete; load, refresh, show | DynamoDB, requests on several Lambda instances; the pages of a tab through sessionStorage |
| shell loading (`packages/ds-core/src/utils/shell-loader.ts`, `useShellLoader`) | one load shared by all callers, its module, error and retry count | configure, load, retry, fall back, reset | the CDN, React |
| front end pages (`frontend/src`) | the shell's state, the session, API errors with a countdown | load, call the API, log in and out, retry, leave | the CDN, the backend, React |
| browser session and tenant (`packages/ds-auth-ts`, `useAuth` of ds-core and of the scaffold) | user, tenant, the API client's header; the tenant in localStorage | check, refresh, switch, log in and out | the account service, other tabs |
| service discovery (`packages/ds-core/src/utils/discovery.ts`) | memory cache, pending requests, copy in localStorage | discover, prefetch, invalidate, refresh | the registry of services, other tabs through localStorage |
| session data, preferences, theme (`packages/ds-core/src/hooks`) | optimistic copy of the session's data; cookies; the tenant's theme in state, document and sessionStorage | get, set, delete, refresh; choose; fetch, refresh, abort | session API, cookies shared by all applications, the theme endpoint |
| layout and shell (`packages/layout`, `ds-components/@digistratum/appshell`) | which menus are open, the fetched applications, what was chosen | press, click, toggle, navigate | the registry of applications, the cookies |
| developer command line (`packages/ds-developer-cli`) | the application's directory and configuration | create, sync, diff | git, the user's editor |
| infrastructure as code (`cdk`, `packages/cdk-constructs`, `packages/ds-cdk`) | stacks, retained resources, the registered manifest | deploy, roll back, destroy | CloudFormation, the account service |
| backend sessions and authentication (`backend/internal/{session,auth}`, `backend/pkg/dsauth`) | sessions in the memory of an instance, cache of verified tokens | session middleware, login, callback, logout | DSAccount's `/api/auth/me` |
| backend utilities (`packages/backend-utils`) | cache of secrets; the session proxy keeps nothing | get a secret, forward a request | Secrets Manager, DSAccount |
| health checks (`backend/internal/health`) | none between requests | check, concurrently and with a timeout | dependencies |
| scaffolding, scripts | none between runs | generate, deploy | files, cloud command lines |

How they interact. `push` calls the publish handler and then uploads to the URL
it returned; `pull`, `sync` and `update` fetch a version record and a URL, then
the object. The backend's components meet in the middleware chain of
`backend/cmd/api/main.go` (session, then authentication, then flags), share no
memory but package-level caches, and interleave through the table. An instance
of the Lambda function serves one request at a time.

What is hard, and what makes each component correct:

- **registry**: several clients between the existence check and the
  transaction; reads that lag; the item stored before the object, the item
  deleted before the object; lost answers. Correct: one owner per name, one
  publication per name and version until it is deleted, records never change,
  a pull hands out what was published or fails, the latest version exists.
- **sync and update**: an error or a kill between any two steps, with a lock
  file written in place at the very end. Correct: the lock file never names
  what was not published, describes what a successful run installed, and a
  successful run leaves every component installed.
- **flags**: several caches over one table, reads that lag behind it, a flag
  changed in the cache before it is saved, one expiry time for everything.
  Correct: an update changes what it asks for and nothing else unless its
  instance was misled, a rollout only grows, what expired is read anew.
- **copies in a tab** (flags of a page, theme of the tenant): a copy left by an
  earlier page and perhaps by another user, requests that overlap, are aborted
  or fail. Correct: what is shown and handed on is the last that was heard, and
  was meant for this page.
- **pages**: calls superseded while they are under way (reset, invalidation,
  another user or tenant, unmount), answers out of order or lost, timers that
  race answers, caches and cookies that several tabs share. Correct: callers
  share one load, nothing obsolete replaces something newer, nothing that was
  not confirmed stays, no choice is undone, every wait ends, and what is shown
  fits the user and the tenant it is shown to.
- **developer command line**: files written one by one, while the user edits,
  with a configuration that both write. Correct: what is marked stays, and
  a sync that ended well leaves nothing to sync.
- **stacks**: deployments that fail after any resource and roll back, with a
  registration outside of the stack. Correct: data outlive everything, and the
  registered manifest is that of the version that runs.

`PROJECT.json` lists these hazards at their lines.

## 2. Modules

| module | what it composes or implements | checked by | proved |
|---|---|---|---|
| `ComponentRegistry` | implements `VersionCatalog` (in `RegistryImplementsCatalog`) | `MCComponentRegistry` | `ComponentRegistryProofs` |
| `ComponentSync` | sees the registry through the publications it accepted, which is what `VersionCatalog` promises to consumers | `MCLocalCopies`, `MCComponentSync` | `ComponentSyncProofs` |
| `FeatureFlagStore` | | `MCLocalCopies`, `MCFeatureFlagStore` | `FeatureFlagStoreProofs` |
| `PageFlags`, `TenantTheme` | hook, copy in sessionStorage and the backend's answers | `MCLocalCopies` | |
| `MCLocalCopies` | composes the last three rows | | |
| `ShellLoader` | the loader and the hook on top of it | `MCShellLoader` | `ShellLoaderProofs` |
| `RemoteShell`, `FrontendPage` | the page composes its shell, its session and its errors | `MCBrowser` | `BrowserProofs` |
| `Discovery`, `SessionData` | client and hook; hook and server | `MCBrowser` | `BrowserProofs` |
| `AuthSession` | three providers, several tabs, the account service | `MCParts` | `AuthSessionProofs`, `PartsProofs` |
| `Preferences`, `NavigationMenu`, `HeaderMenu` | the components of the layout and the hooks they use | `MCParts` | `PartsProofs` |
| `DeveloperCLI` | the command line, the repository, the user | `MCParts` | `DeveloperCLIProofs`, `PartsProofs` |
| `AppStack` | five kinds of stacks and the account service | `MCParts` | `PartsProofs` |
| `ApplicationParts` | composes the last four rows | `MCParts` | `PartsProofs` |

`MCLocalCopies`, `MCBrowser` and `ApplicationParts` compose several modules, to be checked in one
run each (`MCParts` adds small menus to the latter). These parts share no
state and do not wait for one another, so checking their product would multiply
states without showing anything more. A behaviour exercises the part that the
variable `part` names; the variables of the others stay at one initial state.
Their type invariants say of each part what its own `TypeOK` says, and
the properties are those of the parts.

Bounds in general: two or three actors, two values of each kind, one more where
a property needs a before, a between and an after.

## 3. Component registry

`ComponentRegistry` models `backend/internal/components` together with the
commands that drive it. A client runs one command and waits for each answer, so
the command and the handler that serves it form one sequential process, the
record `request[k]` with its program counter. Each call to DynamoDB or S3 is a
step, and any other client may run between two steps.

| variable | code |
|---|---|
| `metadata`, `versions` | METADATA and VERSION# items (`models.go`, `repository.go`) as last written |
| `metadataReplica`, `versionsReplica` | the same as a lagging replica has them: `GetItem` is issued without `ConsistentRead` |
| `artifacts` | the object under `{name}/{version}.tar.gz` (`s3.go`) |
| `request` | the progress of each command |

Actions. `RegisterComponent` is the conditional `PutItem`. A publication is
`PublishGetComponent`, `PublishCheckVersion` (both may read a lagging replica),
`PublishTransact` (the `TransactWriteItems` of `PublishVersion`),
`PublishPresign` and the client's `UploadArtifact`. `DeprecateVersion` is a
conditional update; a hard deletion is `DeleteVersion` and then
`DeleteArtifact`, which may fail without anybody noticing. A pull is
`ResolveLatest` and `ListVersions` (without a version), `GetVersion`,
`Download` and `Extract`. `Fail` is every error that leaves the stores alone. A
write may take effect while its caller is told that it failed. `applied` is a
history variable: the write of this command took effect.

Abstractions. An archive stands for its SHA-256. Names and versions are model
values, so their syntax checks are not modelled; a rejected request is `Fail`.
The publishing client identifies a publication, as `published_by` and
`published_at` do. Listing changes nothing. `UpdateComponent` has no caller.

`VersionCatalog` says what the registry promises, without handlers, replicas,
uploads or errors. `RegistryImplementsCatalog` maps the one onto the other: a
publication counts from its transaction on, a delivery once pull has extracted.

| run | what it shows |
|---|---|
| `registry` | Four clients with commands of every kind, or a registration and then four clients that push, delete and pull one version. Types; `RegistrationHasOneWinner`; `LedgerBalances` (publications and deletions of a version alternate); `ConsistentUntilDeletion` (as long as nothing was deleted, `latest_version` is stored and the object of a push that succeeded is the archive it published); `PulledWhatWasPublished`; and `ImplementsCatalog`, the refinement. |
| `registry_lost_upload` | Violation: the second half of a deletion removes the object of a push that came in between and reported success. |

Bounds. Four clients are a registration, two conflicting operations and an
observer; a version that is deleted and published again while a pull is under
way needs five. The fifth, `Early`, either does nothing or registers the
component before the others begin: `EarlySpec` adds to each step of `Spec` that
`Early` begins first if at all (`EarlyOrNever`), and that after it the others
wait for its component to be stored and replicated and then push, delete and
pull one version (`AfterRegistration`). Its behaviours are behaviours of `Spec`.
One name: no operation touches two components. Two versions, so that
latest can move; two archives, so that contents can differ. Clients, versions
and archives are only compared for equality, and only safety is checked, so
permuting them is a sound symmetry.

## 4. Component sync

`ComponentSync` models `sync` and `update`. The record `cli` is the invocation
under way: the loop over the manifest (`PickComponent`, `Resolve`, `Check`,
`GetVersion`, `Download`, `RemoveOld`, `MakeDirectory`, `Extract`), then
`EndLoop`, `TruncateLock` and `WriteLock`. `Interrupt` is an error or a kill at
any step. `RemoveOld` may fail silently since the code drops the error of
`os.RemoveAll`, and `Extract` then leaves old files among the new ones. The
lock file is truncated and then filled, and a torn file does not parse and
reads as an empty lock. Between invocations the manifest is edited
(`EditManifest`), a clean checkout is made (`CleanCheckout`: the lock file is
kept, the output directory is not) and others publish (`Publish`). Readers may
be shown any publication, stale ones included.

| run | what it shows |
|---|---|
| `copies`, part `sync` | Two invocations with every fault. `LockedWasPublished`, `InstalledIsLocked`, `UpdateKeepsOthers`, `SyncedMeansPresent`. |
| `sync_interrupted` | Violation: after a sync that was killed while it extracted, the next one takes half a component for installed and reports success. |

That a torn lock file reads as an empty one is how `readLockFile` treats it, and
holds in the model by its shape; what is checked is what the next sync makes of
it. An empty version spec makes the loop panic (`sync.go:120`), which ends the
invocation as an error does. `InstalledIsLocked` speaks of components whose old
directory was removed and of invocations that succeeded; what the others leave
is the subject of `sync_interrupted`. `OnlyTargetsAreTouched` (an invocation
touches its targets only, and nothing on a dry run) follows from types alone; it
is proved and no run repeats it.

Bounds. `MaxRuns` and `MaxPublications` bound the model, not the code. Two
invocations suffice for one to find what another left; the violation run allows
four, since it needs a complete run, an interrupted one and a third. Deadlock is
not checked: once `MaxRuns` invocations are over nothing is left to do.
`SyncedMeansPresent` is stated of `sync` only: `update` compares the lock entry
with the latest version and never looks at the directory. Invocations in one
checkout do not overlap; nothing in the code or its documents provides for that.

## 5. Feature flags

`FeatureFlagStore` models the table, the cache of each instance and the
handlers. `Enabled` is the evaluation (`evaluator.go`), in its order: disabled
user, enabled user, disabled tenant, enabled tenant, percentage, default. The
hash of key and identifier is the constant `Bucket`. `Get` is the cached read;
a miss restarts the one expiry time `ttl` of the whole cache. An update is
`BeginUpdate`, which changes the flag that `Get` returned (the cached object
itself, so the change is in the cache before it is saved), and `SaveFlag` or
`SaveFails`. `List`, `DeleteFlag`, `DeleteFails`, `Tick` (time) and `Recycle`
(a new instance) are the rest.

Neither `GetItem` (`store.go:85`) nor `Scan` (`store.go:117`) asks for a
consistent read. `replica` is what a lagging replica still has, until
`Replicate`; a read finds the one or the other (`MayFind`), so that a flag just
saved may be missing, old, or still there after its deletion. An instance serves
one request at a time, as Lambda does, so an update interleaves with other
instances and not with its own.

An update builds on what `Get` returned, which is cached or read with that lag,
and no condition guards the write. So updates can be lost: the second PUT of an
only writer, right after its first, may read the old item and write it back.
`unsure` is a history variable, the flags about which an instance may be misled:
another instance wrote the flag, a write of it failed (the rejected change stays
in the cache), or the table gave an outdated answer, each since the instance was
last answered with the stored flag or wrote it. `UpdatesBuildOnStored` says that
there is no fourth cause: not expiry, not entries that are revived by the common
expiry time, not a listing or a recycled instance.

| run | what it shows |
|---|---|
| `copies`, parts `flags` and `instances` | One flag is changed through one instance that also reads another flag, or through two instances; reads lag and writes fail. `UpdatesBuildOnStored`; `RolloutOnlyGrows`: raising a percentage below 100 disables the flag for nobody. |
| `flags_full_rollout` | Violation: raising it to 100 does. |
| `flags_expired` | Violation of `ExpiredAreReadAnew`: an entry that expired is served again, unread, after another flag was read. It needs no failing write (`QuietSpec`, which starts after both instances have listed the flags). |

Bounds. Two keys, because expiry couples keys; two instances, because caches
disagree in pairs; both at once only in `flags_expired`, since every pair of keys
and instances multiplies the states. One tick of expiry tells live from expired.
The updates are a rollout step and a list given without a valid percentage. A
user and a session with buckets on different sides of the percentages used.

### Flags of a page

`PageFlags` is `FeatureFlagsProvider` (`useFeatureFlags.tsx`) and what
`FeatureFlag` shows. `page` is the provider's state, `copy` the entry in
sessionStorage with its time to live, `checks` the requests under way, from the
first effect, from `refresh` and from effects that run again. The backend
evaluates for whoever is signed in when a request arrives (`Evaluate`); users
sign in and out (`SignIn`), flags change (`Change`), sessionStorage may refuse a
copy, requests fail. One flag stands for all.

The key of the copy does not name a user, so a page begins with whatever the
last page of the tab was told, perhaps about somebody else.
`FlagsAreOfThisPage` (run `copies`, part `page`) says how far that goes: once a
page has loaded and no request of it failed, its flags were evaluated for
somebody who was signed in since it began; and while it loads, an inverse
`FeatureFlag` shows nothing by an old copy. What remains, and the code does:
while a page loads, children of flags that the copy enables are shown; after an
error the copy is kept until a request succeeds; and an answer to an earlier
request may replace that to a later one, since nothing aborts or numbers them.
Two users, two requests at a time. `seen` is a history variable.

### Theme of the tenant

`TenantTheme` is `useTenantTheme.ts`: the theme is in the hook's state, in a
style element of the document and in sessionStorage. A request is aborted by the
next one, by its timer and when the component goes; its body may arrive at any
later time, since the timer is stopped once the headers are there.
`ThemeIsTheLastHeard` (run `copies`, part `theme`) says that once the request
made last is answered, all three places have that answer, whatever earlier
requests, timers and switches of the tenant did. Three requests at a time: an
aborted one, its successor, and one more after that. `heard` is a history
variable.

Seen there: an aborted request ends the loading of its successor, so `isLoading`
may be false while a refresh is under way; a hook that falls back to the
defaults leaves the style element of the theme before; an effect that StrictMode
runs again aborts the first request, which replaces the cached theme by the
defaults until the answer comes. The favicon is left out.

## 6. Loading the shell

`ShellLoader` models `packages/ds-core/src/utils/shell-loader.ts` and the hook
`useShellLoader`. JavaScript runs one callback at a time, so a step is a
callback: a call, an effect, an import's answer, a timer. When a load settles,
everyone who waits for it is told before anything else runs, hence in the same
step (`Settle`).

| variable | code |
|---|---|
| `config`, `module`, `promise`, `error` | the fields of `state`; a load stands for its promise and for the module it brings |
| `loads` | the calls of the promise's function: attempt, wait, local package, end |
| `hooks` | each component's `status` and `error`, whether an effect is due, its lazy components, the loads it waits for |
| `cached`, `lazy` | `cachedComponents`, and the load that each generation of lazy components got when it was first rendered |
| `dropped` | history: how many loads resets have dropped while they were under way |

Actions. `Join` is `loadShellModule`: the module, the promise under way, or a
new load (`StartLoad`). `AttemptFails`, `NextAttempt`, `FallbackFails`,
`Resolve` and `GiveUp` are the function of the promise; a load that was dropped
goes on, and its end changes the shared state as in the code.
`ConfigureShellLoader`, `PrefetchShell` and `ResetShellLoader` are calls from
anywhere in the page. `Mount`, `Unmount`, `Rerender`, `RenderLazy`, `Effect`
and `Retry` are the hook. A component is restless if it passes a new options
object in each render, as each one does that passes none: each change of its
state then runs its effect again, so a failure it is shown starts another load.

Abstractions. Options replace the configuration as a whole. One lazy component
stands for the three, which call the same loader. `skip`, preload hints and
`retryCount`, which is only displayed, are left out.

| run | what it shows |
|---|---|
| `shell` | A restless hook, other callers, configuration and resets at any moment. `LoadsAreShared`, `ModuleStays`, and `LoadingEnds`: no hook shows "loading" for ever. |
| `shell_retry` | Violation: after a failure and a retry that succeeds, the hook reports the shell as loaded and still hands out the lazy components that failed. |

Bounds. `MaxLoads` and `MaxGenerations` bound the model, not the code. Three
loads are a dropped one, its replacement, and the third that starts when the
dropped one fails late and takes away the promise: the case that
`LoadsAreShared` counts. A restless hook does everything a stable one does, and
`PrefetchShell` and `ResetShellLoader` stand for all other callers, so one hook
is enough; it uses one generation of lazy components. One retry tells an
attempt that is followed by another from one that is not. Deadlock is checked:
the page can always configure.

Fairness. `FairSpec` adds weak fairness of each load's own steps, nothing else:
an attempt is raced with a timer, a wait is a timer, and the import of the
local package is answered by the browser. Nobody has to render, retry or reset.
`LoadingEnds` needs no more, because whoever shows "loading" waits for a load
that is under way (`LoadingIsLive`). Registry, synchronisation and flags state
no liveness: clients may give up at any step, command lines may be killed, instances are
recycled, and nothing there retries on its own.

## 7. What a page waits for

`MCBrowser` checks `FrontendPage` (with `RemoteShell`), `Discovery` and
`SessionData`. As above a step is one callback, with what React renders after
it; whoever waits for a promise continues in the step that settles it.

- `RemoteShell` is `useRemoteShell` and `RemoteShellWrapper`: the script from
  the CDN, its timeout, its failure, the local shell as the last resort of
  production and the first of development, and the effect that StrictMode runs
  twice, whose first run is cancelled and goes on. `FrontendPage` extends it
  with `App.tsx`: the request for the session (also asked twice in development),
  `ProtectedRoute`, API calls whose handler may belong to a provider that is
  gone by now, the error view with its countdown (`Tick`, `HandleCancel`,
  `HandleGoNow`, `HandleRetry`), the error boundary, log-in and log-out, which
  leave the page (`LeaveFor`, `Arrive`). A user with `null` for tenants makes
  the dashboard crash; the boundary shows it.
- `Discovery` has in each tab `memory`, `pending` and one component that uses
  `useDiscovery`, and `stored`, the copy in localStorage that all tabs share and
  that the last writer replaces as a whole. Services move (`Move`), names are
  invalidated or refreshed while requests are under way, tabs are reloaded.
- `SessionData` has several components with a copy of the server's data each.
  A write (`Set`, `Merge`, `Remove`, `Clear`) changes the copy first; answers
  replace it in any order, and a lost one, of a request that was or was not
  served, starts a fetch.

| property | what it says |
|---|---|
| `OneRequestEach` | concurrent callers of a tab share the request for a name |
| `ServedIsRecent` | nothing is served longer than the time to live after its request ended, through tabs and reloads |
| `RefreshIsFresh` | a refresh that joined no request ends with what the registry had, or newer; one that joined an older request may end with the older address |
| `AloneIsInSync` | a component at rest whose writes nobody overlapped shows what the session has |
| `SettledIsConfirmed` | at rest a component shows what the session had at some moment: no optimistic value survives the failure of its write |
| `ShellStays` | a shell that is shown is not replaced until another page is loaded |
| `DiscoveryLoadingEnds`, `SessionLoadingEnds`, `PageSettlesHere` | nobody waits for ever, also when a fetch fails and nothing else is requested |
| `ErrorLeadsAwayHere` | an API error leads to the application's root, unless the user stops that |

Bounds. Two tabs or components that each have two requests under way, one name
or key: the code treats names apart. `TTL = 1` and three times tell fresh, just
expired and long expired. A countdown of two has a first, a middle and a last
second. Two pages: one and the page it leads to. Deadlock is not checked, since
the bounds on requests, time and pages end behaviours.

Fairness. Requests, imports and timers end: browsers and networks answer or fail
at last, and the code starts a timer where it does not rely on that. Weak
fairness is on each load, each request and the countdown, and on nothing that a
user or a component would have to do.

## 8. Session, preferences, menus, command line and stacks

`MCParts` checks the modules that `ApplicationParts` composes; the part `checks`
is `AuthSession` again with one tab, two tenants and two overlapping checks, and
`dotfiles` is `DeveloperCLI` for a file whose path starts with a dot.

- `AuthSession`: the providers of ds-auth-ts, ds-core and the scaffold (`kit`).
  Tabs share the cookie, hence `account`, and the tenant in localStorage
  (`saved`). A check is sent, answered for the account signed in at that moment
  (`Reply`), and received or lost; meanwhile the user switches tenants, logs in
  or out elsewhere, the session expires, an administrator revokes a tenant.
  `granted` is a history variable.
- `Preferences`: the cookie `ds-prefs` with language, theme and consent, the
  older shell's consent cookie, and what each component of a page rendered
  last. Other pages write the same cookies, and nothing tells this page.
  `choices` is what the user chose last anywhere.
- `NavigationMenu`: the copies of the menu that are rendered for wide and
  narrow windows, their order in the document, and the one ref that they share.
  A click is a press and a release; between them the page commits.
- `HeaderMenu`: the header's menu in three shells, with the list of applications
  fetched when the user becomes known, and fetched again when that changes;
  runs of the effect that were cancelled still end. The entries of the menu are
  guards of what the user may do next (leave, switch the tenant, open the
  preferences); no property depends on one of them in particular.
- `DeveloperCLI`: `create` (clone, replace, configure), `sync` (fetch, analyze,
  confirm, apply file by file, write the configuration) and what `diff` sees.
  The user edits files and the configuration at any moment, the repository is
  published to, and a command may die anywhere. A sync has its options
  `--dry-run`, `--force` and `--yes`; the runs use those combinations that differ
  (`FewOptions` in `MCParts`), the theorems all of them. `syncApp` never looks at
  `force`, and neither does the model.
- `AppStack`: which resources each stack has, what they need, which outlive it;
  CloudFormation creates, updates, rolls back and deletes resource by resource,
  and any may fail. The registration of the manifest may take effect although
  its answer is lost.

| property | what it says |
|---|---|
| `HeaderIsCurrent` | API calls carry no other tenant than the page shows |
| `TenantWasGranted` | a page's tenant was given by the service to this page's own session |
| `ChoicesAreKept` | no page undoes a choice that was made on another one |
| `SubmenuStaysUsable` | a press inside the open submenu of the mobile menu, the sidebar or the header does not close it, whichever copies come and go; not said of the drawer (see below), nor of a header that became wide while the mobile menu was open |
| `AppsMatchUser` | once no request for the list is under way, the menu has the applications that the last answer allows the present user, guest or not, however fetches overtook each other |
| `MarkedIsKept` | what the user made his own and marked while no command ran outlives every sync, with and without `--force` |
| `SyncSettles` | after a sync in which nothing failed there is nothing to sync, and nothing for diff to show of the files that sync is for |
| `DataSurvives` | what users stored in production outlives deployments, rollbacks and the stack |
| `ManifestIsRunning` | a stack at rest has the manifest of the version that runs registered |

`AppsMatchUser` leaves a window open, and the code has it: when the user signs
in or out, `DSHeader` keeps `fetchedApps` until the new answer arrives
(`DSHeader.tsx:84-158`), and `appsLoading`, which it sets meanwhile, is not used
in what it renders. Until then a guest may be shown the list of the user before.
A request that fails drops `fetchedApps`, and the header falls back to the list
that it was passed.

Two runs expect a violation. `navigation_submenu`: in the drawer of a vertical
menu a press inside the open submenu counts as outside. `sync_forced`: a sync
with `--force` that ends without a failure leaves a customized file as it was.

Bounds. Two tabs and two users in turn, one tenant when several tabs interleave
and two when checks overlap (the theorems of section 9 have no bound). One page
and the cookies that others write. Two submenus, since opening one closes the
other. Two fetches: an overtaken one and its successor. Two versions of a file
and of an application: before and after. Deadlock is not checked, since a stack
that is gone and a bounded version leave nothing to do. Only safety is stated
here, and no fairness is assumed.

## 9. Proofs

Each theorem holds for all values of the constants that satisfy the named
assumption of its module (`ConstantsAssumption`, which only keeps special
values apart from ordinary ones and gives parameters their types); TLC evaluates
the assumptions in every run.

- `ComponentRegistryProofs`. `TypeCorrect`, by one lemma per group of handlers.
  `WriteOnce`, `OneRegistrationWinner` and `VersionsHaveComponents` follow from
  what a step may do to an item (`ComponentItemStep`, `VersionItemStep`).
  `PullsAreFaithful` is not inductive: a pull trusts the record it was given, so
  `RecordsAreBacked` (`EveryRecordIsBacked`) says of every record, wherever it
  lives (table, replica, or a pull under way), that a publication of that
  version stands behind it.
  One lemma (`MarkStep`) sorts the steps by what they do
  to the rows and to the mark that a client's write took effect: it begins,
  moves on, settles, publishes or removes. `LedgerIsBalanced` then needs that a
  command is marked exactly when it is past its write (`AllMarked`) and that the
  sets it counts are finite (`AllBalanced`). `NothingLostUntilDeletion` is
  inductive together with these, `RecordsAreBacked` and
  `VersionsBelongToComponents`: as long as nothing was deleted a stored version
  has one publication (`OnePublication`), so that nobody but its publisher
  uploads to its key.
  `RegistryIsACatalog` is the refinement: a registration, transaction,
  deprecation, deletion of a row and the end of a pull are the catalog's
  operations, every other step is invisible there. That a publisher publishes at
  most once is `AllMarked`; that a delivery was published is `RecordsAreBacked`.
- `ComponentSyncProofs`. `TypeCorrect` with `WellFormed`, which says what the
  invocation holds at each step. `LocksArePublished` strengthens the property to
  everything that may still get into the lock file: the old lock as read, the
  new one being built, and the version and checksum at hand.
  `InstallationsAreLocked` carries along the loop that what was installed so far
  is in the new lock and in its directory. `TargetsOnly` needs only types.
  `OthersAreKept` and `SyncLeavesNoneOut` are two halves of one invariant about
  what the loop owes to each component that it is past (`PastIsServed`), with the
  fact that a directory whose removal failed is still there when it is filled
  (`DirectoryAtHand`).
- `FeatureFlagStoreProofs`. `TypeCorrect`; `RolloutGrows`, for any bucket
  function. `OnlyMisledUpdatesRevert` is inductive with `Coherent`: what an
  instance has cached of a flag that it is not unsure of is the stored flag. A
  write makes every other instance unsure, a failed one and an outdated answer
  make its own instance unsure, and reads keep the rest (`ReadStep`,
  `WriteStep`).
- `ShellLoaderProofs`. `TypeCorrect`, by parts of the state. `StepChange` sorts
  every step by what it does to the loads under way, the promise and the module
  (nothing, a start, a reset, a retry, a success, a failure); the rest follows
  from that. `PromiseStaysAlive` is inductive. `CallersShareLoads` is not: a
  failure may remove a promise that is not its own, so the induction counts the
  loads under way that are not the promise, which are at most those that resets
  have dropped (`OthersWereDropped`). `TheModuleStays` adds that nothing is
  under way once there is a module (`Quiet`). `LoadingStaysLive` uses
  `PromiseStaysAlive`: who joins a load joins one that will settle.
- `AuthSessionProofs`. `TypeCorrect`, `HeaderStaysCurrent` and `TenantIsGranted`
  follow from one inductive invariant: the header is the page's tenant or none,
  the tenant and the tenants that the page lists were granted to it (`PageOK`),
  and only ds-auth-ts sets a header at all (`OnlyAuthTells`), without which
  an answer to ds-core could change the tenant under a header. `ToldFields` says
  what an answer does to a page, for all three providers.
- `DeveloperCLIProofs`. `MarkedStaysKept` needs to know of a sync under way that
  what it read as kept includes everything that is marked (`SyncOK`), and that
  what it still has to write does not; and of `create` that nothing is marked
  while it runs. It assumes nothing of the constants: not even that there are
  versions. `TypeCorrect` adds that a command has the application and the clone
  that it works on (`TypeInv`). `SyncsSettle` follows a sync that nothing
  disturbs (`CleanOK`): its clone is the repository, it keeps what the
  configuration says, and each file that it is for is up to date or still to be
  written. That a file it wrote is current rests on `WrittenIsCurrent`: what is
  not text changes when it is read as text, but only once.
- `PartsProofs`, of the composition `ApplicationParts`. Each part has an
  inductive invariant; a step of one part leaves the others alone
  (`StepOfParts`), so that `PartsInv`, all of them together, is inductive.
  `ChoicesStay` is inductive with the types, since each writer takes the other
  two choices from the cookie and not from what it rendered.
  `SubmenuIsUsable` is not: it needs to know which copy of the open submenu
  holds the ref (`RefOK`), that of the mobile menu if there is one and else the
  main one, or none. `AppsAreTheUsers` needs that runs of the effect that still
  count were sent for the user as he is now (`RunsMatch`).
  `ProductionDataSurvives` needs that whatever the stack's name for production,
  its policies retain what holds data (`PoliciesProtect`, from `SetUp`), and that
  a deployed stack has all its resources (`Provisioned`). `ManifestIsOfRunning`
  follows code and manifest through each phase of a deployment and its rollback
  (`Registered`): what an update has still to bring, function or registration,
  is that of the running version, what a rollback need no longer take back is so
  again, and a rollback that is stuck has the registration still to do.
  `MarkedFilesAreKept` and `SyncLeavesNothing` apply `DeveloperCLIProofs` to both
  instances of the command line, `ChecksMayOverlap` applies `AuthSessionProofs`
  to checks that overlap.
- `BrowserProofs`, of the composition `MCBrowser`, likewise by `BrowserInv`.
  *Discovery*: a request is under way exactly if it is the pending one of its tab
  for its name (`PendingOK`), of which `RequestsAreShared` is a consequence. An
  entry says what a request for its name brought and when it ended, in memory
  and in localStorage (`CachesOK`); entries move between tabs, and what a
  request brought does not change once it is over, so `CacheIsRecent` holds
  however far an entry came. `RefreshBringsNews` needs two facts about whoever
  refreshed without joining a request (`ViewOK`): answers it still awaits for the
  name are new enough, because those for it were sent after the refresh, and
  what it shows of the name at rest is.
  *Session data*: `LoneWriterIsInSync` needs that a component that is alone has
  one request, that every write under way is its own, and that an answer it
  awaits is what the server has (`AloneOK`); `ShownWasConfirmed` that answers were
  in the history (`RequestsOK`).
  *The page*: `ShellIsKept`, an action property, needs that of the two runs of
  `loadShell` the cancelled one sets nothing and the other has set the state only
  when it is over (`ShellOK`).

TLC checked the inductive invariants on the runs' instances before they were
proved. Those instances have one name for `Discovery`, one key for the session's
data, two fetches of a header, two versions of a file; the theorems hold for any.

Assumptions. `ConstantsAssumption` of `FrontendPage` has at least one visit, since
the page that is there at first is one, and `PartsAssumption` of
`ApplicationParts` collects those of its parts, with at least one version of a
stack and of a file, which the initial states have.

`WriteOnce`, `VersionsHaveComponents`, `EveryRecordIsBacked`, `TargetsOnly`,
`PromiseStaysAlive` and `LoadingStaysLive` prove invariants that the other proofs rest on; TLC finds
them true of the same models, but no run repeats them.

Only model-checked: the liveness properties `LoadingEnds`,
`DiscoveryLoadingEnds`, `SessionLoadingEnds`, `PageSettlesHere` and
`ErrorLeadsAwayHere`, which hold under weak fairness, and that is about when an
action is enabled, which the prover does not reach; and the two modules that have
no proofs yet, `TenantTheme` and `PageFlags`, with `ThemeIsTheLastHeard`,
`FlagsAreOfThisPage` and their share of `CopiesTypeOK`. Seven properties are
violated and have nothing to prove. Every other property of every run, the
refinement included, is proved.

## 10. Findings

Seven runs are expected to fail; each shows a behaviour that a comment or
document contradicts, quoted in `PROJECT.json`: a delayed deletion removes a
newer upload; an interrupted sync is taken for complete; a full rollout turns a
flag off; an expired flag is served again after another one was read; lazy
components survive the retry that should replace them; `ds sync --force` leaves
customized files as they are; in the drawer, submenus close under the pointer.

Seen while modelling, and modelled where it belongs to a module, without a run
of its own:

- `latest_version` still names a version that was hard-deleted
  (`backend/internal/components/handlers.go:373`), and a pull without a version
  then fails.
- The second of two PUTs in a row may read the table as it was before the first
  (`store.go:85`, no consistent read) and undo it, even if nobody else writes.
- While a page loads its flags, what an earlier user of the tab was told decides
  what is shown (`packages/ds-core/src/hooks/useFeatureFlags.tsx`).
- `isLoading` of `useTenantTheme` may be false while a refresh is under way,
  where `docs/THEMING.md:139` has "True while fetching".
- After a change of `isAuthenticated` the header lists the applications of the
  user before until the new answer arrives (`packages/layout/src/DSHeader.tsx`,
  where `appsLoading` is not used in what is rendered).
- `useTheme` says that it updates the cookie
  (`packages/ds-core/src/hooks/useTheme.tsx:31`); the theme button of the header
  changes the page only, and `ChoicesAreKept` does not count it as a choice.
- `switchTenant` of ds-core tells no API client, although its comment
  (`packages/ds-core/src/hooks/useAuth.tsx:133`) says that the tenant is sent
  with subsequent calls.
- With the shell from the CDN the dashboard's header is not given `auth`, which
  `frontend/src/shell/RemoteShellWrapper.tsx:152` requires of the caller: it
  shows a guest, and nobody can log out there.
- `useSessionData` promises "Error from the last operation", but the error of a
  write that failed is cleared by the fetch that follows it.
- A cookie setting that was toggled and cancelled is still toggled when the
  dialog opens again; the preferences dialog stores a theme without telling the
  ThemeProvider.
- `shouldNeverSync` excludes the direct children of a directory pattern only
  (`packages/ds-developer-cli/src/commands/sync.ts:301`); files that are not text
  are rewritten as UTF-8; `create` and `diff` do not see files whose path begins
  with a dot; a mark made while sync asks for confirmation is lost when it
  writes its configuration (`sync.ts:186`), which is why `MarkedIsKept` speaks of
  marks made while no command runs.
- `cdk/bin/app.ts` passes no environment, so that the production stack has no
  alarms; a retained resource keeps its fixed name and blocks the next creation;
  the manifest of an application whose creation failed, or that was deleted,
  stays registered; the registration depends on its handler only, and may
  announce an application whose other resources fail. `ManifestIsRunning`
  therefore speaks of stacks at rest that exist.

## 11. Not modelled

- Backend sessions, token verification and its cache, secrets and health checks:
  each access is one operation under a lock. Two things there would deserve a
  model if the code grew: a token verified before `InvalidateToken` may be cached
  after it, and an error of the first fetch of a secret is kept until the
  instance is recycled or the name invalidated.
- Translations; footers, content containers and icons; the contents of the pages
  and of a shell's fallback. They render what they are given. The favicon that a
  tenant's theme sets.
- Scaffolding and shell scripts, workflows, `UpdateComponent` (no caller).
- Properties of a resource that no step of a deployment depends on: memory
  sizes, thresholds, headers, names.
- Names, versions and archives are compared and never parsed; the syntax checks
  of the handlers and the extraction of archives are left to unit tests.
