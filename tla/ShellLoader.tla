---------------------------- MODULE ShellLoader ----------------------------
(***************************************************************************)
(* Loading the application shell: the loader of ds-core, one object per    *)
(* page that all callers share (utils/shell-loader.ts), and the React hook *)
(* that reports its state to components (hooks/useShellLoader.tsx).        *)
(*                                                                         *)
(* JavaScript runs one callback at a time. A step here is such a callback: *)
(* a call, an effect, the answer of an import, a timer. When a load        *)
(* settles, the callbacks of everyone who waits for it run before anything *)
(* else does, so they belong to the same step.                             *)
(***************************************************************************)
EXTENDS FiniteSets, Integers

CONSTANTS
  Hooks,          \* components that may call useShellLoader
  Restless,       \* those that pass a new options object in each render, as
                  \* every component does that passes none
  Options,        \* the settings each of them passes, or None
  Configs,        \* what configureShellLoader may be called with
  DefaultConfig,  \* settings of a loader that was not configured
  MaxRetries,     \* the largest number of retries configured
  None,           \* no load, no module, no settings
  MaxLoads, MaxGenerations  \* bounds of the model, not of the code

Loads == 1..MaxLoads
Generations == 1..MaxGenerations

\* The settings that the order of steps depends on.
Config == [retries : 0..MaxRetries, fallback : BOOLEAN]

ASSUME ConstantsAssumption ==
  /\ MaxRetries \in Nat /\ MaxLoads \in Nat /\ MaxGenerations \in Nat
  /\ None \notin Loads \cup Generations \cup Config
  /\ Restless \subseteq Hooks
  /\ Options \in [Hooks -> Config \cup {None}]
  /\ Configs \subseteq Config /\ DefaultConfig \in Config

VARIABLES
  config,     \* state.config
  module,     \* state.module: the load that stored it
  promise,    \* state.modulePromise: the load that settles it
  error,      \* whether state.error is set
  loads,      \* the loads so far
  hooks,      \* each hook's state and the loads it waits for
  cached,     \* cachedComponents: the generation of lazy components in use
  lazy,       \* the load that each generation of lazy components got
  dropped     \* history: how many loads under way resets have dropped

vars == <<config, module, promise, error, loads, hooks, cached, lazy,
          dropped>>

loader == <<config, module, promise, error, loads, dropped>>

-----------------------------------------------------------------------------

\* left: retries left; fallback: whether the local package may be tried.
Load == [phase    : {"unused", "importing", "backoff", "fallback", "resolved",
                     "rejected"},
         left     : 0..MaxRetries,
         fallback : BOOLEAN]

In(phase, settings) ==
  [phase |-> phase, left |-> settings.retries, fallback |-> settings.fallback]

\* A load that has not started or is over; its settings matter no more.
At(phase) == [phase |-> phase, left |-> 0, fallback |-> FALSE]

InFlight == {l \in Loads : loads[l].phase \in {"importing", "backoff", "fallback"}}

\* due: a render is over whose effect has yet to run.
Hook == [status : {"unmounted", "idle", "loading", "loaded", "error"},
         error  : BOOLEAN,
         due    : BOOLEAN,
         lazy   : Generations \cup {None},
         waits  : SUBSET Loads]

Unmounted == [status |-> "unmounted", error |-> FALSE, due |-> FALSE,
              lazy |-> None, waits |-> {}]

Mounted(h) == hooks[h].status # "unmounted"

Init ==
  /\ config = DefaultConfig
  /\ module = None /\ promise = None /\ error = FALSE
  /\ loads = [l \in Loads |-> At("unused")]
  /\ hooks = [h \in Hooks |-> Unmounted]
  /\ cached = None
  /\ lazy = [g \in Generations |-> None]
  /\ dropped = 0

-----------------------------------------------------------------------------
(* loadShellModule. Loads are numbered in the order in which they start.   *)

StartLoad(l, settings) ==
  /\ loads[l].phase = "unused"
  /\ \A m \in 1..(l - 1) : loads[m].phase # "unused"
  /\ loads' = [loads EXCEPT ![l] = In("importing", settings)]
  /\ promise' = l

\* MUTANT: a load under way is not shared.
ShareNothing == FALSE

Shareable == promise # None

\* The caller gets load l: the one that brought the module, the one under
\* way, or a new one.
Join(l, settings) ==
  \/ module # None /\ l = module /\ UNCHANGED <<loads, promise>>
  \/ module = None /\ Shareable /\ l = promise /\ UNCHANGED <<loads, promise>>
  \/ module = None /\ ~Shareable /\ StartLoad(l, settings)

Given(h, otherwise) == IF Options[h] = None THEN otherwise ELSE Options[h]

-----------------------------------------------------------------------------
(* What the page does.                                                     *)

ConfigureShellLoader ==
  /\ config' \in Configs
  /\ UNCHANGED <<module, promise, error, loads, hooks, cached, lazy, dropped>>

\* prefetchShell, or any caller that is not a hook.
PrefetchShell ==
  /\ \E l \in Loads : Join(l, config)
  /\ UNCHANGED <<config, module, error, hooks, cached, lazy, dropped>>

Drop == dropped' = IF promise \in InFlight THEN dropped + 1 ELSE dropped

ResetShellLoader ==
  /\ config' = DefaultConfig
  /\ module' = None /\ promise' = None /\ error' = FALSE
  /\ Drop
  /\ UNCHANGED <<loads, hooks, cached, lazy>>

\* A hook keeps for good the lazy components it finds when it is mounted.
Mount(h) ==
  /\ ~Mounted(h)
  /\ \E g \in Generations :
       /\ \/ g = cached /\ UNCHANGED lazy
          \/ /\ cached = None
             /\ \A k \in Hooks : hooks[k].lazy # g
             /\ lazy' = [lazy EXCEPT ![g] = None]
       /\ cached' = g
       /\ hooks' = [hooks EXCEPT ![h] =
            [status |-> IF module # None THEN "loaded" ELSE "idle",
             error |-> error, due |-> TRUE, lazy |-> g, waits |-> {}]]
  /\ UNCHANGED loader

Unmount(h) ==
  /\ Mounted(h)
  /\ hooks' = [hooks EXCEPT ![h] = Unmounted]
  /\ UNCHANGED <<loader, cached, lazy>>

Rerender(h) ==
  /\ Mounted(h) /\ h \in Restless
  /\ hooks' = [hooks EXCEPT ![h].due = TRUE]
  /\ UNCHANGED <<loader, cached, lazy>>

\* The first time it is rendered, a lazy component asks for the module, with
\* the loader's settings, and keeps the answer.
RenderLazy(h) ==
  /\ Mounted(h) /\ lazy[hooks[h].lazy] = None
  /\ \E l \in Loads :
       /\ Join(l, config)
       /\ lazy' = [lazy EXCEPT ![hooks[h].lazy] = l]
  /\ UNCHANGED <<config, module, error, hooks, cached, dropped>>

\* Each change of a restless hook's state brings another render and effect.
Effect(h) ==
  /\ Mounted(h) /\ hooks[h].due
  /\ \/ /\ module # None
        /\ hooks' = [hooks EXCEPT
             ![h].status = "loaded", ![h].error = FALSE,
             ![h].due = h \in Restless
                          /\ (hooks[h].status # "loaded" \/ hooks[h].error)]
        /\ UNCHANGED <<loads, promise>>
     \/ /\ module = None
        /\ \E l \in Loads :
             /\ Join(l, Given(h, config))
             /\ hooks' = [hooks EXCEPT
                  ![h].status = "loading", ![h].waits = @ \cup {l},
                  ![h].due = h \in Restless /\ hooks[h].status # "loading"]
  /\ UNCHANGED <<config, module, error, cached, lazy, dropped>>

\* retry: reset, forget the lazy components, load anew.
Retry(h) ==
  /\ Mounted(h)
  /\ config' = DefaultConfig
  /\ module' = None /\ error' = FALSE
  /\ Drop
  /\ cached' = None
  /\ \E l \in Loads :
       /\ StartLoad(l, Given(h, DefaultConfig))
       /\ hooks' = [hooks EXCEPT
            ![h].status = "loading", ![h].error = FALSE,
            ![h].waits = @ \cup {l},
            ![h].due = @ \/ h \in Restless]
  /\ UNCHANGED lazy

-----------------------------------------------------------------------------
(* A load: attempts with waits between them, then the local package.       *)

Advance(l, phase) ==
  /\ loads' = [loads EXCEPT ![l].phase = phase]
  /\ UNCHANGED <<config, module, promise, error, hooks, cached, lazy, dropped>>

\* MUTANT: the hook does not catch a failure.
IgnoreFailure(h, status) ==
  IF status = "loaded"
    THEN [hooks[h] EXCEPT !.status = status, !.error = FALSE]
    ELSE hooks[h]

Reported(h, status) ==
  [hooks[h] EXCEPT !.status = status, !.error = status = "error"]

\* Everyone who waits for load l learns how it ended.
Settle(l, status) ==
  hooks' = [h \in Hooks |->
    IF l \in hooks[h].waits
      THEN [Reported(h, status) EXCEPT !.waits = @ \ {l},
                                       !.due = @ \/ h \in Restless]
      ELSE hooks[h]]

\* The module arrived, from the CDN with all its exports or locally.
Resolve(l) ==
  /\ loads[l].phase \in {"importing", "fallback"}
  /\ loads' = [loads EXCEPT ![l] = At("resolved")]
  /\ module' = l /\ error' = FALSE
  /\ Settle(l, "loaded")
  /\ UNCHANGED <<config, promise, cached, lazy, dropped>>

AfterFailure == None

GiveUp(l) ==
  /\ loads' = [loads EXCEPT ![l] = At("rejected")]
  /\ error' = TRUE /\ promise' = AfterFailure
  /\ Settle(l, "error")
  /\ UNCHANGED <<config, module, cached, lazy, dropped>>

\* MUTANT: one retry too many.
OneMoreRetry(l) == loads[l].left + 1 > 0

RetriesLeft(l) == loads[l].left > 0

\* The import failed, took too long, or lacks exports.
AttemptFails(l) ==
  /\ loads[l].phase = "importing"
  /\ \/ RetriesLeft(l) /\ Advance(l, "backoff")
     \/ ~RetriesLeft(l) /\ loads[l].fallback /\ Advance(l, "fallback")
     \/ ~RetriesLeft(l) /\ ~loads[l].fallback /\ GiveUp(l)

NextAttempt(l) ==
  /\ loads[l].phase = "backoff"
  /\ loads' = [loads EXCEPT ![l].phase = "importing", ![l].left = @ - 1]
  /\ UNCHANGED <<config, module, promise, error, hooks, cached, lazy, dropped>>

FallbackFails(l) == loads[l].phase = "fallback" /\ GiveUp(l)

LoadStep(l) ==
  Resolve(l) \/ AttemptFails(l) \/ NextAttempt(l) \/ FallbackFails(l)

HookStep(h) ==
  \/ Mount(h) \/ Unmount(h) \/ Rerender(h) \/ RenderLazy(h)
  \/ Effect(h) \/ Retry(h)

Next ==
  \/ ConfigureShellLoader \/ PrefetchShell \/ ResetShellLoader
  \/ \E h \in Hooks : HookStep(h)
  \/ \E l \in Loads : LoadStep(l)

Spec == Init /\ [][Next]_vars

\* Every attempt is raced with a timer, every wait is a timer, and the import
\* of the local package is answered. Nobody has to render, retry or reset.
FairSpec == Spec /\ \A l \in Loads : WF_vars(LoadStep(l))

-----------------------------------------------------------------------------
(* Properties.                                                             *)

\* The loader's fields, the loads and the hooks have their types; no load
\* makes more attempts than it has.
TypeOK ==
  /\ config \in Config
  /\ module \in Loads \cup {None} /\ promise \in Loads \cup {None}
  /\ error \in BOOLEAN
  /\ loads \in [Loads -> Load]
  /\ \A l \in Loads : loads[l].phase = "backoff" => loads[l].left > 0
  /\ hooks \in [Hooks -> Hook]
  /\ \A h \in Hooks :
       IF Mounted(h) THEN hooks[h].lazy # None ELSE hooks[h] = Unmounted
  /\ cached \in Generations \cup {None}
  /\ lazy \in [Generations -> Loads \cup {None}]
  /\ dropped \in Nat

(* Callers are never handed a load that has already failed: unless there   *)
(* is a module, the shared promise is one that will still settle.          *)
PromiseIsAlive == module = None /\ promise # None => promise \in InFlight

(* A hook that says "loading" waits for a load that is under way, whatever *)
(* was reset, retried or superseded in the meantime.                       *)
LoadingIsLive ==
  \A h \in Hooks :
    hooks[h].status = "loading" => hooks[h].waits \cap InFlight # {}

(* Callers share their loads: at most one is under way, and one more for   *)
(* each load that a reset dropped while it was. A dropped load that fails  *)
(* late takes away the promise of the one that replaced it, and the next   *)
(* caller starts a third, but never more than this.                        *)
LoadsAreShared ==
  Cardinality(InFlight) <= 1 + dropped

(* The shell stays the same until somebody resets the loader: as long as   *)
(* no reset dropped a load under way, the module is never replaced by      *)
(* another load's.                                                         *)
ModuleStays ==
  [][module # None /\ dropped = 0 => module' \in {module, None}]_vars

(* No hook shows "loading" for ever.                                       *)
LoadingEnds ==
  \A h \in Hooks : hooks[h].status = "loading" ~> hooks[h].status # "loading"

(* When a hook reports the shell as loaded, the lazy components it hands   *)
(* out render: they did not get the load that failed before a retry. (Even *)
(* if nobody resets a load under way.)                                     *)
ReadyIsRenderable ==
  \A h \in Hooks :
    hooks[h].status = "loaded" /\ dropped = 0
      => LET l == lazy[hooks[h].lazy] IN
           l # None => loads[l].phase # "rejected"
=============================================================================
