------------------------- MODULE ShellLoaderProofs -------------------------
(* Proofs about ShellLoader, for any number of hooks, loads and settings.   *)
EXTENDS ShellLoader, FiniteSetTheorems, TLAPS

-----------------------------------------------------------------------------
(* Types: the parts of TypeOK, and what keeps each of them.                *)

StateOK ==
  /\ config \in Config
  /\ module \in Loads \cup {None}
  /\ error \in BOOLEAN
  /\ dropped \in Nat

LoadsOK ==
  /\ promise \in Loads \cup {None}
  /\ loads \in [Loads -> Load]
  /\ \A l \in Loads : loads[l].phase = "backoff" => loads[l].left > 0

HooksOK ==
  /\ hooks \in [Hooks -> Hook]
  /\ \A h \in Hooks :
       IF Mounted(h) THEN hooks[h].lazy # None ELSE hooks[h] = Unmounted

LazyOK ==
  /\ cached \in Generations \cup {None}
  /\ lazy \in [Generations -> Loads \cup {None}]

LEMMA Parts == TypeOK <=> StateOK /\ LoadsOK /\ HooksOK /\ LazyOK
BY DEF TypeOK, StateOK, LoadsOK, HooksOK, LazyOK

LEMMA PartsNext == TypeOK' <=> StateOK' /\ LoadsOK' /\ HooksOK' /\ LazyOK'
BY DEF TypeOK, StateOK, LoadsOK, HooksOK, LazyOK

LEMMA Kept ==
  /\ StateOK /\ UNCHANGED <<config, module, error, dropped>> => StateOK'
  /\ LoadsOK /\ UNCHANGED <<promise, loads>> => LoadsOK'
  /\ HooksOK /\ UNCHANGED hooks => HooksOK'
  /\ LazyOK /\ UNCHANGED <<cached, lazy>> => LazyOK'
BY DEF StateOK, LoadsOK, HooksOK, LazyOK, Mounted

(* The records that In and At build are loads.                             *)
LEMMA LoadRecords ==
  ASSUME NEW settings \in Config
  PROVE  /\ In("importing", settings) \in Load
         /\ At("resolved") \in Load /\ At("rejected") \in Load
         /\ At("unused") \in Load
<1> MaxRetries \in Nat  BY ConstantsAssumption
<1> QED  BY DEF In, At, Load, Config

(* A step that makes load l another load that does not wait.               *)
LEMMA ChangeLoad ==
  ASSUME LoadsOK, NEW l \in Loads, NEW value \in Load,
         loads' = [loads EXCEPT ![l] = value], value.phase # "backoff",
         promise' \in Loads \cup {None}
  PROVE  LoadsOK'
BY DEF LoadsOK

(* A caller of the loader gets a load.                                     *)
LEMMA StartLoadTypes ==
  ASSUME LoadsOK, NEW l \in Loads, NEW settings \in Config,
         StartLoad(l, settings)
  PROVE  LoadsOK'
<1>1. In("importing", settings).phase # "backoff"  BY DEF In
<1> QED  BY <1>1, LoadRecords, ChangeLoad DEF StartLoad

LEMMA JoinTypes ==
  ASSUME LoadsOK, NEW l \in Loads, NEW settings \in Config, Join(l, settings)
  PROVE  LoadsOK'
BY StartLoadTypes, Kept DEF Join

LEMMA GivenConfig ==
  ASSUME NEW h \in Hooks, NEW otherwise \in Config
  PROVE  Given(h, otherwise) \in Config
BY ConstantsAssumption DEF Given

LEMMA DropTypes ==
  ASSUME StateOK, Drop
  PROVE  dropped' \in Nat
BY DEF StateOK, Drop

(* A step that makes hook h another hook.                                  *)
LEMMA ChangeHook ==
  ASSUME HooksOK, NEW h \in Hooks, NEW value \in Hook,
         hooks' = [hooks EXCEPT ![h] = value],
         IF value.status # "unmounted" THEN value.lazy # None
                                       ELSE value = Unmounted
  PROVE  HooksOK'
BY DEF HooksOK, Mounted

(* A step that changes what mounted hook h shows.                          *)
LEMMA EditHook ==
  ASSUME HooksOK, NEW h \in Hooks, Mounted(h),
         NEW status \in {"idle", "loading", "loaded", "error"},
         NEW wrong \in BOOLEAN, NEW due \in BOOLEAN,
         NEW waits \in SUBSET Loads,
         hooks' = [hooks EXCEPT ![h] =
                     [@ EXCEPT !.status = status, !.error = wrong,
                               !.waits = waits, !.due = due]]
  PROVE  HooksOK'
<1> DEFINE value == [hooks[h] EXCEPT !.status = status, !.error = wrong,
                                     !.waits = waits, !.due = due]
<1>1. value \in Hook /\ value.status # "unmounted" /\ value.lazy # None
  BY DEF HooksOK, Hook, Mounted
<1>2. hooks' = [hooks EXCEPT ![h] = value]  OBVIOUS
<1> HIDE DEF value
<1> QED  BY <1>1, <1>2, ChangeHook

LEMMA SettleTypes ==
  ASSUME HooksOK, NEW l \in Loads, NEW status \in {"loaded", "error"},
         Settle(l, status)
  PROVE  HooksOK'
<1> DEFINE Told(h) == [Reported(h, status) EXCEPT !.waits = @ \ {l},
                                                  !.due = @ \/ h \in Restless]
<1>1. ASSUME NEW h \in Hooks, l \in hooks[h].waits
      PROVE  /\ Told(h) \in Hook /\ Told(h).status # "unmounted"
             /\ Told(h).lazy # None
  <2>1. Mounted(h)  BY <1>1 DEF HooksOK, Unmounted
  <2> QED  BY <1>1, <2>1 DEF HooksOK, Hook, Reported
<1>2. hooks' = [h \in Hooks |-> IF l \in hooks[h].waits THEN Told(h) ELSE hooks[h]]
  BY DEF Settle
<1> HIDE DEF Told
<1>3. hooks' \in [Hooks -> Hook]  BY <1>1, <1>2 DEF HooksOK
<1>4. ASSUME NEW h \in Hooks
      PROVE  IF hooks'[h].status # "unmounted" THEN hooks'[h].lazy # None
                                              ELSE hooks'[h] = Unmounted
  <2>1. CASE l \in hooks[h].waits  BY <2>1, <1>1, <1>2
  <2>2. CASE l \notin hooks[h].waits  BY <2>2, <1>2 DEF HooksOK, Mounted
  <2> QED  BY <2>1, <2>2
<1> QED  BY <1>3, <1>4 DEF HooksOK, Mounted

LEMMA InitTypes == Init => TypeOK
<1> SUFFICES ASSUME Init PROVE TypeOK
  OBVIOUS
<1>1. At("unused") \in Load /\ At("unused").phase # "backoff"
  BY ConstantsAssumption, LoadRecords DEF At
<1>2. Unmounted \in Hook /\ Unmounted.status = "unmounted"
  BY DEF Unmounted, Hook
<1>3. StateOK  BY ConstantsAssumption DEF Init, StateOK
<1>4. LoadsOK  BY <1>1 DEF Init, LoadsOK
<1>5. HooksOK  BY <1>2 DEF Init, HooksOK, Mounted
<1>6. LazyOK  BY DEF Init, LazyOK
<1> QED  BY <1>3, <1>4, <1>5, <1>6, Parts

(* The steps of the page and of hooks keep the types.                      *)
LEMMA PageTypes ==
  ASSUME TypeOK, ConfigureShellLoader \/ PrefetchShell \/ ResetShellLoader
  PROVE  TypeOK'
<1> USE Parts
<1>1. CASE ConfigureShellLoader
  <2>1. StateOK'
    BY <1>1, ConstantsAssumption DEF ConfigureShellLoader, StateOK
  <2> QED  BY <1>1, <2>1, Kept, PartsNext DEF ConfigureShellLoader
<1>2. CASE PrefetchShell
  <2> PICK l \in Loads : Join(l, config)  BY <1>2 DEF PrefetchShell
  <2>1. LoadsOK'  BY JoinTypes DEF StateOK
  <2> QED  BY <1>2, <2>1, Kept, PartsNext DEF PrefetchShell
<1>3. CASE ResetShellLoader
  <2>1. StateOK'
    BY <1>3, DropTypes, ConstantsAssumption DEF ResetShellLoader, StateOK
  <2>2. LoadsOK'  BY <1>3 DEF ResetShellLoader, LoadsOK
  <2> QED  BY <1>3, <2>1, <2>2, Kept, PartsNext DEF ResetShellLoader
<1> QED  BY <1>1, <1>2, <1>3

LEMMA HookTypes ==
  ASSUME TypeOK, NEW h \in Hooks, HookStep(h)
  PROVE  TypeOK'
<1> USE Parts
<1>1. CASE Mount(h)
  <2> PICK g \in Generations :
        /\ \/ g = cached /\ UNCHANGED lazy
           \/ lazy' = [lazy EXCEPT ![g] = None]
        /\ cached' = g
        /\ hooks' = [hooks EXCEPT ![h] =
             [status |-> IF module # None THEN "loaded" ELSE "idle",
              error |-> error, due |-> TRUE, lazy |-> g, waits |-> {}]]
    BY <1>1 DEF Mount
  <2>1. HooksOK'
    <3> DEFINE value ==
      [status |-> IF module # None THEN "loaded" ELSE "idle",
       error |-> error, due |-> TRUE, lazy |-> g, waits |-> {}]
    <3>1. g # None  BY ConstantsAssumption
    <3>2. value \in Hook /\ value.status # "unmounted" /\ value.lazy # None
      BY <3>1 DEF Hook, StateOK
    <3> QED  BY <3>2, ChangeHook
  <2>2. LazyOK'  BY DEF LazyOK
  <2> QED  BY <1>1, <2>1, <2>2, Kept, PartsNext DEF Mount, loader
<1>2. CASE Unmount(h)
  <2>1. Unmounted \in Hook /\ Unmounted.status = "unmounted"
    BY DEF Unmounted, Hook
  <2>2. HooksOK'  BY <1>2, <2>1, ChangeHook DEF Unmount
  <2> QED  BY <1>2, <2>2, Kept, PartsNext DEF Unmount, loader
<1>3. CASE Rerender(h)
  <2>1. HooksOK'  BY <1>3 DEF Rerender, HooksOK, Hook, Mounted
  <2> QED  BY <1>3, <2>1, Kept, PartsNext DEF Rerender, loader
<1>4. CASE RenderLazy(h)
  <2> PICK l \in Loads : /\ Join(l, config)
                         /\ lazy' = [lazy EXCEPT ![hooks[h].lazy] = l]
    BY <1>4 DEF RenderLazy
  <2>1. LoadsOK'  BY JoinTypes DEF StateOK
  <2>2. LazyOK'  BY <1>4 DEF RenderLazy, LazyOK
  <2> QED  BY <1>4, <2>1, <2>2, Kept, PartsNext DEF RenderLazy
<1>5. CASE Effect(h)
  <2> DEFINE again == h \in Restless
                      /\ (hooks[h].status # "loaded" \/ hooks[h].error)
             more == h \in Restless /\ hooks[h].status # "loading"
  <2>0. again \in BOOLEAN /\ more \in BOOLEAN  OBVIOUS
  <2>1. ASSUME hooks' = [hooks EXCEPT
                 ![h].status = "loaded", ![h].error = FALSE, ![h].due = again],
               UNCHANGED <<loads, promise>>
        PROVE  HooksOK' /\ LoadsOK'
    <3> HIDE DEF again
    <3>1. hooks' = [hooks EXCEPT ![h] =
                      [@ EXCEPT !.status = "loaded", !.error = FALSE,
                                !.waits = hooks[h].waits, !.due = again]]
      BY <2>1 DEF HooksOK, Hook
    <3>2. hooks[h].waits \in SUBSET Loads  BY DEF HooksOK, Hook
    <3>3. HooksOK'  BY <1>5, <2>0, <3>1, <3>2, EditHook DEF Effect
    <3> QED  BY <2>1, <3>3, Kept
  <2>2. ASSUME NEW l \in Loads, Join(l, Given(h, config)),
               hooks' = [hooks EXCEPT
                 ![h].status = "loading", ![h].waits = @ \cup {l},
                 ![h].due = more]
        PROVE  HooksOK' /\ LoadsOK'
    <3> HIDE DEF more
    <3> DEFINE waits == hooks[h].waits \cup {l}
    <3>1. hooks' = [hooks EXCEPT ![h] =
                      [@ EXCEPT !.status = "loading", !.error = hooks[h].error,
                                !.waits = waits, !.due = more]]
      BY <2>2 DEF HooksOK, Hook
    <3>2. waits \in SUBSET Loads /\ hooks[h].error \in BOOLEAN
      BY DEF HooksOK, Hook
    <3>3. HooksOK'
      <4> HIDE DEF waits
      <4> QED  BY <1>5, <2>0, <3>1, <3>2, EditHook DEF Effect
    <3>4. Given(h, config) \in Config  BY GivenConfig DEF StateOK
    <3> QED  BY <2>2, <3>3, <3>4, JoinTypes
  <2>3. HooksOK' /\ LoadsOK'  BY <1>5, <2>1, <2>2 DEF Effect
  <2> QED  BY <1>5, <2>3, Kept, PartsNext DEF Effect
<1>6. CASE Retry(h)
  <2> DEFINE due == hooks[h].due \/ h \in Restless
  <2>0. due \in BOOLEAN  BY DEF HooksOK, Hook
  <2> PICK l \in Loads :
       /\ StartLoad(l, Given(h, DefaultConfig))
       /\ hooks' = [hooks EXCEPT
            ![h].status = "loading", ![h].error = FALSE,
            ![h].waits = @ \cup {l}, ![h].due = due]
    BY <1>6 DEF Retry
  <2> HIDE DEF due
  <2>1. LoadsOK'
    BY ConstantsAssumption, GivenConfig, StartLoadTypes
  <2>2. HooksOK'
    <3> DEFINE waits == hooks[h].waits \cup {l}
    <3>1. waits \in SUBSET Loads  BY DEF HooksOK, Hook
    <3>2. hooks' = [hooks EXCEPT ![h] =
                      [@ EXCEPT !.status = "loading", !.error = FALSE,
                                !.waits = waits, !.due = due]]
      BY DEF HooksOK, Hook
    <3> HIDE DEF waits
    <3> QED  BY <1>6, <2>0, <3>1, <3>2, EditHook DEF Retry
  <2>3. StateOK'
    <3>1. DefaultConfig \in Config  BY ConstantsAssumption
    <3> QED  BY <1>6, <3>1, DropTypes DEF Retry, StateOK
  <2>4. LazyOK'  BY <1>6 DEF Retry, LazyOK
  <2> QED  BY <2>1, <2>2, <2>3, <2>4, PartsNext
<1> QED  BY <1>1, <1>2, <1>3, <1>4, <1>5, <1>6 DEF HookStep

(* The steps of loads keep the types.                                      *)
LEMMA AdvanceTypes ==
  ASSUME TypeOK, NEW l \in Loads,
         NEW phase \in {"importing", "backoff", "fallback"}, Advance(l, phase),
         phase = "backoff" => RetriesLeft(l)
  PROVE  TypeOK'
<1> USE Parts
<1>1. LoadsOK'  BY DEF Advance, RetriesLeft, LoadsOK, Load
<1> QED  BY <1>1, Kept, PartsNext DEF Advance

LEMMA GiveUpTypes ==
  ASSUME TypeOK, NEW l \in Loads, GiveUp(l)
  PROVE  TypeOK'
<1> USE Parts
<1>1. At("rejected") \in Load /\ At("rejected").phase # "backoff"
  BY LoadRecords DEF StateOK, At
<1>2. LoadsOK'  BY <1>1, ChangeLoad DEF GiveUp, AfterFailure
<1>3. HooksOK'  BY SettleTypes DEF GiveUp
<1>4. StateOK'  BY DEF GiveUp, StateOK
<1> QED  BY <1>2, <1>3, <1>4, Kept, PartsNext DEF GiveUp

LEMMA LoadTypes ==
  ASSUME TypeOK, NEW l \in Loads, LoadStep(l)
  PROVE  TypeOK'
<1> USE Parts
<1>1. CASE Resolve(l)
  <2>1. At("resolved") \in Load /\ At("resolved").phase # "backoff"
    BY LoadRecords DEF StateOK, At
  <2>2. LoadsOK'  BY <1>1, <2>1, ChangeLoad DEF Resolve, LoadsOK
  <2>3. HooksOK'  BY <1>1, SettleTypes DEF Resolve
  <2>4. StateOK'  BY <1>1 DEF Resolve, StateOK
  <2> QED  BY <1>1, <2>2, <2>3, <2>4, Kept, PartsNext DEF Resolve
<1>2. CASE AttemptFails(l)
  BY <1>2, AdvanceTypes, GiveUpTypes DEF AttemptFails
<1>3. CASE NextAttempt(l)
  <2>1. LoadsOK'
    BY <1>3, ConstantsAssumption DEF NextAttempt, LoadsOK, Load
  <2> QED  BY <1>3, <2>1, Kept, PartsNext DEF NextAttempt
<1>4. CASE FallbackFails(l)
  BY <1>4, GiveUpTypes DEF FallbackFails
<1> QED  BY <1>1, <1>2, <1>3, <1>4 DEF LoadStep

LEMMA TypeStep ==
  ASSUME TypeOK, [Next]_vars
  PROVE  TypeOK'
<1>1. CASE Next  BY <1>1, PageTypes, HookTypes, LoadTypes DEF Next
<1>2. CASE UNCHANGED vars  BY <1>2, Parts, PartsNext, Kept DEF vars
<1> QED  BY <1>1, <1>2

(* The loader, the loads and the hooks always have their types: no load    *)
(* makes more attempts than its settings allow.                            *)
THEOREM TypeCorrect == Spec => []TypeOK
<1>1. Init => TypeOK  BY InitTypes
<1>2. TypeOK /\ [Next]_vars => TypeOK'  BY TypeStep
<1> QED  BY <1>1, <1>2, PTL DEF Spec

-----------------------------------------------------------------------------
(* How a step changes the loads under way, the promise and the module.     *)

Same == UNCHANGED <<InFlight, module, promise, dropped>>

Started(l) ==
  /\ l \notin InFlight /\ InFlight' = InFlight \cup {l} /\ promise' = l
  /\ module = None /\ promise = None /\ UNCHANGED <<module, dropped>>

WasReset ==
  module' = None /\ promise' = None /\ Drop /\ UNCHANGED InFlight

Retried(l) ==
  /\ l \notin InFlight /\ InFlight' = InFlight \cup {l} /\ promise' = l
  /\ module' = None /\ Drop

Resolved(l) ==
  /\ l \in InFlight /\ InFlight' = InFlight \ {l}
  /\ module' = l /\ UNCHANGED <<promise, dropped>>

GaveUp(l) ==
  /\ l \in InFlight /\ InFlight' = InFlight \ {l}
  /\ promise' = None /\ UNCHANGED <<module, dropped>>

Change ==
  \/ Same \/ WasReset
  \/ \E l \in Loads : Started(l) \/ Retried(l) \/ Resolved(l) \/ GaveUp(l)

LEMMA StartLoadChange ==
  ASSUME TypeOK, NEW l \in Loads, NEW settings, StartLoad(l, settings)
  PROVE  /\ l \notin InFlight /\ InFlight' = InFlight \cup {l}
         /\ promise' = l
BY DEF StartLoad, InFlight, In, TypeOK

LEMMA JoinChange ==
  ASSUME TypeOK, NEW l \in Loads, NEW settings, Join(l, settings),
         UNCHANGED <<module, dropped>>
  PROVE  Same \/ Started(l)
<1>1. CASE UNCHANGED <<loads, promise>>
  BY <1>1 DEF Same, InFlight
<1>2. CASE module = None /\ ~Shareable /\ StartLoad(l, settings)
  BY <1>2, StartLoadChange DEF Started, Shareable
<1> QED  BY <1>1, <1>2 DEF Join

LEMMA OverChange ==
  ASSUME TypeOK, NEW l \in Loads, NEW phase \in {"resolved", "rejected"},
         loads' = [loads EXCEPT ![l] = At(phase)]
  PROVE  InFlight' = InFlight \ {l}
BY DEF At, InFlight, TypeOK

LEMMA GiveUpChange ==
  ASSUME TypeOK, NEW l \in InFlight, GiveUp(l)
  PROVE  GaveUp(l)
<1>1. l \in Loads  BY DEF InFlight
<1> QED  BY <1>1, OverChange DEF GiveUp, AfterFailure, GaveUp

LEMMA AdvanceChange ==
  ASSUME TypeOK, NEW l \in InFlight,
         NEW phase \in {"importing", "backoff", "fallback"}, Advance(l, phase)
  PROVE  Same
<1>1. InFlight' = InFlight  BY DEF Advance, InFlight, TypeOK, Load
<1> QED  BY <1>1 DEF Advance, Same

LEMMA LoadChange ==
  ASSUME TypeOK, NEW l \in Loads, LoadStep(l)
  PROVE  l \in InFlight /\ (Same \/ Resolved(l) \/ GaveUp(l))
<1>1. l \in InFlight
  BY DEF LoadStep, Resolve, AttemptFails, NextAttempt, FallbackFails, InFlight
<1>2. CASE Resolve(l)
  BY <1>1, <1>2, OverChange DEF Resolve, Resolved
<1>3. CASE AttemptFails(l)
  BY <1>1, <1>3, AdvanceChange, GiveUpChange DEF AttemptFails
<1>4. CASE NextAttempt(l)
  <2>1. InFlight' = InFlight
    BY <1>4 DEF NextAttempt, InFlight, TypeOK, Load
  <2> QED  BY <1>1, <1>4, <2>1 DEF NextAttempt, Same
<1>5. CASE FallbackFails(l)
  BY <1>1, <1>5, GiveUpChange DEF FallbackFails
<1> QED  BY <1>1, <1>2, <1>3, <1>4, <1>5 DEF LoadStep

LEMMA StepChange ==
  ASSUME TypeOK, [Next]_vars
  PROVE  Change
<1>1. CASE ConfigureShellLoader
  BY <1>1 DEF ConfigureShellLoader, Change, Same, InFlight
<1>2. CASE PrefetchShell
  BY <1>2, JoinChange DEF PrefetchShell, Change
<1>3. CASE ResetShellLoader
  BY <1>3 DEF ResetShellLoader, Change, WasReset, InFlight
<1>4. ASSUME NEW h \in Hooks, HookStep(h)
      PROVE Change
  <2>1. CASE Mount(h) \/ Unmount(h) \/ Rerender(h)
    BY <2>1 DEF Mount, Unmount, Rerender, loader, Change, Same, InFlight
  <2>2. CASE RenderLazy(h)
    BY <2>2, JoinChange DEF RenderLazy, Change
  <2>3. CASE Effect(h)
    <3>1. CASE UNCHANGED <<loads, promise>>
      BY <2>3, <3>1 DEF Effect, Change, Same, InFlight
    <3>2. CASE \E l \in Loads : Join(l, Given(h, config))
      BY <2>3, <3>2, JoinChange DEF Effect, Change
    <3> QED  BY <2>3, <3>1, <3>2 DEF Effect
  <2>4. CASE Retry(h)
    BY <2>4, StartLoadChange DEF Retry, Change, Retried
  <2> QED  BY <1>4, <2>1, <2>2, <2>3, <2>4 DEF HookStep
<1>5. ASSUME NEW l \in Loads, LoadStep(l)
      PROVE Change
  BY <1>5, LoadChange DEF Change
<1>6. CASE UNCHANGED vars
  BY <1>6 DEF vars, Change, Same, InFlight
<1> QED  BY <1>1, <1>2, <1>3, <1>4, <1>5, <1>6 DEF Next

-----------------------------------------------------------------------------
(* The promise is alive.                                                   *)

LEMMA NoneIsNoLoad == None \notin Loads
BY ConstantsAssumption

LEMMA PromiseStep ==
  ASSUME TypeOK, PromiseIsAlive, [Next]_vars
  PROVE  PromiseIsAlive'
BY StepChange, NoneIsNoLoad
DEF Change, Same, WasReset, Started, Retried, Resolved, GaveUp, PromiseIsAlive

(* Nobody is handed a load that already failed: unless the module is       *)
(* there, the shared promise is one that will still settle.                *)
THEOREM PromiseStaysAlive == Spec => []PromiseIsAlive
<1>1. Init => PromiseIsAlive  BY DEF Init, PromiseIsAlive
<1>2. TypeOK /\ PromiseIsAlive /\ [Next]_vars => PromiseIsAlive'
  BY PromiseStep
<1> QED  BY <1>1, <1>2, TypeCorrect, PTL DEF Spec

-----------------------------------------------------------------------------
(* Loads are shared. Induction: the loads under way that are not the       *)
(* promise are at most those that resets have dropped.                     *)

Others == InFlight \ {promise}

OthersWereDropped == Cardinality(Others) <= dropped

LEMMA Finite ==
  ASSUME NEW S, S \subseteq Loads
  PROVE  IsFiniteSet(S) /\ Cardinality(S) \in Nat
<1>1. IsFiniteSet(Loads)
  BY ConstantsAssumption, FS_Interval DEF Loads
<1>2. IsFiniteSet(S)  BY <1>1, FS_Subset
<1> QED  BY <1>2, FS_CardinalityType

(* A set with at most one element more than another.                       *)
LEMMA OneMore ==
  ASSUME NEW S, NEW T, S \subseteq Loads, NEW x, T \subseteq S \cup {x}
  PROVE  IsFiniteSet(T) /\ Cardinality(T) <= Cardinality(S) + 1
<1>1. IsFiniteSet(S) /\ Cardinality(S) \in Nat  BY Finite
<1>2. /\ IsFiniteSet(S \cup {x})
      /\ Cardinality(S \cup {x}) <= Cardinality(S) + 1
  BY <1>1, FS_AddElement
<1>3. IsFiniteSet(T) /\ Cardinality(T) <= Cardinality(S \cup {x})
  BY <1>2, FS_Subset
<1>4. Cardinality(T) \in Nat /\ Cardinality(S \cup {x}) \in Nat
  BY <1>2, <1>3, FS_CardinalityType
<1> QED  BY <1>1, <1>2, <1>3, <1>4

LEMMA OthersStep ==
  ASSUME TypeOK, OthersWereDropped, [Next]_vars
  PROVE  OthersWereDropped'
<1>0. /\ Others \subseteq Loads /\ InFlight \subseteq Loads
      /\ dropped \in Nat
      /\ IsFiniteSet(Others) /\ Cardinality(Others) \in Nat
  BY Finite DEF Others, InFlight, TypeOK
<1>1. CASE Same
  BY <1>1 DEF Same, Others, OthersWereDropped
<1>2. ASSUME Drop, Others' = InFlight
      PROVE OthersWereDropped'
  <2>1. CASE promise \in InFlight
    <3>1. Cardinality(InFlight) <= Cardinality(Others) + 1
      BY <1>0, OneMore DEF Others
    <3>2. Cardinality(InFlight) \in Nat  BY <1>0, Finite
    <3> QED  BY <1>0, <1>2, <2>1, <3>1, <3>2 DEF Drop, OthersWereDropped
  <2>2. CASE promise \notin InFlight
    <3>1. InFlight = Others  BY <2>2 DEF Others
    <3> QED  BY <1>2, <2>2, <3>1 DEF Drop, OthersWereDropped
  <2> QED  BY <2>1, <2>2
<1>3. CASE WasReset
  <2>1. Others' = InFlight
    BY <1>0, <1>3, NoneIsNoLoad DEF WasReset, Others
  <2> QED  BY <1>2, <1>3, <2>1 DEF WasReset
<1>4. ASSUME NEW l \in Loads, Started(l)
      PROVE OthersWereDropped'
  <2>1. Others' = Others
    BY <1>0, <1>4, NoneIsNoLoad DEF Started, Others
  <2> QED  BY <1>4, <2>1 DEF Started, OthersWereDropped
<1>5. ASSUME NEW l \in Loads, Retried(l)
      PROVE OthersWereDropped'
  <2>1. Others' = InFlight  BY <1>5 DEF Retried, Others
  <2> QED  BY <1>2, <1>5, <2>1 DEF Retried
<1>6. ASSUME Others' \subseteq Others, UNCHANGED dropped
      PROVE OthersWereDropped'
  <2>1. Cardinality(Others') <= Cardinality(Others)
    BY <1>0, <1>6, FS_Subset
  <2>2. Cardinality(Others') \in Nat  BY <1>0, <1>6, Finite
  <2> QED  BY <1>0, <1>6, <2>1, <2>2 DEF OthersWereDropped
<1>7. ASSUME NEW l \in Loads, Resolved(l)
      PROVE OthersWereDropped'
  BY <1>6, <1>7 DEF Resolved, Others
<1>8. ASSUME NEW l \in Loads, GaveUp(l)
      PROVE OthersWereDropped'
  <2>1. CASE l = promise
    BY <1>6, <1>8, <2>1 DEF GaveUp, Others
  <2>2. CASE l # promise
    <3>1. l \in Others  BY <1>8, <2>2 DEF GaveUp, Others
    <3>2. /\ IsFiniteSet(Others \ {l})
          /\ Cardinality(Others \ {l}) = Cardinality(Others) - 1
      BY <1>0, <3>1, FS_RemoveElement
    <3>3. Others' \subseteq (Others \ {l}) \cup {promise}
      BY <1>8 DEF GaveUp, Others
    <3>4. /\ Cardinality(Others') <= Cardinality(Others \ {l}) + 1
          /\ Cardinality(Others') \in Nat
      BY <1>0, <3>3, OneMore, FS_CardinalityType
    <3> QED  BY <1>0, <1>8, <3>2, <3>4 DEF GaveUp, OthersWereDropped
  <2> QED  BY <2>1, <2>2
<1> QED
  BY <1>1, <1>3, <1>4, <1>5, <1>7, <1>8, StepChange DEF Change

THEOREM OthersAreDropped == Spec => []OthersWereDropped
<1>1. Init => OthersWereDropped
  <2> SUFFICES ASSUME Init PROVE OthersWereDropped
    OBVIOUS
  <2>1. Others = {}  BY DEF Init, Others, InFlight, At
  <2> QED  BY <2>1, FS_EmptySet DEF Init, OthersWereDropped
<1>2. TypeOK /\ OthersWereDropped /\ [Next]_vars => OthersWereDropped'
  BY OthersStep
<1> QED  BY <1>1, <1>2, TypeCorrect, PTL DEF Spec

(* At most one load is under way, and one more for each load that a reset  *)
(* dropped while it was under way.                                         *)
THEOREM CallersShareLoads == Spec => []LoadsAreShared
<1>1. TypeOK /\ OthersWereDropped => LoadsAreShared
  <2> SUFFICES ASSUME TypeOK, OthersWereDropped PROVE LoadsAreShared
    OBVIOUS
  <2>1. /\ Others \subseteq Loads /\ InFlight \subseteq Others \cup {promise}
        /\ dropped \in Nat /\ Cardinality(InFlight) \in Nat
        /\ Cardinality(Others) \in Nat
    BY Finite DEF Others, InFlight, TypeOK
  <2>2. Cardinality(InFlight) <= Cardinality(Others) + 1
    BY <2>1, OneMore
  <2> QED  BY <2>1, <2>2 DEF OthersWereDropped, LoadsAreShared
<1> QED  BY <1>1, TypeCorrect, OthersAreDropped, PTL

-----------------------------------------------------------------------------
(* The module stays. Induction: as long as no reset dropped a load, nothing *)
(* is under way once there is a module.                                     *)

Quiet == module # None /\ dropped = 0 => InFlight = {}

LEMMA NothingElse ==
  ASSUME TypeOK, OthersWereDropped, dropped = 0
  PROVE  InFlight \subseteq {promise}
<1>1. IsFiniteSet(Others) /\ Cardinality(Others) \in Nat
  BY Finite DEF Others, InFlight
<1>2. Cardinality(Others) = 0  BY <1>1 DEF OthersWereDropped
<1>3. Others = {}  BY <1>1, <1>2, FS_EmptySet
<1> QED  BY <1>3 DEF Others

LEMMA QuietStep ==
  ASSUME TypeOK, OthersWereDropped, Quiet, [Next]_vars
  PROVE  Quiet' /\ (module # None /\ dropped = 0 => module' \in {module, None})
<1>1. CASE Same
  BY <1>1 DEF Same, Quiet
<1>2. CASE WasReset
  BY <1>2 DEF WasReset, Quiet
<1>3. ASSUME NEW l \in Loads, Started(l) \/ Retried(l)
      PROVE  Quiet' /\ module' \in {module, None}
  BY <1>3 DEF Started, Retried, Quiet
<1>4. ASSUME NEW l \in Loads, Resolved(l)
      PROVE  Quiet' /\ (module # None /\ dropped = 0 => module' \in {module, None})
  <2>1. ASSUME dropped' = 0 PROVE InFlight' = {}
    BY <1>4, <2>1, NothingElse DEF Resolved
  <2>2. module # None /\ dropped = 0 => FALSE
    BY <1>4 DEF Resolved, Quiet
  <2> QED  BY <2>1, <2>2 DEF Quiet
<1>5. ASSUME NEW l \in Loads, GaveUp(l)
      PROVE  Quiet' /\ module' \in {module, None}
  BY <1>5 DEF GaveUp, Quiet
<1> QED  BY <1>1, <1>2, <1>3, <1>4, <1>5, StepChange DEF Change

(* The module is never replaced by another load's as long as no reset      *)
(* dropped a load under way.                                               *)
THEOREM TheModuleStays == Spec => ModuleStays
<1>1. Init => Quiet  BY DEF Init, Quiet
<1>2. TypeOK /\ OthersWereDropped /\ Quiet /\ [Next]_vars => Quiet'
  BY QuietStep
<1>3. TypeOK /\ OthersWereDropped /\ Quiet /\ [Next]_vars
        => [module # None /\ dropped = 0 => module' \in {module, None}]_vars
  BY QuietStep
<1> QED
  BY <1>1, <1>2, <1>3, TypeCorrect, OthersAreDropped, PTL
  DEF Spec, ModuleStays

-----------------------------------------------------------------------------
(* A hook that shows "loading" waits for a load that is under way.         *)

\* What LoadingIsLive says of one hook.
Live(h) == hooks[h].status = "loading" => hooks[h].waits \cap InFlight # {}

LEMMA KeptLive ==
  ASSUME LoadingIsLive, NEW h \in Hooks, hooks'[h] = hooks[h],
         InFlight \subseteq InFlight'
  PROVE  Live(h)'
BY DEF LoadingIsLive, Live

(* What a hook is given while there is no module will still settle.        *)
LEMMA JoinedIsLive ==
  ASSUME TypeOK, PromiseIsAlive, NEW l \in Loads, NEW settings,
         Join(l, settings), module = None
  PROVE  l \in InFlight'
<1>1. CASE l = promise /\ UNCHANGED loads
  BY <1>1, NoneIsNoLoad DEF PromiseIsAlive, InFlight
<1>2. CASE StartLoad(l, settings)
  BY <1>2, StartLoadChange
<1> QED  BY <1>1, <1>2 DEF Join

(* Those who wait for a load that settles stop showing "loading", and the  *)
(* others do not notice.                                                   *)
LEMMA SettledAreLive ==
  ASSUME TypeOK, LoadingIsLive, NEW l \in Loads,
         NEW status \in {"loaded", "error"}, Settle(l, status),
         InFlight' = InFlight \ {l}, NEW h \in Hooks
  PROVE  Live(h)'
<1>1. CASE l \in hooks[h].waits
  <2> DEFINE Told == [Reported(h, status) EXCEPT !.waits = @ \ {l},
                                                 !.due = @ \/ h \in Restless]
  <2>1. hooks'[h] = Told  BY <1>1 DEF Settle
  <2>2. Told.status = status  BY DEF Reported, TypeOK, Hook
  <2> HIDE DEF Told
  <2> QED  BY <2>1, <2>2 DEF Live
<1>2. CASE l \notin hooks[h].waits
  <2>1. hooks'[h] = hooks[h]  BY <1>2 DEF Settle
  <2> QED  BY <1>2, <2>1 DEF LoadingIsLive, Live
<1> QED  BY <1>1, <1>2

LEMMA HookStepIsLive ==
  ASSUME TypeOK, PromiseIsAlive, LoadingIsLive,
         NEW h \in Hooks, HookStep(h), NEW k \in Hooks
  PROVE  Live(k)'
<1>1. InFlight \subseteq InFlight' /\ (k # h => hooks'[k] = hooks[k])
  <2>1. ASSUME NEW l \in Loads, NEW settings, Join(l, settings)
        PROVE  InFlight \subseteq InFlight'
    BY <2>1, StartLoadChange DEF Join, InFlight
  <2>2. CASE Mount(h) \/ Unmount(h) \/ Rerender(h)
    BY <2>2 DEF Mount, Unmount, Rerender, loader, InFlight, TypeOK
  <2>3. CASE RenderLazy(h)
    BY <2>1, <2>3 DEF RenderLazy
  <2>4. CASE Effect(h)
    <3>1. CASE UNCHANGED loads
      BY <2>4, <3>1 DEF Effect, InFlight, TypeOK
    <3>2. CASE \E l \in Loads : Join(l, Given(h, config))
      BY <2>1, <2>4, <3>2 DEF Effect, TypeOK
    <3> QED  BY <2>4, <3>1, <3>2 DEF Effect
  <2>5. CASE Retry(h)
    BY <2>5, StartLoadChange DEF Retry, TypeOK
  <2> QED  BY <2>2, <2>3, <2>4, <2>5 DEF HookStep
<1>2. CASE k # h
  BY <1>1, <1>2, KeptLive
<1>3. CASE k = h
  <2>1. CASE Mount(h)
    <3>1. hooks'[h].status # "loading"  BY <2>1 DEF Mount, TypeOK
    <3> QED  BY <1>3, <3>1 DEF Live
  <2>2. CASE Unmount(h)
    <3>1. hooks'[h].status # "loading"  BY <2>2 DEF Unmount, Unmounted, TypeOK
    <3> QED  BY <1>3, <3>1 DEF Live
  <2>3. CASE Rerender(h) \/ RenderLazy(h)
    <3>1. /\ hooks'[h].status = hooks[h].status
          /\ hooks'[h].waits = hooks[h].waits
      BY <2>3 DEF Rerender, RenderLazy, TypeOK, Hook
    <3> QED  BY <1>1, <1>3, <3>1 DEF LoadingIsLive, Live
  <2>4. CASE Effect(h)
    <3>1. CASE module # None
      <4> DEFINE due == h \in Restless
                          /\ (hooks[h].status # "loaded" \/ hooks[h].error)
      <4>0. hooks' = [hooks EXCEPT ![h].status = "loaded",
                                   ![h].error = FALSE, ![h].due = due]
        BY <2>4, <3>1 DEF Effect
      <4> HIDE DEF due
      <4>1. hooks'[h].status = "loaded"  BY <4>0 DEF TypeOK, Hook
      <4> QED  BY <1>3, <4>1 DEF Live
    <3>2. CASE module = None
      <4> PICK l \in Loads :
            /\ Join(l, Given(h, config))
            /\ hooks' = [hooks EXCEPT
                 ![h].status = "loading", ![h].waits = @ \cup {l},
                 ![h].due = h \in Restless /\ hooks[h].status # "loading"]
        BY <2>4, <3>2 DEF Effect
      <4>1. l \in hooks'[h].waits  BY DEF TypeOK, Hook
      <4> QED  BY <1>3, <3>2, <4>1, JoinedIsLive DEF Live
    <3> QED  BY <3>1, <3>2
  <2>5. CASE Retry(h)
    <3> PICK l \in Loads :
          /\ StartLoad(l, Given(h, DefaultConfig))
          /\ hooks' = [hooks EXCEPT
               ![h].status = "loading", ![h].error = FALSE,
               ![h].waits = @ \cup {l}, ![h].due = @ \/ h \in Restless]
      BY <2>5 DEF Retry
    <3>1. l \in hooks'[h].waits  BY DEF TypeOK, Hook
    <3>2. l \in InFlight'  BY StartLoadChange
    <3> QED  BY <1>3, <3>1, <3>2 DEF Live
  <2> QED  BY <2>1, <2>2, <2>3, <2>4, <2>5 DEF HookStep
<1> QED  BY <1>2, <1>3

LEMMA LoadStepIsLive ==
  ASSUME TypeOK, LoadingIsLive, NEW l \in Loads, LoadStep(l), NEW h \in Hooks
  PROVE  Live(h)'
<1>1. CASE Resolve(l)
  BY <1>1, OverChange, SettledAreLive DEF Resolve
<1>2. ASSUME GiveUp(l)
      PROVE  Live(h)'
  BY <1>2, OverChange, SettledAreLive DEF GiveUp
<1>3. ASSUME NEW phase \in {"importing", "backoff", "fallback"},
             loads[l].phase \in {"importing", "backoff", "fallback"},
             Advance(l, phase)
      PROVE  Live(h)'
  <2>1. l \in InFlight  BY <1>3 DEF InFlight
  <2>2. InFlight' = InFlight  BY <1>3, <2>1, AdvanceChange DEF Same
  <2> QED  BY <1>3, <2>2, KeptLive DEF Advance
<1>4. CASE NextAttempt(l)
  <2>1. InFlight' = InFlight
    BY <1>4 DEF NextAttempt, InFlight, TypeOK, Load
  <2> QED  BY <1>4, <2>1, KeptLive DEF NextAttempt
<1> QED  BY <1>1, <1>2, <1>3, <1>4 DEF LoadStep, AttemptFails, FallbackFails

LEMMA LiveStep ==
  ASSUME TypeOK, PromiseIsAlive, LoadingIsLive, [Next]_vars
  PROVE  LoadingIsLive'
<1> SUFFICES ASSUME NEW h \in Hooks PROVE Live(h)'
  BY DEF LoadingIsLive, Live
<1>1. CASE \/ ConfigureShellLoader \/ ResetShellLoader \/ UNCHANGED vars
  <2>1. UNCHANGED <<hooks, loads>>
    BY <1>1 DEF ConfigureShellLoader, ResetShellLoader, vars
  <2> QED  BY <2>1, KeptLive DEF InFlight
<1>2. CASE PrefetchShell
  <2>1. InFlight \subseteq InFlight'
    BY <1>2, StartLoadChange DEF PrefetchShell, Join, InFlight
  <2> QED  BY <1>2, <2>1, KeptLive DEF PrefetchShell
<1>3. ASSUME NEW k \in Hooks, HookStep(k)
      PROVE  Live(h)'
  BY <1>3, HookStepIsLive
<1>4. ASSUME NEW l \in Loads, LoadStep(l)
      PROVE  Live(h)'
  BY <1>4, LoadStepIsLive
<1> QED  BY <1>1, <1>2, <1>3, <1>4 DEF Next

(* A hook that shows "loading" waits for a load that is under way.         *)
THEOREM LoadingStaysLive == Spec => []LoadingIsLive
<1>1. Init => LoadingIsLive  BY DEF Init, Unmounted, LoadingIsLive
<1>2. TypeOK /\ PromiseIsAlive /\ LoadingIsLive /\ [Next]_vars => LoadingIsLive'
  BY LiveStep
<1> QED  BY <1>1, <1>2, TypeCorrect, PromiseStaysAlive, PTL DEF Spec
=============================================================================
