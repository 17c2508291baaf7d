------------------------- MODULE DeveloperCLIProofs -------------------------
(***************************************************************************)
(* For any files, whichever of them sync is for, and any number of their   *)
(* versions: no command replaces what the user marked as his own, what     *)
(* commands read and leave has its type, and a sync without failures       *)
(* leaves nothing to sync.                                                 *)
(***************************************************************************)
EXTENDS DeveloperCLI, TLAPS

\* What exists of the application is a file, or none, for each path.
IsDirectory(d) == d = [f \in Files |-> d[f]]

IsCommand(c) ==
  c = [pc |-> c.pc, dryRun |-> c.dryRun, force |-> c.force, yes |-> c.yes,
       kept |-> c.kept, todo |-> c.todo]

Making == {"clone", "replace"}
Syncing == {"fetch", "analyze", "confirm", "apply"}

\* Nothing is marked while an application is made; a configuration has an
\* application.
ConfigOK ==
  /\ config # None => IsDirectory(app) /\ config = [kept |-> config.kept]
  /\ cli.pc \in Making => marked = {} /\ config = None
  /\ cli.pc = "replace" => IsDirectory(app)

\* What is marked is in the configuration, and is the user's own.
MarkedOK ==
  /\ marked \subseteq config.kept
  /\ \A f \in marked : IsDirectory(app) /\ f \in Files /\ app[f] = Own

\* A sync read what is marked, and does not update it.
SyncOK ==
  /\ cli.pc \in Syncing => IsDirectory(app) /\ marked \subseteq cli.kept
  /\ cli.pc \in {"confirm", "apply"} => cli.todo \cap cli.kept = {}

IInv ==
  /\ IsCommand(cli) /\ cli.pc \in {"idle"} \cup Making \cup Syncing
  /\ ConfigOK /\ MarkedOK /\ SyncOK

-----------------------------------------------------------------------------
(* Files and commands.                                                     *)

LEMMA IdleCommand == IsCommand(Idle) /\ Idle.pc = "idle"
  BY DEF Idle, IsCommand

LEMMA UpdatesAreNotKept ==
  ASSUME NEW clone, NEW kept
  PROVE  FindSafeUpdates(clone, kept) \cap kept = {}
  BY DEF FindSafeUpdates, Keeps

\* Ending a command, or going on with less to do, keeps the invariant.
LEMMA CommandEnds ==
  ASSUME IInv, cli' = Idle, UNCHANGED <<app, config, marked>>
  PROVE  IInv'
  BY IdleCommand DEF IInv, ConfigOK, MarkedOK, SyncOK, IsDirectory, IsCommand, Making, Syncing

LEMMA NothingChanges ==
  ASSUME IInv, UNCHANGED <<app, config, cli, marked>>
  PROVE  IInv'
  BY DEF IInv, ConfigOK, MarkedOK, SyncOK, IsDirectory, IsCommand

LEMMA Doing ==
  ASSUME IInv, NEW f, cli' = [cli EXCEPT !.todo = @ \ {f}]
  PROVE  /\ IsCommand(cli') /\ cli'.pc = cli.pc /\ cli'.kept = cli.kept
         /\ cli'.todo = cli.todo \ {f}
  BY DEF IInv, IsCommand

\* One file that is not marked is written, by the command or the user.
LEMMA FileWritten ==
  ASSUME IInv, NEW f, NEW content, IsDirectory(app), f \notin marked,
         app' = [app EXCEPT ![f] = content],
         UNCHANGED <<config, marked>>,
         IsCommand(cli'), cli'.pc = cli.pc, cli'.kept = cli.kept,
         cli'.todo \subseteq cli.todo
  PROVE  IInv'
<1>1. IsDirectory(app') /\ \A g \in Files \ {f} : app'[g] = app[g]
  BY DEF IsDirectory
<1>2. IsDirectory(app)' /\ IsCommand(cli)'
  BY <1>1 DEF IsDirectory, IsCommand
<1>3. ConfigOK'
  BY <1>2 DEF IInv, ConfigOK
<1>4. MarkedOK'
  BY <1>1, <1>2 DEF IInv, MarkedOK
<1>5. SyncOK'
  BY <1>2 DEF IInv, SyncOK
<1> QED  BY <1>2, <1>3, <1>4, <1>5 DEF IInv

-----------------------------------------------------------------------------
(* Init and the steps.                                                     *)

LEMMA InitIInv == Init => IInv
  BY IdleCommand DEF Init, IInv, ConfigOK, MarkedOK, SyncOK, IsDirectory, Making, Syncing

LEMMA CreateKeeps == ASSUME IInv, NEW force, Create(force) PROVE IInv'
<1>1. IsCommand(cli') /\ cli'.pc = "clone"
  BY DEF Create, Idle, IsCommand
<1>2. IsCommand(cli)'
  BY <1>1 DEF IsCommand
<1> QED  BY <1>1, <1>2 DEF Create, IInv, ConfigOK, MarkedOK, SyncOK, Making, Syncing

LEMMA CloneKeeps == ASSUME IInv, CloneDeveloper PROVE IInv'
<1>1. IsCommand(cli') /\ cli'.pc = "replace"
  BY DEF CloneDeveloper, IInv, IsCommand
<1>2. IsCommand(cli)' /\ IsDirectory(app)'
  BY <1>1 DEF CloneDeveloper, IsCommand, IsDirectory
<1>3. marked' = {} /\ config' = None
  BY DEF CloneDeveloper, IInv, ConfigOK, Making
<1> QED  BY <1>1, <1>2, <1>3 DEF IInv, ConfigOK, MarkedOK, SyncOK, Making, Syncing

LEMMA ReplaceKeeps == ASSUME IInv, NEW f, PerformReplacements(f) PROVE IInv'
<1>1. PICK form \in {"raw", "named"} : app' = [app EXCEPT ![f].form = form]
  BY DEF PerformReplacements
<1> DEFINE content == [app[f] EXCEPT !.form = form]
<1>2. app' = [app EXCEPT ![f] = content]
  BY <1>1
<1>3. IsDirectory(app) /\ marked = {}
  BY DEF PerformReplacements, IInv, ConfigOK, Making
<1> HIDE DEF content
<1> QED  BY <1>2, <1>3, Doing, FileWritten DEF PerformReplacements

LEMMA ConfigureKeeps == ASSUME IInv, Configure PROVE IInv'
<1>1. marked = {} /\ IsDirectory(app)
  BY DEF Configure, IInv, ConfigOK, Making
<1>2. IsDirectory(app)' /\ IsCommand(cli)'
  BY <1>1, IdleCommand DEF Configure, IsDirectory, IsCommand
<1> QED  BY <1>1, <1>2, IdleCommand
         DEF Configure, IInv, ConfigOK, MarkedOK, SyncOK, Making, Syncing

LEMMA SyncKeeps == ASSUME IInv, NEW dryRun, NEW force, NEW yes, Sync(dryRun, force, yes) PROVE IInv'
<1>1. IsCommand(cli') /\ cli'.pc = "fetch" /\ cli'.kept = config.kept
  BY DEF Sync, Idle, IsCommand
<1>2. IsDirectory(app)' /\ IsCommand(cli)'
  BY <1>1 DEF Sync, IInv, ConfigOK, IsDirectory, IsCommand
<1>3. ConfigOK' /\ MarkedOK'
  BY <1>1, <1>2 DEF Sync, IInv, ConfigOK, MarkedOK, Making
<1>4. SyncOK'
  BY <1>1, <1>2 DEF Sync, IInv, MarkedOK, SyncOK, Syncing
<1> QED  BY <1>1, <1>2, <1>3, <1>4 DEF IInv, Syncing

LEMMA FetchKeeps == ASSUME IInv, Fetch PROVE IInv'
<1>1. IsCommand(cli') /\ cli'.pc = "analyze" /\ cli'.kept = cli.kept
  BY DEF Fetch, IInv, IsCommand
<1>2. IsDirectory(app)' /\ IsCommand(cli)'
  BY <1>1 DEF Fetch, IInv, SyncOK, Syncing, IsDirectory, IsCommand
<1> QED  BY <1>1, <1>2 DEF Fetch, IInv, ConfigOK, MarkedOK, SyncOK, Making, Syncing

LEMMA AnalyzeKeeps == ASSUME IInv, Analyze PROVE IInv'
<1> DEFINE updates == FindSafeUpdates(temp, cli.kept)
           next == IF cli.yes THEN "apply" ELSE "confirm"
<1>1. cli' = Idle \/ cli' = [cli EXCEPT !.todo = updates, !.pc = next]
  BY DEF Analyze, Cleanup
<1>2. UNCHANGED <<app, config, marked>> /\ cli.pc = "analyze"
  BY DEF Analyze
<1>3. updates \cap cli.kept = {} /\ next \in {"confirm", "apply"}
  BY UpdatesAreNotKept
<1> HIDE DEF updates, next
<1>4. CASE cli' = Idle
  BY <1>2, <1>4, CommandEnds
<1>5. CASE cli' = [cli EXCEPT !.todo = updates, !.pc = next]
  <2>1. /\ IsCommand(cli') /\ cli'.pc = next
        /\ cli'.kept = cli.kept /\ cli'.todo = updates
    BY <1>5 DEF IInv, IsCommand
  <2>2. IsDirectory(app)' /\ IsCommand(cli)'
    BY <1>2, <2>1 DEF IInv, SyncOK, Syncing, IsDirectory, IsCommand
  <2> QED  BY <1>2, <1>3, <2>1, <2>2
           DEF IInv, ConfigOK, MarkedOK, SyncOK, Making, Syncing
<1> QED  BY <1>1, <1>4, <1>5

LEMMA ConfirmKeeps == ASSUME IInv, NEW proceed, Confirm(proceed) PROVE IInv'
<1>1. cli' = Idle \/ cli' = [cli EXCEPT !.pc = "apply"]
  BY DEF Confirm, Cleanup
<1>2. UNCHANGED <<app, config, marked>> /\ cli.pc = "confirm"
  BY DEF Confirm
<1>3. CASE cli' = Idle
  BY <1>2, <1>3, CommandEnds
<1>4. CASE cli' = [cli EXCEPT !.pc = "apply"]
  <2>1. /\ IsCommand(cli') /\ cli'.pc = "apply"
        /\ cli'.kept = cli.kept /\ cli'.todo = cli.todo
    BY <1>4 DEF IInv, IsCommand
  <2>2. IsDirectory(app)' /\ IsCommand(cli)'
    BY <1>2, <2>1 DEF IInv, SyncOK, Syncing, IsDirectory, IsCommand
  <2> QED  BY <1>2, <2>1, <2>2 DEF IInv, ConfigOK, MarkedOK, SyncOK, Making, Syncing
<1> QED  BY <1>1, <1>3, <1>4

LEMMA ApplyKeeps == ASSUME IInv, NEW f, ApplyUpdate(f) PROVE IInv'
<1>1. IsDirectory(app) /\ f \notin marked
  BY DEF ApplyUpdate, IInv, SyncOK, Syncing
<1> DEFINE content == TransformContent(f, temp[f])
<1>2. app' = [app EXCEPT ![f] = content]
  BY DEF ApplyUpdate
<1> HIDE DEF content
<1> QED  BY <1>1, <1>2, Doing, FileWritten DEF ApplyUpdate

LEMMA FailureKeeps == ASSUME IInv, NEW f, UpdateFails(f) PROVE IInv'
<1>1. /\ IsCommand(cli') /\ cli'.pc = cli.pc /\ cli'.kept = cli.kept
      /\ cli'.todo \subseteq cli.todo
  BY Doing DEF UpdateFails
<1>2. IsDirectory(app)' <=> IsDirectory(app)
  BY DEF UpdateFails, IsDirectory
<1>3. IsCommand(cli)'
  BY <1>1 DEF IsCommand
<1> QED  BY <1>1, <1>2, <1>3 DEF UpdateFails, IInv, ConfigOK, MarkedOK, SyncOK

LEMMA FinishKeeps == ASSUME IInv, Finish PROVE IInv'
<1>1. IsDirectory(app) /\ marked \subseteq cli.kept
  BY DEF Finish, IInv, SyncOK, Syncing
<1>2. IsDirectory(app)' /\ IsCommand(cli)' /\ cli'.pc = "idle"
  BY <1>1, IdleCommand DEF Finish, Cleanup, IsDirectory, IsCommand
<1>3. config'.kept = cli.kept /\ config' = [kept |-> config'.kept]
  BY DEF Finish
<1> QED  BY <1>1, <1>2, <1>3 DEF Finish, IInv, ConfigOK, MarkedOK, SyncOK, Making, Syncing

LEMMA EditKeeps == ASSUME IInv, NEW f \in Files, Edit(f) PROVE IInv'
<1>1. PICK content : app' = [app EXCEPT ![f] = content]
  BY DEF Edit
<1>2. CASE IsDirectory(app)
  <2>1. IsCommand(cli') /\ cli' = cli
    BY DEF Edit, IInv, IsCommand
  <2> QED  BY <1>1, <1>2, <2>1, FileWritten DEF Edit
<1>3. CASE ~IsDirectory(app)
  <2>1. marked = {} /\ config = None /\ cli.pc \notin {"replace"} \cup Syncing
    BY <1>3 DEF IInv, ConfigOK, MarkedOK, SyncOK
  <2>2. IsCommand(cli)'
    BY DEF Edit, IInv, IsCommand
  <2> QED  BY <2>1, <2>2 DEF Edit, IInv, ConfigOK, MarkedOK, SyncOK, Making, Syncing
<1> QED  BY <1>2, <1>3

LEMMA KeepKeeps == ASSUME IInv, NEW f \in Files, Keep(f) PROVE IInv'
<1>1. /\ config'.kept = config.kept \cup {f}
      /\ config' = [kept |-> config'.kept]
  BY DEF Keep, IInv, ConfigOK
<1>2. IsDirectory(app) /\ app[f] = Own
  BY DEF Keep, IInv, ConfigOK
<1>3. IsDirectory(app)' /\ IsCommand(cli)'
  BY <1>2 DEF Keep, IInv, IsDirectory, IsCommand
<1>4. MarkedOK'
  BY <1>1, <1>2, <1>3 DEF Keep, IInv, MarkedOK
<1>5. ConfigOK'
  BY <1>1, <1>3 DEF Keep, IInv, ConfigOK
<1>6. SyncOK'
  <2>1. CASE cli = Idle
    BY <2>1, IdleCommand DEF Keep, SyncOK, Syncing
  <2>2. CASE cli # Idle
    BY <1>3, <2>2 DEF Keep, IInv, SyncOK
  <2> QED  BY <2>1, <2>2
<1> QED  BY <1>3, <1>4, <1>5, <1>6 DEF Keep, IInv

LEMMA ReleaseKeeps == ASSUME IInv, NEW f, Release(f) PROVE IInv'
<1>1. /\ config'.kept = config.kept \ {f}
      /\ config' = [kept |-> config'.kept]
  BY DEF Release, IInv, ConfigOK
<1>2. (IsDirectory(app)' <=> IsDirectory(app)) /\ IsCommand(cli)'
  BY DEF Release, IInv, IsDirectory, IsCommand
<1> QED  BY <1>1, <1>2 DEF Release, IInv, ConfigOK, MarkedOK, SyncOK

LEMMA NextKeeps == IInv /\ [Next]_vars => IInv'
<1> SUFFICES ASSUME IInv, [Next]_vars PROVE IInv'
  OBVIOUS
<1>1. CASE Next
  <2>1. CASE \/ \E force \in BOOLEAN : Create(force)
             \/ CloneDeveloper \/ Configure
             \/ \E dryRun, force, yes \in BOOLEAN : Sync(dryRun, force, yes)
             \/ Fetch \/ Analyze \/ Finish
             \/ \E proceed \in BOOLEAN : Confirm(proceed)
    BY <2>1, CreateKeeps, CloneKeeps, ConfigureKeeps, SyncKeeps, FetchKeeps,
       AnalyzeKeeps, FinishKeeps, ConfirmKeeps
  <2>2. CASE Die
    BY <2>2, CommandEnds DEF Die
  <2>3. ASSUME NEW f \in Files,
               PerformReplacements(f) \/ ApplyUpdate(f) \/ UpdateFails(f)
                 \/ Edit(f) \/ Keep(f) \/ Release(f)
        PROVE  IInv'
    BY <2>3, ReplaceKeeps, ApplyKeeps, FailureKeeps, EditKeeps, KeepKeeps, ReleaseKeeps
  <2>4. ASSUME NEW f \in Files, Publish(f) PROVE IInv'
    BY <2>4, NothingChanges DEF Publish
  <2> QED  BY <1>1, <2>1, <2>2, <2>3, <2>4 DEF Next
<1>2. CASE UNCHANGED vars
  BY <1>2, NothingChanges DEF vars
<1> QED  BY <1>1, <1>2

-----------------------------------------------------------------------------

(* What the user marked as his own while no command ran stays his own,     *)
(* whatever create and sync do, and wherever they fail or are killed.      *)
THEOREM MarkedStaysKept == Spec => []MarkedIsKept
<1>1. Spec => []IInv
  BY InitIInv, NextKeeps, PTL DEF Spec
<1>2. IInv => MarkedIsKept
  BY DEF IInv, MarkedOK, MarkedIsKept
<1> QED  BY <1>1, <1>2, PTL

-----------------------------------------------------------------------------
(* Type correctness, of the constants that ConstantsAssumption describes.  *)

Directory == [Files -> Content]
Command == [pc : {"idle"} \cup Making \cup Syncing,
            dryRun : BOOLEAN, force : BOOLEAN, yes : BOOLEAN,
            kept : SUBSET Files, todo : SUBSET Files]

\* Where a command needs an application, a configuration or a clone, there is one.
TypeInv ==
  /\ developer \in Checkout
  /\ app \in Directory \cup {None} /\ config \in Config \cup {None}
  /\ temp \in Checkout \cup {None}
  /\ cli \in Command
  /\ clean \in BOOLEAN /\ marked \subseteq Files
  /\ config # None \/ cli.pc \in {"replace"} \cup Syncing => app \in Directory
  /\ cli.pc \in {"analyze", "confirm", "apply"} => temp \in Checkout

LEMMA Contents ==
  ASSUME ConstantsAssumption
  PROVE  /\ {0, 1} \subseteq Versions /\ Safe \subseteq Files
         /\ Absent \in Content /\ Own \in Content /\ Idle \in Command
         /\ \A f : \A v \in Versions : TransformContent(f, v) \in Content
  BY DEF ConstantsAssumption, Versions, Absent, Own, Idle, Content, Command,
         TransformContent, Making, Syncing

LEMMA InitTyped == ASSUME ConstantsAssumption PROVE Init => TypeInv
<1> SUFFICES ASSUME Init PROVE TypeInv
  OBVIOUS
<1>1. developer \in Checkout
  BY Contents DEF Init, Checkout
<1>2. (app = None /\ config = None) \/ (app \in Directory /\ config \in Config)
  BY <1>1, Contents DEF Init, Checkout, Directory, Content, Config
<1>3. temp = None /\ cli \in Command /\ cli.pc = "idle" /\ clean = FALSE /\ marked = {}
  BY Contents, IdleCommand DEF Init
<1> QED  BY <1>1, <1>2, <1>3 DEF TypeInv, Syncing

\* A command goes on: fields of cli get values of their types.
LEMMA CommandGoesOn ==
  ASSUME TypeInv, NEW pc \in {"idle"} \cup Making \cup Syncing, NEW todo \in SUBSET Files
  PROVE  /\ [cli EXCEPT !.pc = pc] \in Command
         /\ [cli EXCEPT !.todo = todo] \in Command
         /\ [cli EXCEPT !.pc = pc, !.todo = todo] \in Command
         /\ [cli EXCEPT !.pc = pc].pc = pc
         /\ [cli EXCEPT !.todo = todo].pc = cli.pc
         /\ [cli EXCEPT !.pc = pc, !.todo = todo].pc = pc
  BY DEF TypeInv, Command

LEMMA CreateTyped ==
  ASSUME ConstantsAssumption, TypeInv,
         (\E force \in BOOLEAN : Create(force)) \/ CloneDeveloper
           \/ (\E f \in Files : PerformReplacements(f)) \/ Configure
  PROVE  TypeInv'
<1>1. ASSUME NEW force, Create(force) PROVE TypeInv'
  <2>1. [Idle EXCEPT !.pc = "clone"] \in Command /\ [Idle EXCEPT !.pc = "clone"].pc = "clone"
    BY DEF Idle, Command, Making
  <2> QED  BY <1>1, <2>1 DEF Create, TypeInv, Syncing
<1>2. CASE CloneDeveloper
  <2>1. cli' \in Command /\ cli'.pc = "replace"
    <3> DEFINE todo == {f \in Text : developer[f] # 0}
    <3>1. todo \in SUBSET Files
      BY DEF Files
    <3>2. cli' = [cli EXCEPT !.pc = "replace", !.todo = todo]
      BY <1>2 DEF CloneDeveloper
    <3> HIDE DEF todo
    <3> QED  BY <3>1, <3>2, CommandGoesOn DEF Making
  <2>2. app' \in Directory
    BY <1>2 DEF CloneDeveloper, TypeInv, Checkout, Directory, Content
  <2> QED  BY <1>2, <2>1, <2>2 DEF CloneDeveloper, TypeInv, Syncing
<1>3. ASSUME NEW f \in Files, PerformReplacements(f) PROVE TypeInv'
  <2>1. cli' \in Command /\ cli'.pc = "replace"
    <3> DEFINE todo == cli.todo \ {f}
    <3>1. todo \in SUBSET Files
      BY DEF TypeInv, Command
    <3>2. cli' = [cli EXCEPT !.todo = todo] /\ cli.pc = "replace"
      BY <1>3 DEF PerformReplacements
    <3> HIDE DEF todo
    <3> QED  BY <3>1, <3>2, CommandGoesOn DEF Making
  <2>2. app \in Directory
    BY <1>3 DEF PerformReplacements, TypeInv
  <2>3. PICK form \in {"raw", "named"} : app' = [app EXCEPT ![f].form = form]
    BY <1>3 DEF PerformReplacements
  <2>4. [app[f] EXCEPT !.form = form] \in Content
    BY <2>2 DEF Directory, Content
  <2>5. app' \in Directory
    BY <2>2, <2>3, <2>4 DEF Directory
  <2> QED  BY <1>3, <2>1, <2>5 DEF PerformReplacements, TypeInv, Syncing
<1>4. CASE Configure
  <2>1. [kept |-> {}] \in Config
    BY DEF Config
  <2> QED  BY <1>4, <2>1, Contents, IdleCommand DEF Configure, TypeInv, Syncing
<1> QED  BY <1>1, <1>2, <1>3, <1>4

LEMMA UpdatesAreFiles ==
  ASSUME ConstantsAssumption, NEW clone, NEW kept
  PROVE  FindSafeUpdates(clone, kept) \in SUBSET Files
  BY Contents DEF FindSafeUpdates

\* What a command that ends, or a user who changes the configuration, leaves.
LEMMA EndTyped ==
  ASSUME ConstantsAssumption, TypeInv, cli' = Idle,
         temp' \in Checkout \cup {None}, clean' \in BOOLEAN,
         config' \in Config \cup {None}, config' # None => app \in Directory,
         UNCHANGED <<developer, app, marked>>
  PROVE  TypeInv'
  BY Contents, IdleCommand DEF TypeInv, Syncing

LEMMA SyncTyped ==
  ASSUME ConstantsAssumption, TypeInv,
         (\E dryRun, force, yes \in BOOLEAN : Sync(dryRun, force, yes)) \/ Fetch \/ Analyze
           \/ (\E proceed \in BOOLEAN : Confirm(proceed))
  PROVE  TypeInv'
<1>1. ASSUME NEW dryRun \in BOOLEAN, NEW force \in BOOLEAN, NEW yes \in BOOLEAN,
             Sync(dryRun, force, yes)
      PROVE  TypeInv'
  <2> DEFINE started == [Idle EXCEPT !.pc = "fetch", !.dryRun = dryRun, !.force = force,
                                     !.yes = yes, !.kept = config.kept]
  <2>1. config.kept \subseteq Files /\ app \in Directory
    BY <1>1 DEF Sync, TypeInv, Config
  <2>2. started \in Command /\ started.pc = "fetch"
    BY <2>1 DEF Idle, Command, Syncing
  <2>3. cli' = started
    BY <1>1 DEF Sync
  <2> HIDE DEF started
  <2> QED  BY <1>1, <2>1, <2>2, <2>3 DEF Sync, TypeInv, Syncing
<1>2. CASE Fetch
  <2>1. cli' \in Command /\ cli'.pc = "analyze"
    BY <1>2, CommandGoesOn DEF Fetch, Syncing
  <2> QED  BY <1>2, <2>1 DEF Fetch, TypeInv, Syncing
<1>3. CASE Analyze
  <2> DEFINE updates == FindSafeUpdates(temp, cli.kept)
             next == IF cli.yes THEN "apply" ELSE "confirm"
             going == [cli EXCEPT !.pc = next, !.todo = updates]
  <2>1. UNCHANGED <<developer, app, config, marked>> /\ cli.pc = "analyze"
    BY <1>3 DEF Analyze
  <2>2. going \in Command /\ going.pc \in {"apply", "confirm"}
    <3>1. next \in {"apply", "confirm"} /\ updates \in SUBSET Files
      BY UpdatesAreFiles
    <3> HIDE DEF next, updates
    <3> QED  BY <3>1, CommandGoesOn DEF Syncing
  <2>3. \/ cli' = Idle /\ temp' = None /\ clean' \in {clean, FALSE}
        \/ cli' = going /\ UNCHANGED <<temp, clean>>
    BY <1>3 DEF Analyze, Cleanup
  <2> HIDE DEF going
  <2>4. CASE cli' = Idle /\ temp' = None /\ clean' \in {clean, FALSE}
    BY <2>1, <2>4, EndTyped DEF TypeInv
  <2>5. CASE cli' = going /\ UNCHANGED <<temp, clean>>
    BY <2>1, <2>2, <2>5 DEF TypeInv, Syncing
  <2> QED  BY <2>3, <2>4, <2>5
<1>4. ASSUME NEW proceed, Confirm(proceed) PROVE TypeInv'
  <2>1. UNCHANGED <<developer, app, config, marked>> /\ cli.pc = "confirm"
    BY <1>4 DEF Confirm
  <2>2. CASE proceed
    <3>1. cli' \in Command /\ cli'.pc = "apply" /\ UNCHANGED <<temp, clean>>
      BY <1>4, <2>2, CommandGoesOn DEF Confirm, Syncing
    <3> QED  BY <2>1, <3>1 DEF TypeInv, Syncing
  <2>3. CASE ~proceed
    BY <1>4, <2>1, <2>3, EndTyped DEF Confirm, Cleanup, TypeInv
  <2> QED  BY <2>2, <2>3
<1> QED  BY <1>1, <1>2, <1>3, <1>4

LEMMA ApplyTyped ==
  ASSUME ConstantsAssumption, TypeInv,
         (\E f \in Files : ApplyUpdate(f) \/ UpdateFails(f)) \/ Finish \/ Die
  PROVE  TypeInv'
<1>1. ASSUME NEW f \in Files, ApplyUpdate(f) \/ UpdateFails(f) PROVE TypeInv'
  <2>1. cli.pc = "apply" /\ app \in Directory /\ temp \in Checkout
    BY <1>1 DEF ApplyUpdate, UpdateFails, TypeInv, Syncing
  <2>2. cli' \in Command /\ cli'.pc = "apply"
    <3> DEFINE todo == cli.todo \ {f}
    <3>1. todo \in SUBSET Files
      BY DEF TypeInv, Command
    <3>2. cli' = [cli EXCEPT !.todo = todo]
      BY <1>1 DEF ApplyUpdate, UpdateFails
    <3> HIDE DEF todo
    <3> QED  BY <2>1, <3>1, <3>2, CommandGoesOn
  <2>3. app' \in Directory
    BY <1>1, <2>1, Contents DEF ApplyUpdate, UpdateFails, Directory, Checkout
  <2> QED  BY <1>1, <2>1, <2>2, <2>3 DEF ApplyUpdate, UpdateFails, TypeInv, Syncing
<1>2. CASE Finish
  <2>1. [kept |-> cli.kept] \in Config /\ app \in Directory
    BY <1>2 DEF Finish, TypeInv, Command, Config, Syncing
  <2> QED  BY <1>2, <2>1, EndTyped DEF Finish, Cleanup, TypeInv
<1>3. CASE Die
  BY <1>3, EndTyped DEF Die, TypeInv
<1> QED  BY <1>1, <1>2, <1>3

LEMMA UserTyped ==
  ASSUME ConstantsAssumption, TypeInv,
         \E f \in Files : Publish(f) \/ Edit(f) \/ Keep(f) \/ Release(f)
  PROVE  TypeInv'
<1>1. ASSUME NEW f \in Files, Publish(f) PROVE TypeInv'
  <2>1. developer' \in Checkout
    BY <1>1 DEF Publish, TypeInv, Checkout
  <2> QED  BY <1>1, <2>1 DEF Publish, TypeInv
<1>2. ASSUME NEW f \in Files, Edit(f) PROVE TypeInv'
  <2>1. app \in Directory /\ app' \in Directory
    BY <1>2, Contents DEF Edit, TypeInv, Directory
  <2> QED  BY <1>2, <2>1 DEF Edit, TypeInv
<1>3. ASSUME NEW f \in Files, Keep(f) \/ Release(f) PROVE TypeInv'
  <2>1. config # None /\ config' \in Config /\ marked' \subseteq Files
    BY <1>3 DEF Keep, Release, TypeInv, Config
  <2> QED  BY <1>3, <2>1 DEF Keep, Release, TypeInv
<1> QED  BY <1>1, <1>2, <1>3

LEMMA NextTyped == ASSUME ConstantsAssumption PROVE TypeInv /\ [Next]_vars => TypeInv'
<1> SUFFICES ASSUME TypeInv, [Next]_vars PROVE TypeInv'
  OBVIOUS
<1>1. CASE Next
  BY <1>1, CreateTyped, SyncTyped, ApplyTyped, UserTyped DEF Next
<1>2. CASE UNCHANGED vars
  BY <1>2 DEF vars, TypeInv
<1> QED  BY <1>1, <1>2

(* In every reachable state the directory, the configuration, the clone    *)
(* and the command have their types.                                       *)
THEOREM TypeCorrect == ASSUME ConstantsAssumption PROVE Spec => []TypeOK
<1>1. Spec => []TypeInv
  BY InitTyped, NextTyped, PTL DEF Spec
<1>2. TypeInv => TypeOK
  BY DEF TypeInv, TypeOK, Directory, Command, Making, Syncing
<1> QED  BY <1>1, <1>2, PTL

-----------------------------------------------------------------------------
(* What a sync in which nothing failed leaves behind.                      *)

\* f needs no update from a clone, if kept says what the application keeps.
UpToDate(f, clone, kept) == clone[f] # 0 /\ ~Keeps(f, kept) => IsCurrent(f, clone[f])

AllUpToDate(kept) == \A f \in Safe : UpToDate(f, developer, kept)

\* As long as a sync is clean, its clone is the repository, what it keeps is
\* what the configuration says, and what it no longer has to do is done.
CleanOK ==
  clean =>
    /\ cli.pc \in {"idle"} \cup Syncing
    /\ cli.pc # "idle" => cli.kept = config.kept
    /\ cli.pc \in {"analyze", "confirm", "apply"} => temp = developer
    /\ cli.pc \in {"confirm", "apply"} =>
         \A f \in Safe : f \in cli.todo \/ UpToDate(f, developer, cli.kept)
    /\ cli.pc = "idle" => AllUpToDate(config.kept)

\* What sync has written is what it would write.
LEMMA WrittenIsCurrent ==
  ASSUME NEW f, NEW version
  PROVE  AsText(f, TransformContent(f, version)) = TransformContent(f, version)
  BY DEF AsText, TransformContent

LEMMA UpdatesAreWhatIsNotUpToDate ==
  ASSUME NEW clone, NEW kept, NEW f \in Safe
  PROVE  f \in FindSafeUpdates(clone, kept) \/ UpToDate(f, clone, kept)
  BY DEF FindSafeUpdates, UpToDate

LEMMA SyncStaysClean ==
  ASSUME TypeInv, CleanOK,
         (\E dryRun, force, yes \in BOOLEAN : Sync(dryRun, force, yes)) \/ Fetch
  PROVE  CleanOK'
<1>1. ASSUME NEW dryRun, NEW force, NEW yes, Sync(dryRun, force, yes) PROVE CleanOK'
  <2>1. cli'.pc = "fetch" /\ cli'.kept = config.kept /\ config' = config
    BY <1>1 DEF Sync, Idle
  <2> QED  BY <2>1 DEF CleanOK, Syncing
<1>2. CASE Fetch
  <2>1. /\ cli'.pc = "analyze" /\ cli'.kept = cli.kept /\ cli.pc = "fetch"
        /\ temp' = developer /\ UNCHANGED <<developer, config, clean>>
    BY <1>2 DEF Fetch, TypeInv, Command
  <2> QED  BY <2>1 DEF CleanOK, Syncing
<1> QED  BY <1>1, <1>2

LEMMA AnalyzeStaysClean ==
  ASSUME TypeInv, CleanOK, Analyze
  PROVE  CleanOK'
<1> DEFINE updates == FindSafeUpdates(temp, cli.kept)
           next == IF cli.yes THEN "apply" ELSE "confirm"
<1>1. cli.pc = "analyze" /\ UNCHANGED <<developer, app, config>>
  BY DEF Analyze
<1>2. \A f \in Safe : f \in updates \/ UpToDate(f, temp, cli.kept)
  BY UpdatesAreWhatIsNotUpToDate
<1>3. \/ cli' = Idle /\ (clean' => clean /\ updates = {})
      \/ cli' = [cli EXCEPT !.todo = updates, !.pc = next] /\ UNCHANGED <<temp, clean>>
  BY DEF Analyze, Cleanup
<1>4. next \in {"confirm", "apply"}
  OBVIOUS
<1> HIDE DEF updates, next
<1>5. CASE cli' = Idle /\ (clean' => clean /\ updates = {})
  <2> SUFFICES ASSUME clean' PROVE CleanOK'
    BY DEF CleanOK
  <2>1. temp = developer /\ cli.kept = config.kept /\ updates = {}
    BY <1>1, <1>5 DEF CleanOK
  <2>2. \A f \in Safe : UpToDate(f, developer, config.kept)'
    BY <1>1, <1>2, <2>1 DEF UpToDate, IsCurrent
  <2> QED  BY <1>5, <2>2, IdleCommand DEF CleanOK, AllUpToDate
<1>6. CASE /\ cli' = [cli EXCEPT !.todo = updates, !.pc = next]
           /\ UNCHANGED <<temp, clean>>
  <2> SUFFICES ASSUME clean' PROVE CleanOK'
    BY DEF CleanOK
  <2>1. temp = developer /\ cli.kept = config.kept
    BY <1>1, <1>6 DEF CleanOK
  <2>2. cli'.pc = next /\ cli'.todo = updates /\ cli'.kept = cli.kept
    BY <1>6 DEF TypeInv, Command
  <2>3. \A f \in Safe : f \in cli'.todo \/ UpToDate(f, developer, cli.kept)'
    BY <1>1, <1>2, <1>6, <2>1, <2>2 DEF UpToDate, IsCurrent
  <2> QED  BY <1>1, <1>4, <1>6, <2>1, <2>2, <2>3 DEF CleanOK, Syncing
<1> QED  BY <1>3, <1>5, <1>6

LEMMA ConfirmStaysClean ==
  ASSUME TypeInv, CleanOK, NEW proceed, Confirm(proceed)
  PROVE  CleanOK'
<1> SUFFICES ASSUME clean' PROVE CleanOK'
  BY DEF CleanOK
<1>1. /\ cli.pc = "confirm" /\ UNCHANGED <<developer, app, config, temp, clean>>
      /\ cli' = [cli EXCEPT !.pc = "apply"]
  BY DEF Confirm, Cleanup
<1>2. cli'.pc = "apply" /\ cli'.todo = cli.todo /\ cli'.kept = cli.kept
  BY <1>1 DEF TypeInv, Command
<1>3. \A f \in Safe : f \in cli'.todo \/ UpToDate(f, developer, cli.kept)'
  BY <1>1, <1>2 DEF CleanOK, UpToDate, IsCurrent
<1> QED  BY <1>1, <1>2, <1>3 DEF CleanOK, Syncing

LEMMA ApplyStaysClean ==
  ASSUME ConstantsAssumption, TypeInv, CleanOK, NEW f \in Files, ApplyUpdate(f)
  PROVE  CleanOK'
<1> SUFFICES ASSUME clean' PROVE CleanOK'
  BY DEF CleanOK
<1>1. cli.pc = "apply" /\ UNCHANGED <<developer, config, temp, clean>>
  BY DEF ApplyUpdate
<1>2. cli'.pc = "apply" /\ cli'.todo = cli.todo \ {f} /\ cli'.kept = cli.kept
  BY <1>1 DEF ApplyUpdate, TypeInv, Command
<1>3. temp = developer /\ app \in Directory
  BY <1>1 DEF CleanOK, TypeInv, Syncing
<1>4. app'[f] = TransformContent(f, developer[f]) /\ \A g \in Files \ {f} : app'[g] = app[g]
  BY <1>3 DEF ApplyUpdate, Directory
<1>5. UpToDate(f, developer, cli.kept)'
  BY <1>1, <1>2, <1>4, WrittenIsCurrent DEF UpToDate, IsCurrent
<1>6. ASSUME NEW g \in Safe, g # f, UpToDate(g, developer, cli.kept), g \in Files
      PROVE  UpToDate(g, developer, cli.kept)'
  BY <1>1, <1>2, <1>4, <1>6 DEF UpToDate, IsCurrent
<1>7. ASSUME NEW g \in Safe
      PROVE  g \in cli'.todo \/ UpToDate(g, developer, cli.kept)'
  <2>1. CASE g = f
    BY <1>5, <2>1
  <2>2. CASE g # f
    BY <1>1, <1>2, <1>6, <2>2, Contents DEF CleanOK
  <2> QED  BY <2>1, <2>2
<1> QED  BY <1>1, <1>2, <1>3, <1>7 DEF CleanOK, Syncing

LEMMA FinishStaysClean ==
  ASSUME TypeInv, CleanOK, Finish
  PROVE  CleanOK'
<1> SUFFICES ASSUME clean' PROVE CleanOK'
  BY DEF CleanOK
<1>1. /\ cli.pc = "apply" /\ cli.todo = {} /\ UNCHANGED <<developer, app, clean>>
      /\ cli' = Idle /\ config'.kept = cli.kept
  BY DEF Finish, Cleanup
<1>2. \A f \in Safe : UpToDate(f, developer, config.kept)'
  BY <1>1 DEF CleanOK, UpToDate, IsCurrent
<1> QED  BY <1>1, <1>2, IdleCommand DEF CleanOK, AllUpToDate

LEMMA CleanStays ==
  ASSUME ConstantsAssumption
  PROVE  TypeInv /\ CleanOK /\ [Next]_vars => CleanOK'
<1> SUFFICES ASSUME TypeInv, CleanOK, [Next]_vars PROVE CleanOK'
  OBVIOUS
<1>1. CASE Next
  <2>1. CASE \/ \E force \in BOOLEAN : Create(force)
             \/ CloneDeveloper \/ Configure \/ Die
             \/ \E f \in Files : \/ PerformReplacements(f) \/ UpdateFails(f)
                                 \/ Publish(f) \/ Edit(f) \/ Keep(f) \/ Release(f)
    <3>1. ~clean'
      BY <2>1 DEF Create, CloneDeveloper, Configure, Die, PerformReplacements, UpdateFails,
                  Publish, Edit, Keep, Release, CleanOK, Syncing
    <3> QED  BY <3>1 DEF CleanOK
  <2>2. CASE \/ \E dryRun, force, yes \in BOOLEAN : Sync(dryRun, force, yes)
             \/ Fetch \/ Analyze \/ Finish
             \/ \E proceed \in BOOLEAN : Confirm(proceed)
             \/ \E f \in Files : ApplyUpdate(f)
    BY <2>2, SyncStaysClean, AnalyzeStaysClean, FinishStaysClean, ConfirmStaysClean,
       ApplyStaysClean
  <2> QED  BY <1>1, <2>1, <2>2 DEF Next
<1>2. CASE UNCHANGED vars
  BY <1>2 DEF vars, CleanOK, AllUpToDate, UpToDate, IsCurrent
<1> QED  BY <1>1, <1>2

\* diff looks at what is up to date in the same way.
LEMMA UpToDateIsUnchanged ==
  ASSUME NEW kept, AllUpToDate(kept)
  PROVE  /\ FindSafeUpdates(developer, kept) = {}
         /\ \A f \in Safe \ (Dot \cup kept) :
              developer[f] # 0 => DiffStatus(f, developer) = "unchanged"
<1>1. FindSafeUpdates(developer, kept) = {}
  BY DEF AllUpToDate, UpToDate, FindSafeUpdates
<1>2. ASSUME NEW f \in Safe \ (Dot \cup kept), developer[f] # 0
      PROVE  DiffStatus(f, developer) = "unchanged"
  <2>1. IsCurrent(f, developer[f])
    BY <1>2 DEF AllUpToDate, UpToDate, Keeps
  <2>2. app[f] # Absent
    <3> SUFFICES ASSUME app[f] = Absent PROVE FALSE
      OBVIOUS
    <3>1. AsText(f, app[f]).version = 0
      BY DEF AsText, Absent
    <3>2. TransformContent(f, developer[f]).version = developer[f]
      BY DEF TransformContent
    <3> QED  BY <1>2, <2>1, <3>1, <3>2 DEF IsCurrent
  <2> QED  BY <1>2, <2>1, <2>2 DEF DiffStatus
<1> QED  BY <1>1, <1>2

LEMMA InitClean == Init => CleanOK
  BY DEF Init, CleanOK

LEMMA CleanSettles == TypeInv /\ CleanOK => SyncSettles
<1> SUFFICES ASSUME CleanOK, clean, cli = Idle PROVE AllUpToDate(config.kept)
  BY UpToDateIsUnchanged DEF SyncSettles
<1> QED  BY IdleCommand DEF CleanOK

(* After a sync in which nothing failed, and until something changes,      *)
(* there is nothing to sync and diff shows nothing, whatever files there   *)
(* are and whichever the application keeps.                                *)
THEOREM SyncsSettle == ASSUME ConstantsAssumption PROVE Spec => []SyncSettles
<1>1. Spec => []TypeInv
  BY InitTyped, NextTyped, PTL DEF Spec
<1>2. Spec => []CleanOK
  BY <1>1, InitClean, CleanStays, PTL DEF Spec
<1> QED  BY <1>1, <1>2, CleanSettles, PTL
=============================================================================
