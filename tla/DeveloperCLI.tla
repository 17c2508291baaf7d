---------------------------- MODULE DeveloperCLI ----------------------------
(***************************************************************************)
(* ds-developer: makes an application out of a clone of this repository,   *)
(* and later copies the repository's changes into it, except what the      *)
(* application keeps for itself. A step is what a command does between two *)
(* of its accesses to the disk or the network; it may be killed after any. *)
(*                                                                         *)
(* Text is compared and copied with the application's names put in place   *)
(* of the developer's. Other files pass through the same decoding, which   *)
(* they do not survive.                                                    *)
(***************************************************************************)
EXTENDS Naturals

CONSTANTS
  Text, Dot, Binary,  \* files with names in them; those whose path has a dot first
  Safe,               \* files that match SAFE_UPDATE_PATTERNS
  None,
  Options,            \* bound of the model: <<--dry-run, --force, --yes>> of a sync
  MaxVersion          \* bound of the model: versions of a file

Files == Text \cup Dot \cup Binary

SyncOptions == BOOLEAN \X BOOLEAN \X BOOLEAN

ConstantsAssumption ==
  /\ Safe \subseteq Files /\ MaxVersion \in Nat \ {0}
  /\ Options \subseteq SyncOptions

VARIABLES
  developer,  \* the version of each file in the repository; 0: there is none
  app,        \* the application's directory, or None
  config,     \* .ds-developer.json, or None
  temp,       \* .developer-sync-temp, or None
  cli,        \* the command under way
  clean,      \* nothing but the sync changed anything since it began
  marked      \* what was kept since before any sync under way, for the properties

vars == <<developer, app, config, temp, cli, clean, marked>>

Versions == 0..MaxVersion
Checkout == [Files -> Versions]

\* "raw": as in the repository. "own": the user's. kept: files that
\* customizedFiles lists or that skipPatterns match.
Content == [version : Versions, form : {"raw", "named", "garbled", "own"}]
Config == [kept : SUBSET Files]
Absent == [version |-> 0, form |-> "raw"]
Own == [version |-> 0, form |-> "own"]

Idle == [pc |-> "idle", dryRun |-> FALSE, force |-> FALSE, yes |-> FALSE,
         kept |-> {}, todo |-> {}]

-----------------------------------------------------------------------------
(* Files.                                                                  *)

\* What a file of the repository becomes when sync writes it.
TransformContent(f, version) ==
  [version |-> version, form |-> IF f \in Binary THEN "garbled" ELSE "named"]

\* What reading a file as text makes of it.
AsText(f, content) ==
  IF f \in Binary /\ content.form = "raw" /\ content.version # 0
  THEN [content EXCEPT !.form = "garbled"] ELSE content

\* MUTANT: the names are not put in place before the comparison.
Untranslated(f, version) == AsText(f, app[f]) = [version |-> version, form |-> "raw"]

IsCurrent(f, version) == AsText(f, app[f]) = TransformContent(f, version)

\* MUTANT: sync does not look at what the application keeps.
KeepsNothing(f, kept) == FALSE

\* shouldNeverSync and customizedFiles.
Keeps(f, kept) == f \in kept

FindSafeUpdates(clone, kept) ==
  {f \in Safe : clone[f] # 0 /\ ~Keeps(f, kept) /\ ~IsCurrent(f, clone[f])}

\* What diff says of a file; it does not see files whose path begins with a dot.
DiffStatus(f, clone) ==
  CASE f \in Dot -> "unseen"
    [] app[f] = Absent -> IF clone[f] = 0 THEN "unseen" ELSE "removed"
    [] clone[f] = 0 -> "added"
    [] OTHER -> IF IsCurrent(f, clone[f]) THEN "unchanged" ELSE "modified"

-----------------------------------------------------------------------------
(* create.                                                                 *)

\* --force removes the directory, before there is anything to replace it.
Create(force) ==
  /\ cli = Idle /\ app # None => force
  /\ app' = None /\ config' = None /\ temp' = None
  /\ cli' = [Idle EXCEPT !.pc = "clone"]
  /\ clean' = FALSE /\ marked' = {}
  /\ UNCHANGED developer

CloneDeveloper ==
  /\ cli.pc = "clone"
  /\ app' = [f \in Files |-> [version |-> developer[f], form |-> "raw"]]
  /\ cli' = [cli EXCEPT !.pc = "replace", !.todo = {f \in Text : developer[f] # 0}]
  /\ UNCHANGED <<developer, config, temp, clean, marked>>

\* A file that cannot be read or written is skipped.
PerformReplacements(f) ==
  /\ cli.pc = "replace" /\ f \in cli.todo
  /\ \E form \in {"raw", "named"} : app' = [app EXCEPT ![f].form = form]
  /\ cli' = [cli EXCEPT !.todo = @ \ {f}]
  /\ UNCHANGED <<developer, config, temp, clean, marked>>

Configure ==
  /\ cli.pc = "replace" /\ cli.todo = {}
  /\ config' = [kept |-> {}]
  /\ cli' = Idle
  /\ UNCHANGED <<developer, app, temp, clean, marked>>

-----------------------------------------------------------------------------
(* sync.                                                                   *)

\* Without a configuration it exits. What it read counts until it ends. The
\* option force is accepted, and never looked at.
Sync(dryRun, force, yes) ==
  /\ <<dryRun, force, yes>> \in Options
  /\ cli = Idle /\ config # None
  /\ cli' = [Idle EXCEPT !.pc = "fetch", !.dryRun = dryRun, !.force = force,
                         !.yes = yes, !.kept = config.kept]
  /\ temp' = None
  /\ clean' = TRUE
  /\ UNCHANGED <<developer, app, config, marked>>

Fetch ==
  /\ cli.pc = "fetch"
  /\ temp' = developer
  /\ cli' = [cli EXCEPT !.pc = "analyze"]
  /\ UNCHANGED <<developer, app, config, clean, marked>>

\* The command is over; what it fetched is removed.
Cleanup(ended) == cli' = Idle /\ temp' = None /\ clean' = ended

\* Nothing to update, or only to be shown: the end.
Analyze ==
  /\ cli.pc = "analyze"
  /\ LET updates == FindSafeUpdates(temp, cli.kept) IN
       IF updates = {} THEN Cleanup(clean)
       ELSE IF cli.dryRun THEN Cleanup(FALSE)
       ELSE /\ cli' = [cli EXCEPT !.todo = updates,
                                  !.pc = IF cli.yes THEN "apply" ELSE "confirm"]
            /\ UNCHANGED <<temp, clean>>
  /\ UNCHANGED <<developer, app, config, marked>>

Confirm(proceed) ==
  /\ cli.pc = "confirm"
  /\ IF proceed THEN cli' = [cli EXCEPT !.pc = "apply"] /\ UNCHANGED <<temp, clean>>
                ELSE Cleanup(FALSE)
  /\ UNCHANGED <<developer, app, config, marked>>

ApplyUpdate(f) ==
  /\ cli.pc = "apply" /\ f \in cli.todo
  /\ app' = [app EXCEPT ![f] = TransformContent(f, temp[f])]
  /\ cli' = [cli EXCEPT !.todo = @ \ {f}]
  /\ UNCHANGED <<developer, config, temp, clean, marked>>

\* Counted, and that is all: the sync is complete nevertheless.
UpdateFails(f) ==
  /\ cli.pc = "apply" /\ f \in cli.todo
  /\ cli' = [cli EXCEPT !.todo = @ \ {f}]
  /\ clean' = FALSE
  /\ UNCHANGED <<developer, app, config, temp, marked>>

\* lastSyncAt is set in the configuration as it was read, and all is written.
Finish ==
  /\ cli.pc = "apply" /\ cli.todo = {}
  /\ config' = [kept |-> cli.kept]
  /\ Cleanup(clean)
  /\ UNCHANGED <<developer, app, marked>>

\* A command is killed, or fails where nothing is caught.
Die ==
  /\ cli # Idle
  /\ cli' = Idle /\ clean' = FALSE
  /\ \/ UNCHANGED temp
     \/ cli.pc = "fetch" /\ temp' = None
  /\ UNCHANGED <<developer, app, config, marked>>

-----------------------------------------------------------------------------
(* The repository and the user, who does not wait for a command to end.    *)

Publish(f) ==
  /\ \E version \in {0, developer[f] + 1} :
       /\ version \in Versions /\ version # developer[f]
       /\ developer' = [developer EXCEPT ![f] = version]
  /\ clean' = FALSE
  /\ UNCHANGED <<app, config, temp, cli, marked>>

\* Not what is marked: the properties look at that only.
Edit(f) ==
  /\ app # None /\ f \notin marked
  /\ \E content \in {Own, Absent} : app' = [app EXCEPT ![f] = content]
  /\ clean' = FALSE
  /\ UNCHANGED <<developer, config, temp, cli, marked>>

Keep(f) ==
  /\ config # None /\ app # None /\ f \notin config.kept /\ app[f] = Own
  /\ config' = [config EXCEPT !.kept = @ \cup {f}]
  /\ marked' = IF cli = Idle THEN marked \cup {f} ELSE marked
  /\ clean' = FALSE
  /\ UNCHANGED <<developer, app, temp, cli>>

Release(f) ==
  /\ config # None /\ f \in config.kept
  /\ config' = [config EXCEPT !.kept = @ \ {f}]
  /\ marked' = marked \ {f}
  /\ clean' = FALSE
  /\ UNCHANGED <<developer, app, temp, cli>>

Init ==
  /\ developer \in [Files -> {0, 1}]
  /\ \/ app = None /\ config = None
     \/ /\ app = [f \in Files |->
                   IF developer[f] = 0 THEN Absent
                   ELSE [version |-> developer[f],
                         form |-> IF f \in Text THEN "named" ELSE "raw"]]
        /\ config = [kept |-> {}]
  /\ temp = None /\ cli = Idle
  /\ clean = FALSE /\ marked = {}

Next ==
  \/ \E force \in BOOLEAN : Create(force)
  \/ CloneDeveloper \/ Configure
  \/ \E dryRun, force, yes \in BOOLEAN : Sync(dryRun, force, yes)
  \/ Fetch \/ Analyze \/ Finish \/ Die
  \/ \E proceed \in BOOLEAN : Confirm(proceed)
  \/ \E f \in Files : PerformReplacements(f) \/ ApplyUpdate(f) \/ UpdateFails(f)
                        \/ Publish(f) \/ Edit(f) \/ Keep(f) \/ Release(f)

Spec == Init /\ [][Next]_vars

-----------------------------------------------------------------------------
(* Properties.                                                             *)

(* Directory, configuration, clone and command have their types.           *)
TypeOK ==
  /\ developer \in Checkout
  /\ app \in [Files -> Content] \cup {None}
  /\ config \in Config \cup {None}
  /\ temp \in Checkout \cup {None}
  /\ cli \in [pc : {"idle", "clone", "replace", "fetch", "analyze", "confirm", "apply"},
              dryRun : BOOLEAN, force : BOOLEAN, yes : BOOLEAN,
              kept : SUBSET Files, todo : SUBSET Files]
  /\ clean \in BOOLEAN /\ marked \subseteq Files

(* What the user made his own and marked as customized while no command    *)
(* ran stays as it is, through syncs that fail, are killed or overlap with *)
(* other edits of the same configuration, until it is marked no longer.    *)
(* sync --force changes it no more than any other sync, which is not what  *)
(* the documents say of --force: see ForcedSyncUpdatesAll.                 *)
MarkedIsKept == \A f \in marked : app # None => app[f] = Own

(* After a sync in which nothing failed, and before anything changes, diff *)
(* finds no difference in the files that sync is for: create, sync and     *)
(* diff agree on what a file of the repository looks like in an            *)
(* application, and another sync would have nothing to do.                 *)
SyncSettles ==
  clean /\ cli = Idle =>
    /\ FindSafeUpdates(developer, config.kept) = {}
    /\ \A f \in Safe \ (Dot \cup config.kept) :
         developer[f] # 0 => DiffStatus(f, developer) = "unchanged"

(* "Force update even if files are customized" (README.md:60, sync.ts:349):*)
(* when a sync with --force has ended in which nothing failed, every file  *)
(* that sync is for is the repository's, customized or not. It is not.     *)
ForcedSyncUpdatesAll ==
  [][ cli.force /\ ~cli.dryRun /\ cli' = Idle /\ clean' =>
        \A f \in Safe : developer[f] # 0 => IsCurrent(f, developer[f])' ]_vars
=============================================================================
