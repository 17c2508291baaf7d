--------------------------- MODULE ComponentSync ---------------------------
(***************************************************************************)
(* `ds-components sync` and `ds-components update`: they bring the         *)
(* component directories of a checkout to the versions that its manifest   *)
(* asks for and record in ds-components.lock what they installed.          *)
(*                                                                         *)
(* One invocation runs at a time and may fail or be killed at any step;    *)
(* between invocations the developer edits the manifest or starts over     *)
(* from a clean checkout. The registry is seen through the publications    *)
(* it has accepted: a reader may be shown any of them, stale ones          *)
(* included, which is all that ComponentRegistry promises.                 *)
(***************************************************************************)
EXTENDS FiniteSets, Naturals

CONSTANTS
  Names, Versions, Archives,  \* as in ComponentRegistry
  Range,       \* a version spec to be resolved: "^...", "~..." or "latest"
  Empty,       \* the spec "", and the latest_version of a bare component
  Absent,      \* no manifest entry, no lock entry, no value yet
  Missing,     \* no such directory
  Damaged,     \* a directory that is not what extracting one archive leaves
  MaxPublications, MaxRuns,  \* bounds of the model, not of the code
  Faults       \* what may go wrong on the developer's machine

ASSUME ConstantsAssumption ==
  /\ Range \notin Versions /\ Empty \notin Versions /\ Range # Empty
  /\ Absent \notin Versions \cup {Range, Empty} \cup Archives
  /\ Absent \notin [version : Versions, checksum : Archives]
  /\ Missing \notin Archives /\ Damaged \notin Archives /\ Missing # Damaged
  /\ MaxPublications \in Nat /\ MaxRuns \in Nat
  /\ Faults \subseteq {"kill", "remove", "lockFile"}

VARIABLES
  manifest,  \* version spec of each component in ds-components.json
  lock,      \* ds-components.lock: what is recorded for each component
  tree,      \* what each component's directory under the output holds
  cli,       \* the invocation under way, or the last one
  runs,      \* invocations so far
  history    \* publications the registry accepted so far

vars == <<manifest, lock, tree, cli, runs, history>>

-----------------------------------------------------------------------------

Publication == [name : Names, version : Versions, archive : Archives]

Lock == [version : Versions, checksum : Archives]

NoLocks == [n \in Names |-> Absent]

Specs == Versions \cup {Range, Empty}

Listed == {n \in Names : manifest[n] # Absent}

\* todo: names the loop has not come to; the iteration order is random.
\* locked: the lock file as read; newLock: the one to be written.
\* fresh: history; the names installed into an emptied directory.
\* outcome: what an invocation that exited reported; "warned" is a success
\* that could not write the lock file.
\* clean: the directory was really removed before extraction.
Cli == [pc       : {"exited", "next", "resolve", "check", "getVersion",
                    "download", "remove", "mkdir", "extract", "truncate",
                    "write"},
        cmd      : {"sync", "update"},
        dry      : BOOLEAN,
        outcome  : {"none", "succeeded", "warned", "failed"},
        todo     : SUBSET Names,
        targets  : SUBSET Names,
        locked   : [Names -> Lock \cup {Absent}],
        newLock  : [Names -> Lock \cup {Absent}],
        fresh    : SUBSET Names,
        name     : Names \cup {Absent},
        version  : Versions \cup {Empty, Absent},
        checksum : Archives \cup {Absent},
        clean    : BOOLEAN]

NotRun == [pc |-> "exited", cmd |-> "sync", dry |-> TRUE, outcome |-> "none",
           todo |-> {}, targets |-> {}, locked |-> NoLocks,
           newLock |-> NoLocks, fresh |-> {}, name |-> Absent,
           version |-> Absent, checksum |-> Absent, clean |-> FALSE]

Init ==
  /\ manifest \in [Names -> Specs \cup {Absent}]
  /\ lock = NoLocks
  /\ tree = [n \in Names |-> Missing]
  /\ cli = NotRun
  /\ runs = 0
  /\ history = {}

-----------------------------------------------------------------------------
(* The world outside the invocation.                                       *)

Publish ==
  /\ Cardinality(history) < MaxPublications
  /\ \E p \in Publication : history' = history \cup {p}
  /\ UNCHANGED <<manifest, lock, tree, cli, runs>>

EditManifest ==
  /\ cli.pc = "exited" /\ runs < MaxRuns
  /\ \E n \in Names, spec \in Specs \cup {Absent} :
       manifest' = [manifest EXCEPT ![n] = spec]
  /\ cli' = NotRun
  /\ UNCHANGED <<lock, tree, runs, history>>

\* The lock file is kept under version control, the output directory is not.
CleanCheckout ==
  /\ cli.pc = "exited" /\ runs < MaxRuns
  /\ tree' = [n \in Names |-> Missing]
  /\ cli' = NotRun
  /\ UNCHANGED <<manifest, lock, runs, history>>

-----------------------------------------------------------------------------
(* Start and end of an invocation.                                         *)

Start(cmd, dry, targets) ==
  /\ cli.pc = "exited" /\ runs < MaxRuns
  /\ targets # {}
  /\ cli' = [NotRun EXCEPT !.pc = "next", !.cmd = cmd, !.dry = dry,
                           !.todo = Listed, !.targets = targets,
                           !.locked = lock]
  /\ runs' = runs + 1
  /\ UNCHANGED <<manifest, lock, tree, history>>

\* With nothing listed, or nothing asked for, they return at once.
StartSync == \E dry \in BOOLEAN : Start("sync", dry, Listed)

StartUpdate ==
  \E dry \in BOOLEAN, targets \in SUBSET Listed : Start("update", dry, targets)

\* The invocation goes on as c; nothing else moves.
Continue(c) == cli' = c /\ UNCHANGED <<manifest, lock, tree, runs, history>>

Exited(outcome) == [cli EXCEPT !.pc = "exited", !.outcome = outcome]

\* An error of the network or the disk exits with 1, as a kill does.
Interrupt ==
  /\ "kill" \in Faults
  /\ cli.pc # "exited"
  /\ Continue(Exited("failed"))

-----------------------------------------------------------------------------
(* The loop over the manifest.                                             *)

\* The component at hand is done with; entry is its line in the new lock.
NextWith(entry) ==
  [cli EXCEPT !.pc = "next", !.newLock[cli.name] = entry]

\* MUTANT: update forgets the lock entries of the components not asked for.
DropUntouched(n) == [cli EXCEPT !.todo = @ \ {n}]

\* Components not asked for keep their lock entry.
KeepUntouched(n) ==
  [cli EXCEPT !.todo = @ \ {n}, !.newLock[n] = cli.locked[n]]

PickComponent ==
  /\ cli.pc = "next"
  /\ \E n \in cli.todo :
       LET at == [cli EXCEPT !.todo = @ \ {n}, !.name = n, !.version = Absent,
                             !.checksum = Absent, !.clean = FALSE] IN
       \/ /\ cli.cmd = "sync" /\ manifest[n] \in Versions
          /\ Continue([at EXCEPT !.version = manifest[n], !.pc = "check"])
       \/ /\ cli.cmd = "sync" /\ manifest[n] = Range
          /\ Continue([at EXCEPT !.pc = "resolve"])
       \/ \* version[0] of the empty spec panics
          /\ cli.cmd = "sync" /\ manifest[n] = Empty
          /\ Continue(Exited("failed"))
       \/ /\ cli.cmd = "update" /\ n \in cli.targets
          /\ Continue([at EXCEPT !.pc = "resolve"])
       \/ /\ cli.cmd = "update" /\ n \notin cli.targets
          /\ Continue(KeepUntouched(n))

\* latest_version as the registry, or a lagging replica of it, has it.
Latest(n) == {p.version : p \in {h \in history : h.name = n}} \cup {Empty}

\* MUTANT: update takes an empty latest_version for a version.
AnyVersion(v) == TRUE

\* Only update looks; without a version it warns and drops the lock entry.
Acceptable(v) == cli.cmd = "update" => v # Empty

Resolve ==
  /\ cli.pc = "resolve"
  /\ \E v \in Latest(cli.name) :
       \/ /\ Acceptable(v)
          /\ Continue([cli EXCEPT !.version = v, !.pc = "check"])
       \/ /\ ~Acceptable(v)
          /\ Continue(NextWith(Absent))
       \/ Continue(Exited("failed"))

\* MUTANT: sync takes the lock entry's word without looking at the directory.
TrustLock(n) == TRUE

\* sync looks whether the directory is there, update does not.
DirectoryPresent(n) == tree[n] # Missing

UpToDate ==
  /\ cli.locked[cli.name] # Absent
  /\ cli.locked[cli.name].version = cli.version
  /\ cli.cmd = "sync" => DirectoryPresent(cli.name)

\* MUTANT: --dry-run only suppresses the lock file.
IgnoreDryRun == FALSE

DryRun == cli.dry

Check ==
  /\ cli.pc = "check"
  /\ \/ /\ UpToDate
        /\ Continue(NextWith(cli.locked[cli.name]))
     \/ /\ ~UpToDate /\ DryRun
        /\ Continue(NextWith(Absent))
     \/ /\ ~UpToDate /\ ~DryRun
        /\ Continue([cli EXCEPT !.pc = "getVersion"])

Archived(n, v) ==
  {p.archive : p \in {h \in history : h.name = n /\ h.version = v}}

\* Without a record, or without a version, the request is an error.
GetVersion ==
  /\ cli.pc = "getVersion"
  /\ \/ \E a \in Archived(cli.name, cli.version) :
          Continue([cli EXCEPT !.checksum = a, !.pc = "download"])
     \/ Continue(Exited("failed"))

\* MUTANT: the checksum of the record is not compared with the data.
Unverified(data) == TRUE

Verified(data) == data = cli.checksum

\* The object may be missing, be another than the record's, or arrive broken.
\* From here on checksum is that of the data.
Download ==
  /\ cli.pc = "download"
  /\ \/ \E data \in Archives :
          /\ Verified(data)
          /\ Continue([cli EXCEPT !.checksum = data, !.pc = "remove"])
     \/ Continue(Exited("failed"))

\* os.RemoveAll, whose error is dropped: some of the old tree may survive.
RemoveOld ==
  LET n == cli.name IN
  /\ cli.pc = "remove"
  /\ \/ /\ tree' = [tree EXCEPT ![n] = Missing]
        /\ cli' = [cli EXCEPT !.pc = "mkdir", !.clean = TRUE]
     \/ /\ "remove" \in Faults /\ tree[n] # Missing
        /\ \E rest \in {tree[n], Damaged} : tree' = [tree EXCEPT ![n] = rest]
        /\ cli' = [cli EXCEPT !.pc = "mkdir"]
  /\ UNCHANGED <<manifest, lock, runs, history>>

\* The directory appears, and files in it one by one.
MakeDirectory ==
  /\ cli.pc = "mkdir"
  /\ \/ tree' = [tree EXCEPT ![cli.name] = Damaged]
     \/ ~cli.clean /\ UNCHANGED tree
  /\ cli' = [cli EXCEPT !.pc = "extract"]
  /\ UNCHANGED <<manifest, lock, runs, history>>

\* MUTANT: the entry found in the old lock file is carried over.
CarriedOver(n) ==
  [cli EXCEPT !.pc = "next", !.fresh = IF cli.clean THEN @ \cup {n} ELSE @,
              !.newLock[n] = cli.locked[n]]

Installed(n) ==
  [cli EXCEPT !.pc = "next", !.fresh = IF cli.clean THEN @ \cup {n} ELSE @,
              !.newLock[n] = [version |-> cli.version,
                              checksum |-> cli.checksum]]

\* What survived the removal stays among the extracted files.
Extract ==
  LET n == cli.name IN
  /\ cli.pc = "extract"
  /\ \/ tree' = [tree EXCEPT ![n] = cli.checksum]
     \/ ~cli.clean /\ UNCHANGED tree
  /\ cli' = Installed(n)
  /\ UNCHANGED <<manifest, lock, runs, history>>

-----------------------------------------------------------------------------
(* The lock file is written once, after the loop: truncated, then filled.  *)

EndLoop ==
  /\ cli.pc = "next" /\ cli.todo = {}
  /\ Continue(IF cli.dry THEN Exited("succeeded")
                         ELSE [cli EXCEPT !.pc = "truncate"])

\* A truncated or torn file does not parse and reads as an empty lock. If it
\* cannot be opened at all, a warning is printed and the command succeeds.
TruncateLock ==
  /\ cli.pc = "truncate"
  /\ \/ /\ lock' = NoLocks
        /\ cli' = [cli EXCEPT !.pc = "write"]
     \/ /\ "lockFile" \in Faults
        /\ cli' = Exited("warned")
        /\ UNCHANGED lock
  /\ UNCHANGED <<manifest, tree, runs, history>>

WriteLock ==
  /\ cli.pc = "write"
  /\ \/ /\ lock' = cli.newLock
        /\ cli' = Exited("succeeded")
     \/ /\ "lockFile" \in Faults
        /\ cli' = Exited("warned")
        /\ UNCHANGED lock
  /\ UNCHANGED <<manifest, tree, runs, history>>

Next ==
  \/ Publish \/ EditManifest \/ CleanCheckout
  \/ StartSync \/ StartUpdate \/ Interrupt
  \/ PickComponent \/ Resolve \/ Check \/ GetVersion \/ Download
  \/ RemoveOld \/ MakeDirectory \/ Extract
  \/ EndLoop \/ TruncateLock \/ WriteLock

Spec == Init /\ [][Next]_vars

-----------------------------------------------------------------------------
(* Properties.                                                             *)

Installation == {"download", "remove", "mkdir", "extract"}
Body == {"resolve", "check", "getVersion"} \cup Installation

\* What the invocation holds at each step of the loop body.
WellFormed ==
  /\ cli.pc # "exited" => cli.outcome = "none"
  /\ cli.pc # "exited" /\ cli.cmd = "sync" => cli.targets = Listed
  /\ cli.pc \in Body => cli.name \in (Listed \cap cli.targets) \ cli.todo
  /\ cli.pc \in Body \ {"resolve"} => cli.version # Absent
  /\ cli.pc \in Body \ {"resolve"} /\ cli.cmd = "update" => cli.version # Empty
  /\ cli.pc \in Installation => cli.checksum # Absent /\ cli.version # Empty
  /\ cli.pc \in Installation \cup {"getVersion", "truncate", "write"}
       => ~cli.dry
  /\ cli.pc \in {"truncate", "write"} => cli.todo = {}
  /\ cli.todo \subseteq Listed /\ cli.targets \subseteq Listed

\* Every file, directory and field of the invocation has its type, and the
\* invocation has at each step what the step needs.
TypeOK ==
  /\ manifest \in [Names -> Specs \cup {Absent}]
  /\ lock \in [Names -> Lock \cup {Absent}]
  /\ tree \in [Names -> Archives \cup {Missing, Damaged}]
  /\ cli \in Cli /\ WellFormed
  /\ runs \in 0..MaxRuns
  /\ history \subseteq Publication

(* What the lock file records of a component was published: some archive   *)
(* with that checksum, under that name and version. Interrupted runs, torn *)
(* lock files, stale readers and republished versions do not change that.  *)
LockedWasPublished ==
  \A n \in Names :
    lock[n] # Absent
      => [name |-> n, version |-> lock[n].version,
          archive |-> lock[n].checksum] \in history

Reported(cmd) == cli.cmd = cmd /\ ~cli.dry /\ cli.outcome = "succeeded"

(* When an invocation reports success, each directory that it emptied and  *)
(* filled holds exactly the archive whose checksum the lock file records.  *)
InstalledIsLocked ==
  Reported("sync") \/ Reported("update")
    => \A n \in cli.fresh : lock[n] # Absent /\ tree[n] = lock[n].checksum

(* An update of some components leaves the lock entries of the others that *)
(* the manifest lists as they were.                                        *)
UpdateKeepsOthers ==
  Reported("update")
    => \A n \in Listed \ cli.targets : lock[n] = cli.locked[n]

(* A running invocation only touches the directories of the components it  *)
(* was asked for, and neither them nor the lock file on a dry run.         *)
OnlyTargetsAreTouched ==
  [][cli.pc # "exited"
       => /\ \A n \in Names \ cli.targets : tree'[n] = tree[n]
          /\ cli.dry => UNCHANGED <<lock, tree>>]_vars

(* After a sync that reports success, every component of the manifest has a *)
(* lock entry and a directory, whichever runs were interrupted before. (Of  *)
(* update this is not true: it takes the lock entry's word for it.)         *)
SyncedMeansPresent ==
  Reported("sync")
    => \A n \in Listed : lock[n] # Absent /\ tree[n] # Missing

(* After a sync that reports success, every component of the manifest is   *)
(* installed as the lock file records it.                                  *)
SyncedMeansInstalled ==
  Reported("sync")
    => \A n \in Listed : lock[n] # Absent /\ tree[n] = lock[n].checksum
=============================================================================
