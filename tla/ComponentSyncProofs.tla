------------------------ MODULE ComponentSyncProofs ------------------------
(* Theorems about ComponentSync, for any manifest, any number of runs and   *)
(* publications, and any of the faults.                                     *)
EXTENDS ComponentSync, TLAPS

Loop == PickComponent \/ Resolve \/ Check \/ GetVersion \/ Download

Disk == RemoveOld \/ MakeDirectory \/ Extract

LockFileSteps == EndLoop \/ TruncateLock \/ WriteLock

Outside == Publish \/ EditManifest \/ CleanCheckout

Starts == StartSync \/ StartUpdate

-----------------------------------------------------------------------------
(* Type correctness.                                                       *)

LEMMA NotRunOK == NotRun \in Cli
  BY DEF NotRun, Cli, NoLocks

LEMMA ExitOK ==
  ASSUME NEW outcome \in {"succeeded", "warned", "failed"}, cli \in Cli
  PROVE  /\ Exited(outcome) \in Cli
         /\ Exited(outcome).pc = "exited"
         /\ Exited(outcome).outcome = outcome
         /\ Exited(outcome).todo = cli.todo
         /\ Exited(outcome).targets = cli.targets
         /\ Exited(outcome).locked = cli.locked
         /\ Exited(outcome).newLock = cli.newLock
         /\ Exited(outcome).fresh = cli.fresh
         /\ Exited(outcome).dry = cli.dry
  BY DEF Exited, Cli

LEMMA NextOK ==
  ASSUME NEW entry \in Lock \cup {Absent}, cli \in Cli, cli.name \in Names
  PROVE  /\ NextWith(entry) \in Cli
         /\ NextWith(entry).pc = "next"
         /\ NextWith(entry).outcome = cli.outcome
         /\ NextWith(entry).todo = cli.todo
         /\ NextWith(entry).targets = cli.targets
         /\ NextWith(entry).locked = cli.locked
         /\ NextWith(entry).newLock = [cli.newLock EXCEPT ![cli.name] = entry]
         /\ NextWith(entry).fresh = cli.fresh
         /\ NextWith(entry).dry = cli.dry
  BY DEF NextWith, Cli

LEMMA InitTypeOK == Init => TypeOK
<1> SUFFICES ASSUME Init PROVE TypeOK
  OBVIOUS
<1>1. cli \in Cli
  BY NotRunOK DEF Init
<1>2. WellFormed
  BY DEF Init, WellFormed, NotRun, Body, Installation
<1>3. QED
  BY <1>1, <1>2, ConstantsAssumption DEF Init, TypeOK, NoLocks

LEMMA OutsideTypeOK == TypeOK /\ Outside => TypeOK'
<1> SUFFICES ASSUME TypeOK, Outside PROVE TypeOK'
  OBVIOUS
<1>1. CASE Publish
  BY <1>1 DEF Publish, TypeOK, WellFormed, Listed
<1>2. ASSUME cli' = NotRun PROVE cli' \in Cli /\ WellFormed'
  BY <1>2, NotRunOK DEF NotRun, WellFormed, Body, Installation
<1>3. CASE EditManifest
  BY <1>2, <1>3 DEF EditManifest, TypeOK
<1>4. CASE CleanCheckout
  BY <1>2, <1>4 DEF CleanCheckout, TypeOK
<1>5. QED
  BY <1>1, <1>3, <1>4 DEF Outside

LEMMA StartsTypeOK == TypeOK /\ Starts => TypeOK'
<1> SUFFICES ASSUME TypeOK, NEW cmd \in {"sync", "update"},
                    NEW dry \in BOOLEAN, NEW targets \in SUBSET Listed,
                    cmd = "sync" => targets = Listed,
                    Start(cmd, dry, targets)
             PROVE  TypeOK'
  BY DEF Starts, StartSync, StartUpdate
<1>1. cli' \in Cli
  BY DEF Start, NotRun, Cli, TypeOK, NoLocks, Listed
<1>2. WellFormed'
  BY DEF Start, NotRun, WellFormed, Body, Installation, Listed
<1>3. QED
  BY <1>1, <1>2, ConstantsAssumption DEF Start, TypeOK

LEMMA ContinueTypeOK ==
  ASSUME TypeOK, NEW c \in Cli, Continue(c), WellFormed'
  PROVE  TypeOK'
BY DEF Continue, TypeOK

LEMMA ExitTypeOK ==
  ASSUME TypeOK, NEW outcome \in {"succeeded", "warned", "failed"},
         cli' = Exited(outcome), UNCHANGED manifest
  PROVE  cli' \in Cli /\ WellFormed'
<1>1. cli' \in Cli /\ cli'.pc = "exited" /\ cli'.todo = cli.todo
      /\ cli'.targets = cli.targets /\ Listed' = Listed
  BY ExitOK DEF TypeOK, Listed
<1>2. QED
  BY <1>1 DEF TypeOK, WellFormed, Body, Installation

LEMMA PickTypeOK == TypeOK /\ PickComponent => TypeOK'
<1> SUFFICES ASSUME TypeOK, cli.pc = "next", NEW n \in cli.todo,
                    PickComponent
             PROVE  TypeOK'
  BY DEF PickComponent
<1>1. cli \in Cli /\ n \in Names /\ n \in Listed
      /\ (cli.cmd = "sync" => cli.targets = Listed)
  BY DEF TypeOK, WellFormed, Listed, Cli
<1> DEFINE at(m) == [cli EXCEPT !.todo = @ \ {m}, !.name = m,
                     !.version = Absent, !.checksum = Absent, !.clean = FALSE]
<1>2. ASSUME NEW m \in cli.todo, NEW v \in Versions,
             Continue([at(m) EXCEPT !.version = v, !.pc = "check"]),
             m \in cli.targets
      PROVE  TypeOK'
  <2>1. m \in Names /\ m \in Listed /\ Listed' = Listed
    BY <1>2 DEF TypeOK, WellFormed, Listed, Cli, Continue
  <2>2. cli' \in Cli /\ cli'.pc = "check" /\ cli'.name = m /\ cli'.version = v
        /\ cli'.todo = cli.todo \ {m} /\ cli'.targets = cli.targets
        /\ cli'.outcome = cli.outcome /\ cli'.cmd = cli.cmd
    BY <1>1, <1>2, <2>1 DEF Continue, Cli
  <2>3. WellFormed'
    BY <1>2, <2>1, <2>2, ConstantsAssumption DEF TypeOK, WellFormed, Body,
       Installation
  <2>4. QED
    BY <1>2, <2>2, <2>3 DEF TypeOK, Continue
<1>3. ASSUME NEW m \in cli.todo, Continue([at(m) EXCEPT !.pc = "resolve"]),
             m \in cli.targets
      PROVE  TypeOK'
  <2>1. m \in Names /\ m \in Listed /\ Listed' = Listed
    BY <1>3 DEF TypeOK, WellFormed, Listed, Cli, Continue
  <2>2. cli' \in Cli /\ cli'.pc = "resolve" /\ cli'.name = m
        /\ cli'.todo = cli.todo \ {m} /\ cli'.targets = cli.targets
        /\ cli'.outcome = cli.outcome /\ cli'.cmd = cli.cmd
    BY <1>1, <1>3, <2>1 DEF Continue, Cli
  <2>3. WellFormed'
    BY <1>3, <2>1, <2>2 DEF TypeOK, WellFormed, Body, Installation
  <2>4. QED
    BY <1>3, <2>2, <2>3 DEF TypeOK, Continue
<1>4. ASSUME Continue(Exited("failed")) PROVE TypeOK'
  BY <1>4, ExitTypeOK DEF Continue, TypeOK
<1>5. ASSUME NEW m \in cli.todo, Continue(KeepUntouched(m))
      PROVE  TypeOK'
  <2>1. m \in Names /\ Listed' = Listed
    BY <1>5 DEF TypeOK, Cli, Continue, Listed
  <2>2. cli' \in Cli /\ cli'.pc = "next"
        /\ cli'.todo = cli.todo \ {m} /\ cli'.targets = cli.targets
        /\ cli'.outcome = cli.outcome /\ cli'.cmd = cli.cmd
    BY <1>1, <1>5, <2>1 DEF Continue, KeepUntouched, Cli
  <2>3. WellFormed'
    BY <2>1, <2>2 DEF TypeOK, WellFormed, Body, Installation
  <2>4. QED
    BY <1>5, <2>2, <2>3 DEF TypeOK, Continue
<1>6. QED
  <2>1. \A m \in cli.todo : cli.cmd = "sync" => m \in cli.targets
    BY DEF TypeOK, WellFormed
  <2>2. QED
    BY <1>2, <1>3, <1>4, <1>5, <2>1 DEF PickComponent

\* The steps of the loop body that only the invocation sees.
LEMMA QuietTypeOK ==
  TypeOK /\ (Interrupt \/ Resolve \/ Check \/ GetVersion \/ Download) => TypeOK'
<1> SUFFICES ASSUME TypeOK,
                    Interrupt \/ Resolve \/ Check \/ GetVersion \/ Download
             PROVE  TypeOK'
  OBVIOUS
<1>1. cli \in Cli /\ WellFormed
  BY DEF TypeOK
<1>2. ASSUME Continue(Exited("failed")) PROVE TypeOK'
  BY <1>2, ExitTypeOK DEF Continue, TypeOK
<1>3. ASSUME NEW entry \in Lock \cup {Absent}, Continue(NextWith(entry)),
             cli.pc \in Body
      PROVE  TypeOK'
  <2>1. cli.name \in Names /\ Listed' = Listed
    BY <1>1, <1>3 DEF WellFormed, Listed, Continue
  <2>2. cli' \in Cli /\ cli'.pc = "next" /\ cli'.outcome = cli.outcome
        /\ cli'.todo = cli.todo /\ cli'.targets = cli.targets
        /\ cli'.cmd = cli.cmd
    BY <1>1, <1>3, <2>1, NextOK DEF Continue, NextWith, Cli
  <2>3. WellFormed'
    BY <1>1, <1>3, <2>1, <2>2 DEF WellFormed, Body, Installation
  <2>4. QED
    BY <1>3, <2>2, <2>3, ContinueTypeOK DEF Continue
<1>4. CASE Interrupt
  BY <1>2, <1>4 DEF Interrupt
<1>5. CASE Resolve
  <2>1. ASSUME NEW v \in Latest(cli.name), Acceptable(v),
               Continue([cli EXCEPT !.version = v, !.pc = "check"])
        PROVE  TypeOK'
    <3>1. v \in Versions \cup {Empty}
      BY DEF Latest, TypeOK, Publication
    <3>2. cli' \in Cli /\ cli'.pc = "check" /\ cli'.version = v
          /\ cli'.outcome = cli.outcome /\ cli'.name = cli.name
          /\ cli'.todo = cli.todo /\ cli'.targets = cli.targets
          /\ cli'.cmd = cli.cmd /\ Listed' = Listed
      BY <1>1, <2>1, <3>1 DEF Continue, Cli, Listed
    <3>3. WellFormed'
      BY <1>1, <1>5, <2>1, <3>1, <3>2, ConstantsAssumption
         DEF WellFormed, Body, Installation, Resolve, Acceptable
    <3>4. QED
      BY <2>1, <3>2, <3>3, ContinueTypeOK DEF Continue
  <2>2. QED
    BY <1>2, <1>3, <1>5, <2>1 DEF Resolve, Body
<1>6. CASE Check
  <2>1. cli.locked[cli.name] \in Lock \cup {Absent}
    BY <1>1, <1>6 DEF Check, WellFormed, Body, Cli, Listed
  <2>2. ASSUME Continue([cli EXCEPT !.pc = "getVersion"]), ~DryRun
        PROVE  TypeOK'
    <3>1. cli' \in Cli /\ cli'.pc = "getVersion" /\ cli'.version = cli.version
          /\ cli'.outcome = cli.outcome /\ cli'.name = cli.name
          /\ cli'.todo = cli.todo /\ cli'.targets = cli.targets
          /\ cli'.cmd = cli.cmd /\ cli'.dry = cli.dry /\ Listed' = Listed
      BY <1>1, <2>2 DEF Continue, Cli, Listed
    <3>2. WellFormed'
      BY <1>1, <1>6, <2>2, <3>1 DEF WellFormed, Body, Installation, Check,
         DryRun
    <3>3. QED
      BY <2>2, <3>1, <3>2, ContinueTypeOK DEF Continue
  <2>3. QED
    BY <1>3, <1>6, <2>1, <2>2 DEF Check, Body
<1>7. CASE GetVersion
  <2>1. ASSUME NEW a \in Archived(cli.name, cli.version),
               Continue([cli EXCEPT !.checksum = a, !.pc = "download"])
        PROVE  TypeOK'
    <3>1. a \in Archives /\ cli.version \in Versions
      BY DEF Archived, TypeOK, Publication
    <3>2. cli' \in Cli /\ cli'.pc = "download" /\ cli'.version = cli.version
          /\ cli'.outcome = cli.outcome /\ cli'.name = cli.name
          /\ cli'.todo = cli.todo /\ cli'.targets = cli.targets
          /\ cli'.cmd = cli.cmd /\ cli'.dry = cli.dry /\ Listed' = Listed
          /\ cli'.checksum = a
      BY <1>1, <2>1, <3>1 DEF Continue, Cli, Listed
    <3>3. WellFormed'
      BY <1>1, <1>7, <3>1, <3>2, ConstantsAssumption
         DEF WellFormed, Body, Installation, GetVersion
    <3>4. QED
      BY <2>1, <3>2, <3>3, ContinueTypeOK DEF Continue
  <2>2. QED
    BY <1>2, <1>7, <2>1 DEF GetVersion
<1>8. CASE Download
  <2>1. ASSUME NEW data \in Archives,
               Continue([cli EXCEPT !.checksum = data, !.pc = "remove"])
        PROVE  TypeOK'
    <3>1. cli' \in Cli /\ cli'.pc = "remove" /\ cli'.version = cli.version
          /\ cli'.outcome = cli.outcome /\ cli'.name = cli.name
          /\ cli'.todo = cli.todo /\ cli'.targets = cli.targets
          /\ cli'.cmd = cli.cmd /\ cli'.dry = cli.dry /\ Listed' = Listed
          /\ cli'.checksum = data
      BY <1>1, <2>1 DEF Continue, Cli, Listed
    <3>2. WellFormed'
      BY <1>1, <1>8, <3>1, ConstantsAssumption
         DEF WellFormed, Body, Installation, Download
    <3>3. QED
      BY <2>1, <3>1, <3>2, ContinueTypeOK DEF Continue
  <2>2. QED
    BY <1>2, <1>8, <2>1 DEF Download
<1>9. QED
  BY <1>4, <1>5, <1>6, <1>7, <1>8

\* The steps that change the component directory.
LEMMA DiskTypeOK == TypeOK /\ Disk => TypeOK'
<1> SUFFICES ASSUME TypeOK, Disk PROVE TypeOK'
  OBVIOUS
<1>1. cli \in Cli /\ WellFormed /\ cli.pc \in Installation /\ cli.name \in Names
      /\ cli.checksum \in Archives /\ cli.version \in Versions /\ Listed' = Listed
  BY DEF TypeOK, Disk, RemoveOld, MakeDirectory, Extract, WellFormed, Body,
         Installation, Listed, Cli
<1>2. tree' \in [Names -> Archives \cup {Missing, Damaged}]
  BY <1>1 DEF TypeOK, Disk, RemoveOld, MakeDirectory, Extract
<1>3. CASE RemoveOld \/ MakeDirectory
  <2>1. cli' \in Cli /\ cli'.pc \in {"mkdir", "extract"}
        /\ cli'.version = cli.version
        /\ cli'.outcome = cli.outcome /\ cli'.name = cli.name
        /\ cli'.todo = cli.todo /\ cli'.targets = cli.targets
        /\ cli'.cmd = cli.cmd /\ cli'.dry = cli.dry
        /\ cli'.checksum = cli.checksum
    BY <1>1, <1>3 DEF RemoveOld, MakeDirectory, Cli
  <2>2. WellFormed'
    BY <1>1, <2>1, ConstantsAssumption DEF WellFormed, Body, Installation
  <2>3. QED
    BY <1>2, <1>3, <2>1, <2>2 DEF RemoveOld, MakeDirectory, TypeOK
<1>4. CASE Extract
  <2>1. cli' \in Cli /\ cli'.pc = "next" /\ cli'.outcome = cli.outcome
        /\ cli'.todo = cli.todo /\ cli'.targets = cli.targets
        /\ cli'.cmd = cli.cmd
    BY <1>1, <1>4 DEF Extract, Installed, Cli, Lock
  <2>2. WellFormed'
    BY <1>1, <2>1 DEF WellFormed, Body, Installation
  <2>3. QED
    BY <1>2, <1>4, <2>1, <2>2 DEF Extract, TypeOK
<1>5. QED
  BY <1>3, <1>4 DEF Disk

LEMMA LockFileTypeOK == TypeOK /\ LockFileSteps => TypeOK'
<1> SUFFICES ASSUME TypeOK, LockFileSteps PROVE TypeOK'
  OBVIOUS
<1>1. cli \in Cli /\ WellFormed
  BY DEF TypeOK
<1>2. lock' \in [Names -> Lock \cup {Absent}]
  BY <1>1 DEF LockFileSteps, EndLoop, TruncateLock, WriteLock, Continue, TypeOK,
         NoLocks, Cli
<1>3. ASSUME NEW outcome \in {"succeeded", "warned"}, cli' = Exited(outcome)
      PROVE  TypeOK'
  <2>1. UNCHANGED <<manifest, tree, runs, history>>
    BY DEF LockFileSteps, EndLoop, TruncateLock, WriteLock, Continue
  <2>2. QED
    BY <1>2, <1>3, <2>1, ExitTypeOK DEF TypeOK
<1>4. ASSUME NEW pc \in {"truncate", "write"}, cli' = [cli EXCEPT !.pc = pc],
             cli.todo = {}, ~cli.dry, cli.pc # "exited"
      PROVE  TypeOK'
  <2>1. UNCHANGED <<manifest, tree, runs, history>>
    BY DEF LockFileSteps, EndLoop, TruncateLock, WriteLock, Continue
  <2>2. cli' \in Cli /\ cli'.pc = pc /\ cli'.outcome = cli.outcome
        /\ cli'.todo = cli.todo /\ cli'.targets = cli.targets
        /\ cli'.cmd = cli.cmd /\ cli'.dry = cli.dry /\ Listed' = Listed
    BY <1>1, <1>4, <2>1 DEF Cli, Listed
  <2>3. WellFormed'
    BY <1>1, <1>4, <2>2 DEF WellFormed, Body, Installation
  <2>4. QED
    BY <1>2, <2>1, <2>2, <2>3 DEF TypeOK
<1>5. CASE EndLoop
  BY <1>3, <1>4, <1>5 DEF EndLoop, Continue
<1>6. CASE TruncateLock
  <2>1. cli.todo = {} /\ ~cli.dry
    BY <1>1, <1>6 DEF TruncateLock, WellFormed
  <2>2. QED
    BY <1>3, <1>4, <1>6, <2>1 DEF TruncateLock
<1>7. CASE WriteLock
  BY <1>3, <1>7 DEF WriteLock
<1>8. QED
  BY <1>5, <1>6, <1>7 DEF LockFileSteps

\* Types and well-formedness hold in every state.
THEOREM TypeCorrect == Spec => []TypeOK
<1>1. TypeOK /\ [Next]_vars => TypeOK'
  <2> SUFFICES ASSUME TypeOK, [Next]_vars PROVE TypeOK'
    OBVIOUS
  <2>1. CASE UNCHANGED vars
    BY <2>1 DEF vars, TypeOK, WellFormed, Listed
  <2>2. CASE Next
    BY <2>2, OutsideTypeOK, StartsTypeOK, PickTypeOK, QuietTypeOK, DiskTypeOK,
       LockFileTypeOK DEF Next, Outside, Starts, Disk, LockFileSteps
  <2>3. QED
    BY <2>1, <2>2
<1>2. QED
  BY <1>1, InitTypeOK, PTL DEF Spec

-----------------------------------------------------------------------------
(* What the lock file records was published.                               *)

IsPublished(n, entry) ==
  entry # Absent
    => [name |-> n, version |-> entry.version, archive |-> entry.checksum]
         \in history

\* The old lock, the one read, the one being built, and the archive at hand.
RecordsPublished ==
  /\ \A n \in Names : /\ IsPublished(n, lock[n])
                      /\ IsPublished(n, cli.locked[n])
                      /\ IsPublished(n, cli.newLock[n])
  /\ cli.pc \in Installation
       => [name |-> cli.name, version |-> cli.version,
           archive |-> cli.checksum] \in history

\* history only grows, so what was published stays published.
LEMMA PublishedStays ==
  ASSUME Next, NEW n, NEW entry, IsPublished(n, entry)
  PROVE  entry # Absent
           => [name |-> n, version |-> entry.version,
               archive |-> entry.checksum] \in history'
<1>1. history \subseteq history'
  BY DEF Next, Publish, EditManifest, CleanCheckout, StartSync, StartUpdate,
     Start, Interrupt, PickComponent, Resolve, Check, GetVersion, Download,
     RemoveOld, MakeDirectory, Extract, EndLoop, TruncateLock, WriteLock,
     Continue
<1>2. QED
  BY <1>1 DEF IsPublished

\* How one step changes what the invocation knows of the lock file: the lock
\* as read, and the one being built.
SameViews == cli'.locked = cli.locked /\ cli'.newLock = cli.newLock

Views ==
  /\ cli'.locked \in {cli.locked, lock, NoLocks}
  /\ \/ cli'.newLock \in {cli.newLock, NoLocks}
     \/ \E n \in Names :
          cli'.newLock \in {[cli.newLock EXCEPT ![n] = Absent],
                            [cli.newLock EXCEPT ![n] = cli.locked[n]]}
     \/ /\ cli.pc = "extract"
        /\ cli'.newLock = [cli.newLock EXCEPT ![cli.name] =
             [version |-> cli.version, checksum |-> cli.checksum]]

LEMMA SameMeansViews == SameViews => Views
  BY DEF SameViews, Views

LEMMA ExitViews ==
  ASSUME cli \in Cli, NEW outcome \in {"succeeded", "warned", "failed"},
         cli' = Exited(outcome)
  PROVE  Views
<1>1. SameViews
  BY ExitOK DEF SameViews
<1>2. QED
  BY <1>1, SameMeansViews

LEMMA NextViews ==
  ASSUME cli \in Cli, cli.name \in Names,
         NEW entry \in {Absent, cli.locked[cli.name]}, cli' = NextWith(entry)
  PROVE  Views
<1>1. entry \in Lock \cup {Absent}
  BY DEF Cli
<1>2. cli'.locked = cli.locked
      /\ cli'.newLock = [cli.newLock EXCEPT ![cli.name] = entry]
  BY <1>1, NextOK
<1>3. QED
  BY <1>2 DEF Views

LEMMA PickViews == TypeOK /\ PickComponent => Views
<1> SUFFICES ASSUME TypeOK, PickComponent PROVE Views
  OBVIOUS
<1>1. cli \in Cli
  BY DEF TypeOK
<1>2. PICK n \in cli.todo : \/ cli' = Exited("failed")
                            \/ cli' = KeepUntouched(n)
                            \/ SameViews
  BY <1>1 DEF PickComponent, Continue, Cli, SameViews
<1>3. n \in Names
  BY <1>1 DEF Cli
<1>4. CASE cli' = KeepUntouched(n)
  <2>1. cli'.locked = cli.locked
        /\ cli'.newLock = [cli.newLock EXCEPT ![n] = cli.locked[n]]
    BY <1>1, <1>3, <1>4 DEF KeepUntouched, Cli
  <2>2. QED
    BY <1>3, <2>1 DEF Views
<1>5. QED
  BY <1>1, <1>2, <1>4, ExitViews, SameMeansViews

LEMMA QuietViews ==
  TypeOK /\ (Interrupt \/ Resolve \/ Check \/ GetVersion \/ Download) => Views
<1> SUFFICES ASSUME TypeOK,
                    Interrupt \/ Resolve \/ Check \/ GetVersion \/ Download
             PROVE  Views
  OBVIOUS
<1>1. cli \in Cli /\ (cli.pc \in Body => cli.name \in Names)
  BY DEF TypeOK, WellFormed, Listed
<1>2. \/ cli' = Exited("failed")
      \/ cli' = NextWith(Absent) /\ cli.pc \in Body
      \/ cli' = NextWith(cli.locked[cli.name]) /\ cli.pc \in Body
      \/ SameViews
  <2>1. CASE Interrupt
    BY <2>1 DEF Interrupt, Continue
  <2>2. CASE Resolve
    BY <1>1, <2>2 DEF Resolve, Continue, Body, Cli, SameViews
  <2>3. CASE Check
    BY <1>1, <2>3 DEF Check, Continue, Body, Cli, SameViews
  <2>4. CASE GetVersion \/ Download
    BY <1>1, <2>4 DEF GetVersion, Download, Continue, Cli, SameViews
  <2>5. QED
    BY <2>1, <2>2, <2>3, <2>4
<1>3. ASSUME NEW entry \in {Absent, cli.locked[cli.name]},
             cli' = NextWith(entry), cli.pc \in Body
      PROVE  Views
  BY <1>1, <1>3, NextViews
<1>4. QED
  BY <1>1, <1>2, <1>3, ExitViews, SameMeansViews

LEMMA DiskViews == TypeOK /\ Disk => Views
<1> SUFFICES ASSUME TypeOK, Disk PROVE Views
  OBVIOUS
<1>1. cli \in Cli /\ (cli.pc \in Body => cli.name \in Names)
  BY DEF TypeOK, WellFormed, Listed
<1>2. CASE RemoveOld \/ MakeDirectory
  <2>1. SameViews
    BY <1>1, <1>2 DEF SameViews, RemoveOld, MakeDirectory, Cli
  <2>2. QED
    BY <2>1, SameMeansViews
<1>3. CASE Extract
  <2>1. cli'.locked = cli.locked /\ cli.pc = "extract"
        /\ cli'.newLock = [cli.newLock EXCEPT ![cli.name] =
             [version |-> cli.version, checksum |-> cli.checksum]]
    BY <1>1, <1>3 DEF Extract, Installed, Cli
  <2>2. QED
    BY <2>1 DEF Views
<1>4. QED
  BY <1>2, <1>3 DEF Disk

LEMMA LockFileViews == TypeOK /\ LockFileSteps => Views
<1> SUFFICES ASSUME TypeOK, LockFileSteps PROVE Views
  OBVIOUS
<1>1. cli \in Cli
  BY DEF TypeOK
<1>2. cli' = Exited("succeeded") \/ cli' = Exited("warned") \/ SameViews
  BY <1>1 DEF LockFileSteps, EndLoop, TruncateLock, WriteLock, Continue, Cli,
     SameViews
<1>3. QED
  BY <1>1, <1>2, ExitViews, SameMeansViews

LEMMA LockViews ==
  ASSUME TypeOK, Next
  PROVE  lock' \in {lock, NoLocks, cli.newLock} /\ Views
<1>1. lock' \in {lock, NoLocks, cli.newLock}
  BY DEF Next, Publish, EditManifest, CleanCheckout, StartSync, StartUpdate,
     Start, Interrupt, PickComponent, Resolve, Check, GetVersion, Download,
     RemoveOld, MakeDirectory, Extract, EndLoop, TruncateLock, WriteLock,
     Continue
<1>2. Views
  <2>1. CASE Publish
    BY <2>1 DEF Views, Publish
  <2>2. CASE EditManifest \/ CleanCheckout
    BY <2>2 DEF Views, EditManifest, CleanCheckout, NotRun
  <2>3. CASE Starts
    <3>1. cli'.locked = lock /\ cli'.newLock = NoLocks
      BY <2>3 DEF Starts, StartSync, StartUpdate, Start, NotRun
    <3>2. QED
      BY <3>1 DEF Views
  <2>4. QED
    BY <2>1, <2>2, <2>3, PickViews, QuietViews, DiskViews, LockFileViews
       DEF Next, Starts, Disk, LockFileSteps
<1>3. QED
  BY <1>1, <1>2

\* The archive at hand: fetched for the record, verified, then installed.
LEMMA AtHandPublished ==
  ASSUME TypeOK, RecordsPublished, Next, cli'.pc \in Installation
  PROVE  [name |-> cli'.name, version |-> cli'.version,
          archive |-> cli'.checksum] \in history'
<1>1. cli \in Cli
  BY DEF TypeOK
<1>2. CASE Publish
  BY <1>2 DEF Publish, RecordsPublished
<1>3. CASE GetVersion
  <2>1. PICK a \in Archived(cli.name, cli.version) :
          cli' = [cli EXCEPT !.checksum = a, !.pc = "download"]
    BY <1>1, <1>3, ExitOK DEF GetVersion, Continue, Installation
  <2>2. a \in Archives
    BY DEF Archived, TypeOK, Publication
  <2>3. cli'.name = cli.name /\ cli'.version = cli.version /\ cli'.checksum = a
    BY <1>1, <2>1, <2>2 DEF Cli
  <2>4. PICK p \in history : p.name = cli.name /\ p.version = cli.version
                              /\ p.archive = a
    BY DEF Archived
  <2>5. p = [name |-> cli.name, version |-> cli.version, archive |-> a]
    BY <2>4 DEF TypeOK, Publication
  <2>6. QED
    BY <1>3, <2>3, <2>5 DEF GetVersion, Continue
<1>4. CASE Download
  <2>1. PICK data \in Archives :
          Verified(data) /\ cli' = [cli EXCEPT !.checksum = data, !.pc = "remove"]
    BY <1>1, <1>4, ExitOK DEF Download, Continue, Installation
  <2>2. cli'.name = cli.name /\ cli'.version = cli.version
        /\ cli'.checksum = cli.checksum
    BY <1>1, <2>1 DEF Cli, Verified
  <2>3. [name |-> cli.name, version |-> cli.version,
         archive |-> cli.checksum] \in history
    BY <1>4 DEF Download, RecordsPublished, Installation
  <2>4. history' = history
    BY <1>4 DEF Download, Continue
  <2>5. QED
    BY <2>2, <2>3, <2>4
<1>5. CASE RemoveOld \/ MakeDirectory
  <2>1. cli'.name = cli.name /\ cli'.version = cli.version
        /\ cli'.checksum = cli.checksum
    BY <1>1, <1>5 DEF RemoveOld, MakeDirectory, Cli
  <2>2. QED
    BY <1>5, <2>1 DEF RemoveOld, MakeDirectory, RecordsPublished, Installation
<1>6. CASE EditManifest \/ CleanCheckout \/ Starts
  <2>1. CASE EditManifest \/ CleanCheckout
    BY <2>1 DEF EditManifest, CleanCheckout, NotRun, Installation
  <2>2. CASE Starts
    <3>1. cli'.pc = "next"
      BY <2>2 DEF Starts, StartSync, StartUpdate, Start, NotRun
    <3>2. QED
      BY <3>1 DEF Installation
  <2>3. QED
    BY <1>6, <2>1, <2>2
<1>7. CASE PickComponent
  <2>1. cli'.pc \in {"check", "resolve", "exited", "next"}
    <3>1. PICK n \in cli.todo :
            \/ cli' = Exited("failed")
            \/ cli' = KeepUntouched(n)
            \/ cli'.pc \in {"check", "resolve"}
      BY <1>1, <1>7 DEF PickComponent, Continue, Cli
    <3>2. cli' = KeepUntouched(n) => cli'.pc = "next"
      BY <1>1, <1>7 DEF PickComponent, KeepUntouched, Cli
    <3>3. QED
      BY <1>1, <3>1, <3>2, ExitOK
  <2>2. QED
    BY <2>1 DEF Installation
<1>8. CASE Interrupt \/ Resolve \/ Check
  <2>1. cli'.pc \in {"exited", "next", "check", "getVersion"}
    BY <1>1, <1>8, ExitOK DEF Interrupt, Resolve, Check, Continue, NextWith, Cli
  <2>2. QED
    BY <2>1 DEF Installation
<1>9. CASE Extract \/ LockFileSteps
  <2>1. cli'.pc \in {"next", "exited", "truncate", "write"}
    BY <1>1, <1>9, ExitOK DEF Extract, Installed, LockFileSteps, EndLoop,
       TruncateLock, WriteLock, Continue, Cli
  <2>2. QED
    BY <2>1 DEF Installation
<1>10. QED
  BY <1>2, <1>3, <1>4, <1>5, <1>6, <1>7, <1>8, <1>9 DEF Next, Starts,
     LockFileSteps

LEMMA RecordsPublishedInductive ==
  ASSUME TypeOK, RecordsPublished, Next
  PROVE  RecordsPublished'
<1> DEFINE InHistory(n, entry) ==
      entry # Absent
        => [name |-> n, version |-> entry.version, archive |-> entry.checksum]
             \in history'
<1>1. \A n \in Names : /\ InHistory(n, lock[n])
                      /\ InHistory(n, cli.locked[n])
                      /\ InHistory(n, cli.newLock[n])
                      /\ InHistory(n, NoLocks[n])
                      /\ InHistory(n, Absent)
  BY PublishedStays DEF RecordsPublished, NoLocks
<1>2. cli \in Cli /\ (cli.pc \in Body => cli.name \in Names)
  BY DEF TypeOK, WellFormed, Listed
<1>3. ASSUME NEW n \in Names
      PROVE  /\ InHistory(n, lock'[n])
             /\ InHistory(n, cli'.locked[n])
  BY <1>1, LockViews DEF Views
<1>4. ASSUME NEW n \in Names
      PROVE  InHistory(n, cli'.newLock[n])
  <2>1. CASE cli'.newLock \in {cli.newLock, NoLocks}
    BY <1>1, <2>1
  <2>2. CASE \E m \in Names :
               cli'.newLock \in {[cli.newLock EXCEPT ![m] = Absent],
                                 [cli.newLock EXCEPT ![m] = cli.locked[m]]}
    <3>1. cli'.newLock[n] \in {cli.newLock[n], Absent, cli.locked[n]}
      BY <1>2, <2>2 DEF Cli
    <3>2. QED
      BY <1>1, <3>1
  <2>3. CASE /\ cli.pc = "extract"
             /\ cli'.newLock = [cli.newLock EXCEPT ![cli.name] =
                  [version |-> cli.version, checksum |-> cli.checksum]]
    <3>1. CASE n = cli.name
      <4>1. cli'.newLock[n] = [version |-> cli.version,
                               checksum |-> cli.checksum]
        BY <1>2, <2>3, <3>1 DEF Cli
      <4>2. [name |-> cli.name, version |-> cli.version,
             archive |-> cli.checksum] \in history
        BY <2>3 DEF RecordsPublished, Installation
      <4>3. history \subseteq history'
        BY <2>3 DEF Next, Publish, EditManifest, CleanCheckout, StartSync,
           StartUpdate, Start, Interrupt, PickComponent, Resolve, Check,
           GetVersion, Download, RemoveOld, MakeDirectory, Extract, EndLoop,
           TruncateLock, WriteLock, Continue
      <4>4. QED
        BY <3>1, <4>1, <4>2, <4>3
    <3>2. CASE n # cli.name
      BY <1>1, <1>2, <2>3, <3>2 DEF Cli
    <3>3. QED
      BY <3>1, <3>2
  <2>4. QED
    BY <2>1, <2>2, <2>3, LockViews DEF Views
<1>5. QED
  BY <1>3, <1>4, AtHandPublished DEF RecordsPublished, IsPublished

\* Every lock entry names a publication, whatever was interrupted or torn.
THEOREM LocksArePublished == Spec => []LockedWasPublished
<1>1. Init => RecordsPublished
  BY DEF Init, RecordsPublished, IsPublished, NotRun, NoLocks, Installation
<1>2. TypeOK /\ RecordsPublished /\ [Next]_vars => RecordsPublished'
  <2> SUFFICES ASSUME TypeOK, RecordsPublished, [Next]_vars
               PROVE  RecordsPublished'
    OBVIOUS
  <2>1. CASE UNCHANGED vars
    BY <2>1 DEF vars, RecordsPublished, IsPublished
  <2>2. QED
    BY <2>1, RecordsPublishedInductive
<1>3. RecordsPublished => LockedWasPublished
  BY DEF RecordsPublished, IsPublished, LockedWasPublished
<1>4. QED
  BY <1>1, <1>2, <1>3, TypeCorrect, PTL DEF Spec

-----------------------------------------------------------------------------
(* What a successful invocation installed is what the lock file records.   *)

\* Once a component is in fresh the loop is past it, and nothing after that
\* touches its directory or its line of the new lock.
FreshInstalled ==
  /\ \A n \in cli.fresh :
       n \notin cli.todo /\ cli.newLock[n] # Absent
         /\ tree[n] = cli.newLock[n].checksum
  /\ cli.pc \in Body => cli.name \notin cli.fresh
  /\ cli.outcome = "succeeded" /\ ~cli.dry => lock = cli.newLock

\* A step that leaves the components in fresh alone.
LEMMA FreshStays ==
  ASSUME FreshInstalled, cli'.fresh = cli.fresh, cli'.todo \subseteq cli.todo,
         \A n \in cli.fresh :
           tree'[n] = tree[n] /\ cli'.newLock[n] = cli.newLock[n],
         cli'.pc \in Body => cli'.name \notin cli.fresh,
         cli'.outcome = "succeeded" /\ ~cli'.dry => lock' = cli'.newLock
  PROVE  FreshInstalled'
BY DEF FreshInstalled

LEMMA FreshReset ==
  ASSUME cli'.fresh = {}, cli'.outcome # "succeeded"
  PROVE  FreshInstalled'
BY DEF FreshInstalled

\* An error or a kill.
LEMMA FreshFailed ==
  ASSUME TypeOK, FreshInstalled, cli' = Exited("failed"), UNCHANGED tree
  PROVE  FreshInstalled'
<1>1. cli'.fresh = cli.fresh /\ cli'.todo = cli.todo
      /\ cli'.newLock = cli.newLock
      /\ cli'.pc = "exited" /\ cli'.outcome = "failed"
  BY ExitOK DEF TypeOK
<1>2. QED
  BY <1>1, FreshStays DEF Body, Installation

LEMMA FreshPick == TypeOK /\ FreshInstalled /\ PickComponent => FreshInstalled'
<1> SUFFICES ASSUME TypeOK, FreshInstalled, PickComponent
             PROVE  FreshInstalled'
  OBVIOUS
<1>1. cli \in Cli /\ cli.outcome = "none" /\ UNCHANGED tree
  BY DEF TypeOK, WellFormed, PickComponent, Continue
<1>2. PICK n \in cli.todo :
        \/ cli' = Exited("failed")
        \/ cli' = KeepUntouched(n)
        \/ /\ cli'.fresh = cli.fresh /\ cli'.todo = cli.todo \ {n}
           /\ cli'.newLock = cli.newLock /\ cli'.name = n
           /\ cli'.outcome = cli.outcome
  BY <1>1 DEF PickComponent, Continue, Cli
<1>3. n \notin cli.fresh /\ n \in Names
  BY <1>1 DEF FreshInstalled, Cli
<1>4. CASE cli' = KeepUntouched(n)
  <2>1. cli'.fresh = cli.fresh /\ cli'.todo = cli.todo \ {n}
        /\ cli'.newLock = [cli.newLock EXCEPT ![n] = cli.locked[n]]
        /\ cli'.pc = cli.pc /\ cli.pc = "next" /\ cli'.outcome = cli.outcome
    BY <1>1, <1>3, <1>4 DEF KeepUntouched, Cli, PickComponent
  <2>2. \A m \in cli.fresh : cli'.newLock[m] = cli.newLock[m]
    BY <1>1, <1>3, <2>1 DEF Cli
  <2>3. QED
    BY <1>1, <2>1, <2>2, FreshStays DEF Body, Installation
<1>5. CASE /\ cli'.fresh = cli.fresh /\ cli'.todo = cli.todo \ {n}
           /\ cli'.newLock = cli.newLock /\ cli'.name = n
           /\ cli'.outcome = cli.outcome
  BY <1>1, <1>3, <1>5, FreshStays
<1>6. QED
  BY <1>1, <1>2, <1>4, <1>5, FreshFailed

LEMMA FreshQuiet ==
  TypeOK /\ FreshInstalled
    /\ (Interrupt \/ Resolve \/ Check \/ GetVersion \/ Download)
      => FreshInstalled'
<1> SUFFICES ASSUME TypeOK, FreshInstalled,
                    Interrupt \/ Resolve \/ Check \/ GetVersion \/ Download
             PROVE  FreshInstalled'
  OBVIOUS
<1>1. cli \in Cli /\ cli.outcome = "none" /\ UNCHANGED tree
      /\ (cli.pc \in Body => cli.name \in Names)
  BY DEF TypeOK, WellFormed, Listed, Interrupt, Resolve, Check, GetVersion,
         Download, Continue
<1>2. ASSUME NEW entry \in {Absent, cli.locked[cli.name]},
             cli' = NextWith(entry), cli.pc \in Body
      PROVE  FreshInstalled'
  <2>1. entry \in Lock \cup {Absent} /\ cli.name \in Names
    BY <1>1, <1>2 DEF Cli
  <2>2. cli'.fresh = cli.fresh /\ cli'.todo = cli.todo /\ cli'.pc = "next"
        /\ cli'.outcome = cli.outcome
        /\ cli'.newLock = [cli.newLock EXCEPT ![cli.name] = entry]
    BY <1>1, <1>2, <2>1, NextOK
  <2>3. \A m \in cli.fresh : cli'.newLock[m] = cli.newLock[m]
    BY <1>1, <1>2, <2>2 DEF FreshInstalled, Cli
  <2>4. QED
    BY <1>1, <2>2, <2>3, FreshStays DEF Body, Installation
<1>3. \/ cli' = Exited("failed")
      \/ cli' = NextWith(Absent) /\ cli.pc \in Body
      \/ cli' = NextWith(cli.locked[cli.name]) /\ cli.pc \in Body
      \/ /\ cli'.fresh = cli.fresh /\ cli'.todo = cli.todo
         /\ cli'.newLock = cli.newLock /\ cli'.name = cli.name
         /\ cli'.outcome = cli.outcome /\ cli.pc \in Body
  <2>1. CASE Interrupt
    BY <2>1 DEF Interrupt, Continue
  <2>2. CASE Resolve
    BY <1>1, <2>2 DEF Resolve, Continue, Body, Cli
  <2>3. CASE Check
    BY <1>1, <2>3 DEF Check, Continue, Body, Cli
  <2>4. CASE GetVersion \/ Download
    BY <1>1, <2>4 DEF GetVersion, Download, Continue, Body, Installation, Cli
  <2>5. QED
    BY <2>1, <2>2, <2>3, <2>4
<1>4. CASE /\ cli'.fresh = cli.fresh /\ cli'.todo = cli.todo
           /\ cli'.newLock = cli.newLock /\ cli'.name = cli.name
           /\ cli'.outcome = cli.outcome /\ cli.pc \in Body
  <2>1. cli.name \notin cli.fresh
    BY <1>4 DEF FreshInstalled
  <2>2. QED
    BY <1>1, <1>4, <2>1, FreshStays
<1>5. QED
  BY <1>1, <1>2, <1>3, <1>4, FreshFailed

LEMMA FreshDisk == TypeOK /\ FreshInstalled /\ Disk => FreshInstalled'
<1> SUFFICES ASSUME TypeOK, FreshInstalled, Disk PROVE FreshInstalled'
  OBVIOUS
<1>1. cli \in Cli /\ cli.outcome = "none" /\ cli.pc \in Body
      /\ cli.name \in Names /\ cli.name \notin cli.todo
      /\ cli.checksum \in Archives /\ cli.version \in Versions
      /\ tree \in [Names -> Archives \cup {Missing, Damaged}]
  BY DEF TypeOK, WellFormed, Disk, RemoveOld, MakeDirectory, Extract, Body,
         Installation, Listed, Cli
<1>2. cli.fresh \subseteq Names /\ cli.name \notin cli.fresh
  BY <1>1 DEF FreshInstalled, Cli
<1>3. \A m \in cli.fresh : tree'[m] = tree[m]
  BY <1>1, <1>2 DEF Disk, RemoveOld, MakeDirectory, Extract
<1>4. CASE RemoveOld \/ MakeDirectory
  <2>1. cli'.fresh = cli.fresh /\ cli'.todo = cli.todo
        /\ cli'.newLock = cli.newLock /\ cli'.name = cli.name
        /\ cli'.outcome = cli.outcome
    BY <1>1, <1>4 DEF RemoveOld, MakeDirectory, Cli
  <2>2. QED
    BY <1>1, <1>2, <1>3, <2>1, FreshStays
<1>5. CASE Extract
  <2>1. cli'.fresh = (IF cli.clean THEN cli.fresh \cup {cli.name} ELSE cli.fresh)
        /\ cli'.todo = cli.todo /\ cli'.pc = "next"
        /\ cli'.outcome = cli.outcome
        /\ cli'.newLock = [cli.newLock EXCEPT ![cli.name] =
             [version |-> cli.version, checksum |-> cli.checksum]]
    BY <1>1, <1>5 DEF Extract, Installed, Cli
  <2>2. \A m \in cli.fresh : cli'.newLock[m] = cli.newLock[m]
    BY <1>1, <1>2, <2>1 DEF Cli
  <2>3. cli'.newLock[cli.name] = [version |-> cli.version,
                                  checksum |-> cli.checksum]
    BY <1>1, <2>1 DEF Cli
  <2>4. cli.clean => tree'[cli.name] = cli.checksum
    BY <1>1, <1>5 DEF Extract
  <2>5. [version |-> cli.version, checksum |-> cli.checksum] # Absent
    BY <1>1, ConstantsAssumption
  <2>6. ASSUME NEW m \in cli'.fresh
        PROVE  m \notin cli'.todo /\ cli'.newLock[m] # Absent
               /\ tree'[m] = cli'.newLock[m].checksum
    <3>1. CASE m \in cli.fresh
      BY <1>3, <2>1, <2>2, <3>1 DEF FreshInstalled
    <3>2. CASE cli.clean /\ m = cli.name
      BY <1>1, <2>1, <2>3, <2>4, <2>5, <3>2
    <3>3. QED
      BY <2>1, <3>1, <3>2
  <2>7. QED
    BY <1>1, <2>1, <2>6 DEF FreshInstalled, Body, Installation
<1>6. QED
  BY <1>4, <1>5 DEF Disk

LEMMA FreshLockFile ==
  TypeOK /\ FreshInstalled /\ LockFileSteps => FreshInstalled'
<1> SUFFICES ASSUME TypeOK, FreshInstalled, LockFileSteps
             PROVE  FreshInstalled'
  OBVIOUS
<1>1. cli \in Cli /\ cli.outcome = "none" /\ UNCHANGED tree
  BY DEF TypeOK, WellFormed, LockFileSteps, EndLoop, TruncateLock, WriteLock,
         Continue
<1>2. ASSUME NEW outcome \in {"succeeded", "warned"}, cli' = Exited(outcome),
             outcome = "succeeded" /\ ~cli.dry => lock' = cli.newLock
      PROVE  FreshInstalled'
  <2>1. cli'.fresh = cli.fresh /\ cli'.todo = cli.todo
        /\ cli'.newLock = cli.newLock /\ cli'.dry = cli.dry
        /\ cli'.pc = "exited" /\ cli'.outcome = outcome
    BY <1>1, <1>2, ExitOK
  <2>2. QED
    BY <1>1, <1>2, <2>1, FreshStays DEF Body, Installation
<1>3. ASSUME NEW pc \in {"truncate", "write"}, cli' = [cli EXCEPT !.pc = pc]
      PROVE  FreshInstalled'
  <2>1. cli'.fresh = cli.fresh /\ cli'.todo = cli.todo
        /\ cli'.newLock = cli.newLock /\ cli'.pc = pc
        /\ cli'.outcome = cli.outcome
    BY <1>1, <1>3 DEF Cli
  <2>2. QED
    BY <1>1, <2>1, FreshStays DEF Body, Installation
<1>4. QED
  BY <1>2, <1>3 DEF LockFileSteps, EndLoop, TruncateLock, WriteLock, Continue

\* A successful invocation's directories hold what the lock file records.
THEOREM InstallationsAreLocked == Spec => []InstalledIsLocked
<1>1. Init => FreshInstalled
  BY DEF Init, FreshInstalled, NotRun, Body, Installation
<1>2. TypeOK /\ FreshInstalled /\ [Next]_vars => FreshInstalled'
  <2> SUFFICES ASSUME TypeOK, FreshInstalled, [Next]_vars
               PROVE  FreshInstalled'
    OBVIOUS
  <2>1. CASE UNCHANGED vars \/ Publish
    BY <2>1 DEF vars, Publish, FreshInstalled
  <2>2. CASE EditManifest \/ CleanCheckout
    BY <2>2, FreshReset DEF EditManifest, CleanCheckout, NotRun
  <2>3. CASE Starts
    <3>1. cli'.fresh = {} /\ cli'.outcome = "none"
      BY <2>3 DEF Starts, StartSync, StartUpdate, Start, NotRun
    <3>2. QED
      BY <3>1, FreshReset
  <2>4. QED
    BY <2>1, <2>2, <2>3, FreshPick, FreshQuiet, FreshDisk, FreshLockFile
       DEF Next, Starts, Disk, LockFileSteps
<1>3. FreshInstalled => InstalledIsLocked
  BY DEF FreshInstalled, InstalledIsLocked, Reported
<1>4. QED
  BY <1>1, <1>2, <1>3, TypeCorrect, PTL DEF Spec

-----------------------------------------------------------------------------
(* Which directories and files an invocation may touch.                    *)

LEMMA StepTouchesTargets ==
  ASSUME TypeOK, Next, cli.pc # "exited"
  PROVE  /\ \A n \in Names \ cli.targets : tree'[n] = tree[n]
         /\ cli.dry => UNCHANGED <<lock, tree>>
<1>1. CASE Outside \/ Starts
  BY <1>1 DEF Outside, Publish, EditManifest, CleanCheckout, Starts, StartSync,
     StartUpdate, Start
<1>2. CASE Interrupt \/ Loop \/ EndLoop
  BY <1>2 DEF Interrupt, Loop, PickComponent, Resolve, Check, GetVersion,
     Download, EndLoop, Continue
<1>3. CASE Disk
  <2>1. cli.name \in Names /\ cli.name \in cli.targets /\ ~cli.dry
        /\ UNCHANGED lock /\ tree \in [Names -> Archives \cup {Missing, Damaged}]
    BY <1>3 DEF TypeOK, WellFormed, Disk, RemoveOld, MakeDirectory, Extract,
       Body, Installation, Listed
  <2>2. \A n \in Names \ {cli.name} : tree'[n] = tree[n]
    BY <1>3, <2>1 DEF Disk, RemoveOld, MakeDirectory, Extract
  <2>3. QED
    BY <2>1, <2>2
<1>4. CASE TruncateLock \/ WriteLock
  BY <1>4 DEF TypeOK, WellFormed, TruncateLock, WriteLock
<1>5. QED
  BY <1>1, <1>2, <1>3, <1>4 DEF Next, Outside, Starts, Disk, Loop

\* An invocation only touches its targets, and nothing on a dry run.
THEOREM TargetsOnly == Spec => OnlyTargetsAreTouched
<1>1. TypeOK /\ [Next]_vars
        => [cli.pc # "exited"
              => /\ \A n \in Names \ cli.targets : tree'[n] = tree[n]
                 /\ cli.dry => UNCHANGED <<lock, tree>>]_vars
  BY StepTouchesTargets DEF vars
<1>2. QED
  BY <1>1, TypeCorrect, PTL DEF Spec, OnlyTargetsAreTouched

-----------------------------------------------------------------------------
(* What a success says of the components that the invocation did not        *)
(* install: update keeps the lock entries of those it was not asked for,    *)
(* sync leaves every component with a lock entry and a directory.           *)

InHand(n) == cli.pc \in Body /\ n = cli.name

\* What the loop owes a component of the manifest once it is past it.
Served(n) ==
  /\ cli.cmd = "update" /\ n \notin cli.targets
       => cli.newLock[n] = cli.locked[n]
  /\ cli.cmd = "sync" /\ ~cli.dry
       => cli.newLock[n] # Absent /\ tree[n] # Missing

\* A directory that was not removed is there while it is filled again.
DirectoryAtHand ==
  (cli.pc = "mkdir" /\ ~cli.clean) \/ cli.pc = "extract"
    => tree[cli.name] # Missing

PastIsServed ==
  /\ cli.pc # "exited" => \A n \in Listed \ cli.todo : InHand(n) \/ Served(n)
  /\ DirectoryAtHand
  /\ cli.outcome = "succeeded" /\ ~cli.dry
       => lock = cli.newLock /\ \A n \in Listed : Served(n)

LEMMA ServedReset ==
  ASSUME cli'.pc = "exited", cli'.outcome # "succeeded"
  PROVE  PastIsServed'
BY DEF PastIsServed, DirectoryAtHand

\* A step of the loop that concerns the component m only.
LEMMA ServedOthers ==
  ASSUME PastIsServed, cli.pc # "exited", NEW m \in Names,
         cli'.cmd = cli.cmd, cli'.dry = cli.dry, cli'.targets = cli.targets,
         cli'.locked = cli.locked, manifest' = manifest,
         cli'.outcome # "succeeded",
         cli.todo \subseteq cli'.todo \cup {m},
         cli.pc \in Body => cli.name = m,
         \A n \in Names \ {m} :
           cli'.newLock[n] = cli.newLock[n] /\ tree'[n] = tree[n],
         InHand(m)' \/ Served(m)',
         DirectoryAtHand'
  PROVE  PastIsServed'
<1>1. ASSUME NEW n \in Listed' \ cli'.todo
      PROVE  InHand(n)' \/ Served(n)'
  <2>1. CASE n = m
    BY <2>1
  <2>2. CASE n # m
    <3>1. n \in Listed \ cli.todo /\ n \in Names \ {m}
      BY <1>1, <2>2 DEF Listed
    <3>2. Served(n)
      BY <2>2, <3>1 DEF PastIsServed, InHand
    <3>3. QED
      BY <3>1, <3>2 DEF Served
  <2>3. QED
    BY <2>1, <2>2
<1>2. QED
  BY <1>1 DEF PastIsServed

LEMMA ServedOutside ==
  TypeOK /\ PastIsServed /\ (Outside \/ Starts) => PastIsServed'
<1> SUFFICES ASSUME TypeOK, PastIsServed, Outside \/ Starts
             PROVE  PastIsServed'
  OBVIOUS
<1>1. CASE Publish
  BY <1>1 DEF Publish, PastIsServed, InHand, Served, DirectoryAtHand, Listed
<1>2. CASE EditManifest \/ CleanCheckout
  BY <1>2, ServedReset DEF EditManifest, CleanCheckout, NotRun
<1>3. CASE Starts
  <2>1. PICK cmd, dry, targets : Start(cmd, dry, targets)
    BY <1>3 DEF Starts, StartSync, StartUpdate
  <2>2. cli'.pc = "next" /\ cli'.outcome = "none" /\ cli'.todo = Listed
    BY <2>1 DEF Start, NotRun
  <2>3. Listed' = Listed
    BY <2>1 DEF Start, Listed
  <2>4. QED
    BY <2>2, <2>3 DEF PastIsServed, DirectoryAtHand
<1>4. QED
  BY <1>1, <1>2, <1>3 DEF Outside

LEMMA ServedFailed ==
  ASSUME TypeOK, cli' = Exited("failed")
  PROVE  PastIsServed'
<1>1. cli'.pc = "exited" /\ cli'.outcome = "failed"
  BY ExitOK DEF TypeOK
<1>2. QED
  BY <1>1, ServedReset

LEMMA ServedPick == TypeOK /\ PastIsServed /\ PickComponent => PastIsServed'
<1> SUFFICES ASSUME TypeOK, PastIsServed, PickComponent PROVE PastIsServed'
  OBVIOUS
<1>1. cli \in Cli /\ cli.outcome = "none" /\ cli.pc = "next"
      /\ UNCHANGED <<tree, manifest>>
  BY DEF TypeOK, WellFormed, PickComponent, Continue
<1> DEFINE at(n) == [cli EXCEPT !.todo = @ \ {n}, !.name = n,
                     !.version = Absent, !.checksum = Absent, !.clean = FALSE]
<1>2. ASSUME NEW n \in cli.todo, NEW c, cli' = c,
             \/ c = [at(n) EXCEPT !.pc = "resolve"]
             \/ c = [at(n) EXCEPT !.version = manifest[n], !.pc = "check"]
      PROVE  PastIsServed'
  <2>1. n \in Names
    BY <1>1, <1>2 DEF Cli
  <2>2. /\ cli'.cmd = cli.cmd /\ cli'.dry = cli.dry
        /\ cli'.targets = cli.targets /\ cli'.locked = cli.locked
        /\ cli'.outcome = cli.outcome /\ cli'.todo = cli.todo \ {n}
        /\ cli'.newLock = cli.newLock /\ cli'.name = n
        /\ cli'.pc \in {"resolve", "check"}
    BY <1>1, <1>2 DEF Cli
  <2>3. InHand(n)' /\ DirectoryAtHand'
    BY <2>2 DEF InHand, DirectoryAtHand, Body
  <2>4. QED
    BY <1>1, <2>1, <2>2, <2>3, ServedOthers DEF Body, Installation
<1>3. ASSUME NEW n \in cli.todo, cli.cmd = "update", n \notin cli.targets,
             cli' = KeepUntouched(n)
      PROVE  PastIsServed'
  <2>1. n \in Names
    BY <1>1, <1>3 DEF Cli
  <2>2. /\ cli'.cmd = cli.cmd /\ cli'.dry = cli.dry
        /\ cli'.targets = cli.targets /\ cli'.locked = cli.locked
        /\ cli'.outcome = cli.outcome /\ cli'.todo = cli.todo \ {n}
        /\ cli'.newLock = [cli.newLock EXCEPT ![n] = cli.locked[n]]
        /\ cli'.pc = "next"
    BY <1>1, <1>3, <2>1 DEF KeepUntouched, Cli
  <2>3. cli'.newLock[n] = cli.locked[n]
        /\ \A m \in Names \ {n} : cli'.newLock[m] = cli.newLock[m]
    BY <1>1, <2>1, <2>2 DEF Cli
  <2>4. Served(n)' /\ DirectoryAtHand'
    BY <1>3, <2>2, <2>3 DEF Served, DirectoryAtHand
  <2>5. QED
    BY <1>1, <2>1, <2>2, <2>3, <2>4, ServedOthers DEF Body, Installation
<1>4. QED
  BY <1>2, <1>3, ServedFailed DEF PickComponent, Continue

\* The steps of the body that only the invocation sees: those that keep the
\* component at hand, and those that are done with it.
LEMMA ServedQuiet ==
  TypeOK /\ PastIsServed
    /\ (Interrupt \/ Resolve \/ Check \/ GetVersion \/ Download)
      => PastIsServed'
<1> SUFFICES ASSUME TypeOK, PastIsServed,
                    Interrupt \/ Resolve \/ Check \/ GetVersion \/ Download
             PROVE  PastIsServed'
  OBVIOUS
<1>1. cli \in Cli /\ cli.outcome = "none" /\ UNCHANGED <<tree, manifest>>
      /\ (cli.pc \in Body => /\ cli.name \in Names
                             /\ cli.name \in cli.targets)
  BY DEF TypeOK, WellFormed, Listed, Interrupt, Resolve, Check, GetVersion,
         Download, Continue
<1>2. ASSUME NEW entry \in {Absent, cli.locked[cli.name]},
             cli' = NextWith(entry), cli.pc \in Body,
             cli.cmd = "sync" /\ ~cli.dry
               => entry # Absent /\ tree[cli.name] # Missing
      PROVE  PastIsServed'
  <2>1. PICK m \in Names : m = cli.name
    BY <1>1, <1>2
  <2>2. entry \in Lock \cup {Absent}
    BY <1>1, <1>2, <2>1 DEF Cli
  <2>3. cli'.todo = cli.todo /\ cli'.pc = "next" /\ cli'.cmd = cli.cmd
        /\ cli'.targets = cli.targets /\ cli'.locked = cli.locked
        /\ cli'.dry = cli.dry /\ cli'.outcome = cli.outcome
        /\ cli'.newLock = [cli.newLock EXCEPT ![m] = entry]
    BY <1>1, <1>2, <2>1 DEF NextWith, Cli
  <2>4. cli'.newLock[m] = entry
        /\ \A n \in Names \ {m} : cli'.newLock[n] = cli.newLock[n]
    BY <1>1, <2>1, <2>3 DEF Cli
  <2>5. Served(m)' /\ DirectoryAtHand'
    BY <1>1, <1>2, <2>1, <2>3, <2>4 DEF Served, DirectoryAtHand
  <2>6. QED
    BY <1>1, <1>2, <2>1, <2>3, <2>4, <2>5, ServedOthers
       DEF Body, Installation
<1>3. ASSUME cli.pc \in Body,
             cli'.todo = cli.todo, cli'.cmd = cli.cmd,
             cli'.targets = cli.targets, cli'.locked = cli.locked,
             cli'.dry = cli.dry, cli'.outcome = cli.outcome,
             cli'.newLock = cli.newLock, cli'.name = cli.name,
             cli'.pc \in {"check", "getVersion", "download", "remove"}
      PROVE  PastIsServed'
  <2>1. PICK m \in Names : m = cli.name
    BY <1>1, <1>3
  <2>2. InHand(m)' /\ DirectoryAtHand'
    BY <1>3, <2>1 DEF InHand, DirectoryAtHand, Body, Installation
  <2>3. QED
    BY <1>1, <1>3, <2>1, <2>2, ServedOthers DEF Body, Installation
<1>4. CASE Interrupt
  BY <1>4, ServedFailed DEF Interrupt, Continue
<1>5. CASE Resolve
  <2>1. PICK v \in Latest(cli.name) :
          \/ cli' = [cli EXCEPT !.version = v, !.pc = "check"]
          \/ ~Acceptable(v) /\ cli' = NextWith(Absent)
          \/ cli' = Exited("failed")
    BY <1>5 DEF Resolve, Continue
  <2>2. cli.pc \in Body
    BY <1>5 DEF Resolve, Body
  <2>3. CASE cli' = [cli EXCEPT !.version = v, !.pc = "check"]
    BY <1>1, <1>3, <2>2, <2>3 DEF Cli
  <2>4. CASE ~Acceptable(v) /\ cli' = NextWith(Absent)
    <3>1. cli.cmd # "sync"
      BY <2>4 DEF Acceptable
    <3>2. QED
      BY <1>2, <2>2, <2>4, <3>1
  <2>5. QED
    BY <2>1, <2>3, <2>4, ServedFailed
<1>6. CASE Check
  <2>1. cli.pc \in Body
    BY <1>6 DEF Check, Body
  <2>2. CASE UpToDate /\ cli' = NextWith(cli.locked[cli.name])
    BY <1>2, <2>1, <2>2 DEF UpToDate, DirectoryPresent
  <2>3. CASE cli.dry /\ cli' = NextWith(Absent)
    BY <1>2, <2>1, <2>3
  <2>4. CASE cli' = [cli EXCEPT !.pc = "getVersion"]
    BY <1>1, <1>3, <2>1, <2>4 DEF Cli
  <2>5. QED
    BY <1>6, <2>2, <2>3, <2>4 DEF Check, DryRun, Continue
<1>7. CASE GetVersion \/ Download
  <2>1. cli.pc \in Body
    BY <1>7 DEF GetVersion, Download, Body, Installation
  <2>2. ASSUME NEW a, NEW pc \in {"download", "remove"},
               cli' = [cli EXCEPT !.checksum = a, !.pc = pc]
        PROVE  PastIsServed'
    BY <1>1, <1>3, <2>1, <2>2 DEF Cli
  <2>3. QED
    BY <1>7, <2>2, ServedFailed DEF GetVersion, Download, Continue
<1>8. QED
  BY <1>4, <1>5, <1>6, <1>7

LEMMA ServedDisk == TypeOK /\ PastIsServed /\ Disk => PastIsServed'
<1> SUFFICES ASSUME TypeOK, PastIsServed, Disk PROVE PastIsServed'
  OBVIOUS
<1>1. cli \in Cli /\ cli.outcome = "none" /\ cli.pc \in Body
      /\ cli.name \in Names /\ cli.name \in cli.targets /\ manifest' = manifest
      /\ cli.checksum \in Archives /\ cli.version \in Versions
      /\ tree \in [Names -> Archives \cup {Missing, Damaged}]
  BY DEF TypeOK, WellFormed, Disk, RemoveOld, MakeDirectory, Extract, Body,
         Installation, Listed, Cli
<1>2. PICK m \in Names : m = cli.name
  BY <1>1
<1>3. \A n \in Names \ {m} : tree'[n] = tree[n]
  BY <1>1, <1>2 DEF Disk, RemoveOld, MakeDirectory, Extract
<1>4. CASE RemoveOld \/ MakeDirectory
  <2>1. cli'.todo = cli.todo /\ cli'.cmd = cli.cmd
        /\ cli'.targets = cli.targets /\ cli'.locked = cli.locked
        /\ cli'.dry = cli.dry /\ cli'.outcome = cli.outcome
        /\ cli'.newLock = cli.newLock /\ cli'.name = m
        /\ cli'.pc \in {"mkdir", "extract"}
    BY <1>1, <1>2, <1>4 DEF RemoveOld, MakeDirectory, Cli
  <2>2. InHand(m)'
    BY <2>1 DEF InHand, Body, Installation
  <2>3. RemoveOld => DirectoryAtHand'
    <3> SUFFICES ASSUME RemoveOld PROVE DirectoryAtHand'
      OBVIOUS
    <3>1. CASE cli' = [cli EXCEPT !.pc = "mkdir", !.clean = TRUE]
      BY <1>1, <3>1 DEF DirectoryAtHand, Cli
    <3>2. ASSUME tree[m] # Missing,
                 NEW rest \in {tree[m], Damaged},
                 tree' = [tree EXCEPT ![m] = rest]
          PROVE  DirectoryAtHand'
      BY <1>1, <2>1, <3>2, ConstantsAssumption DEF DirectoryAtHand
    <3>3. QED
      BY <1>2, <3>1, <3>2 DEF RemoveOld
  <2>4. MakeDirectory => DirectoryAtHand'
    <3> SUFFICES ASSUME MakeDirectory PROVE DirectoryAtHand'
      OBVIOUS
    <3>1. tree'[m] # Missing
      BY <1>1, <1>2, ConstantsAssumption
         DEF MakeDirectory, PastIsServed, DirectoryAtHand
    <3>2. QED
      BY <2>1, <3>1 DEF DirectoryAtHand
  <2>5. DirectoryAtHand'
    BY <1>4, <2>3, <2>4
  <2>6. QED
    BY <1>1, <1>2, <1>3, <2>1, <2>2, <2>5, ServedOthers DEF Body, Installation
<1>5. CASE Extract
  <2>1. cli'.todo = cli.todo /\ cli'.cmd = cli.cmd
        /\ cli'.targets = cli.targets /\ cli'.locked = cli.locked
        /\ cli'.dry = cli.dry /\ cli'.outcome = cli.outcome
        /\ cli'.pc = "next"
        /\ cli'.newLock = [cli.newLock EXCEPT ![m] =
             [version |-> cli.version, checksum |-> cli.checksum]]
    BY <1>1, <1>2, <1>5 DEF Extract, Installed, Cli
  <2>2. [version |-> cli.version, checksum |-> cli.checksum] # Absent
    BY <1>1, ConstantsAssumption
  <2>3. cli'.newLock[m] # Absent
        /\ \A n \in Names \ {m} : cli'.newLock[n] = cli.newLock[n]
    BY <1>1, <2>1, <2>2 DEF Cli
  <2>4. tree'[m] # Missing
    BY <1>1, <1>2, <1>5, ConstantsAssumption
       DEF Extract, PastIsServed, DirectoryAtHand
  <2>5. Served(m)' /\ DirectoryAtHand'
    BY <1>1, <1>2, <2>1, <2>3, <2>4 DEF Served, DirectoryAtHand
  <2>6. QED
    BY <1>1, <1>2, <1>3, <2>1, <2>3, <2>5, ServedOthers DEF Body, Installation
<1>6. QED
  BY <1>4, <1>5 DEF Disk

LEMMA ServedLockFile ==
  TypeOK /\ PastIsServed /\ LockFileSteps => PastIsServed'
<1> SUFFICES ASSUME TypeOK, PastIsServed, LockFileSteps PROVE PastIsServed'
  OBVIOUS
<1>1. cli \in Cli /\ cli.outcome = "none" /\ UNCHANGED <<tree, manifest>>
      /\ cli.todo = {} /\ cli.pc \in {"next", "truncate", "write"}
  BY DEF TypeOK, WellFormed, LockFileSteps, EndLoop, TruncateLock, WriteLock,
         Continue
<1>2. \A n \in Listed : Served(n)
  BY <1>1 DEF PastIsServed, InHand, Body, Installation
<1>3. ASSUME NEW outcome \in {"succeeded", "warned"}, cli' = Exited(outcome),
             outcome = "succeeded" /\ ~cli.dry => lock' = cli.newLock
      PROVE  PastIsServed'
  <2>1. cli'.cmd = cli.cmd /\ cli'.targets = cli.targets
        /\ cli'.locked = cli.locked /\ cli'.newLock = cli.newLock
        /\ cli'.dry = cli.dry /\ cli'.pc = "exited" /\ cli'.outcome = outcome
    BY <1>1, <1>3, ExitOK DEF Exited, Cli
  <2>2. \A n \in Listed' : Served(n)'
    BY <1>1, <1>2, <2>1 DEF Served, Listed
  <2>3. QED
    BY <1>3, <2>1, <2>2 DEF PastIsServed, DirectoryAtHand
<1>4. ASSUME NEW pc \in {"truncate", "write"}, cli' = [cli EXCEPT !.pc = pc]
      PROVE  PastIsServed'
  <2>1. cli'.cmd = cli.cmd /\ cli'.targets = cli.targets
        /\ cli'.locked = cli.locked /\ cli'.newLock = cli.newLock
        /\ cli'.dry = cli.dry /\ cli'.pc = pc /\ cli'.outcome = "none"
    BY <1>1, <1>4 DEF Cli
  <2>2. \A n \in Listed' : Served(n)'
    BY <1>1, <1>2, <2>1 DEF Served, Listed
  <2>3. QED
    BY <2>1, <2>2 DEF PastIsServed, DirectoryAtHand
<1>5. QED
  BY <1>3, <1>4 DEF LockFileSteps, EndLoop, TruncateLock, WriteLock, Continue

\* The loop keeps its debts to the components it is past, and a success
\* reports what the new lock file and the directories then are.
LEMMA PastIsServedInductive == Spec => []PastIsServed
<1>1. Init => PastIsServed
  BY DEF Init, PastIsServed, DirectoryAtHand, NotRun
<1>2. TypeOK /\ PastIsServed /\ [Next]_vars => PastIsServed'
  <2> SUFFICES ASSUME TypeOK, PastIsServed, [Next]_vars
               PROVE  PastIsServed'
    OBVIOUS
  <2>1. CASE UNCHANGED vars
    BY <2>1 DEF vars, PastIsServed, InHand, Served, DirectoryAtHand, Listed
  <2>2. QED
    BY <2>1, ServedOutside, ServedPick, ServedQuiet, ServedDisk,
       ServedLockFile DEF Next, Outside, Starts, Disk, LockFileSteps
<1>3. QED
  BY <1>1, <1>2, TypeCorrect, PTL DEF Spec

\* A successful update leaves the lock entries it was not asked for alone.
THEOREM OthersAreKept == Spec => []UpdateKeepsOthers
<1>1. PastIsServed => UpdateKeepsOthers
  BY DEF PastIsServed, UpdateKeepsOthers, Served, Reported
<1>2. QED
  BY <1>1, PastIsServedInductive, PTL

\* After a successful sync every component has a lock entry and a directory.
THEOREM SyncLeavesNoneOut == Spec => []SyncedMeansPresent
<1>1. PastIsServed => SyncedMeansPresent
  BY DEF PastIsServed, SyncedMeansPresent, Served, Reported
<1>2. QED
  BY <1>1, PastIsServedInductive, PTL
=============================================================================
