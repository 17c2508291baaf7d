------------------------- MODULE ComponentRegistry -------------------------
(***************************************************************************)
(* The component registry: the HTTP handlers of                            *)
(* backend/internal/components, the DynamoDB rows and S3 objects they      *)
(* keep, and the ds-components commands that drive them (register, push,   *)
(* pull) together with direct API callers (deprecate, delete).             *)
(*                                                                         *)
(* A client is one invocation: it issues one command and waits for each    *)
(* answer, so the client and the handler that serves it form one           *)
(* sequential process whose steps are the calls to DynamoDB and S3.        *)
(* Between two steps any other client may run.                             *)
(***************************************************************************)
EXTENDS FiniteSets, Naturals

CONSTANTS
  Clients,     \* invocations; each runs at most one command
  Names,       \* component names
  Versions,    \* version strings
  Archives,    \* tar.gz archives; SHA-256 taken as injective, so an archive
               \* also stands for its checksum
  NoVersion,   \* the empty version string
  Absent,      \* no item, no object, or a field not filled yet
  Commands     \* the commands clients may issue

ASSUME ConstantsAssumption ==
  /\ NoVersion \notin Versions
  /\ Absent \notin Versions /\ Absent # NoVersion
  /\ Absent \notin Clients \cup Names \cup Archives
  /\ Absent \notin [author : Clients, latest : Versions \cup {NoVersion}]
  /\ Absent \notin [checksum : Archives, deprecated : BOOLEAN,
                    publisher : Clients]
  /\ Commands \subseteq {"register", "push", "deprecate", "delete", "pull"}

VARIABLES
  metadata,         \* METADATA item of each component, as last written
  versions,         \* VERSION# items of each component, as last written
  metadataReplica,  \* the same items as a lagging replica still has them:
  versionsReplica,  \* GetItem is issued without ConsistentRead
  artifacts,        \* object stored under {name}/{version}.tar.gz
  request           \* progress of each client's command

vars == <<metadata, versions, metadataReplica, versionsReplica, artifacts,
          request>>

-----------------------------------------------------------------------------
(* Items and requests.                                                     *)

Component == [author : Clients, latest : Versions \cup {NoVersion}]

\* published_by and published_at identify a publication; here the client does.
Version == [checksum : Archives, deprecated : BOOLEAN, publisher : Clients]

Steps == {"idle", "register", "getComponent", "checkVersion", "transact",
          "presignPut", "put", "deprecate", "deleteRow", "deleteArtifact",
          "resolve", "listVersions", "getVersion", "download", "extract",
          "done", "failed"}

\* archive: what a push uploads, or what a pull downloaded.
\* row: the version record a pull received with its download URL.
\* applied: history; whether the command's write to the table took effect.
Request == [op      : {"none", "register", "push", "deprecate", "delete", "pull"},
            pc      : Steps,
            name    : Names \cup {Absent},
            version : Versions \cup {NoVersion, Absent},
            archive : Archives \cup {Absent},
            row     : Version \cup {Absent},
            applied : BOOLEAN]

Idle == [op |-> "none", pc |-> "idle", name |-> Absent, version |-> Absent,
         archive |-> Absent, row |-> Absent, applied |-> FALSE]

Init ==
  /\ metadata = [c \in Names |-> Absent]
  /\ versions = [c \in Names |-> [v \in Versions |-> Absent]]
  /\ metadataReplica = metadata
  /\ versionsReplica = versions
  /\ artifacts = [c \in Names |-> [v \in Versions |-> Absent]]
  /\ request = [k \in Clients |-> Idle]

Finished == {"done", "failed"}

Become(k, q) == request' = [request EXCEPT ![k] = q]

\* Client k's request moves on to step pc.
Goto(k, pc) == Become(k, [request[k] EXCEPT !.pc = pc])

\* The write of client k took effect; it moves on to step pc.
Applied(k, pc) ==
  Become(k, [request[k] EXCEPT !.pc = pc, !.applied = TRUE])

ReadMetadata(c) == {metadata[c], metadataReplica[c]}
ReadVersion(c, v) == {versions[c][v], versionsReplica[c][v]}

-----------------------------------------------------------------------------
(* Commands start.                                                         *)

Begin(k, op, pc, c, v, a) ==
  /\ op \in Commands
  /\ request[k].pc = "idle"
  /\ Become(k, [op |-> op, pc |-> pc, name |-> c, version |-> v,
                archive |-> a, row |-> Absent, applied |-> FALSE])
  /\ UNCHANGED <<metadata, versions, metadataReplica, versionsReplica,
                 artifacts>>

StartRegister(k) ==
  \E c \in Names : Begin(k, "register", "register", c, Absent, Absent)

\* push archives the directory and computes its checksum before it calls.
StartPush(k) ==
  \E c \in Names, v \in Versions, a \in Archives :
    Begin(k, "push", "getComponent", c, v, a)

StartDeprecate(k) ==
  \E c \in Names, v \in Versions :
    Begin(k, "deprecate", "deprecate", c, v, Absent)

StartDelete(k) ==
  \E c \in Names, v \in Versions :
    Begin(k, "delete", "deleteRow", c, v, Absent)

\* pull with a version goes straight to it, without one it resolves latest.
StartPull(k) ==
  \E c \in Names :
    \/ Begin(k, "pull", "resolve", c, NoVersion, Absent)
    \/ \E v \in Versions : Begin(k, "pull", "getVersion", c, v, Absent)

(* A step ends in an error that leaves the stores alone: a rejected request *)
(* (no user, invalid name, version or body), a DynamoDB or presign error, a *)
(* refused or expired URL, a broken connection, a killed command. The       *)
(* artifact deletion is not here: its error is only logged.                 *)
Fail(k) ==
  /\ request[k].pc \notin {"idle", "deleteArtifact"} \cup Finished
  /\ Goto(k, "failed")
  /\ UNCHANGED <<metadata, versions, metadataReplica, versionsReplica,
                 artifacts>>

-----------------------------------------------------------------------------
(* RegisterComponentHandler: a conditional PutItem. The caller may see an  *)
(* error although the item was stored.                                     *)

\* MUTANT: a PutItem that carries no condition.
UnconditionalRegistration(c) == TRUE

RegistrationHolds(c) == metadata[c] = Absent

RegisterComponent(k) ==
  LET c == request[k].name IN
  /\ request[k].pc = "register"
  /\ \/ /\ RegistrationHolds(c)
        /\ metadata' = [metadata EXCEPT
                          ![c] = [author |-> k, latest |-> NoVersion]]
        /\ \E pc \in Finished : Applied(k, pc)
     \/ /\ ~RegistrationHolds(c)
        /\ Goto(k, "failed")
        /\ UNCHANGED metadata
  /\ UNCHANGED <<versions, metadataReplica, versionsReplica, artifacts>>

-----------------------------------------------------------------------------
(* PublishVersionHandler and the upload that follows it.                   *)

PublishGetComponent(k) ==
  /\ request[k].pc = "getComponent"
  /\ \E row \in ReadMetadata(request[k].name) :
       Goto(k, IF row = Absent THEN "failed" ELSE "checkVersion")
  /\ UNCHANGED <<metadata, versions, metadataReplica, versionsReplica,
                 artifacts>>

PublishCheckVersion(k) ==
  /\ request[k].pc = "checkVersion"
  /\ \E row \in ReadVersion(request[k].name, request[k].version) :
       Goto(k, IF row = Absent THEN "transact" ELSE "failed")
  /\ UNCHANGED <<metadata, versions, metadataReplica, versionsReplica,
                 artifacts>>

\* MUTANT: the version item is put whether or not it is there already.
OverwritingTransaction(c, v) == metadata[c] # Absent

\* The two conditions of the TransactWriteItems call.
TransactionHolds(c, v) == versions[c][v] = Absent /\ metadata[c] # Absent

\* MUTANT: the update of the METADATA item forgets latest_version.
KeepLatest(row, v) == row

\* SET latest_version = :version; every other attribute stays.
SetLatest(row, v) == [row EXCEPT !.latest = v]

\* Put the version item and set the component's latest_version, or neither.
PublishTransact(k) ==
  LET c == request[k].name
      v == request[k].version IN
  /\ request[k].pc = "transact"
  /\ \/ /\ TransactionHolds(c, v)
        /\ versions' = [versions EXCEPT ![c][v] =
                          [checksum |-> request[k].archive,
                           deprecated |-> FALSE, publisher |-> k]]
        /\ metadata' = [metadata EXCEPT ![c] = SetLatest(@, v)]
        /\ \E pc \in {"presignPut", "failed"} : Applied(k, pc)
     \/ /\ ~TransactionHolds(c, v)
        /\ Goto(k, "failed")
        /\ UNCHANGED <<metadata, versions>>
  /\ UNCHANGED <<metadataReplica, versionsReplica, artifacts>>

\* The URL names only the key: any archive put there replaces the object.
PublishPresign(k) ==
  /\ request[k].pc = "presignPut"
  /\ Goto(k, "put")
  /\ UNCHANGED <<metadata, versions, metadataReplica, versionsReplica,
                 artifacts>>

UploadArtifact(k) ==
  LET c == request[k].name
      v == request[k].version IN
  /\ request[k].pc = "put"
  /\ artifacts' = [artifacts EXCEPT ![c][v] = request[k].archive]
  /\ \E pc \in Finished : Goto(k, pc)
  /\ UNCHANGED <<metadata, versions, metadataReplica, versionsReplica>>

-----------------------------------------------------------------------------
(* DeleteVersionHandler: deprecation, or the row and then the object.      *)

DeprecateVersion(k) ==
  LET c == request[k].name
      v == request[k].version IN
  /\ request[k].pc = "deprecate"
  /\ \/ /\ versions[c][v] # Absent
        /\ versions' = [versions EXCEPT ![c][v].deprecated = TRUE]
        /\ \E pc \in Finished : Applied(k, pc)
     \/ /\ versions[c][v] = Absent
        /\ Goto(k, "failed")
        /\ UNCHANGED versions
  /\ UNCHANGED <<metadata, metadataReplica, versionsReplica, artifacts>>

\* MUTANT: a DeleteItem without a condition succeeds on a missing item too.
UnconditionalDeletion(c, v) == TRUE

DeletionHolds(c, v) == versions[c][v] # Absent

\* latest_version is left as it was, even when it names the deleted version.
DeleteVersion(k) ==
  LET c == request[k].name
      v == request[k].version IN
  /\ request[k].pc = "deleteRow"
  /\ \/ /\ DeletionHolds(c, v)
        /\ versions' = [versions EXCEPT ![c][v] = Absent]
        /\ \E pc \in {"deleteArtifact", "failed"} : Applied(k, pc)
     \/ /\ ~DeletionHolds(c, v)
        /\ Goto(k, "failed")
        /\ UNCHANGED versions
  /\ UNCHANGED <<metadata, metadataReplica, versionsReplica, artifacts>>

\* The row is gone by now: an S3 error leaves the object and still answers 204.
DeleteArtifact(k) ==
  LET c == request[k].name
      v == request[k].version IN
  /\ request[k].pc = "deleteArtifact"
  /\ \/ artifacts' = [artifacts EXCEPT ![c][v] = Absent]
     \/ UNCHANGED artifacts
  /\ Goto(k, "done")
  /\ UNCHANGED <<metadata, versions, metadataReplica, versionsReplica>>

-----------------------------------------------------------------------------
(* pull: resolve the version, fetch the record and URL, download, verify,  *)
(* extract.                                                                *)

\* MUTANT: a component without versions is not told apart.
UncheckedLatest(row) == row # Absent

HasVersions(row) == row # Absent /\ row.latest # NoVersion

ResolveLatest(k) ==
  /\ request[k].pc = "resolve"
  /\ \E row \in ReadMetadata(request[k].name) :
       \/ /\ HasVersions(row)
          /\ Become(k, [request[k] EXCEPT !.pc = "listVersions",
                                          !.version = row.latest])
       \/ /\ ~HasVersions(row)
          /\ Goto(k, "failed")
  /\ UNCHANGED <<metadata, versions, metadataReplica, versionsReplica,
                 artifacts>>

\* GetComponentHandler also queries the versions; pull does not look at them.
ListVersions(k) ==
  /\ request[k].pc = "listVersions"
  /\ Goto(k, "getVersion")
  /\ UNCHANGED <<metadata, versions, metadataReplica, versionsReplica,
                 artifacts>>

\* GetVersionHandler presigns the key without looking at the object.
GetVersion(k) ==
  /\ request[k].pc = "getVersion"
  /\ \E row \in ReadVersion(request[k].name, request[k].version) :
       \/ /\ row # Absent
          /\ Become(k, [request[k] EXCEPT !.pc = "download", !.row = row])
       \/ /\ row = Absent
          /\ Goto(k, "failed")
  /\ UNCHANGED <<metadata, versions, metadataReplica, versionsReplica,
                 artifacts>>

\* MUTANT: the downloaded bytes are extracted unverified.
SkipVerification(data, row) == TRUE

\* What the URL returns is kept only when its checksum is the recorded one.
ChecksumMatches(data, row) == data = row.checksum

Download(k) ==
  LET data == artifacts[request[k].name][request[k].version] IN
  /\ request[k].pc = "download"
  /\ \/ /\ data # Absent
        /\ ChecksumMatches(data, request[k].row)
        /\ Become(k, [request[k] EXCEPT !.pc = "extract",
                                        !.archive = data])
     \/ /\ ~(data # Absent /\ ChecksumMatches(data, request[k].row))
        /\ Goto(k, "failed")
  /\ UNCHANGED <<metadata, versions, metadataReplica, versionsReplica,
                 artifacts>>

Extract(k) ==
  /\ request[k].pc = "extract"
  /\ Goto(k, "done")
  /\ UNCHANGED <<metadata, versions, metadataReplica, versionsReplica,
                 artifacts>>

-----------------------------------------------------------------------------
(* DynamoDB brings a lagging replica up to date, one item at a time.       *)

ReplicateMetadata(c) ==
  /\ metadataReplica' = [metadataReplica EXCEPT ![c] = metadata[c]]
  /\ UNCHANGED <<metadata, versions, versionsReplica, artifacts, request>>

ReplicateVersion(c, v) ==
  /\ versionsReplica' = [versionsReplica EXCEPT ![c][v] = versions[c][v]]
  /\ UNCHANGED <<metadata, versions, metadataReplica, artifacts, request>>

Replicate ==
  \E c \in Names :
    \/ ReplicateMetadata(c)
    \/ \E v \in Versions : ReplicateVersion(c, v)

Step(k) ==
  \/ StartRegister(k) \/ StartPush(k) \/ StartDeprecate(k)
  \/ StartDelete(k) \/ StartPull(k) \/ Fail(k)
  \/ RegisterComponent(k)
  \/ PublishGetComponent(k) \/ PublishCheckVersion(k) \/ PublishTransact(k)
  \/ PublishPresign(k) \/ UploadArtifact(k)
  \/ DeprecateVersion(k) \/ DeleteVersion(k) \/ DeleteArtifact(k)
  \/ ResolveLatest(k) \/ ListVersions(k) \/ GetVersion(k)
  \/ Download(k) \/ Extract(k)

Next == Replicate \/ \E k \in Clients : Step(k)

Spec == Init /\ [][Next]_vars

-----------------------------------------------------------------------------
(* Properties.                                                             *)

PushSteps == {"getComponent", "checkVersion", "transact", "presignPut", "put"}

\* The fields a command has filled in by the time it reaches a step.
WellFormed(q) ==
  /\ q.op = "none" <=> q.pc = "idle"
  /\ q.applied => q.op # "none"
  /\ q.op # "none" => q.name \in Names
  /\ q.op \in {"push", "deprecate", "delete"} => q.version \in Versions
  /\ q.op = "push" => q.archive \in Archives
  /\ q.pc = "register" => q.op = "register"
  /\ q.pc \in PushSteps => q.op = "push"
  /\ q.pc = "deprecate" => q.op = "deprecate"
  /\ q.pc \in {"deleteRow", "deleteArtifact"} => q.op = "delete"
  /\ q.pc \in {"resolve", "listVersions", "getVersion", "download", "extract"}
       => q.op = "pull"
  /\ q.pc \in {"listVersions", "getVersion", "download", "extract"}
       => q.version \in Versions
  /\ q.pc \in {"download", "extract"} => q.row \in Version
  /\ q.pc = "extract" => q.archive \in Archives
  /\ q.op = "pull" /\ q.pc = "done"
       => q.version \in Versions /\ q.row \in Version /\ q.archive \in Archives

RequestsOK ==
  /\ request \in [Clients -> Request]
  /\ \A k \in Clients : WellFormed(request[k])

\* Every item, object and request has its type, the fields of a request
\* according to the step it is at; the replicas hold items too.
TypeOK ==
  /\ metadata \in [Names -> Component \cup {Absent}]
  /\ versions \in [Names -> [Versions -> Version \cup {Absent}]]
  /\ metadataReplica \in [Names -> Component \cup {Absent}]
  /\ versionsReplica \in [Names -> [Versions -> Version \cup {Absent}]]
  /\ artifacts \in [Names -> [Versions -> Archives \cup {Absent}]]
  /\ RequestsOK

\* The pushes of version v of component c that took effect, and the deletions.
Publications(c, v) ==
  {k \in Clients : /\ request[k].op = "push" /\ request[k].applied
                   /\ request[k].name = c /\ request[k].version = v}

Deletions(c, v) ==
  {k \in Clients : /\ request[k].op = "delete" /\ request[k].applied
                   /\ request[k].name = c /\ request[k].version = v}

(* A client told that it registered a component is its author for good,    *)
(* however many clients register the name at once (RegisterComponent).     *)
RegistrationHasOneWinner ==
  \A k \in Clients :
    request[k].op = "register" /\ request[k].pc = "done"
      => LET row == metadata[request[k].name] IN
           row # Absent /\ row.author = k

(* A version item never outlives its component, and a component with       *)
(* versions always has a latest_version: no registration, publication or   *)
(* deletion may leave a version that pull cannot find its way to.          *)
VersionsBelongToComponents ==
  \A c \in Names, v \in Versions :
    versions[c][v] # Absent
      => metadata[c] # Absent /\ metadata[c].latest # NoVersion

(* Publications and deletions of one version alternate: as many took effect *)
(* as there were deletions that took effect, plus the one whose item is     *)
(* stored. The pre-check of PublishVersionHandler reads lagging replicas    *)
(* and races with other pushes; this is what keeps two of them from both    *)
(* being accepted, and one deletion from being answered twice.              *)
LedgerBalances ==
  \A c \in Names, v \in Versions :
    Cardinality(Publications(c, v)) =
      Cardinality(Deletions(c, v)) + IF versions[c][v] = Absent THEN 0 ELSE 1

(* A pull that finished extracted the very archive that the publisher named *)
(* in its version record pushed under that name and version, though the     *)
(* record may come from a lagging replica, the object from another push,    *)
(* and either may have been replaced in between (runPull).                  *)
PulledWhatWasPublished ==
  \A k \in Clients :
    request[k].op = "pull" /\ request[k].pc = "done"
      => /\ request[k].row.publisher \in
              Publications(request[k].name, request[k].version)
         /\ request[k].archive = request[request[k].row.publisher].archive

\* The push that a version record names did publish that name and version,
\* with the archive whose checksum the record holds.
Backed(row, c, v) ==
  /\ row.publisher \in Publications(c, v)
  /\ row.checksum = request[row.publisher].archive

Received(k) ==
  \/ request[k].pc \in {"download", "extract"}
  \/ request[k].op = "pull" /\ request[k].pc = "done"

(* Wherever a version record lives (table, replica, a pull under way) a     *)
(* publication of that very version stands behind it, and what a pull keeps *)
(* of a download is what the record promises. Inductive with TypeOK.        *)
RecordsAreBacked ==
  /\ \A c \in Names, v \in Versions :
       /\ versions[c][v] # Absent => Backed(versions[c][v], c, v)
       /\ versionsReplica[c][v] # Absent => Backed(versionsReplica[c][v], c, v)
  /\ \A k \in Clients :
       Received(k) =>
         /\ Backed(request[k].row, request[k].name, request[k].version)
         /\ request[k].pc # "download"
              => request[k].archive = request[k].row.checksum

(* A stored version item keeps its checksum and its publisher and never     *)
(* stops being deprecated until a deletion removes it.                      *)
VersionsAreWriteOnce ==
  [][\A c \in Names, v \in Versions :
       versions[c][v] # Absent /\ versions'[c][v] # Absent
         => /\ versions'[c][v].checksum = versions[c][v].checksum
            /\ versions'[c][v].publisher = versions[c][v].publisher
            /\ versions[c][v].deprecated => versions'[c][v].deprecated]_vars

\* No deletion of a version of component c took effect so far.
NothingDeleted(c) == \A v \in Versions : Deletions(c, v) = {}

StoresLatest(c) ==
  \A v \in Versions :
    versions[c][v] # Absent
      => /\ metadata[c].latest \in Versions
         /\ versions[c][metadata[c].latest] # Absent

Downloadable(c, v) ==
  versions[c][v] # Absent /\ request[versions[c][v].publisher].pc = "done"
    => artifacts[c][v] = versions[c][v].checksum

(* Until a version of a component is deleted, latest_version names a stored *)
(* version, and the object of each push that reported success is the one it *)
(* uploaded, whatever the order in which pushes publish and upload.         *)
ConsistentUntilDeletion ==
  \A c \in Names :
    NothingDeleted(c) =>
      StoresLatest(c) /\ \A v \in Versions : Downloadable(c, v)

(* While the version item of a push that reported success is stored, the    *)
(* object under its key is the archive it uploaded.                         *)
SuccessfulPushIsDownloadable ==
  \A c \in Names, v \in Versions : Downloadable(c, v)
=============================================================================
