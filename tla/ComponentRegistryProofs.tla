---------------------- MODULE ComponentRegistryProofs ----------------------
(***************************************************************************)
(* Theorems about ComponentRegistry, for every value of its constants: its *)
(* invariants, those that count its publications and deletions, and that   *)
(* it implements the version catalog.                                      *)
(***************************************************************************)
EXTENDS RegistryImplementsCatalog, FiniteSetTheorems, TLAPS

-----------------------------------------------------------------------------
(* Tables indexed by name and version.                                     *)

\* Updating one cell of a table keeps its type, and changes that cell only.
LEMMA TableUpdate ==
  ASSUME NEW S, NEW f \in [Names -> [Versions -> S]],
         NEW c \in Names, NEW v \in Versions, NEW x \in S
  PROVE  /\ [f EXCEPT ![c][v] = x] \in [Names -> [Versions -> S]]
         /\ [f EXCEPT ![c][v] = x][c][v] = x
         /\ \A d \in Names, w \in Versions :
              <<d, w>> # <<c, v>> => [f EXCEPT ![c][v] = x][d][w] = f[d][w]
<1>1. [f EXCEPT ![c][v] = x] = [f EXCEPT ![c] = [f[c] EXCEPT ![v] = x]]
  OBVIOUS
<1>2. f[c] \in [Versions -> S]
  OBVIOUS
<1>3. QED
  BY <1>1, <1>2

LEMMA DeprecatedVersion ==
  ASSUME NEW row \in Version
  PROVE  [row EXCEPT !.deprecated = TRUE] \in Version
BY DEF Version

-----------------------------------------------------------------------------
(* Type correctness.                                                       *)

\* Only the record of the client that takes a step has to be looked at.
LEMMA RequestsStayWellFormed ==
  ASSUME RequestsOK, NEW k \in Clients, NEW q \in Request, WellFormed(q),
         Become(k, q)
  PROVE  RequestsOK'
<1>1. request' \in [Clients -> Request]
  BY DEF RequestsOK, Become
<1>2. ASSUME NEW j \in Clients
      PROVE  WellFormed(request'[j])
  BY DEF RequestsOK, Become
<1>3. QED
  BY <1>1, <1>2 DEF RequestsOK, WellFormed

\* Moving a request on to a step that its command goes through, or to its end.
LEMMA MoveOn ==
  ASSUME NEW q \in Request, WellFormed(q), NEW pc, q.pc # "idle",
         \/ pc = "failed"
         \/ pc = "done" /\ q.op # "pull"
         \/ pc = "done" /\ q.pc = "extract"
         \/ pc \in PushSteps /\ q.op = "push"
         \/ pc = "deleteArtifact" /\ q.op = "delete"
         \/ pc = "getVersion" /\ q.pc = "listVersions"
  PROVE  /\ [q EXCEPT !.pc = pc] \in Request
         /\ WellFormed([q EXCEPT !.pc = pc])
         /\ [q EXCEPT !.pc = pc, !.applied = TRUE] \in Request
         /\ WellFormed([q EXCEPT !.pc = pc, !.applied = TRUE])
<1>1. pc \in Steps /\ pc # "idle"
  BY DEF Steps, PushSteps
<1>2. [q EXCEPT !.pc = pc] \in Request
  BY <1>1 DEF Request
<1>3. [q EXCEPT !.pc = pc, !.applied = TRUE] \in Request
  BY <1>1 DEF Request
<1>4. WellFormed([q EXCEPT !.pc = pc])
  BY <1>1 DEF WellFormed, PushSteps, Request
<1>5. WellFormed([q EXCEPT !.pc = pc, !.applied = TRUE])
  BY <1>1 DEF WellFormed, PushSteps, Request
<1>6. QED
  BY <1>2, <1>3, <1>4, <1>5

\* Starting a command fills in exactly the fields its first step needs.
LEMMA BeginWellFormed ==
  ASSUME NEW op, NEW pc, NEW c \in Names, NEW v, NEW a,
         \/ op = "register" /\ pc = "register" /\ v = Absent /\ a = Absent
         \/ op = "push" /\ pc = "getComponent" /\ v \in Versions /\ a \in Archives
         \/ op = "deprecate" /\ pc = "deprecate" /\ v \in Versions /\ a = Absent
         \/ op = "delete" /\ pc = "deleteRow" /\ v \in Versions /\ a = Absent
         \/ op = "pull" /\ pc = "resolve" /\ v = NoVersion /\ a = Absent
         \/ op = "pull" /\ pc = "getVersion" /\ v \in Versions /\ a = Absent
  PROVE  LET q == [op |-> op, pc |-> pc, name |-> c, version |-> v,
                   archive |-> a, row |-> Absent, applied |-> FALSE]
         IN  q \in Request /\ WellFormed(q)
<1>1. pc \in Steps
  BY DEF Steps
<1>2. QED
  BY <1>1 DEF Request, WellFormed, PushSteps

LEMMA InitTypeOK == Init => TypeOK
<1>1. "idle" \in Steps
  BY DEF Steps
<1>2. Idle \in Request
  BY <1>1 DEF Idle, Request
<1>3. WellFormed(Idle)
  BY DEF Idle, WellFormed, PushSteps
<1>4. QED
  BY <1>2, <1>3 DEF Init, TypeOK, RequestsOK

LEMMA StartTypeOK ==
  ASSUME TypeOK, NEW k \in Clients,
         \/ StartRegister(k) \/ StartPush(k) \/ StartDeprecate(k)
         \/ StartDelete(k) \/ StartPull(k)
  PROVE  TypeOK'
<1>1. CASE StartRegister(k)
  BY <1>1, BeginWellFormed, RequestsStayWellFormed DEF StartRegister, Begin, TypeOK
<1>2. CASE StartPush(k)
  BY <1>2, BeginWellFormed, RequestsStayWellFormed DEF StartPush, Begin, TypeOK
<1>3. CASE StartDeprecate(k)
  BY <1>3, BeginWellFormed, RequestsStayWellFormed DEF StartDeprecate, Begin, TypeOK
<1>4. CASE StartDelete(k)
  BY <1>4, BeginWellFormed, RequestsStayWellFormed DEF StartDelete, Begin, TypeOK
<1>5. CASE StartPull(k)
  BY <1>5, BeginWellFormed, RequestsStayWellFormed DEF StartPull, Begin, TypeOK
<1>6. QED
  BY <1>1, <1>2, <1>3, <1>4, <1>5

LEMMA GotoRequestsOK ==
  ASSUME RequestsOK, NEW k \in Clients, NEW pc, request[k].pc # "idle",
         \/ pc = "failed"
         \/ pc = "done" /\ request[k].op # "pull"
         \/ pc = "done" /\ request[k].pc = "extract"
         \/ pc \in PushSteps /\ request[k].op = "push"
         \/ pc = "deleteArtifact" /\ request[k].op = "delete"
         \/ pc = "getVersion" /\ request[k].pc = "listVersions",
         Goto(k, pc) \/ Applied(k, pc)
  PROVE  RequestsOK'
<1>1. request[k] \in Request /\ WellFormed(request[k])
  BY DEF RequestsOK
<1>2. CASE Goto(k, pc)
  BY <1>1, <1>2, MoveOn, RequestsStayWellFormed DEF Goto, RequestsOK
<1>3. CASE Applied(k, pc)
  BY <1>1, <1>3, MoveOn, RequestsStayWellFormed DEF Applied, RequestsOK
<1>4. QED
  BY <1>2, <1>3

\* What a step of a command tells about the request it belongs to.
LEMMA StepOfCommand ==
  ASSUME TypeOK, NEW k \in Clients
  PROVE  /\ RequestsOK
         /\ request[k] \in Request
         /\ WellFormed(request[k])
         /\ request[k].pc = "register" =>
              request[k].op = "register" /\ request[k].name \in Names
         /\ request[k].pc \in PushSteps =>
              /\ request[k].op = "push" /\ request[k].name \in Names
              /\ request[k].version \in Versions
              /\ request[k].archive \in Archives
         /\ request[k].pc = "deprecate" =>
              /\ request[k].op = "deprecate" /\ request[k].name \in Names
              /\ request[k].version \in Versions
         /\ request[k].pc \in {"deleteRow", "deleteArtifact"} =>
              /\ request[k].op = "delete" /\ request[k].name \in Names
              /\ request[k].version \in Versions
         /\ request[k].pc \in {"resolve", "listVersions", "getVersion",
                               "download", "extract"} =>
              request[k].op = "pull" /\ request[k].name \in Names
         /\ request[k].pc \in {"listVersions", "getVersion", "download",
                               "extract"} => request[k].version \in Versions
<1>1. RequestsOK /\ request[k] \in Request /\ WellFormed(request[k])
  BY DEF TypeOK, RequestsOK
<1>2. QED
  BY <1>1 DEF WellFormed, PushSteps

LEMMA ReplicateTypeOK ==
  ASSUME TypeOK, Replicate
  PROVE  TypeOK'
<1>1. RequestsOK'
  BY DEF Replicate, ReplicateMetadata, ReplicateVersion, TypeOK, RequestsOK,
         WellFormed
<1>2. CASE \E c \in Names : ReplicateMetadata(c)
  BY <1>1, <1>2 DEF ReplicateMetadata, TypeOK
<1>3. CASE \E c \in Names, v \in Versions : ReplicateVersion(c, v)
  <2>1. PICK c \in Names, v \in Versions : ReplicateVersion(c, v)
    BY <1>3
  <2>2. versions[c][v] \in Version \cup {Absent}
    BY DEF TypeOK
  <2>3. versionsReplica' \in [Names -> [Versions -> Version \cup {Absent}]]
    BY <2>1, <2>2, TableUpdate DEF ReplicateVersion, TypeOK
  <2>4. QED
    BY <1>1, <2>1, <2>3 DEF ReplicateVersion, TypeOK
<1>4. QED
  BY <1>2, <1>3 DEF Replicate

\* Steps that only move the request on.
LEMMA QuietTypeOK ==
  ASSUME TypeOK, NEW k \in Clients,
         \/ Fail(k) \/ PublishGetComponent(k) \/ PublishCheckVersion(k)
         \/ PublishPresign(k) \/ ListVersions(k) \/ Extract(k)
  PROVE  TypeOK'
<1>1. RequestsOK /\ WellFormed(request[k])
  BY StepOfCommand
<1>2. CASE Fail(k)
  BY <1>1, <1>2, GotoRequestsOK DEF Fail, TypeOK
<1>3. CASE PublishGetComponent(k)
  <2>1. request[k].op = "push"
    BY <1>3, StepOfCommand DEF PublishGetComponent, PushSteps
  <2>2. \E pc \in {"failed", "checkVersion"} : Goto(k, pc)
    BY <1>3 DEF PublishGetComponent
  <2>3. RequestsOK'
    BY <1>1, <1>3, <2>1, <2>2, GotoRequestsOK DEF PublishGetComponent, PushSteps
  <2>4. QED
    BY <1>3, <2>3 DEF PublishGetComponent, TypeOK
<1>4. CASE PublishCheckVersion(k)
  <2>1. request[k].op = "push"
    BY <1>4, StepOfCommand DEF PublishCheckVersion, PushSteps
  <2>2. \E pc \in {"failed", "transact"} : Goto(k, pc)
    BY <1>4 DEF PublishCheckVersion
  <2>3. RequestsOK'
    BY <1>1, <1>4, <2>1, <2>2, GotoRequestsOK DEF PublishCheckVersion, PushSteps
  <2>4. QED
    BY <1>4, <2>3 DEF PublishCheckVersion, TypeOK
<1>5. CASE PublishPresign(k)
  <2>1. request[k].op = "push"
    BY <1>5, StepOfCommand DEF PublishPresign, PushSteps
  <2>2. RequestsOK'
    BY <1>1, <1>5, <2>1, GotoRequestsOK DEF PublishPresign, PushSteps
  <2>3. QED
    BY <1>5, <2>2 DEF PublishPresign, TypeOK
<1>6. CASE ListVersions(k)
  BY <1>1, <1>6, GotoRequestsOK DEF ListVersions, TypeOK
<1>7. CASE Extract(k)
  BY <1>1, <1>7, GotoRequestsOK DEF Extract, TypeOK
<1>8. QED
  BY <1>2, <1>3, <1>4, <1>5, <1>6, <1>7

LEMMA RegisterTypeOK ==
  ASSUME TypeOK, NEW k \in Clients, RegisterComponent(k)
  PROVE  TypeOK'
<1>1. RequestsOK /\ request[k].op = "register" /\ request[k].name \in Names
  BY StepOfCommand DEF RegisterComponent
<1>2. \E pc \in Finished : Goto(k, pc) \/ Applied(k, pc)
  BY DEF RegisterComponent, Finished
<1>3. RequestsOK'
  BY <1>1, <1>2, GotoRequestsOK DEF RegisterComponent, Finished
<1>4. [author |-> k, latest |-> NoVersion] \in Component
  BY DEF Component
<1>5. metadata' \in [Names -> Component \cup {Absent}]
  BY <1>1, <1>4 DEF RegisterComponent, TypeOK
<1>6. QED
  BY <1>3, <1>5 DEF RegisterComponent, TypeOK

LEMMA TransactTypeOK ==
  ASSUME TypeOK, NEW k \in Clients, PublishTransact(k)
  PROVE  TypeOK'
<1> DEFINE c == request[k].name
           v == request[k].version
           row == [checksum |-> request[k].archive, deprecated |-> FALSE,
                   publisher |-> k]
<1>1. /\ RequestsOK /\ request[k].op = "push" /\ c \in Names
      /\ v \in Versions /\ request[k].archive \in Archives
  BY StepOfCommand DEF PublishTransact, PushSteps
<1>2. \E pc \in {"presignPut", "failed"} : Goto(k, pc) \/ Applied(k, pc)
  BY DEF PublishTransact
<1>3. RequestsOK'
  BY <1>1, <1>2, GotoRequestsOK DEF PublishTransact, PushSteps
<1>4. row \in Version
  BY <1>1 DEF Version
<1>5. versions' \in [Names -> [Versions -> Version \cup {Absent}]]
  <2>1. [versions EXCEPT ![c][v] = row]
          \in [Names -> [Versions -> Version \cup {Absent}]]
    BY <1>1, <1>4, TableUpdate DEF TypeOK
  <2>2. QED
    BY <2>1 DEF PublishTransact, TypeOK
<1>6. TransactionHolds(c, v) => SetLatest(metadata[c], v) \in Component
  BY <1>1 DEF TransactionHolds, TypeOK, SetLatest, Component
<1>7. metadata' \in [Names -> Component \cup {Absent}]
  BY <1>1, <1>6 DEF PublishTransact, TypeOK
<1>8. QED
  BY <1>3, <1>5, <1>7 DEF PublishTransact, TypeOK

LEMMA UploadTypeOK ==
  ASSUME TypeOK, NEW k \in Clients, UploadArtifact(k)
  PROVE  TypeOK'
<1>1. /\ RequestsOK /\ request[k].op = "push" /\ request[k].name \in Names
      /\ request[k].version \in Versions /\ request[k].archive \in Archives
  BY StepOfCommand DEF UploadArtifact, PushSteps
<1>2. RequestsOK'
  BY <1>1, GotoRequestsOK DEF UploadArtifact, Finished
<1>3. QED
  BY <1>1, <1>2 DEF UploadArtifact, TypeOK

LEMMA DeleteHandlerTypeOK ==
  ASSUME TypeOK, NEW k \in Clients,
         DeprecateVersion(k) \/ DeleteVersion(k) \/ DeleteArtifact(k)
  PROVE  TypeOK'
<1> DEFINE c == request[k].name
           v == request[k].version
<1>1. RequestsOK /\ c \in Names /\ v \in Versions
  BY StepOfCommand DEF DeprecateVersion, DeleteVersion, DeleteArtifact
<1>2. CASE DeprecateVersion(k)
  <2>1. request[k].op = "deprecate"
    BY <1>2, StepOfCommand DEF DeprecateVersion
  <2>2. \E pc \in Finished : Goto(k, pc) \/ Applied(k, pc)
    BY <1>2 DEF DeprecateVersion, Finished
  <2>3. RequestsOK'
    BY <1>1, <1>2, <2>1, <2>2, GotoRequestsOK DEF DeprecateVersion, Finished
  <2>4. ASSUME versions[c][v] # Absent,
               versions' = [versions EXCEPT ![c][v].deprecated = TRUE]
        PROVE  versions' \in [Names -> [Versions -> Version \cup {Absent}]]
    <3>1. [versions[c][v] EXCEPT !.deprecated = TRUE] \in Version
      BY <1>1, <2>4, DeprecatedVersion DEF TypeOK
    <3>2. versions' = [versions EXCEPT ![c][v] =
                         [versions[c][v] EXCEPT !.deprecated = TRUE]]
      BY <1>1, <2>4 DEF TypeOK
    <3>3. QED
      BY <1>1, <3>1, <3>2, TableUpdate DEF TypeOK
  <2>5. versions' \in [Names -> [Versions -> Version \cup {Absent}]]
    BY <1>2, <2>4 DEF DeprecateVersion, TypeOK
  <2>6. QED
    BY <1>2, <2>3, <2>5 DEF DeprecateVersion, TypeOK
<1>3. CASE DeleteVersion(k)
  <2>1. request[k].op = "delete"
    BY <1>3, StepOfCommand DEF DeleteVersion
  <2>2. \E pc \in {"deleteArtifact", "failed"} : Goto(k, pc) \/ Applied(k, pc)
    BY <1>3 DEF DeleteVersion
  <2>3. RequestsOK'
    BY <1>1, <1>3, <2>1, <2>2, GotoRequestsOK DEF DeleteVersion
  <2>4. versions' \in [Names -> [Versions -> Version \cup {Absent}]]
    <3>1. [versions EXCEPT ![c][v] = Absent]
            \in [Names -> [Versions -> Version \cup {Absent}]]
      BY <1>1, TableUpdate DEF TypeOK
    <3>2. QED
      BY <1>3, <3>1 DEF DeleteVersion, TypeOK
  <2>5. QED
    BY <1>3, <2>3, <2>4 DEF DeleteVersion, TypeOK
<1>4. CASE DeleteArtifact(k)
  <2>1. request[k].op = "delete"
    BY <1>4, StepOfCommand DEF DeleteArtifact
  <2>2. RequestsOK'
    BY <1>1, <1>4, <2>1, GotoRequestsOK DEF DeleteArtifact
  <2>3. artifacts' \in [Names -> [Versions -> Archives \cup {Absent}]]
    <3>1. [artifacts EXCEPT ![c][v] = Absent]
            \in [Names -> [Versions -> Archives \cup {Absent}]]
      BY <1>1, TableUpdate DEF TypeOK
    <3>2. QED
      BY <1>4, <3>1 DEF DeleteArtifact, TypeOK
  <2>4. QED
    BY <1>4, <2>2, <2>3 DEF DeleteArtifact, TypeOK
<1>5. QED
  BY <1>2, <1>3, <1>4

LEMMA PullTypeOK ==
  ASSUME TypeOK, NEW k \in Clients,
         ResolveLatest(k) \/ GetVersion(k) \/ Download(k)
  PROVE  TypeOK'
<1>1. /\ RequestsOK /\ request[k] \in Request /\ WellFormed(request[k])
      /\ request[k].op = "pull" /\ request[k].name \in Names
  BY StepOfCommand DEF ResolveLatest, GetVersion, Download
<1>2. {"listVersions", "download", "extract"} \subseteq Steps
  BY DEF Steps
<1>3. Goto(k, "failed") => RequestsOK'
  BY <1>1, GotoRequestsOK DEF ResolveLatest, GetVersion, Download
<1>4. CASE ResolveLatest(k)
  <2>1. ASSUME NEW row \in ReadMetadata(request[k].name), HasVersions(row),
               Become(k, [request[k] EXCEPT !.pc = "listVersions",
                                            !.version = row.latest])
        PROVE  RequestsOK'
    <3>1. row \in Component
      BY <1>1, <2>1 DEF ReadMetadata, HasVersions, TypeOK
    <3>2. row.latest \in Versions
      BY <2>1, <3>1 DEF HasVersions, Component
    <3> DEFINE q == [request[k] EXCEPT !.pc = "listVersions",
                                       !.version = row.latest]
    <3>3. q \in Request
      BY <1>1, <1>2, <3>2 DEF Request
    <3>4. WellFormed(q)
      BY <1>1, <1>4, <3>2 DEF WellFormed, Request, PushSteps, ResolveLatest
    <3>5. QED
      BY <1>1, <2>1, <3>3, <3>4, RequestsStayWellFormed
  <2>2. RequestsOK'
    BY <1>3, <1>4, <2>1 DEF ResolveLatest
  <2>3. QED
    BY <1>4, <2>2 DEF ResolveLatest, TypeOK
<1>5. CASE GetVersion(k)
  <2>1. request[k].version \in Versions
    BY <1>5, StepOfCommand DEF GetVersion
  <2>2. ASSUME NEW row \in ReadVersion(request[k].name, request[k].version),
               row # Absent,
               Become(k, [request[k] EXCEPT !.pc = "download", !.row = row])
        PROVE  RequestsOK'
    <3>1. row \in Version
      BY <1>1, <2>1, <2>2 DEF ReadVersion, TypeOK
    <3> DEFINE q == [request[k] EXCEPT !.pc = "download", !.row = row]
    <3>2. q \in Request
      BY <1>1, <1>2, <3>1 DEF Request
    <3>3. WellFormed(q)
      BY <1>1, <2>1, <3>1 DEF WellFormed, Request, PushSteps
    <3>4. QED
      BY <1>1, <2>2, <3>2, <3>3, RequestsStayWellFormed
  <2>3. RequestsOK'
    BY <1>3, <1>5, <2>2 DEF GetVersion
  <2>4. QED
    BY <1>5, <2>3 DEF GetVersion, TypeOK
<1>6. CASE Download(k)
  <2> DEFINE data == artifacts[request[k].name][request[k].version]
  <2>1. request[k].version \in Versions /\ request[k].row \in Version
    BY <1>1, <1>6, StepOfCommand DEF Download, WellFormed
  <2>2. ASSUME data # Absent,
               Become(k, [request[k] EXCEPT !.pc = "extract",
                                            !.archive = data])
        PROVE  RequestsOK'
    <3>1. data \in Archives
      BY <1>1, <2>1, <2>2 DEF TypeOK
    <3> HIDE DEF data
    <3> DEFINE q == [request[k] EXCEPT !.pc = "extract", !.archive = data]
    <3>2. q \in Request
      BY <1>1, <1>2, <3>1 DEF Request
    <3>3. WellFormed(q)
      BY <1>1, <2>1, <3>1 DEF WellFormed, Request, PushSteps
    <3>4. QED
      BY <1>1, <2>2, <3>2, <3>3, RequestsStayWellFormed
  <2>3. RequestsOK'
    BY <1>3, <1>6, <2>2 DEF Download
  <2>4. QED
    BY <1>6, <2>3 DEF Download, TypeOK
<1>7. QED
  BY <1>4, <1>5, <1>6

\* Every item and request keeps its type: what a command writes and sends is
\* always complete, whichever errors and interleavings it meets on the way.
THEOREM TypeCorrect == Spec => []TypeOK
<1>1. TypeOK /\ [Next]_vars => TypeOK'
  <2> SUFFICES ASSUME TypeOK, [Next]_vars
               PROVE  TypeOK'
    OBVIOUS
  <2>1. CASE UNCHANGED vars
    BY <2>1 DEF vars, TypeOK, RequestsOK, WellFormed
  <2>2. CASE Replicate
    BY <2>2, ReplicateTypeOK
  <2>3. ASSUME NEW k \in Clients, Step(k)
        PROVE  TypeOK'
    BY <2>3, StartTypeOK, QuietTypeOK, RegisterTypeOK, TransactTypeOK,
       UploadTypeOK, DeleteHandlerTypeOK, PullTypeOK DEF Step
  <2>4. QED
    BY <2>1, <2>2, <2>3 DEF Next
<1>2. QED
  BY <1>1, InitTypeOK, PTL DEF Spec

-----------------------------------------------------------------------------
(* What a step leaves alone.                                               *)

\* Whatever a step does, it replaces the record of one client; a command under
\* way keeps its operation and name, and unless it pulls, all of its arguments;
\* a write that took effect stays so; a finished command takes no more steps.
Keeps(q, r) ==
  /\ q.pc # "idle" =>
       /\ r.op = q.op /\ r.name = q.name /\ r.pc # "idle"
       /\ q.op # "pull" => r.version = q.version /\ r.archive = q.archive
       /\ q.op # "pull" => r.row = q.row
  /\ q.applied => r.applied
  /\ q.pc \notin Finished

LEMMA KeepsExcept ==
  ASSUME NEW q \in Request, q.pc \notin {"idle"} \cup Finished, NEW pc,
         pc # "idle"
  PROVE  /\ Keeps(q, [q EXCEPT !.pc = pc])
         /\ Keeps(q, [q EXCEPT !.pc = pc, !.applied = TRUE])
BY DEF Keeps, Request

LEMMA StepKeeps ==
  ASSUME TypeOK, NEW k \in Clients, Step(k)
  PROVE  \E r \in Request : Become(k, r) /\ Keeps(request[k], r)
<1> USE DEF Finished
<1>t. request[k] \in Request /\ WellFormed(request[k])
  BY StepOfCommand
<1>u. TypeOK'
  BY StartTypeOK, QuietTypeOK, RegisterTypeOK, TransactTypeOK,
     UploadTypeOK, DeleteHandlerTypeOK, PullTypeOK DEF Step
<1>v. ASSUME NEW r, Become(k, r), Keeps(request[k], r)
      PROVE  \E q \in Request : Become(k, q) /\ Keeps(request[k], q)
  BY <1>u, <1>v DEF TypeOK, RequestsOK, Become
<1>w. ASSUME NEW pc, Goto(k, pc) \/ Applied(k, pc), pc # "idle",
             request[k].pc \notin {"idle"} \cup Finished
      PROVE  \E q \in Request : Become(k, q) /\ Keeps(request[k], q)
  BY <1>t, <1>v, <1>w, KeepsExcept DEF Goto, Applied
<1>1. CASE StartRegister(k) \/ StartPush(k) \/ StartDeprecate(k)
           \/ StartDelete(k) \/ StartPull(k)
  <2>1. request[k].pc = "idle" /\ ~request[k].applied
    BY <1>t, <1>1 DEF StartRegister, StartPush, StartDeprecate, StartDelete,
                      StartPull, Begin, Request, WellFormed
  <2>2. \E r : Become(k, r)
    BY <1>1 DEF StartRegister, StartPush, StartDeprecate, StartDelete,
                StartPull, Begin
  <2>3. QED
    BY <1>v, <2>1, <2>2 DEF Keeps
<1>2. CASE Fail(k)
  BY <1>2, <1>w DEF Fail
<1>3. CASE RegisterComponent(k)
  BY <1>3, <1>w DEF RegisterComponent
<1>4. CASE PublishGetComponent(k)
  BY <1>4, <1>w DEF PublishGetComponent
<1>5. CASE PublishCheckVersion(k)
  BY <1>5, <1>w DEF PublishCheckVersion
<1>6. CASE PublishTransact(k)
  BY <1>6, <1>w DEF PublishTransact
<1>7. CASE PublishPresign(k)
  BY <1>7, <1>w DEF PublishPresign
<1>8. CASE UploadArtifact(k)
  BY <1>8, <1>w DEF UploadArtifact
<1>9. CASE DeprecateVersion(k)
  BY <1>9, <1>w DEF DeprecateVersion
<1>10. CASE DeleteVersion(k)
  BY <1>10, <1>w DEF DeleteVersion
<1>11. CASE DeleteArtifact(k)
  BY <1>11, <1>w DEF DeleteArtifact
<1>12. CASE ResolveLatest(k)
  <2>1. request[k].op = "pull"
    BY <1>12, StepOfCommand DEF ResolveLatest
  <2>2. ASSUME NEW row
        PROVE  Keeps(request[k], [request[k] EXCEPT !.pc = "listVersions",
                                                    !.version = row.latest])
    BY <1>t, <1>12, <2>1 DEF Keeps, ResolveLatest, Request
  <2>3. QED
    BY <1>12, <1>v, <1>w, <2>2 DEF ResolveLatest
<1>13. CASE ListVersions(k)
  BY <1>13, <1>w DEF ListVersions
<1>14. CASE GetVersion(k)
  <2>1. request[k].op = "pull"
    BY <1>14, StepOfCommand DEF GetVersion
  <2>2. ASSUME NEW row
        PROVE  Keeps(request[k], [request[k] EXCEPT !.pc = "download",
                                                    !.row = row])
    BY <1>t, <1>14, <2>1 DEF Keeps, GetVersion, Request
  <2>3. QED
    BY <1>14, <1>v, <1>w, <2>2 DEF GetVersion
<1>15. CASE Download(k)
  <2>1. request[k].op = "pull"
    BY <1>15, StepOfCommand DEF Download
  <2>2. ASSUME NEW data
        PROVE  Keeps(request[k], [request[k] EXCEPT !.pc = "extract",
                                                    !.archive = data])
    BY <1>t, <1>15, <2>1 DEF Keeps, Download, Request
  <2>3. QED
    BY <1>15, <1>v, <1>w, <2>2 DEF Download
<1>16. CASE Extract(k)
  BY <1>16, <1>w DEF Extract
<1>17. QED
  BY <1>1, <1>2, <1>3, <1>4, <1>5, <1>6, <1>7, <1>8, <1>9, <1>10, <1>11,
     <1>12, <1>13, <1>14, <1>15, <1>16 DEF Step

\* Which steps write which store.
LEMMA Writers ==
  ASSUME NEW k \in Clients, Step(k)
  PROVE  /\ UNCHANGED <<metadataReplica, versionsReplica>>
         /\ RegisterComponent(k) \/ PublishTransact(k) \/ UNCHANGED metadata
         /\ \/ PublishTransact(k) \/ DeprecateVersion(k) \/ DeleteVersion(k)
            \/ UNCHANGED versions
         /\ UploadArtifact(k) \/ DeleteArtifact(k) \/ UNCHANGED artifacts
BY DEF Step, StartRegister, StartPush, StartDeprecate, StartDelete, StartPull,
       Begin, Fail, RegisterComponent, PublishGetComponent,
       PublishCheckVersion, PublishTransact, PublishPresign, UploadArtifact,
       DeprecateVersion, DeleteVersion, DeleteArtifact, ResolveLatest,
       ListVersions, GetVersion, Download, Extract

\* A component item is created once, and afterwards only its latest changes.
LEMMA ComponentItemStep ==
  ASSUME TypeOK, NEW k \in Clients, Step(k), NEW c \in Names
  PROVE  \/ metadata'[c] = metadata[c]
         \/ /\ metadata[c] = Absent
            /\ metadata'[c] = [author |-> k, latest |-> NoVersion]
            /\ RegisterComponent(k) /\ request[k].name = c
         \/ /\ metadata[c] # Absent
            /\ PublishTransact(k) /\ request[k].name = c
            /\ request[k].version \in Versions
            /\ metadata'[c] = SetLatest(metadata[c], request[k].version)
            /\ TransactionHolds(c, request[k].version)
<1>1. CASE RegisterComponent(k)
  <2>1. request[k].name \in Names
    BY <1>1, StepOfCommand DEF RegisterComponent
  <2>2. QED
    BY <1>1, <2>1 DEF RegisterComponent, RegistrationHolds, TypeOK
<1>2. CASE PublishTransact(k)
  <2>1. request[k].name \in Names /\ request[k].version \in Versions
    BY <1>2, StepOfCommand DEF PublishTransact, PushSteps
  <2>2. QED
    BY <1>2, <2>1 DEF PublishTransact, TransactionHolds, TypeOK
<1>3. QED
  BY <1>1, <1>2, Writers

\* A version item is created by a publication of an absent version, turned
\* deprecated, or removed.
LEMMA VersionItemStep ==
  ASSUME TypeOK, NEW k \in Clients, Step(k), NEW c \in Names, NEW v \in Versions
  PROVE  \/ versions'[c][v] = versions[c][v]
         \/ /\ versions[c][v] = Absent
            /\ PublishTransact(k) /\ TransactionHolds(c, v)
            /\ request[k].name = c /\ request[k].version = v
            /\ versions'[c][v] = [checksum |-> request[k].archive,
                                  deprecated |-> FALSE, publisher |-> k]
            /\ metadata'[c] = SetLatest(metadata[c], v)
         \/ /\ versions[c][v] # Absent
            /\ DeprecateVersion(k)
            /\ versions'[c][v] = [versions[c][v] EXCEPT !.deprecated = TRUE]
         \/ /\ versions[c][v] # Absent
            /\ DeleteVersion(k) /\ DeletionHolds(c, v)
            /\ request[k].name = c /\ request[k].version = v
            /\ versions'[c][v] = Absent
<1> DEFINE d == request[k].name
           w == request[k].version
<1>1. CASE PublishTransact(k)
  <2>1. d \in Names /\ w \in Versions
    BY <1>1, StepOfCommand DEF PublishTransact, PushSteps
  <2>2. CASE ~TransactionHolds(d, w)
    BY <1>1, <2>2 DEF PublishTransact
  <2>3. CASE TransactionHolds(d, w)
    <3> DEFINE row == [checksum |-> request[k].archive,
                       deprecated |-> FALSE, publisher |-> k]
    <3>1. /\ versions' = [versions EXCEPT ![d][w] = row]
          /\ metadata' = [metadata EXCEPT ![d] = SetLatest(metadata[d], w)]
      BY <1>1, <2>3 DEF PublishTransact
    <3>2. versions[d][w] = Absent
      BY <2>3 DEF TransactionHolds
    <3> HIDE DEF row
    <3>3. versions' = [versions EXCEPT ![d] = [versions[d] EXCEPT ![w] = row]]
      BY <3>1
    <3>4. versions'[c][v] = versions[c][v] \/ (c = d /\ v = w /\ versions'[c][v] = row)
      BY <2>1, <3>3 DEF TypeOK
    <3>5. metadata'[d] = SetLatest(metadata[d], w)
      BY <2>1, <3>1 DEF TypeOK
    <3>6. QED
      BY <1>1, <2>3, <3>2, <3>4, <3>5 DEF row
  <2>4. QED
    BY <2>2, <2>3
<1>2. CASE DeprecateVersion(k)
  <2>1. d \in Names /\ w \in Versions
    BY <1>2, StepOfCommand DEF DeprecateVersion
  <2>2. CASE versions[d][w] # Absent
    <3>1. versions' = [versions EXCEPT ![d] = [versions[d] EXCEPT ![w] =
                         [versions[d][w] EXCEPT !.deprecated = TRUE]]]
      BY <1>2, <2>1, <2>2 DEF DeprecateVersion, TypeOK
    <3>2. versions'[c][v] = versions[c][v]
            \/ (c = d /\ v = w /\ versions'[c][v] =
                  [versions[c][v] EXCEPT !.deprecated = TRUE])
      BY <2>1, <3>1 DEF TypeOK
    <3>3. QED
      BY <1>2, <2>2, <3>2
  <2>3. QED
    BY <1>2, <2>2 DEF DeprecateVersion
<1>3. CASE DeleteVersion(k)
  <2>1. d \in Names /\ w \in Versions
    BY <1>3, StepOfCommand DEF DeleteVersion
  <2>2. CASE DeletionHolds(d, w)
    <3>1. versions' = [versions EXCEPT ![d] = [versions[d] EXCEPT ![w] = Absent]]
      BY <1>3, <2>2 DEF DeleteVersion
    <3>2. versions'[c][v] = versions[c][v]
            \/ (c = d /\ v = w /\ versions'[c][v] = Absent)
      BY <2>1, <3>1 DEF TypeOK
    <3>3. QED
      BY <1>3, <2>2, <3>2 DEF DeletionHolds
  <2>3. QED
    BY <1>3, <2>2 DEF DeleteVersion
<1>4. QED
  BY <1>1, <1>2, <1>3, Writers

-----------------------------------------------------------------------------
(* Safety of the tables.                                                   *)

\* A stored version item keeps its checksum and publisher, and stays deprecated,
\* until a deletion removes it: no race of publications can replace it.
THEOREM WriteOnce == Spec => VersionsAreWriteOnce
<1> DEFINE Kept(c, v) ==
      versions[c][v] # Absent /\ versions'[c][v] # Absent
        => /\ versions'[c][v].checksum = versions[c][v].checksum
           /\ versions'[c][v].publisher = versions[c][v].publisher
           /\ versions[c][v].deprecated => versions'[c][v].deprecated
<1>1. TypeOK /\ [Next]_vars => [\A c \in Names, v \in Versions : Kept(c, v)]_vars
  <2> SUFFICES ASSUME TypeOK, Next, NEW c \in Names, NEW v \in Versions
               PROVE  Kept(c, v)
    OBVIOUS
  <2>1. CASE Replicate
    BY <2>1 DEF Replicate, ReplicateMetadata, ReplicateVersion
  <2>2. ASSUME NEW k \in Clients, Step(k)
        PROVE  Kept(c, v)
    <3>1. versions[c][v] \in Version \cup {Absent}
      BY DEF TypeOK
    <3>2. ASSUME versions[c][v] \in Version,
                 versions'[c][v] = [versions[c][v] EXCEPT !.deprecated = TRUE]
          PROVE  Kept(c, v)
      BY <3>2 DEF Version
    <3>3. QED
      BY <2>2, <3>1, <3>2, VersionItemStep
  <2>3. QED
    BY <2>1, <2>2 DEF Next
<1>2. QED
  BY <1>1, TypeCorrect, PTL DEF Spec, VersionsAreWriteOnce

\* Whoever is told that it registered a component is its author, and stays so.
THEOREM OneRegistrationWinner == Spec => []RegistrationHasOneWinner
<1>1. Init => RegistrationHasOneWinner
  BY DEF Init, RegistrationHasOneWinner, Idle
<1>2. TypeOK /\ RegistrationHasOneWinner /\ [Next]_vars
        => RegistrationHasOneWinner'
  <2> SUFFICES ASSUME TypeOK, RegistrationHasOneWinner, [Next]_vars,
                      NEW j \in Clients, request'[j].op = "register",
                      request'[j].pc = "done"
               PROVE  /\ metadata'[request'[j].name] # Absent
                      /\ metadata'[request'[j].name].author = j
    BY DEF RegistrationHasOneWinner
  <2>1. CASE UNCHANGED vars
    BY <2>1 DEF vars, RegistrationHasOneWinner
  <2>2. CASE Replicate
    BY <2>2 DEF Replicate, ReplicateMetadata, ReplicateVersion,
                RegistrationHasOneWinner
  <2>3. ASSUME NEW k \in Clients, Step(k), request[j].op = "register",
               request[j].pc = "done", request'[j] = request[j]
        PROVE  /\ metadata'[request'[j].name] # Absent
               /\ metadata'[request'[j].name].author = j
    <3> DEFINE c == request[j].name
    <3>1. c \in Names
      BY <2>3, StepOfCommand DEF WellFormed
    <3>2. metadata[c] # Absent /\ metadata[c].author = j /\ metadata[c] \in Component
      BY <2>3, <3>1 DEF RegistrationHasOneWinner, TypeOK
    <3>3. \/ metadata'[c] = metadata[c]
          \/ \E v \in Versions : metadata'[c] = SetLatest(metadata[c], v)
      BY <2>3, <3>1, <3>2, ComponentItemStep
    <3>4. \A v \in Versions : /\ SetLatest(metadata[c], v) \in Component
                              /\ SetLatest(metadata[c], v).author = j
      BY <3>2 DEF SetLatest, Component
    <3>5. QED
      BY <2>3, <3>2, <3>3, <3>4, ConstantsAssumption DEF Component
  <2>4. ASSUME NEW k \in Clients, Step(k)
        PROVE  /\ metadata'[request'[j].name] # Absent
               /\ metadata'[request'[j].name].author = j
    <3>1. PICK r \in Request : Become(k, r) /\ Keeps(request[k], r)
      BY <2>4, StepKeeps
    <3>2. CASE j # k
      BY <2>3, <2>4, <3>1, <3>2 DEF Become, TypeOK, RequestsOK
    <3>3. CASE j = k
      <4>1. request'[k] = r
        BY <3>1 DEF Become, TypeOK, RequestsOK
      <4>2. CASE RegisterComponent(k)
        <5>1. request[k].name \in Names /\ r.name = request[k].name
          BY <3>1, <4>2, StepOfCommand DEF RegisterComponent, Keeps
        <5>2. r.pc = "done"
          BY <3>3, <4>1
        <5>3. RegistrationHolds(request[k].name)
          BY <4>1, <4>2, <5>2 DEF RegisterComponent, Goto, Become, TypeOK,
             RequestsOK, Request
        <5>4. metadata'[request[k].name] = [author |-> k, latest |-> NoVersion]
          BY <4>2, <5>1, <5>3 DEF RegisterComponent, TypeOK
        <5>5. metadata'[request[k].name] \in Component
          BY <5>4 DEF Component
        <5>6. QED
          BY <3>3, <4>1, <5>1, <5>4, <5>5, ConstantsAssumption DEF Component
      <4>3. CASE ~RegisterComponent(k)
        <5>1. request[k].pc # "idle" => request[k].op = "register"
          BY <3>1, <3>3, <4>1 DEF Keeps
        <5>2. request[k] \in Request /\ WellFormed(request[k])
          BY StepOfCommand
        <5>3. CASE request[k].pc = "idle"
          BY <2>4, <3>3, <5>3 DEF Step, StartRegister, StartPush,
             StartDeprecate, StartDelete, StartPull, Begin, Become, Fail,
             RegisterComponent, PublishGetComponent, PublishCheckVersion,
             PublishTransact, PublishPresign, UploadArtifact, DeprecateVersion,
             DeleteVersion, DeleteArtifact, ResolveLatest, ListVersions,
             GetVersion, Download, Extract, TypeOK, RequestsOK
        <5>4. CASE request[k].op = "register" /\ request[k].pc # "idle"
          <6>1. Fail(k)
            BY <2>4, <4>3, <5>2, <5>4 DEF Step, StartRegister, StartPush,
             StartDeprecate, StartDelete, StartPull, Begin,
             PublishGetComponent, PublishCheckVersion,
             PublishTransact, PublishPresign, UploadArtifact, DeprecateVersion,
             DeleteVersion, DeleteArtifact, ResolveLatest, ListVersions,
             GetVersion, Download, Extract, WellFormed, PushSteps
          <6>2. QED
            BY <3>3, <5>2, <6>1 DEF Fail, Goto, Become, TypeOK, RequestsOK, Request
        <5>5. QED
          BY <5>1, <5>3, <5>4
      <4>4. QED
        BY <4>2, <4>3
    <3>4. QED
      BY <3>2, <3>3
  <2>5. QED
    BY <2>1, <2>2, <2>4 DEF Next
<1>3. QED
  BY <1>1, <1>2, TypeCorrect, PTL DEF Spec

\* Version items never outlive their component, and their component always
\* has a latest_version.
THEOREM VersionsHaveComponents == Spec => []VersionsBelongToComponents
<1>1. Init => VersionsBelongToComponents
  BY DEF Init, VersionsBelongToComponents
<1>2. TypeOK /\ VersionsBelongToComponents /\ [Next]_vars
        => VersionsBelongToComponents'
  <2> SUFFICES ASSUME TypeOK, VersionsBelongToComponents, [Next]_vars,
                      NEW c \in Names, NEW v \in Versions,
                      versions'[c][v] # Absent
               PROVE  metadata'[c] # Absent /\ metadata'[c].latest # NoVersion
    BY DEF VersionsBelongToComponents
  <2>1. CASE UNCHANGED vars
    BY <2>1 DEF vars, VersionsBelongToComponents
  <2>2. CASE Replicate
    BY <2>2 DEF Replicate, ReplicateMetadata, ReplicateVersion,
                VersionsBelongToComponents
  <2>3. ASSUME NEW row \in Component, NEW w \in Versions
        PROVE  /\ SetLatest(row, w) # Absent
               /\ SetLatest(row, w).latest # NoVersion
    <3>1. SetLatest(row, w) \in Component /\ SetLatest(row, w).latest = w
      BY <2>3 DEF SetLatest, Component
    <3>2. QED
      BY <3>1, ConstantsAssumption DEF Component
  <2>4. ASSUME NEW k \in Clients, Step(k)
        PROVE  metadata'[c] # Absent /\ metadata'[c].latest # NoVersion
    <3>1. metadata[c] \in Component \cup {Absent}
      BY DEF TypeOK
    <3>2. CASE versions[c][v] # Absent
      <4>1. metadata[c] # Absent /\ metadata[c].latest # NoVersion
        BY <3>2 DEF VersionsBelongToComponents
      <4>2. QED
        BY <2>3, <2>4, <3>1, <4>1, ComponentItemStep
    <3>3. CASE versions[c][v] = Absent
      <4>1. TransactionHolds(c, v) /\ metadata'[c] = SetLatest(metadata[c], v)
        BY <2>4, <3>3, VersionItemStep
      <4>2. QED
        BY <2>3, <3>1, <4>1 DEF TransactionHolds
    <3>4. QED
      BY <3>2, <3>3
  <2>5. QED
    BY <2>1, <2>2, <2>4 DEF Next
<1>3. QED
  BY <1>1, <1>2, TypeCorrect, PTL DEF Spec

-----------------------------------------------------------------------------
(* What a pull extracts.                                                   *)

LEMMA RequestStep ==
  ASSUME TypeOK, NEW k \in Clients, Step(k)
  PROVE  /\ Keeps(request[k], request'[k])
         /\ \A j \in Clients : j # k => request'[j] = request[j]
<1>1. PICK r \in Request : Become(k, r) /\ Keeps(request[k], r)
  BY StepKeeps
<1>2. request'[k] = r /\ \A j \in Clients : j # k => request'[j] = request[j]
  BY <1>1 DEF Become, TypeOK, RequestsOK
<1>3. QED
  BY <1>1, <1>2

\* A publication that took effect is on record from then on.
LEMMA PublicationsStay ==
  ASSUME TypeOK, Next, NEW c \in Names, NEW v \in Versions,
         NEW p \in Publications(c, v)
  PROVE  p \in Publications(c, v)' /\ request'[p].archive = request[p].archive
<1>1. p \in Clients /\ WellFormed(request[p])
  BY StepOfCommand DEF Publications
<1>2. CASE Replicate
  BY <1>2 DEF Replicate, ReplicateMetadata, ReplicateVersion, Publications
<1>3. ASSUME NEW k \in Clients, Step(k)
      PROVE  p \in Publications(c, v)' /\ request'[p].archive = request[p].archive
  <2>1. request[p].pc # "idle"
    BY <1>1 DEF Publications, WellFormed
  <2>2. CASE p = k
    BY <1>1, <1>3, <2>1, <2>2, RequestStep DEF Publications, Keeps
  <2>3. CASE p # k
    BY <1>1, <1>3, <2>3, RequestStep DEF Publications
  <2>4. QED
    BY <2>2, <2>3
<1>4. QED
  BY <1>2, <1>3 DEF Next

\* Backed of a row, a name and a version of this state in the next one.
StillBacked(row, c, v) ==
  /\ row.publisher \in Clients
  /\ request'[row.publisher].op = "push" /\ request'[row.publisher].applied
  /\ request'[row.publisher].name = c /\ request'[row.publisher].version = v
  /\ row.checksum = request'[row.publisher].archive

LEMMA BackedStays ==
  ASSUME TypeOK, Next, NEW c \in Names, NEW v \in Versions,
         NEW row \in Version, Backed(row, c, v)
  PROVE  StillBacked(row, c, v)
<1>1. row.publisher \in Publications(c, v)'
      /\ request'[row.publisher].archive = request[row.publisher].archive
  BY PublicationsStay DEF Backed
<1>2. QED
  BY <1>1 DEF Backed, StillBacked, Publications

LEMMA BecomeHere ==
  ASSUME TypeOK, NEW k \in Clients, NEW q, Become(k, q)
  PROVE  request'[k] = q
BY DEF Become, TypeOK, RequestsOK

\* Only the three last steps of a pull leave it with a record in its hands.
LEMMA OthersReceiveNothing ==
  ASSUME TypeOK, NEW k \in Clients, Step(k),
         ~GetVersion(k), ~Download(k), ~Extract(k)
  PROVE  ~Received(k)'
<1>1. request[k] \in Request /\ WellFormed(request[k])
  BY StepOfCommand
<1>2. ASSUME NEW pc \in Steps \ {"download", "extract"}, Goto(k, pc),
             request[k].op = "pull" => pc # "done"
      PROVE  ~Received(k)'
  <2>1. request'[k] = [request[k] EXCEPT !.pc = pc]
    BY <1>2, BecomeHere DEF Goto
  <2>2. request'[k].pc = pc /\ request'[k].op = request[k].op
    BY <1>1, <2>1 DEF Request
  <2>3. QED
    BY <1>2, <2>2 DEF Received
<1>3. ASSUME NEW pc \in Finished \cup {"presignPut", "deleteArtifact"},
             Applied(k, pc), request[k].op # "pull"
      PROVE  ~Received(k)'
  <2>1. request'[k] = [request[k] EXCEPT !.pc = pc, !.applied = TRUE]
    BY <1>3, BecomeHere DEF Applied
  <2>2. request'[k].pc = pc /\ request'[k].op = request[k].op
    BY <1>1, <2>1 DEF Request
  <2>3. QED
    BY <1>3, <2>2 DEF Received, Finished
<1>4. ASSUME NEW op, NEW pc, NEW c, NEW v, NEW a, Begin(k, op, pc, c, v, a),
             pc \notin {"download", "extract", "done"}
      PROVE  ~Received(k)'
  <2>1. request'[k].pc = pc
    BY <1>4, BecomeHere DEF Begin
  <2>2. QED
    BY <1>4, <2>1 DEF Received
<1>5. CASE StartRegister(k) \/ StartPush(k) \/ StartDeprecate(k)
             \/ StartDelete(k) \/ StartPull(k)
  <2>1. CASE StartRegister(k)
    BY <1>4, <2>1 DEF StartRegister
  <2>2. CASE StartPush(k)
    BY <1>4, <2>2 DEF StartPush
  <2>3. CASE StartDeprecate(k)
    BY <1>4, <2>3 DEF StartDeprecate
  <2>4. CASE StartDelete(k)
    BY <1>4, <2>4 DEF StartDelete
  <2>5. CASE StartPull(k)
    BY <1>4, <2>5 DEF StartPull
  <2>6. QED
    BY <1>5, <2>1, <2>2, <2>3, <2>4, <2>5
<1>6. CASE Fail(k)
  BY <1>2, <1>6 DEF Fail, Steps
<1>7. CASE RegisterComponent(k)
  BY <1>1, <1>2, <1>3, <1>7 DEF RegisterComponent, Steps, WellFormed
<1>8. CASE PublishGetComponent(k) \/ PublishCheckVersion(k)
             \/ PublishPresign(k) \/ ListVersions(k)
  <2>1. CASE PublishGetComponent(k)
    BY <1>2, <2>1 DEF PublishGetComponent, Steps
  <2>2. CASE PublishCheckVersion(k)
    BY <1>2, <2>2 DEF PublishCheckVersion, Steps
  <2>3. CASE PublishPresign(k)
    BY <1>2, <2>3 DEF PublishPresign, Steps
  <2>4. CASE ListVersions(k)
    BY <1>2, <2>4 DEF ListVersions, Steps
  <2>5. QED
    BY <1>8, <2>1, <2>2, <2>3, <2>4
<1>9. CASE PublishTransact(k)
  BY <1>1, <1>2, <1>3, <1>9 DEF PublishTransact, Steps, Finished, WellFormed,
     PushSteps
<1>10. CASE UploadArtifact(k)
  BY <1>1, <1>2, <1>10 DEF UploadArtifact, Steps, Finished, WellFormed,
     PushSteps
<1>11. CASE DeprecateVersion(k)
  BY <1>1, <1>2, <1>3, <1>11 DEF DeprecateVersion, Steps, WellFormed
<1>12. CASE DeleteVersion(k)
  BY <1>1, <1>2, <1>3, <1>12 DEF DeleteVersion, Steps, Finished, WellFormed
<1>13. CASE DeleteArtifact(k)
  BY <1>1, <1>2, <1>13 DEF DeleteArtifact, Steps, WellFormed
<1>14. CASE ResolveLatest(k)
  <2>1. PICK row \in ReadMetadata(request[k].name) :
          \/ Become(k, [request[k] EXCEPT !.pc = "listVersions",
                                          !.version = row.latest])
          \/ Goto(k, "failed")
    BY <1>14 DEF ResolveLatest
  <2>2. CASE Goto(k, "failed")
    BY <1>2, <2>2 DEF Steps
  <2>3. CASE Become(k, [request[k] EXCEPT !.pc = "listVersions",
                                         !.version = row.latest])
    <3>1. request'[k].pc = "listVersions"
      BY <1>1, <2>3, BecomeHere DEF Request
    <3>2. QED
      BY <3>1 DEF Received
  <2>4. QED
    BY <2>1, <2>2, <2>3
<1>15. QED
  BY <1>5, <1>6, <1>7, <1>8, <1>9, <1>10, <1>11, <1>12, <1>13, <1>14 DEF Step

LEMMA BackedInductive ==
  ASSUME TypeOK, TypeOK', RecordsAreBacked, Next
  PROVE  RecordsAreBacked'
<1>1. ASSUME NEW c \in Names, NEW v \in Versions, versions'[c][v] # Absent
      PROVE  StillBacked(versions'[c][v], c, v)
  <2>1. versions[c][v] \in Version \cup {Absent}
    BY DEF TypeOK
  <2>2. CASE versions'[c][v] = versions[c][v]
    BY <1>1, <2>1, <2>2, BackedStays DEF RecordsAreBacked
  <2>3. ASSUME NEW k \in Clients, Step(k)
        PROVE  StillBacked(versions'[c][v], c, v)
    <3>1. CASE versions'[c][v] = [checksum |-> request[k].archive,
                                  deprecated |-> FALSE, publisher |-> k]
               /\ PublishTransact(k) /\ TransactionHolds(c, v)
               /\ request[k].name = c /\ request[k].version = v
      <4>1. request[k].op = "push" /\ request[k] \in Request
        BY <3>1, StepOfCommand DEF PublishTransact, PushSteps
      <4>2. \E pc \in {"presignPut", "failed"} : Applied(k, pc)
        BY <3>1 DEF PublishTransact
      <4>3. PICK pc \in {"presignPut", "failed"} :
              request'[k] = [request[k] EXCEPT !.pc = pc, !.applied = TRUE]
        BY <4>2, BecomeHere DEF Applied
      <4>4. request'[k].applied /\ request'[k].archive = request[k].archive
            /\ request'[k].op = "push" /\ request'[k].name = c
            /\ request'[k].version = v
        BY <3>1, <4>1, <4>3 DEF Request
      <4>5. QED
        BY <3>1, <4>4 DEF StillBacked
    <3>2. CASE versions[c][v] # Absent
               /\ versions'[c][v] = [versions[c][v] EXCEPT !.deprecated = TRUE]
      <4>1. versions'[c][v].publisher = versions[c][v].publisher
            /\ versions'[c][v].checksum = versions[c][v].checksum
        BY <2>1, <3>2 DEF Version
      <4>2. StillBacked(versions[c][v], c, v)
        BY <2>1, <3>2, BackedStays DEF RecordsAreBacked
      <4>3. QED
        BY <4>1, <4>2 DEF StillBacked
    <3>3. QED
      BY <1>1, <2>2, <2>3, <3>1, <3>2, VersionItemStep
  <2>4. CASE Replicate
    BY <2>2, <2>4 DEF Replicate, ReplicateMetadata, ReplicateVersion
  <2>5. QED
    BY <2>3, <2>4 DEF Next
<1>2. ASSUME NEW c \in Names, NEW v \in Versions, versionsReplica'[c][v] # Absent
      PROVE  StillBacked(versionsReplica'[c][v], c, v)
  <2>1. /\ versions[c][v] \in Version \cup {Absent}
        /\ versionsReplica[c][v] \in Version \cup {Absent}
    BY DEF TypeOK
  <2>2. \/ versionsReplica'[c][v] = versionsReplica[c][v]
        \/ versionsReplica'[c][v] = versions[c][v]
    <3>1. CASE Replicate
      <4>1. CASE \E d \in Names : ReplicateMetadata(d)
        BY <4>1 DEF ReplicateMetadata
      <4>2. CASE \E d \in Names, w \in Versions : ReplicateVersion(d, w)
        <5>1. PICK d \in Names, w \in Versions : ReplicateVersion(d, w)
          BY <4>2
        <5>2. versionsReplica' =
                [versionsReplica EXCEPT
                   ![d] = [versionsReplica[d] EXCEPT ![w] = versions[d][w]]]
          BY <5>1 DEF ReplicateVersion
        <5>3. QED
          BY <5>2 DEF TypeOK
      <4>3. QED
        BY <3>1, <4>1, <4>2 DEF Replicate
    <3>2. CASE \E k \in Clients : Step(k)
      BY <3>2, Writers
    <3>3. QED
      BY <3>1, <3>2 DEF Next
  <2>3. QED
    BY <1>2, <2>1, <2>2, BackedStays DEF RecordsAreBacked
<1>3. ASSUME NEW j \in Clients, Received(j)'
      PROVE  /\ StillBacked(request'[j].row, request'[j].name, request'[j].version)
             /\ request'[j].pc # "download"
                  => request'[j].archive = request'[j].row.checksum
  <2>1. request[j] \in Request /\ WellFormed(request[j])
    BY StepOfCommand
  <2>2. ASSUME Received(j), request'[j].row = request[j].row,
               request'[j].name = request[j].name,
               request'[j].version = request[j].version
        PROVE  StillBacked(request'[j].row, request'[j].name, request'[j].version)
    <3>1. request[j].name \in Names /\ request[j].version \in Versions
          /\ request[j].row \in Version
      BY <2>1, <2>2 DEF Received, WellFormed
    <3>2. QED
      BY <2>2, <3>1, BackedStays DEF RecordsAreBacked
  <2>3. CASE request'[j] = request[j]
    BY <1>3, <2>2, <2>3 DEF Received, RecordsAreBacked
  <2>4. CASE Step(j)
    <3>1. CASE GetVersion(j)
      <4>1. request[j].name \in Names /\ request[j].version \in Versions
        BY <3>1, StepOfCommand DEF GetVersion
      <4>0. ~Goto(j, "failed")
        <5>1. ASSUME Goto(j, "failed") PROVE FALSE
          <6>1. request'[j] = [request[j] EXCEPT !.pc = "failed"]
            BY <5>1, BecomeHere DEF Goto
          <6>2. request'[j].pc = "failed"
            BY <2>1, <6>1 DEF Request
          <6>3. QED
            BY <1>3, <6>2 DEF Received
        <5>2. QED
          BY <5>1
      <4>2. PICK row \in ReadVersion(request[j].name, request[j].version) :
              /\ row # Absent
              /\ Become(j, [request[j] EXCEPT !.pc = "download", !.row = row])
        BY <3>1, <4>0 DEF GetVersion
      <4>3. row \in Version
        BY <4>1, <4>2 DEF ReadVersion, TypeOK
      <4>4. Backed(row, request[j].name, request[j].version)
        BY <4>1, <4>2 DEF ReadVersion, RecordsAreBacked
      <4>5. StillBacked(row, request[j].name, request[j].version)
        BY <4>1, <4>3, <4>4, BackedStays
      <4>6. /\ request'[j].row = row /\ request'[j].name = request[j].name
            /\ request'[j].version = request[j].version
            /\ request'[j].pc = "download"
        <5>1. request'[j] = [request[j] EXCEPT !.pc = "download", !.row = row]
          BY <4>2, BecomeHere
        <5>2. QED
          BY <2>1, <5>1 DEF Request
      <4>7. QED
        BY <4>5, <4>6
    <3>2. CASE Download(j)
      <4> DEFINE data == artifacts[request[j].name][request[j].version]
      <4>1. /\ ChecksumMatches(data, request[j].row)
            /\ Become(j, [request[j] EXCEPT !.pc = "extract", !.archive = data])
        <5>1. ASSUME Goto(j, "failed") PROVE FALSE
          <6>1. request'[j] = [request[j] EXCEPT !.pc = "failed"]
            BY <5>1, BecomeHere DEF Goto
          <6>2. request'[j].pc = "failed"
            BY <2>1, <6>1 DEF Request
          <6>3. QED
            BY <1>3, <6>2 DEF Received
        <5>2. QED
          BY <3>2, <5>1 DEF Download
      <4>2. /\ request'[j].row = request[j].row
            /\ request'[j].name = request[j].name
            /\ request'[j].version = request[j].version
            /\ request'[j].archive = data
        <5>1. request'[j] = [request[j] EXCEPT !.pc = "extract",
                                              !.archive = data]
          BY <4>1, BecomeHere
        <5>2. QED
          BY <2>1, <5>1 DEF Request
      <4>3. Received(j)
        BY <3>2 DEF Download, Received
      <4>4. QED
        BY <2>2, <4>1, <4>2, <4>3 DEF ChecksumMatches
    <3>3. CASE Extract(j)
      <4>1. /\ request'[j].row = request[j].row
            /\ request'[j].name = request[j].name
            /\ request'[j].version = request[j].version
            /\ request'[j].archive = request[j].archive
        <5>1. request'[j] = [request[j] EXCEPT !.pc = "done"]
          BY <3>3, BecomeHere DEF Extract, Goto
        <5>2. QED
          BY <2>1, <5>1 DEF Request
      <4>2. Received(j) /\ request[j].pc # "download"
        BY <3>3 DEF Extract, Received
      <4>3. QED
        BY <2>2, <4>1, <4>2 DEF RecordsAreBacked
    <3>4. CASE ~GetVersion(j) /\ ~Download(j) /\ ~Extract(j)
      BY <1>3, <2>4, <3>4, OthersReceiveNothing
    <3>5. QED
      BY <3>1, <3>2, <3>3, <3>4
  <2>5. request'[j] = request[j] \/ Step(j)
    BY RequestStep DEF Next, Replicate, ReplicateMetadata, ReplicateVersion
  <2>6. QED
    BY <2>3, <2>4, <2>5
<1>4. QED
  <2>1. /\ \A c \in Names, v \in Versions :
             /\ versions'[c][v] # Absent => Backed(versions[c][v], c, v)'
             /\ versionsReplica'[c][v] # Absent
                  => Backed(versionsReplica[c][v], c, v)'
    BY <1>1, <1>2 DEF Backed, StillBacked, Publications
  <2>2. \A k \in Clients :
          Received(k)' =>
            /\ Backed(request[k].row, request[k].name, request[k].version)'
            /\ request'[k].pc # "download"
                 => request'[k].archive = request'[k].row.checksum
    BY <1>3 DEF Backed, StillBacked, Publications
  <2>3. QED
    BY <2>1, <2>2 DEF RecordsAreBacked

\* Behind every version record, wherever it lives, stands a publication of
\* that very version, whose archive is the one a pull keeps.
THEOREM EveryRecordIsBacked == Spec => []RecordsAreBacked
<1>1. Init => RecordsAreBacked
  BY DEF Init, RecordsAreBacked, Received, Idle
<1>2. TypeOK /\ TypeOK' /\ RecordsAreBacked /\ [Next]_vars
        => RecordsAreBacked'
  <2> SUFFICES ASSUME TypeOK, TypeOK', RecordsAreBacked, [Next]_vars
               PROVE  RecordsAreBacked'
    OBVIOUS
  <2>1. CASE UNCHANGED vars
    BY <2>1 DEF vars, RecordsAreBacked, Backed, Received, Publications
  <2>2. CASE Next
    BY <2>2, BackedInductive
  <2>3. QED
    BY <2>1, <2>2
<1>3. QED
  BY <1>1, <1>2, TypeCorrect, PTL DEF Spec

\* A finished pull extracted the archive its record's publisher pushed.
THEOREM PullsAreFaithful == Spec => []PulledWhatWasPublished
<1>1. TypeOK /\ RecordsAreBacked => PulledWhatWasPublished
  BY DEF RecordsAreBacked, PulledWhatWasPublished, Received, Backed
<1>2. QED
  BY <1>1, TypeCorrect, EveryRecordIsBacked, PTL

-----------------------------------------------------------------------------
(***************************************************************************)
(* Theorems that count: publications and deletions of a version alternate, *)
(* and until the first deletion what the tables say can be downloaded.     *)
(***************************************************************************)

(* The mark of a client whose write took effect.                           *)

Early == {"getComponent", "checkVersion", "transact", "deleteRow"}
Late == {"presignPut", "put", "deleteArtifact"}

\* A push or a deletion has written the table exactly when it is past its write.
Marked(q) == (q.pc \in Early => ~q.applied) /\ (q.pc \in Late => q.applied)

AllMarked == \A k \in Clients : Marked(request[k])

SameRow(c, v) == versions'[c][v] = Absent <=> versions[c][v] = Absent

SameRows == \A c \in Names, v \in Versions : SameRow(c, v)

Begins(k) ==
  /\ SameRows
  /\ request[k].pc = "idle"
  /\ ~request'[k].applied /\ request'[k].pc \notin Late

\* A step of a command that leaves its mark, and every row, as it is.
MovesOn(k) ==
  /\ SameRows
  /\ request'[k].op = request[k].op
  /\ request'[k].applied = request[k].applied
  /\ request[k].op # "pull"
       => /\ request'[k].name = request[k].name
          /\ request'[k].version = request[k].version
  /\ request'[k].pc \in Early => request[k].pc \in Early
  /\ request'[k].pc \in Late => request[k].pc \in Late

\* A registration or a deprecation took effect.
Settles(k) ==
  /\ SameRows
  /\ request[k].op \in {"register", "deprecate"}
  /\ request'[k].op = request[k].op
  /\ request'[k].pc \notin Early \cup Late

\* The write of a push or of a deletion took effect.
Writes(k, op, c, v) ==
  /\ request[k].op = op /\ request[k].pc \in Early
  /\ request'[k].op = op /\ request'[k].pc \notin Early
  /\ request'[k].applied
  /\ request[k].name = c /\ request'[k].name = c
  /\ request[k].version = v /\ request'[k].version = v
  /\ \A d \in Names, w \in Versions : <<d, w>> # <<c, v>> => SameRow(d, w)

Publishes(k, c, v) ==
  /\ Writes(k, "push", c, v)
  /\ versions[c][v] = Absent /\ versions'[c][v] # Absent

Removes(k, c, v) ==
  /\ Writes(k, "delete", c, v)
  /\ versions[c][v] # Absent /\ versions'[c][v] = Absent

LEMMA GotoFields ==
  ASSUME TypeOK, NEW k \in Clients, NEW pc, Goto(k, pc)
  PROVE  /\ request'[k].pc = pc
         /\ request'[k].op = request[k].op
         /\ request'[k].name = request[k].name
         /\ request'[k].version = request[k].version
         /\ request'[k].applied = request[k].applied
<1>1. request'[k] = [request[k] EXCEPT !.pc = pc]
  BY BecomeHere DEF Goto
<1>2. request[k] \in Request
  BY StepOfCommand
<1>3. QED
  BY <1>1, <1>2 DEF Request

LEMMA AppliedFields ==
  ASSUME TypeOK, NEW k \in Clients, NEW pc, Applied(k, pc)
  PROVE  /\ request'[k].pc = pc
         /\ request'[k].op = request[k].op
         /\ request'[k].name = request[k].name
         /\ request'[k].version = request[k].version
         /\ request'[k].applied
<1>1. request'[k] = [request[k] EXCEPT !.pc = pc, !.applied = TRUE]
  BY BecomeHere DEF Applied
<1>2. request[k] \in Request
  BY StepOfCommand
<1>3. QED
  BY <1>1, <1>2 DEF Request

LEMMA GotoMovesOn ==
  ASSUME TypeOK, NEW k \in Clients, NEW pc, Goto(k, pc), UNCHANGED versions,
         pc \in Early => request[k].pc \in Early,
         pc \in Late => request[k].pc \in Late
  PROVE  MovesOn(k)
BY GotoFields DEF MovesOn, SameRows, SameRow

\* What each step does to the rows and to the mark of its client.
LEMMA MarkStep ==
  ASSUME TypeOK, NEW k \in Clients, Step(k)
  PROVE  \/ Begins(k) \/ MovesOn(k) \/ Settles(k)
         \/ \E c \in Names, v \in Versions : Publishes(k, c, v) \/ Removes(k, c, v)
<1>1. request[k] \in Request /\ WellFormed(request[k])
  BY StepOfCommand
<1>2. CASE StartRegister(k) \/ StartPush(k) \/ StartDeprecate(k)
             \/ StartDelete(k) \/ StartPull(k)
  <2>1. ASSUME NEW op, NEW pc, NEW c, NEW v, NEW a, Begin(k, op, pc, c, v, a),
               pc \notin Late
        PROVE  Begins(k)
    <3>1. request'[k].pc = pc /\ request'[k].applied = FALSE
      BY <2>1, BecomeHere DEF Begin
    <3>2. QED
      BY <2>1, <3>1 DEF Begins, Begin, SameRows, SameRow
  <2>2. CASE StartRegister(k)
    BY <2>1, <2>2 DEF StartRegister, Late
  <2>3. CASE StartPush(k)
    BY <2>1, <2>3 DEF StartPush, Late
  <2>4. CASE StartDeprecate(k)
    BY <2>1, <2>4 DEF StartDeprecate, Late
  <2>5. CASE StartDelete(k)
    BY <2>1, <2>5 DEF StartDelete, Late
  <2>6. CASE StartPull(k)
    BY <2>1, <2>6 DEF StartPull, Late
  <2>7. QED
    BY <1>2, <2>2, <2>3, <2>4, <2>5, <2>6
<1>3. CASE Fail(k)
  BY <1>3, GotoMovesOn DEF Fail, Early, Late
<1>4. CASE RegisterComponent(k)
  <2>1. request[k].op = "register" /\ UNCHANGED versions
    BY <1>1, <1>4 DEF RegisterComponent, WellFormed
  <2>2. ASSUME NEW pc \in Finished, Applied(k, pc)
        PROVE  Settles(k)
    BY <2>1, <2>2, AppliedFields
       DEF Settles, SameRows, SameRow, Finished, Early, Late
  <2>3. CASE Goto(k, "failed")
    BY <2>1, <2>3, GotoMovesOn DEF Early, Late
  <2>4. QED
    BY <1>4, <2>2, <2>3 DEF RegisterComponent
<1>5. CASE PublishGetComponent(k) \/ PublishCheckVersion(k)
             \/ PublishPresign(k) \/ UploadArtifact(k)
  <2>1. CASE PublishGetComponent(k)
    BY <2>1, GotoMovesOn DEF PublishGetComponent, Early, Late
  <2>2. CASE PublishCheckVersion(k)
    BY <2>2, GotoMovesOn DEF PublishCheckVersion, Early, Late
  <2>3. CASE PublishPresign(k)
    BY <2>3, GotoMovesOn DEF PublishPresign, Early, Late
  <2>4. CASE UploadArtifact(k)
    BY <2>4, GotoMovesOn DEF UploadArtifact, Early, Late, Finished
  <2>5. QED
    BY <1>5, <2>1, <2>2, <2>3, <2>4
<1>6. CASE ListVersions(k) \/ Extract(k) \/ DeleteArtifact(k)
  BY <1>6, GotoMovesOn DEF ListVersions, Extract, DeleteArtifact, Early, Late
<1>7. CASE PublishTransact(k)
  <2>1. PICK c \in Names, v \in Versions :
          c = request[k].name /\ v = request[k].version
    BY <1>7, StepOfCommand DEF PublishTransact, PushSteps
  <2>2. request[k].op = "push" /\ request[k].pc = "transact"
    BY <1>1, <1>7 DEF PublishTransact, WellFormed, PushSteps
  <2>3. CASE TransactionHolds(c, v)
    <3> DEFINE row == [checksum |-> request[k].archive,
                       deprecated |-> FALSE, publisher |-> k]
    <3>1. row \in Version
      BY <1>7, StepOfCommand DEF PublishTransact, PushSteps, Version
    <3>2. PICK pc \in {"presignPut", "failed"} :
            versions' = [versions EXCEPT ![c][v] = row] /\ Applied(k, pc)
      BY <1>7, <2>1, <2>3 DEF PublishTransact
    <3> HIDE DEF row
    <3>3. /\ versions'[c][v] = row
          /\ \A d \in Names, w \in Versions :
               <<d, w>> # <<c, v>> => versions'[d][w] = versions[d][w]
      BY <3>1, <3>2, TableUpdate DEF TypeOK
    <3>4. row # Absent
      BY <3>1, ConstantsAssumption DEF Version
    <3>5. Publishes(k, c, v)
      BY <2>1, <2>2, <2>3, <3>2, <3>3, <3>4, AppliedFields
         DEF Publishes, Writes, SameRow, TransactionHolds, Early
    <3>6. QED
      BY <3>5
  <2>4. CASE ~TransactionHolds(c, v)
    BY <1>7, <2>1, <2>4, GotoMovesOn DEF PublishTransact, Early, Late
  <2>5. QED
    BY <2>3, <2>4
<1>8. CASE DeprecateVersion(k)
  <2>1. request[k].op = "deprecate" /\ request[k].pc = "deprecate"
    BY <1>1, <1>8 DEF DeprecateVersion, WellFormed
  <2>2. SameRows
    <3> SUFFICES ASSUME NEW c \in Names, NEW v \in Versions
                 PROVE  SameRow(c, v)
      BY DEF SameRows
    <3>1. PICK d \in Names, w \in Versions :
            d = request[k].name /\ w = request[k].version
      BY <1>8, StepOfCommand DEF DeprecateVersion
    <3> DEFINE row == [versions[d][w] EXCEPT !.deprecated = TRUE]
    <3>2. CASE versions[d][w] # Absent
      <4>1. versions' = [versions EXCEPT ![d] = [versions[d] EXCEPT ![w] = row]]
        BY <1>8, <3>1, <3>2 DEF DeprecateVersion, TypeOK
      <4>2. row \in Version
        BY <3>2, DeprecatedVersion DEF TypeOK
      <4> HIDE DEF row
      <4>3. row # Absent
        BY <4>2, ConstantsAssumption DEF Version
      <4>4. QED
        BY <3>2, <4>1, <4>3 DEF SameRow, TypeOK
    <3>3. QED
      BY <1>8, <3>1, <3>2 DEF DeprecateVersion, SameRow
  <2>3. ASSUME NEW pc \in Finished, Applied(k, pc)
        PROVE  Settles(k)
    BY <2>1, <2>2, <2>3, AppliedFields DEF Settles, Finished, Early, Late
  <2>4. CASE Goto(k, "failed")
    BY <2>2, <2>4, GotoFields DEF MovesOn, Early, Late
  <2>5. QED
    BY <1>8, <2>3, <2>4 DEF DeprecateVersion
<1>9. CASE DeleteVersion(k)
  <2>1. PICK c \in Names, v \in Versions :
          c = request[k].name /\ v = request[k].version
    BY <1>9, StepOfCommand DEF DeleteVersion
  <2>2. request[k].op = "delete" /\ request[k].pc = "deleteRow"
    BY <1>1, <1>9 DEF DeleteVersion, WellFormed
  <2>3. CASE DeletionHolds(c, v)
    <3>1. PICK pc \in {"deleteArtifact", "failed"} :
            versions' = [versions EXCEPT ![c][v] = Absent] /\ Applied(k, pc)
      BY <1>9, <2>1, <2>3 DEF DeleteVersion
    <3>2. /\ versions'[c][v] = Absent
          /\ \A d \in Names, w \in Versions :
               <<d, w>> # <<c, v>> => versions'[d][w] = versions[d][w]
      BY <3>1, TableUpdate DEF TypeOK
    <3>3. Removes(k, c, v)
      BY <2>1, <2>2, <2>3, <3>1, <3>2, AppliedFields
         DEF Removes, Writes, SameRow, DeletionHolds, Early
    <3>4. QED
      BY <3>3
  <2>4. CASE ~DeletionHolds(c, v)
    BY <1>9, <2>1, <2>4, GotoMovesOn DEF DeleteVersion, Early, Late
  <2>5. QED
    BY <2>3, <2>4
<1>10. CASE ResolveLatest(k) \/ GetVersion(k) \/ Download(k)
  <2>1. request[k].op = "pull" /\ UNCHANGED versions
    BY <1>1, <1>10 DEF ResolveLatest, GetVersion, Download, WellFormed
  <2>2. ASSUME NEW q, Become(k, q), q.op = "pull",
               q.applied = request[k].applied,
               q.pc \in {"listVersions", "download", "extract"}
        PROVE  MovesOn(k)
    BY <2>1, <2>2, BecomeHere DEF MovesOn, SameRows, SameRow, Early, Late
  <2>3. CASE Goto(k, "failed")
    BY <2>1, <2>3, GotoMovesOn DEF Early, Late
  <2>4. CASE ResolveLatest(k)
    <3> DEFINE q(version) == [request[k] EXCEPT !.pc = "listVersions",
                                                !.version = version]
    <3>1. \/ \E version : Become(k, q(version))
          \/ Goto(k, "failed")
      BY <2>4 DEF ResolveLatest
    <3>2. \A version : /\ q(version).op = "pull"
                       /\ q(version).applied = request[k].applied
                       /\ q(version).pc = "listVersions"
      BY <1>1, <2>1 DEF Request
    <3> HIDE DEF q
    <3>3. QED
      BY <2>2, <2>3, <3>1, <3>2
  <2>5. CASE GetVersion(k)
    <3> DEFINE q(row) == [request[k] EXCEPT !.pc = "download", !.row = row]
    <3>1. \/ \E row : Become(k, q(row))
          \/ Goto(k, "failed")
      BY <2>5 DEF GetVersion
    <3>2. \A row : /\ q(row).op = "pull"
                   /\ q(row).applied = request[k].applied
                   /\ q(row).pc = "download"
      BY <1>1, <2>1 DEF Request
    <3> HIDE DEF q
    <3>3. QED
      BY <2>2, <2>3, <3>1, <3>2
  <2>6. CASE Download(k)
    <3> DEFINE q(data) == [request[k] EXCEPT !.pc = "extract",
                                             !.archive = data]
    <3>1. \/ \E data : Become(k, q(data))
          \/ Goto(k, "failed")
      BY <2>6 DEF Download
    <3>2. \A data : /\ q(data).op = "pull"
                    /\ q(data).applied = request[k].applied
                    /\ q(data).pc = "extract"
      BY <1>1, <2>1 DEF Request
    <3> HIDE DEF q
    <3>3. QED
      BY <2>2, <2>3, <3>1, <3>2
  <2>7. QED
    BY <1>10, <2>4, <2>5, <2>6
<1>11. QED
  BY <1>2, <1>3, <1>4, <1>5, <1>6, <1>7, <1>8, <1>9, <1>10 DEF Step

LEMMA AllMarkedInductive == Spec => []AllMarked
<1>1. Init => AllMarked
  BY DEF Init, AllMarked, Marked, Idle, Early, Late
<1>2. TypeOK /\ AllMarked /\ [Next]_vars => AllMarked'
  <2> SUFFICES ASSUME TypeOK, AllMarked, [Next]_vars PROVE AllMarked'
    OBVIOUS
  <2>1. CASE Replicate \/ UNCHANGED vars
    BY <2>1 DEF Replicate, ReplicateMetadata, ReplicateVersion, vars,
       AllMarked, Marked
  <2>2. ASSUME NEW k \in Clients, Step(k)
        PROVE  AllMarked'
    <3>1. Marked(request[k])'
      <4>1. Marked(request[k])
        BY DEF AllMarked
      <4>2. CASE Begins(k) \/ MovesOn(k) \/ Settles(k)
        BY <4>1, <4>2 DEF Begins, MovesOn, Settles, Marked
      <4>3. ASSUME NEW c \in Names, NEW v \in Versions,
                   Publishes(k, c, v) \/ Removes(k, c, v)
            PROVE  Marked(request[k])'
        BY <4>3 DEF Publishes, Removes, Writes, Marked
      <4>4. QED
        BY <2>2, <4>2, <4>3, MarkStep
    <3>2. \A j \in Clients : j # k => Marked(request[j])'
      BY <2>2, RequestStep DEF AllMarked, Marked
    <3>3. QED
      BY <3>1, <3>2 DEF AllMarked
  <2>3. QED
    BY <2>1, <2>2 DEF Next
<1>3. QED
  BY <1>1, <1>2, TypeCorrect, PTL DEF Spec

-----------------------------------------------------------------------------
(* The ledger.                                                             *)

\* The writes of version v of component c that took effect, by operation.
Written(op, c, v) ==
  {k \in Clients : /\ request[k].op = op /\ request[k].applied
                   /\ request[k].name = c /\ request[k].version = v}

LEMMA WrittenIs ==
  ASSUME NEW c, NEW v
  PROVE  Publications(c, v) = Written("push", c, v)
         /\ Deletions(c, v) = Written("delete", c, v)
BY DEF Publications, Deletions, Written

\* A step that does not write leaves the ledger as it is.
LEMMA OthersWriteNothing ==
  ASSUME TypeOK, NEW k \in Clients, Step(k),
         Begins(k) \/ MovesOn(k) \/ Settles(k),
         NEW op \in {"push", "delete"}, NEW c \in Names, NEW v \in Versions
  PROVE  Written(op, c, v)' = Written(op, c, v)
<1>1. WellFormed(request[k])
  BY StepOfCommand
<1>2. k \in Written(op, c, v)' <=> k \in Written(op, c, v)
  BY <1>1 DEF Begins, MovesOn, Settles, Written, WellFormed
<1>3. \A j \in Clients : j # k
        => (j \in Written(op, c, v)' <=> j \in Written(op, c, v))
  BY RequestStep DEF Written
<1>4. QED
  BY <1>2, <1>3 DEF Written

\* A write adds its client to the ledger, at its place and nowhere else.
LEMMA WriteIsEntered ==
  ASSUME TypeOK, AllMarked, NEW k \in Clients, Step(k),
         NEW kind \in {"push", "delete"}, NEW d \in Names, NEW w \in Versions,
         Writes(k, kind, d, w),
         NEW op \in {"push", "delete"}, NEW c \in Names, NEW v \in Versions
  PROVE  /\ k \notin Written(op, c, v)
         /\ op = kind /\ c = d /\ v = w
              => Written(op, c, v)' = Written(op, c, v) \cup {k}
         /\ ~(op = kind /\ c = d /\ v = w)
              => Written(op, c, v)' = Written(op, c, v)
<1>1. ~request[k].applied
  BY DEF AllMarked, Marked, Writes
<1>2. k \notin Written(op, c, v)
  BY <1>1 DEF Written
<1>3. k \in Written(op, c, v)' <=> (op = kind /\ c = d /\ v = w)
  BY DEF Writes, Written
<1>4. \A j \in Clients : j # k
        => (j \in Written(op, c, v)' <=> j \in Written(op, c, v))
  BY RequestStep DEF Written
<1>5. Written(op, c, v) \subseteq Clients /\ Written(op, c, v)' \subseteq Clients
  BY DEF Written
<1>6. QED
  BY <1>2, <1>3, <1>4, <1>5

\* The ledger of one version, of sets that are finite.
Balanced(c, v) ==
  /\ IsFiniteSet(Written("push", c, v)) /\ IsFiniteSet(Written("delete", c, v))
  /\ Cardinality(Written("push", c, v)) =
       Cardinality(Written("delete", c, v))
         + IF versions[c][v] = Absent THEN 0 ELSE 1

LEMMA BalancedStep ==
  ASSUME TypeOK, AllMarked, NEW k \in Clients, Step(k),
         NEW c \in Names, NEW v \in Versions, Balanced(c, v)
  PROVE  Balanced(c, v)'
<1>1. CASE Begins(k) \/ MovesOn(k) \/ Settles(k)
  <2>1. SameRow(c, v)
    BY <1>1 DEF Begins, MovesOn, Settles, SameRows
  <2>2. Written("push", c, v)' = Written("push", c, v)
        /\ Written("delete", c, v)' = Written("delete", c, v)
    BY <1>1, OthersWriteNothing
  <2>3. QED
    BY <2>1, <2>2 DEF Balanced, SameRow
<1>2. ASSUME NEW d \in Names, NEW w \in Versions, Publishes(k, d, w)
      PROVE  Balanced(c, v)'
  <2>1. Writes(k, "push", d, w)
    BY <1>2 DEF Publishes
  <2>2. Written("delete", c, v)' = Written("delete", c, v)
    BY <2>1, WriteIsEntered
  <2>3. CASE c = d /\ v = w
    <3>1. k \notin Written("push", c, v)
          /\ Written("push", c, v)' = Written("push", c, v) \cup {k}
      BY <2>1, <2>3, WriteIsEntered
    <3>2. versions[c][v] = Absent /\ versions'[c][v] # Absent
      BY <1>2, <2>3 DEF Publishes
    <3>3. QED
      BY <2>2, <3>1, <3>2, FS_AddElement, FS_CardinalityType DEF Balanced
  <2>4. CASE ~(c = d /\ v = w)
    <3>1. Written("push", c, v)' = Written("push", c, v)
      BY <2>1, <2>4, WriteIsEntered
    <3>2. SameRow(c, v)
      BY <2>1, <2>4 DEF Writes
    <3>3. QED
      BY <2>2, <3>1, <3>2 DEF Balanced, SameRow
  <2>5. QED
    BY <2>3, <2>4
<1>3. ASSUME NEW d \in Names, NEW w \in Versions, Removes(k, d, w)
      PROVE  Balanced(c, v)'
  <2>1. Writes(k, "delete", d, w)
    BY <1>3 DEF Removes
  <2>2. Written("push", c, v)' = Written("push", c, v)
    BY <2>1, WriteIsEntered
  <2>3. CASE c = d /\ v = w
    <3>1. k \notin Written("delete", c, v)
          /\ Written("delete", c, v)' = Written("delete", c, v) \cup {k}
      BY <2>1, <2>3, WriteIsEntered
    <3>2. versions[c][v] # Absent /\ versions'[c][v] = Absent
      BY <1>3, <2>3 DEF Removes
    <3>3. QED
      BY <2>2, <3>1, <3>2, FS_AddElement, FS_CardinalityType DEF Balanced
  <2>4. CASE ~(c = d /\ v = w)
    <3>1. Written("delete", c, v)' = Written("delete", c, v)
      BY <2>1, <2>4, WriteIsEntered
    <3>2. SameRow(c, v)
      BY <2>1, <2>4 DEF Writes
    <3>3. QED
      BY <2>2, <3>1, <3>2 DEF Balanced, SameRow
  <2>5. QED
    BY <2>3, <2>4
<1>4. QED
  BY <1>1, <1>2, <1>3, MarkStep

AllBalanced == \A c \in Names, v \in Versions : Balanced(c, v)

LEMMA AllBalancedInductive == Spec => []AllBalanced
<1>1. Init => AllBalanced
  <2> SUFFICES ASSUME Init, NEW c \in Names, NEW v \in Versions
               PROVE  Balanced(c, v)
    BY DEF AllBalanced
  <2>1. Written("push", c, v) = {} /\ Written("delete", c, v) = {}
    BY DEF Init, Written, Idle
  <2>2. versions[c][v] = Absent
    BY DEF Init
  <2>3. QED
    BY <2>1, <2>2, FS_EmptySet DEF Balanced
<1>2. TypeOK /\ AllMarked /\ AllBalanced /\ [Next]_vars => AllBalanced'
  <2> SUFFICES ASSUME TypeOK, AllMarked, AllBalanced, [Next]_vars,
                      NEW c \in Names, NEW v \in Versions
               PROVE  Balanced(c, v)'
    BY DEF AllBalanced
  <2>1. Balanced(c, v)
    BY DEF AllBalanced
  <2>2. CASE Replicate \/ UNCHANGED vars
    <3>1. Written("push", c, v)' = Written("push", c, v)
          /\ Written("delete", c, v)' = Written("delete", c, v)
          /\ versions' = versions
      BY <2>2 DEF Replicate, ReplicateMetadata, ReplicateVersion, vars, Written
    <3>2. QED
      BY <2>1, <3>1 DEF Balanced
  <2>3. ASSUME NEW k \in Clients, Step(k)
        PROVE  Balanced(c, v)'
    BY <2>1, <2>3, BalancedStep
  <2>4. QED
    BY <2>2, <2>3 DEF Next
<1>3. QED
  BY <1>1, <1>2, TypeCorrect, AllMarkedInductive, PTL DEF Spec

\* Publications and deletions of a version alternate, in whatever order the
\* clients race: no two publications are both accepted without a deletion.
THEOREM LedgerIsBalanced == Spec => []LedgerBalances
<1>1. AllBalanced => LedgerBalances
  BY WrittenIs DEF AllBalanced, Balanced, LedgerBalances
<1>2. QED
  BY <1>1, AllBalancedInductive, PTL

-----------------------------------------------------------------------------
(* What the tables say of a component of which nothing was deleted.        *)

\* A deletion is never taken back, and a row that is gone was deleted.
LEMMA DeletionsStay ==
  ASSUME TypeOK, AllMarked, NEW k \in Clients, Step(k),
         NEW c \in Names, NothingDeleted(c)'
  PROVE  /\ NothingDeleted(c)
         /\ \A v \in Versions :
              versions[c][v] # Absent => versions'[c][v] # Absent
<1> SUFFICES ASSUME NEW v \in Versions
             PROVE  /\ Deletions(c, v) = {}
                    /\ versions[c][v] # Absent => versions'[c][v] # Absent
  BY DEF NothingDeleted
<1>1. Written("delete", c, v)' = {}
  BY DEF NothingDeleted, Deletions, Written
<1>2. Written("delete", c, v) = {}
      /\ (versions[c][v] # Absent => versions'[c][v] # Absent)
  <2>1. CASE Begins(k) \/ MovesOn(k) \/ Settles(k)
    <3>1. SameRow(c, v)
      BY <2>1 DEF Begins, MovesOn, Settles, SameRows
    <3>2. Written("delete", c, v)' = Written("delete", c, v)
      BY <2>1, OthersWriteNothing
    <3>3. QED
      BY <1>1, <3>1, <3>2 DEF SameRow
  <2>2. ASSUME NEW d \in Names, NEW w \in Versions, Publishes(k, d, w)
        PROVE  Written("delete", c, v) = {}
               /\ (versions[c][v] # Absent => versions'[c][v] # Absent)
    <3>1. Writes(k, "push", d, w)
      BY <2>2 DEF Publishes
    <3>2. Written("delete", c, v)' = Written("delete", c, v)
      BY <3>1, WriteIsEntered
    <3>3. QED
      BY <1>1, <2>2, <3>1, <3>2 DEF Publishes, Writes, SameRow
  <2>3. ASSUME NEW d \in Names, NEW w \in Versions, Removes(k, d, w)
        PROVE  Written("delete", c, v) = {}
               /\ (versions[c][v] # Absent => versions'[c][v] # Absent)
    <3>1. Writes(k, "delete", d, w)
      BY <2>3 DEF Removes
    <3>2. ~(c = d /\ v = w)
          /\ Written("delete", c, v)' = Written("delete", c, v)
      BY <1>1, <3>1, WriteIsEntered
    <3>3. QED
      BY <1>1, <3>1, <3>2 DEF Writes, SameRow
  <2>4. QED
    BY <2>1, <2>2, <2>3, MarkStep
<1>3. QED
  BY <1>2, WrittenIs

LEMMA LatestStep ==
  ASSUME TypeOK, AllMarked, VersionsBelongToComponents,
         NEW k \in Clients, Step(k), NEW c \in Names, NothingDeleted(c)',
         StoresLatest(c)
  PROVE  StoresLatest(c)'
<1> SUFFICES ASSUME NEW v \in Versions, versions'[c][v] # Absent
             PROVE  /\ metadata'[c].latest \in Versions
                    /\ versions'[c][metadata'[c].latest] # Absent
  BY DEF StoresLatest
<1>1. metadata[c] \in Component \cup {Absent}
  BY DEF TypeOK
<1>2. ASSUME NEW u \in Versions, metadata[c] # Absent,
             metadata'[c] = SetLatest(metadata[c], u),
             versions'[c][u] # Absent
      PROVE  /\ metadata'[c].latest \in Versions
             /\ versions'[c][metadata'[c].latest] # Absent
  <2>1. metadata'[c].latest = u
    BY <1>1, <1>2 DEF SetLatest, Component
  <2>2. QED
    BY <1>2, <2>1
<1>3. CASE versions[c][v] # Absent
  <2>1. metadata[c] # Absent /\ metadata[c].latest \in Versions
        /\ versions[c][metadata[c].latest] # Absent
    BY <1>3 DEF StoresLatest, VersionsBelongToComponents
  <2>2. CASE metadata'[c] = metadata[c]
    BY <2>1, <2>2, DeletionsStay
  <2>3. CASE metadata'[c] # metadata[c]
    <3>1. PICK u \in Versions :
            /\ PublishTransact(k) /\ TransactionHolds(c, u)
            /\ request[k].name = c /\ request[k].version = u
            /\ metadata'[c] = SetLatest(metadata[c], u)
      BY <2>1, <2>3, ComponentItemStep
    <3>2. request[k].archive \in Archives
      BY <3>1, StepOfCommand DEF PublishTransact, PushSteps
    <3> DEFINE row == [checksum |-> request[k].archive,
                       deprecated |-> FALSE, publisher |-> k]
    <3>3. versions' = [versions EXCEPT ![c][u] = row]
      BY <3>1 DEF PublishTransact
    <3>4. row \in Version
      BY <3>2 DEF Version
    <3> HIDE DEF row
    <3>5. versions'[c][u] # Absent
      BY <3>3, <3>4, TableUpdate, ConstantsAssumption DEF TypeOK, Version
    <3>6. QED
      BY <1>2, <2>1, <3>1, <3>5
  <2>4. QED
    BY <2>2, <2>3
<1>4. CASE versions[c][v] = Absent
  <2>1. TransactionHolds(c, v) /\ metadata'[c] = SetLatest(metadata[c], v)
    BY <1>4, VersionItemStep
  <2>2. QED
    BY <1>2, <2>1 DEF TransactionHolds
<1>5. QED
  BY <1>3, <1>4

\* A push succeeds by its upload and in no other way.
LEMMA PushEnds ==
  ASSUME TypeOK, NEW k \in Clients, Step(k),
         request[k].op = "push", request'[k].pc = "done"
  PROVE  UploadArtifact(k)
<1>1. WellFormed(request[k]) /\ request[k].pc # "idle"
  BY StepOfCommand DEF WellFormed
<1>2. ~StartRegister(k) /\ ~StartPush(k) /\ ~StartDeprecate(k)
      /\ ~StartDelete(k) /\ ~StartPull(k)
  BY <1>1 DEF StartRegister, StartPush, StartDeprecate, StartDelete,
     StartPull, Begin
<1>3. ~RegisterComponent(k) /\ ~DeprecateVersion(k) /\ ~DeleteVersion(k)
      /\ ~DeleteArtifact(k)
  BY <1>1 DEF RegisterComponent, DeprecateVersion, DeleteVersion,
     DeleteArtifact, WellFormed
<1>4. ~ResolveLatest(k) /\ ~ListVersions(k) /\ ~GetVersion(k)
      /\ ~Download(k) /\ ~Extract(k)
  BY <1>1 DEF ResolveLatest, ListVersions, GetVersion, Download, Extract,
     WellFormed
<1>5. ~Fail(k)
  BY GotoFields DEF Fail
<1>6. ~PublishGetComponent(k) /\ ~PublishCheckVersion(k) /\ ~PublishPresign(k)
  BY GotoFields DEF PublishGetComponent, PublishCheckVersion, PublishPresign
<1>7. ~PublishTransact(k)
  BY GotoFields, AppliedFields DEF PublishTransact
<1>8. QED
  BY <1>2, <1>3, <1>4, <1>5, <1>6, <1>7 DEF Step

\* A stored version of which nothing was deleted has one publication.
LEMMA OnePublication ==
  ASSUME AllBalanced, NEW c \in Names, NEW v \in Versions,
         NothingDeleted(c), versions[c][v] # Absent,
         NEW j \in Publications(c, v), NEW k \in Publications(c, v)
  PROVE  j = k
<1>1. Written("delete", c, v) = {}
  BY WrittenIs DEF NothingDeleted
<1>2. Balanced(c, v)
  BY DEF AllBalanced
<1>3. Cardinality(Written("push", c, v)) = 1
  BY <1>1, <1>2, FS_EmptySet DEF Balanced
<1>4. \E x : Written("push", c, v) = {x}
  BY <1>2, <1>3, FS_Singleton DEF Balanced
<1>5. QED
  BY <1>4, WrittenIs

\* While nothing was deleted, nobody but its publisher touches the object of
\* a stored version.
LEMMA ObjectStays ==
  ASSUME TypeOK, AllMarked, AllBalanced, RecordsAreBacked,
         NEW k \in Clients, Step(k), NEW c \in Names, NEW v \in Versions,
         NothingDeleted(c), versions[c][v] # Absent,
         k # versions[c][v].publisher
  PROVE  artifacts'[c][v] = artifacts[c][v]
<1>1. request[k] \in Request /\ WellFormed(request[k])
  BY StepOfCommand
<1>2. CASE UploadArtifact(k)
  <2>1. PICK d \in Names, w \in Versions :
          d = request[k].name /\ w = request[k].version
    BY <1>2, StepOfCommand DEF UploadArtifact, PushSteps
  <2>2. request[k].op = "push" /\ request[k].applied
    BY <1>1, <1>2 DEF UploadArtifact, WellFormed, PushSteps, AllMarked,
       Marked, Late
  <2>3. <<d, w>> # <<c, v>>
    <3>1. versions[c][v].publisher \in Publications(c, v)
      BY DEF RecordsAreBacked, Backed
    <3>2. <<d, w>> = <<c, v>> => k \in Publications(c, v)
      BY <2>1, <2>2 DEF Publications
    <3>3. QED
      BY <3>1, <3>2, OnePublication
  <2>4. artifacts' = [artifacts EXCEPT ![d][w] = request[k].archive]
        /\ request[k].archive \in Archives
    BY <1>2, <2>1, StepOfCommand DEF UploadArtifact, PushSteps
  <2>5. QED
    BY <2>3, <2>4, TableUpdate DEF TypeOK
<1>3. CASE DeleteArtifact(k)
  <2>1. PICK d \in Names, w \in Versions :
          d = request[k].name /\ w = request[k].version
    BY <1>3, StepOfCommand DEF DeleteArtifact
  <2>2. request[k].op = "delete" /\ request[k].applied
    BY <1>1, <1>3 DEF DeleteArtifact, WellFormed, AllMarked, Marked, Late
  <2>3. <<d, w>> # <<c, v>>
    BY <2>1, <2>2 DEF NothingDeleted, Deletions
  <2>4. CASE artifacts' = [artifacts EXCEPT ![d][w] = Absent]
    BY <2>3, <2>4, TableUpdate DEF TypeOK
  <2>5. QED
    BY <1>3, <2>1, <2>4 DEF DeleteArtifact
<1>4. QED
  BY <1>2, <1>3, Writers

LEMMA RowStays ==
  ASSUME TypeOK, NEW k \in Clients, Step(k), NEW c \in Names, NEW v \in Versions,
         versions[c][v] # Absent, versions'[c][v] # Absent
  PROVE  /\ versions'[c][v].publisher = versions[c][v].publisher
         /\ versions'[c][v].checksum = versions[c][v].checksum
<1> DEFINE Same == /\ versions'[c][v].publisher = versions[c][v].publisher
                   /\ versions'[c][v].checksum = versions[c][v].checksum
<1>1. versions[c][v] \in Version
  BY DEF TypeOK
<1>2. ASSUME versions'[c][v] = [versions[c][v] EXCEPT !.deprecated = TRUE]
      PROVE  Same
  BY <1>1, <1>2 DEF Version
<1>3. versions'[c][v] = versions[c][v] => Same
  OBVIOUS
<1> HIDE DEF Same
<1>4. Same
  BY <1>2, <1>3, VersionItemStep
<1>5. QED
  BY <1>4 DEF Same

LEMMA DownloadableStep ==
  ASSUME TypeOK, AllMarked, AllBalanced, RecordsAreBacked,
         NEW k \in Clients, Step(k), NEW c \in Names, NEW v \in Versions,
         NothingDeleted(c)', Downloadable(c, v)
  PROVE  Downloadable(c, v)'
<1> SUFFICES ASSUME versions'[c][v] # Absent,
                    request'[versions'[c][v].publisher].pc = "done"
             PROVE  artifacts'[c][v] = versions'[c][v].checksum
  BY DEF Downloadable
<1>1. NothingDeleted(c)
  BY DeletionsStay
<1>2. CASE versions[c][v] # Absent
  <2> DEFINE p == versions[c][v].publisher
  <2>1. /\ p \in Clients /\ request[p].op = "push"
        /\ request[p].name = c /\ request[p].version = v
        /\ request[p].archive = versions[c][v].checksum
    BY <1>2 DEF RecordsAreBacked, Backed, Publications
  <2>2. versions'[c][v].publisher = p
        /\ versions'[c][v].checksum = versions[c][v].checksum
    BY <1>2, RowStays
  <2>3. request'[p].pc = "done"
    BY <2>2
  <2>4. CASE k # p
    <3>1. request[p].pc = "done"
      BY <2>1, <2>3, <2>4, RequestStep
    <3>2. artifacts[c][v] = versions[c][v].checksum
      BY <1>2, <3>1 DEF Downloadable
    <3>3. artifacts'[c][v] = artifacts[c][v]
      BY <1>1, <1>2, <2>4, ObjectStays
    <3>4. QED
      BY <2>2, <3>2, <3>3
  <2>5. CASE k = p
    <3>1. UploadArtifact(k)
      BY <2>1, <2>3, <2>5, PushEnds
    <3>2. artifacts' = [artifacts EXCEPT ![c][v] = request[k].archive]
          /\ request[k].archive \in Archives
      BY <2>1, <2>5, <3>1, StepOfCommand DEF UploadArtifact, PushSteps
    <3>3. artifacts'[c][v] = request[k].archive
      BY <3>2, TableUpdate DEF TypeOK
    <3>4. QED
      BY <2>1, <2>2, <2>5, <3>3
  <2>6. QED
    BY <2>4, <2>5
<1>3. CASE versions[c][v] = Absent
  <2>1. CASE versions'[c][v] = [checksum |-> request[k].archive,
                                deprecated |-> FALSE, publisher |-> k]
             /\ PublishTransact(k)
    <3>1. versions'[c][v].publisher = k
      BY <2>1
    <3>2. request'[k].pc # "done"
      BY <2>1, GotoFields, AppliedFields DEF PublishTransact
    <3>3. QED
      BY <3>1, <3>2
  <2>2. QED
    BY <1>3, <2>1, VersionItemStep
<1>4. QED
  BY <1>2, <1>3

\* Until a version of a component is deleted, its latest_version is stored
\* and what was pushed with success can be downloaded.
THEOREM NothingLostUntilDeletion == Spec => []ConsistentUntilDeletion
<1>1. Init => ConsistentUntilDeletion
  BY DEF Init, ConsistentUntilDeletion, StoresLatest, Downloadable
<1>2. TypeOK /\ AllMarked /\ AllBalanced /\ RecordsAreBacked
        /\ VersionsBelongToComponents /\ ConsistentUntilDeletion /\ [Next]_vars
        => ConsistentUntilDeletion'
  <2> SUFFICES ASSUME TypeOK, AllMarked, AllBalanced, RecordsAreBacked,
                      VersionsBelongToComponents, ConsistentUntilDeletion,
                      [Next]_vars
               PROVE  ConsistentUntilDeletion'
    OBVIOUS
  <2>1. CASE Replicate \/ UNCHANGED vars
    BY <2>1 DEF Replicate, ReplicateMetadata, ReplicateVersion, vars,
       ConsistentUntilDeletion, NothingDeleted, Deletions, StoresLatest,
       Downloadable
  <2>2. ASSUME NEW k \in Clients, Step(k), NEW c \in Names,
               NothingDeleted(c)'
        PROVE  StoresLatest(c)' /\ \A v \in Versions : Downloadable(c, v)'
    <3>1. StoresLatest(c) /\ \A v \in Versions : Downloadable(c, v)
      BY <2>2, DeletionsStay DEF ConsistentUntilDeletion
    <3>2. StoresLatest(c)'
      BY <2>2, <3>1, LatestStep
    <3>3. \A v \in Versions : Downloadable(c, v)'
      BY <2>2, <3>1, DownloadableStep
    <3>4. QED
      BY <3>2, <3>3
  <2>3. QED
    BY <2>1, <2>2 DEF Next, ConsistentUntilDeletion
<1>3. QED
  BY <1>1, <1>2, TypeCorrect, AllMarkedInductive, AllBalancedInductive,
     EveryRecordIsBacked, VersionsHaveComponents, PTL DEF Spec

-----------------------------------------------------------------------------
(***************************************************************************)
(* The component registry implements the version catalog: each step of a   *)
(* client is one operation of the catalog, or changes nothing there.       *)
(***************************************************************************)

(* What the catalog sees of the requests.                                  *)

HasPublished(k) == request[k].op = "push" /\ request[k].applied

PublicationOf(k) ==
  [name |-> request[k].name, version |-> request[k].version,
   archive |-> request[k].archive, publisher |-> k]

HasExtracted(k) == request[k].op = "pull" /\ request[k].pc = "done"

DeliveryTo(k) ==
  [consumer |-> k, name |-> request[k].name, version |-> request[k].version,
   archive |-> request[k].archive]

LEMMA PublishedIs ==
  Published = {PublicationOf(k) : k \in {q \in Clients : HasPublished(q)}}
BY DEF Published, PublicationOf, HasPublished

LEMMA ExtractedIs ==
  Extracted = {DeliveryTo(k) : k \in {q \in Clients : HasExtracted(q)}}
BY DEF Extracted, DeliveryTo, HasExtracted

\* The other clients' publications and deliveries are as they were.
LEMMA OthersSeen ==
  ASSUME TypeOK, NEW k \in Clients, Step(k), NEW j \in Clients, j # k
  PROVE  /\ HasPublished(j)' <=> HasPublished(j)
         /\ PublicationOf(j)' = PublicationOf(j)
         /\ HasExtracted(j)' <=> HasExtracted(j)
         /\ DeliveryTo(j)' = DeliveryTo(j)
<1>1. request'[j] = request[j]
  BY RequestStep
<1>2. QED
  BY <1>1 DEF HasPublished, PublicationOf, HasExtracted, DeliveryTo

LEMMA HistorySame ==
  ASSUME TypeOK, NEW k \in Clients, Step(k),
         Begins(k) \/ MovesOn(k) \/ Settles(k)
         \/ \E c \in Names, v \in Versions : Removes(k, c, v)
  PROVE  Published' = Published
<1>1. request[k] \in Request /\ WellFormed(request[k])
  BY StepOfCommand
<1>2. (HasPublished(k)' <=> HasPublished(k))
      /\ (HasPublished(k) => PublicationOf(k)' = PublicationOf(k))
  <2>1. CASE Begins(k)
    BY <1>1, <2>1 DEF Begins, HasPublished, WellFormed
  <2>2. CASE MovesOn(k)
    <3>1. HasPublished(k)' <=> HasPublished(k)
      BY <2>2 DEF MovesOn, HasPublished
    <3>2. HasPublished(k) => request[k].pc # "idle" /\ request[k].op = "push"
      BY <1>1 DEF HasPublished, WellFormed
    <3>3. HasPublished(k) => PublicationOf(k)' = PublicationOf(k)
      BY <2>2, <3>2, RequestStep DEF MovesOn, PublicationOf, Keeps
    <3>4. QED
      BY <3>1, <3>3
  <2>3. CASE Settles(k)
    BY <2>3 DEF Settles, HasPublished
  <2>4. CASE \E c \in Names, v \in Versions : Removes(k, c, v)
    BY <2>4 DEF Removes, Writes, HasPublished
  <2>5. QED
    BY <2>1, <2>2, <2>3, <2>4
<1>3. \A j \in Clients :
        /\ HasPublished(j)' <=> HasPublished(j)
        /\ HasPublished(j) => PublicationOf(j)' = PublicationOf(j)
  BY <1>2, OthersSeen
<1>4. Published' = {PublicationOf(j)' : j \in {q \in Clients : HasPublished(q)'}}
  BY DEF Published, PublicationOf, HasPublished
<1>5. {q \in Clients : HasPublished(q)'} = {q \in Clients : HasPublished(q)}
  BY <1>3
<1>6. QED
  BY <1>3, <1>4, <1>5, PublishedIs

LEMMA DeliveredSame ==
  ASSUME TypeOK, NEW k \in Clients, Step(k), ~Extract(k)
  PROVE  Extracted' = Extracted
<1>1. ~HasExtracted(k)
  BY RequestStep DEF HasExtracted, Keeps, Finished
<1>2. ~HasExtracted(k)'
  <2>1. CASE ~GetVersion(k) /\ ~Download(k)
    BY <2>1, OthersReceiveNothing DEF Received, HasExtracted
  <2>2. ASSUME Goto(k, "failed")
        PROVE  request'[k].pc # "done"
    BY <2>2, GotoFields
  <2>3. ASSUME NEW q, Become(k, q), q.pc \in {"download", "extract"}
        PROVE  request'[k].pc # "done"
    BY <2>3, BecomeHere
  <2>4. request[k] \in Request
    BY StepOfCommand
  <2>5. CASE GetVersion(k)
    <3> DEFINE q(row) == [request[k] EXCEPT !.pc = "download", !.row = row]
    <3>1. \A row : q(row).pc = "download"
      BY <2>4 DEF Request
    <3>2. Goto(k, "failed") \/ \E row : Become(k, q(row))
      BY <2>5 DEF GetVersion
    <3> HIDE DEF q
    <3>3. QED
      BY <2>2, <2>3, <3>1, <3>2 DEF HasExtracted
  <2>6. CASE Download(k)
    <3> DEFINE q(data) == [request[k] EXCEPT !.pc = "extract",
                                             !.archive = data]
    <3>1. \A data : q(data).pc = "extract"
      BY <2>4 DEF Request
    <3>2. Goto(k, "failed") \/ \E data : Become(k, q(data))
      BY <2>6 DEF Download
    <3> HIDE DEF q
    <3>3. QED
      BY <2>2, <2>3, <3>1, <3>2 DEF HasExtracted
  <2>7. QED
    BY <2>1, <2>5, <2>6
<1>3. \A j \in Clients :
        /\ HasExtracted(j)' <=> HasExtracted(j)
        /\ HasExtracted(j) => DeliveryTo(j)' = DeliveryTo(j)
  BY <1>1, <1>2, OthersSeen
<1>4. Extracted' = {DeliveryTo(j)' : j \in {q \in Clients : HasExtracted(q)'}}
  BY DEF Extracted, DeliveryTo, HasExtracted
<1>5. {q \in Clients : HasExtracted(q)'} = {q \in Clients : HasExtracted(q)}
  BY <1>3
<1>6. QED
  BY <1>3, <1>4, <1>5, ExtractedIs

-----------------------------------------------------------------------------
(* The steps.                                                              *)

Author ==
  [c \in Names |-> IF metadata[c] = Absent THEN Absent ELSE metadata[c].author]

Newest ==
  [c \in Names |-> IF metadata[c] = Absent THEN NoVersion ELSE metadata[c].latest]

CatalogStep == Catalog!Next \/ UNCHANGED Catalog!catalogVars

LEMMA StutterStep ==
  ASSUME UNCHANGED <<metadata, versions>>,
         Published' = Published, Extracted' = Extracted
  PROVE  CatalogStep
<1>1. Author' = Author /\ Newest' = Newest
  BY DEF Author, Newest
<1>2. QED
  BY <1>1 DEF CatalogStep, Catalog!catalogVars, Author, Newest

LEMMA RegisterStep ==
  ASSUME TypeOK, NEW k \in Clients, Step(k), RegisterComponent(k)
  PROVE  CatalogStep
<1>1. PICK c \in Names : c = request[k].name
  BY StepOfCommand DEF RegisterComponent
<1>2. request[k].op = "register" /\ request[k].pc = "register"
      /\ UNCHANGED versions
  BY StepOfCommand DEF RegisterComponent
<1>3. Begins(k) \/ MovesOn(k) \/ Settles(k)
  BY <1>2, MarkStep DEF Publishes, Removes, Writes
<1>4. Published' = Published /\ Extracted' = Extracted
  BY <1>2, <1>3, HistorySame, DeliveredSame DEF Extract
<1>5. CASE RegistrationHolds(c)
  <2>1. metadata[c] = Absent
        /\ metadata' = [metadata EXCEPT ![c] =
                          [author |-> k, latest |-> NoVersion]]
    BY <1>1, <1>5 DEF RegisterComponent, RegistrationHolds
  <2>2. metadata'[c] = [author |-> k, latest |-> NoVersion]
        /\ \A d \in Names \ {c} : metadata'[d] = metadata[d]
    BY <2>1 DEF TypeOK
  <2>3. metadata'[c] # Absent /\ metadata'[c].author = k
        /\ metadata'[c].latest = NoVersion
    BY <2>2, ConstantsAssumption
  <2>4. Author[c] = Absent /\ Author' = [Author EXCEPT ![c] = k]
    <3>1. Author[c] = Absent /\ Author'[c] = k
          /\ \A d \in Names \ {c} : Author'[d] = Author[d]
      BY <2>1, <2>2, <2>3 DEF Author
    <3>2. Author = [d \in Names |-> Author[d]]
          /\ Author' = [d \in Names |-> Author'[d]]
      BY DEF Author
    <3> HIDE DEF Author
    <3>3. QED
      BY <3>1, <3>2
  <2>5. Newest' = Newest
    BY <2>1, <2>2, <2>3 DEF Newest
  <2>6. Catalog!Register(c, k)
    BY <1>2, <1>4, <2>4, <2>5 DEF Catalog!Register, Author, Newest
  <2>7. QED
    BY <2>6 DEF CatalogStep, Catalog!Next
<1>6. CASE ~RegistrationHolds(c)
  BY <1>1, <1>2, <1>4, <1>6, StutterStep DEF RegisterComponent
<1>7. QED
  BY <1>5, <1>6

LEMMA PublishStep ==
  ASSUME TypeOK, AllMarked, NEW k \in Clients, Step(k), PublishTransact(k)
  PROVE  CatalogStep
<1>1. PICK c \in Names, v \in Versions, a \in Archives :
        c = request[k].name /\ v = request[k].version /\ a = request[k].archive
  BY StepOfCommand DEF PublishTransact, PushSteps
<1>2. request[k].op = "push" /\ request[k].pc = "transact"
  BY StepOfCommand DEF PublishTransact, PushSteps
<1>3. Extracted' = Extracted
  BY <1>2, DeliveredSame DEF Extract
<1>4. CASE TransactionHolds(c, v)
  <2> DEFINE row == [checksum |-> a, deprecated |-> FALSE, publisher |-> k]
  <2>1. PICK pc \in {"presignPut", "failed"} :
          /\ versions' = [versions EXCEPT ![c][v] = row]
          /\ metadata' = [metadata EXCEPT ![c] = SetLatest(metadata[c], v)]
          /\ Applied(k, pc)
    BY <1>1, <1>4 DEF PublishTransact
  <2>2. metadata[c] # Absent /\ versions[c][v] = Absent
    BY <1>4 DEF TransactionHolds
  <2>3. /\ metadata'[c] # Absent
        /\ metadata'[c].author = metadata[c].author
        /\ metadata'[c].latest = v
        /\ \A d \in Names \ {c} : metadata'[d] = metadata[d]
    <3>1. metadata[c] \in Component
      BY <2>2 DEF TypeOK
    <3>2. SetLatest(metadata[c], v) \in Component
          /\ SetLatest(metadata[c], v).author = metadata[c].author
          /\ SetLatest(metadata[c], v).latest = v
      BY <3>1 DEF SetLatest, Component
    <3>3. metadata'[c] = SetLatest(metadata[c], v)
          /\ \A d \in Names \ {c} : metadata'[d] = metadata[d]
      BY <2>1 DEF TypeOK
    <3>4. QED
      BY <3>2, <3>3, ConstantsAssumption DEF Component
  <2>4. Author' = Author /\ Author[c] # Absent
    <3>1. Author[c] = metadata[c].author
      BY <2>2 DEF Author
    <3>2. metadata[c].author # Absent
      BY <2>2, ConstantsAssumption DEF TypeOK, Component
    <3>3. QED
      BY <2>2, <2>3, <3>1, <3>2 DEF Author
  <2>5. Newest' = [Newest EXCEPT ![c] = v]
    BY <2>2, <2>3 DEF Newest
  <2>6. \A h \in Published : h.publisher # k
    <3>1. ~request[k].applied
      BY <1>2 DEF AllMarked, Marked, Early
    <3>2. QED
      BY <3>1, PublishedIs DEF HasPublished, PublicationOf
  <2>7. Published' = Published \cup {[name |-> c, version |-> v,
                                      archive |-> a, publisher |-> k]}
    <3>1. HasPublished(k)' /\ ~HasPublished(k)
          /\ PublicationOf(k)' = [name |-> c, version |-> v,
                                  archive |-> a, publisher |-> k]
      <4>1. request[k].pc # "idle" /\ ~request[k].applied
        BY <1>2 DEF AllMarked, Marked, Early
      <4>2. request'[k].archive = a /\ request'[k].op = "push"
            /\ request'[k].name = c /\ request'[k].version = v
            /\ request'[k].applied
        BY <1>1, <1>2, <2>1, <4>1, RequestStep, AppliedFields DEF Keeps
      <4>3. QED
        BY <4>1, <4>2 DEF HasPublished, PublicationOf
    <3>2. \A j \in Clients \ {k} :
            /\ HasPublished(j)' <=> HasPublished(j)
            /\ PublicationOf(j)' = PublicationOf(j)
      BY OthersSeen
    <3>3. Published' =
            {PublicationOf(j)' : j \in {q \in Clients : HasPublished(q)'}}
      BY DEF Published, PublicationOf, HasPublished
    <3>4. {q \in Clients : HasPublished(q)'}
            = {q \in Clients : HasPublished(q)} \cup {k}
      BY <3>1, <3>2
    <3>5. {PublicationOf(j)' : j \in {q \in Clients : HasPublished(q)'}}
            = {PublicationOf(j) : j \in {q \in Clients : HasPublished(q)}}
                \cup {PublicationOf(k)'}
      BY <3>1, <3>2, <3>4
    <3>6. QED
      BY <3>1, <3>3, <3>5, PublishedIs
  <2>8. Catalog!Publish(c, v, a, k)
    BY <1>3, <2>1, <2>2, <2>4, <2>5, <2>6, <2>7
       DEF Catalog!Publish, Author, Newest
  <2>9. QED
    BY <2>8 DEF CatalogStep, Catalog!Next
<1>5. CASE ~TransactionHolds(c, v)
  <2>1. Goto(k, "failed") /\ UNCHANGED <<metadata, versions>>
    BY <1>1, <1>5 DEF PublishTransact
  <2>2. MovesOn(k)
    BY <2>1, GotoMovesOn DEF Early, Late
  <2>3. QED
    BY <1>3, <2>1, <2>2, HistorySame, StutterStep
<1>6. QED
  BY <1>4, <1>5

LEMMA DeprecateStep ==
  ASSUME TypeOK, NEW k \in Clients, Step(k), DeprecateVersion(k)
  PROVE  CatalogStep
<1>1. PICK c \in Names, v \in Versions :
        c = request[k].name /\ v = request[k].version
  BY StepOfCommand DEF DeprecateVersion
<1>2. request[k].op = "deprecate" /\ request[k].pc = "deprecate"
      /\ UNCHANGED metadata
  BY StepOfCommand DEF DeprecateVersion
<1>3. Begins(k) \/ MovesOn(k) \/ Settles(k)
  BY <1>2, MarkStep DEF Publishes, Removes, Writes
<1>4. Published' = Published /\ Extracted' = Extracted
  BY <1>2, <1>3, HistorySame, DeliveredSame DEF Extract
<1>5. CASE versions[c][v] # Absent
  <2>1. versions' = [versions EXCEPT ![c][v].deprecated = TRUE]
    BY <1>1, <1>5 DEF DeprecateVersion
  <2>2. Author' = Author /\ Newest' = Newest
    BY <1>2 DEF Author, Newest
  <2>3. Catalog!Deprecate(c, v)
    BY <1>4, <1>5, <2>1, <2>2 DEF Catalog!Deprecate, Author, Newest
  <2>4. QED
    BY <2>3 DEF CatalogStep, Catalog!Next
<1>6. CASE versions[c][v] = Absent
  BY <1>1, <1>2, <1>4, <1>6, StutterStep DEF DeprecateVersion
<1>7. QED
  BY <1>5, <1>6

LEMMA WithdrawStep ==
  ASSUME TypeOK, NEW k \in Clients, Step(k), DeleteVersion(k)
  PROVE  CatalogStep
<1>1. PICK c \in Names, v \in Versions :
        c = request[k].name /\ v = request[k].version
  BY StepOfCommand DEF DeleteVersion
<1>2. request[k].op = "delete" /\ request[k].pc = "deleteRow"
      /\ UNCHANGED metadata
  BY StepOfCommand DEF DeleteVersion
<1>3. \/ Begins(k) \/ MovesOn(k) \/ Settles(k)
      \/ \E d \in Names, w \in Versions : Removes(k, d, w)
  BY <1>2, MarkStep DEF Publishes, Writes
<1>4. Published' = Published /\ Extracted' = Extracted
  BY <1>2, <1>3, HistorySame, DeliveredSame DEF Extract
<1>5. CASE DeletionHolds(c, v)
  <2>1. versions' = [versions EXCEPT ![c][v] = Absent]
        /\ versions[c][v] # Absent
    BY <1>1, <1>5 DEF DeleteVersion, DeletionHolds
  <2>2. Author' = Author /\ Newest' = Newest
    BY <1>2 DEF Author, Newest
  <2>3. Catalog!Withdraw(c, v)
    BY <1>4, <2>1, <2>2 DEF Catalog!Withdraw, Author, Newest
  <2>4. QED
    BY <2>3 DEF CatalogStep, Catalog!Next
<1>6. CASE ~DeletionHolds(c, v)
  BY <1>1, <1>2, <1>4, <1>6, StutterStep DEF DeleteVersion
<1>7. QED
  BY <1>5, <1>6

LEMMA DeliverStep ==
  ASSUME TypeOK, RecordsAreBacked, NEW k \in Clients, Step(k), Extract(k)
  PROVE  CatalogStep
<1>1. request[k].op = "pull" /\ request[k].pc = "extract"
      /\ UNCHANGED <<metadata, versions>> /\ Goto(k, "done")
  BY StepOfCommand DEF Extract
<1>2. MovesOn(k)
  BY <1>1, GotoMovesOn DEF Early, Late
<1>3. Published' = Published
  BY <1>2, HistorySame
<1>4. \E h \in Published : /\ h.name = request[k].name
                           /\ h.version = request[k].version
                           /\ h.archive = request[k].archive
  <2>1. /\ Backed(request[k].row, request[k].name, request[k].version)
        /\ request[k].archive = request[k].row.checksum
    BY <1>1 DEF RecordsAreBacked, Received
  <2>2. PICK p \in Clients : /\ HasPublished(p)
                             /\ request[p].name = request[k].name
                             /\ request[p].version = request[k].version
                             /\ request[p].archive = request[k].archive
    BY <2>1 DEF Backed, Publications, HasPublished
  <2>3. PublicationOf(p) \in Published
    BY <2>2, PublishedIs
  <2>4. QED
    BY <2>2, <2>3 DEF PublicationOf
<1>5. Extracted' = Extracted \cup {DeliveryTo(k)}
  <2>1. HasExtracted(k)' /\ ~HasExtracted(k) /\ DeliveryTo(k)' = DeliveryTo(k)
    <3>1. request'[k] = [request[k] EXCEPT !.pc = "done"]
      BY <1>1, BecomeHere DEF Goto
    <3>2. request[k] \in Request
      BY StepOfCommand
    <3>3. QED
      BY <1>1, <3>1, <3>2 DEF HasExtracted, DeliveryTo, Request
  <2>2. \A j \in Clients \ {k} :
          /\ HasExtracted(j)' <=> HasExtracted(j)
          /\ DeliveryTo(j)' = DeliveryTo(j)
    BY OthersSeen
  <2>3. Extracted' = {DeliveryTo(j)' : j \in {q \in Clients : HasExtracted(q)'}}
    BY DEF Extracted, DeliveryTo, HasExtracted
  <2>4. {q \in Clients : HasExtracted(q)'}
          = {q \in Clients : HasExtracted(q)} \cup {k}
    BY <2>1, <2>2
  <2>5. {DeliveryTo(j)' : j \in {q \in Clients : HasExtracted(q)'}}
          = {DeliveryTo(j) : j \in {q \in Clients : HasExtracted(q)}}
              \cup {DeliveryTo(k)}
    BY <2>1, <2>2, <2>4
  <2>6. QED
    BY <2>3, <2>5, ExtractedIs
<1>6. Author' = Author /\ Newest' = Newest
  BY <1>1 DEF Author, Newest
<1>7. Catalog!Deliver(k)
  <2>1. PICK h \in Published : /\ h.name = request[k].name
                               /\ h.version = request[k].version
                               /\ h.archive = request[k].archive
    BY <1>4
  <2>2. Extracted' = Extracted \cup
          {[consumer |-> k, name |-> h.name, version |-> h.version,
            archive |-> h.archive]}
    BY <1>5, <2>1 DEF DeliveryTo
  <2>3. QED
    BY <1>1, <1>3, <1>6, <2>2 DEF Catalog!Deliver, Author, Newest
<1>8. QED
  BY <1>7 DEF CatalogStep, Catalog!Next

\* Every other step is invisible in the catalog.
LEMMA OtherStep ==
  ASSUME TypeOK, NEW k \in Clients, Step(k),
         ~RegisterComponent(k), ~PublishTransact(k), ~DeprecateVersion(k),
         ~DeleteVersion(k), ~Extract(k)
  PROVE  CatalogStep
<1>1. UNCHANGED <<metadata, versions>>
  BY Writers
<1>2. Begins(k) \/ MovesOn(k) \/ Settles(k)
  BY <1>1, MarkStep DEF Publishes, Removes
<1>3. QED
  BY <1>1, <1>2, HistorySame, DeliveredSame, StutterStep

-----------------------------------------------------------------------------
(* The refinement.                                                         *)

\* Every behaviour of the registry, with its racing pre-checks, separate
\* uploads and lost answers, is one of the atomic catalog.
THEOREM RegistryIsACatalog == Spec => ImplementsCatalog
<1>1. Init => Catalog!Init
  <2> SUFFICES ASSUME Init PROVE Catalog!Init
    OBVIOUS
  <2>1. Published = {} /\ Extracted = {}
    BY DEF Init, Published, Extracted, Idle
  <2>2. QED
    BY <2>1 DEF Init, Catalog!Init
<1>2. TypeOK /\ AllMarked /\ RecordsAreBacked /\ [Next]_vars
        => [Catalog!Next]_Catalog!catalogVars
  <2> SUFFICES ASSUME TypeOK, AllMarked, RecordsAreBacked, [Next]_vars
               PROVE  CatalogStep
    BY DEF CatalogStep
  <2>1. CASE Replicate \/ UNCHANGED vars
    BY <2>1, StutterStep DEF Replicate, ReplicateMetadata, ReplicateVersion,
       vars, Published, Extracted
  <2>2. ASSUME NEW k \in Clients, Step(k)
        PROVE  CatalogStep
    BY <2>2, RegisterStep, PublishStep, DeprecateStep, WithdrawStep,
       DeliverStep, OtherStep
  <2>3. QED
    BY <2>1, <2>2 DEF Next
<1>3. QED
  BY <1>1, <1>2, TypeCorrect, AllMarkedInductive, EveryRecordIsBacked, PTL
     DEF Spec, ImplementsCatalog, Catalog!Spec
=============================================================================
