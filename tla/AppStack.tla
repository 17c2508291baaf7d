------------------------------ MODULE AppStack ------------------------------
(***************************************************************************)
(* The stacks of the repository through their deployments: that of the     *)
(* application, that of the shared runtime, and those that are put         *)
(* together from the constructs of packages/cdk-constructs, of its copy    *)
(* packages/ds-cdk, and of cdk/lib/constructs. CloudFormation creates,     *)
(* updates, rolls back and deletes; it and the account service, to which   *)
(* an application registers its manifest, are external.                    *)
(***************************************************************************)
EXTENDS Naturals

CONSTANTS
  MaxVersion  \* bound of the model: versions of the application

Stacks == {"developer", "runtime", "constructs", "ds-cdk", "local"}
Environments == {"dev", "staging", "prod", "production"}

ConstantsAssumption == MaxVersion \in Nat \ {0}

VARIABLES
  kind, environment,
  skipRegistration,
  stack,
  at,        \* the version at which each resource is; 0: it does not exist
  orphans,   \* resources that outlived their stack, under names that stay taken
  stored,    \* resources with data that cannot be made again
  manifest   \* the version registered with the account service

vars == <<kind, environment, skipRegistration, stack, at, orphans, stored, manifest>>

Versions == 0..MaxVersion

-----------------------------------------------------------------------------
(* The resources of a stack.                                               *)

\* MUTANT: the other name of production is not recognized.
IsProd(env) == env = "prod"

IsProdEnvironment(env) == env \in {"prod", "production"}

EnableAlarms(env) == env \in {"prod", "staging"}

Monitoring(env) ==
  {"dashboard"} \cup IF EnableAlarms(env) THEN {"topic", "alarms"} ELSE {}

Backend == {"table", "logs", "function", "api"}
Frontend == {"bucket", "certificate", "distribution", "record"}
DeveloperResources(env) == Backend \cup Frontend \cup Monitoring(env)

SharedRuntimeCdn == {"runtimeBucket", "certificate", "distribution", "record"}
SharedRuntimeResources == SharedRuntimeCdn \cup {"artifacts"}

\* The constructs of cdk-constructs, of ds-cdk, and of cdk/lib.
DataTable == {"table"}
ApiLambda == {"function", "api"}
SpaHosting == {"bucket", "rewrite", "distribution"}
CopiedDataTable == {"table"}
CopiedApiLambda == {"function", "api"}
CopiedSpaHosting == {"bucket", "rewrite", "distribution"}
LocalDataTable == {"table"}
LocalApiLambda == {"function", "api"}
LocalSpaHosting == {"bucket", "rewrite", "headers", "distribution"}

ManifestRegistration ==
  IF skipRegistration THEN {} ELSE {"handler", "registration"}

Resources ==
  CASE kind = "developer" -> DeveloperResources(environment)
    [] kind = "runtime" -> SharedRuntimeResources
    [] kind = "constructs" -> DataTable \cup ApiLambda \cup SpaHosting \cup ManifestRegistration
    [] kind = "ds-cdk" -> CopiedDataTable \cup CopiedApiLambda \cup CopiedSpaHosting
    [] kind = "local" -> LocalDataTable \cup LocalApiLambda \cup LocalSpaHosting

\* Removal policies. Those of the other stacks leave out what is rebuilt.
RetainedTable(env) == IF IsProdEnvironment(env) THEN {"table"} ELSE {}
RetainedBucket(env) == IF IsProdEnvironment(env) THEN {"bucket"} ELSE {}
RetainedLocally(env) == IF env = "prod" THEN {"table", "bucket"} ELSE {}
RetainedArtifacts(env) == IF env = "prod" THEN {"artifacts"} ELSE {}

Retained ==
  CASE kind = "developer" -> {"table"}
    [] kind = "runtime" -> {"runtimeBucket"} \cup RetainedArtifacts(environment)
    [] kind \in {"constructs", "ds-cdk"} ->
         RetainedTable(environment) \cup RetainedBucket(environment)
    [] kind = "local" -> RetainedLocally(environment)

\* What a resource refers to exists before it. The registration refers to
\* nothing but its handler.
Needs(r) ==
  CASE r = "function" -> {"table", "logs"}
    [] r = "api" -> {"function"}
    [] r = "distribution" ->
         {"bucket", "runtimeBucket", "api", "certificate", "rewrite", "headers"}
    [] r = "record" -> {"distribution"}
    [] r = "dashboard" -> {"function", "api", "table"}
    [] r = "alarms" -> {"function", "api", "table", "topic"}
    [] r = "registration" -> {"handler"}
    [] OTHER -> {}

\* Of a new version: the code, and the registration, for its time stamp.
Changed == Resources \cap {"function", "registration"}

Data == Resources \cap {"table", "runtimeBucket", "artifacts"}

-----------------------------------------------------------------------------
(* Deployments.                                                            *)

\* todo: what is still to create, update, undo or delete.
Stack == [status : {"none", "creating", "updating", "undoing", "reverting", "deleting",
                    "complete", "stuck"},
          running : Versions, target : Versions, todo : SUBSET Resources]

Nothing == [status |-> "none", running |-> 0, target |-> 0, todo |-> {}]

\* One of a stack that failed to be created deletes that first.
Deploy(version) ==
  /\ stack.status \in {"none", "complete"} /\ version > 0
  /\ stack' = [stack EXCEPT !.target = version,
                 !.status = IF stack.status = "none" THEN "creating" ELSE "updating",
                 !.todo = IF stack.status = "none" THEN Resources ELSE Changed]
  /\ UNCHANGED <<kind, environment, skipRegistration, at, orphans, stored, manifest>>

Ready(r) ==
  /\ stack.status \in {"creating", "updating"}
  /\ r \in stack.todo /\ Needs(r) \cap stack.todo = {}

\* r has failed, or could not begin: back to where the deployment began.
RolledBack(r) ==
  IF stack.status = "creating"
  THEN [stack EXCEPT !.status = "undoing", !.todo = Resources \ stack.todo]
  ELSE [stack EXCEPT !.status = "reverting", !.todo = (Changed \ @) \cup {r}]

Provision(r) ==
  /\ Ready(r) /\ r # "registration"
  /\ at[r] = 0 => r \notin orphans
  /\ at' = [at EXCEPT ![r] = stack.target]
  /\ stack' = [stack EXCEPT !.todo = @ \ {r}]
  /\ UNCHANGED <<kind, environment, skipRegistration, orphans, stored, manifest>>

ProvisionFails(r) ==
  /\ Ready(r) /\ r # "registration"
  /\ stack' = RolledBack(r)
  /\ UNCHANGED <<kind, environment, skipRegistration, at, orphans, stored, manifest>>

\* MUTANT: updates are not registered.
OnCreateOnly(event) == event = "Create"

Registers(event) == event # "Delete"

\* What the account service knows after the handler ran for a version.
Posted(event, version) ==
  manifest' = IF Registers(event) THEN version ELSE manifest

Event == IF stack.status = "creating" THEN "Create" ELSE "Update"

Register ==
  /\ Ready("registration")
  /\ Posted(Event, stack.target)
  /\ at' = [at EXCEPT !["registration"] = stack.target]
  /\ stack' = [stack EXCEPT !.todo = @ \ {"registration"}]
  /\ UNCHANGED <<kind, environment, skipRegistration, orphans, stored>>

\* The request is refused, or its answer lost, or it is not JSON.
RegisterFails ==
  /\ Ready("registration")
  /\ UNCHANGED manifest \/ Posted(Event, stack.target)
  /\ stack' = RolledBack("registration")
  /\ UNCHANGED <<kind, environment, skipRegistration, at, orphans, stored>>

Complete ==
  /\ stack.status \in {"creating", "updating"} /\ stack.todo = {}
  /\ stack' = [stack EXCEPT !.status = "complete", !.running = stack.target]
  /\ UNCHANGED <<kind, environment, skipRegistration, at, orphans, stored, manifest>>

\* The code is put back; the registration gets an update of its own.
Revert(r) ==
  /\ stack.status = "reverting" /\ r \in stack.todo
  /\ at' = [at EXCEPT ![r] = stack.running]
  /\ IF r = "registration" THEN Posted("Update", stack.running) ELSE UNCHANGED manifest
  /\ stack' = [stack EXCEPT !.todo = @ \ {r}]
  /\ UNCHANGED <<kind, environment, skipRegistration, orphans, stored>>

\* The stack takes no deployment until the rollback is continued.
RevertFails ==
  /\ stack.status = "reverting" /\ "registration" \in stack.todo
  /\ UNCHANGED manifest \/ Posted("Update", stack.running)
  /\ stack' = [stack EXCEPT !.status = "stuck"]
  /\ UNCHANGED <<kind, environment, skipRegistration, at, orphans, stored>>

ContinueRollback ==
  /\ stack.status = "stuck"
  /\ stack' = [stack EXCEPT !.status = "reverting"]
  /\ UNCHANGED <<kind, environment, skipRegistration, at, orphans, stored, manifest>>

Reverted ==
  /\ stack.status = "reverting" /\ stack.todo = {}
  /\ stack' = [stack EXCEPT !.status = "complete"]
  /\ UNCHANGED <<kind, environment, skipRegistration, at, orphans, stored, manifest>>

Destroy ==
  /\ stack.status = "complete"
  /\ stack' = [stack EXCEPT !.status = "deleting", !.todo = Resources]
  /\ UNCHANGED <<kind, environment, skipRegistration, at, orphans, stored, manifest>>

\* Of a failed creation or of the whole stack. The manifest stays registered.
Delete(r) ==
  /\ stack.status \in {"undoing", "deleting"}
  /\ r \in stack.todo /\ \A s \in stack.todo : r \notin Needs(s)
  /\ at' = [at EXCEPT ![r] = 0]
  /\ orphans' = IF r \in Retained THEN orphans \cup {r} ELSE orphans
  /\ Posted("Delete", 0)
  /\ stack' = [stack EXCEPT !.todo = @ \ {r}]
  /\ UNCHANGED <<kind, environment, skipRegistration, stored>>

Gone ==
  /\ stack.status \in {"undoing", "deleting"} /\ stack.todo = {}
  /\ stack' = Nothing
  /\ UNCHANGED <<kind, environment, skipRegistration, at, orphans, stored, manifest>>

\* Users, or publishers of components, store something.
Store(r) ==
  /\ stack.status \in {"complete", "updating", "reverting"} /\ r \in Data
  /\ stored' = stored \cup {r}
  /\ UNCHANGED <<kind, environment, skipRegistration, stack, at, orphans, manifest>>

Init ==
  /\ kind \in Stacks
  /\ environment \in Environments
  /\ kind = "runtime" => environment = "prod"
  /\ kind = "local" => environment # "production"  \* "dev, staging, prod" (data-table.ts:16)
  /\ skipRegistration \in BOOLEAN /\ (skipRegistration => kind = "constructs")
  /\ orphans = {} /\ stored = {}
  /\ \/ stack = Nothing /\ at = [r \in Resources |-> 0] /\ manifest = 0
     \/ /\ stack = [Nothing EXCEPT !.status = "complete", !.running = 1, !.target = 1]
        /\ at = [r \in Resources |-> 1]
        /\ manifest = IF "registration" \in Resources THEN 1 ELSE 0

Next ==
  \/ \E version \in Versions : Deploy(version)
  \/ \E r \in Resources : Provision(r) \/ ProvisionFails(r) \/ Revert(r)
                            \/ Delete(r) \/ Store(r)
  \/ Register \/ RegisterFails \/ Complete
  \/ RevertFails \/ ContinueRollback \/ Reverted
  \/ Destroy \/ Gone

Spec == Init /\ [][Next]_vars

-----------------------------------------------------------------------------
(* Properties.                                                             *)

(* The stack and its resources have their types.                           *)
TypeOK ==
  /\ kind \in Stacks /\ environment \in Environments /\ skipRegistration \in BOOLEAN
  /\ stack \in Stack /\ at \in [Resources -> Versions]
  /\ orphans \subseteq Resources /\ stored \subseteq Data
  /\ manifest \in Versions

(* What users stored in production outlives every deployment, rollback and *)
(* deletion of the stack.                                                  *)
DataSurvives ==
  environment \in {"prod", "production"} \/ kind = "runtime" =>
    \A r \in stored : at[r] # 0 \/ r \in orphans

(* When a stack is at rest, after whatever failures of the deployment and  *)
(* of the registration, the account service has the manifest of the        *)
(* version that runs: a rollback that ended has taken a newer one back.    *)
ManifestIsRunning ==
  stack.status = "complete" /\ "registration" \in Resources =>
    manifest = at["function"]
=============================================================================
