--------------------- MODULE RegistryImplementsCatalog ---------------------
(***************************************************************************)
(* The registry implements the version catalog: the handlers, with their   *)
(* pre-checks on lagging replicas, their separate upload and their lost    *)
(* answers, behave like single atomic catalog operations.                  *)
(***************************************************************************)
EXTENDS ComponentRegistry

\* A publication counts from the transaction on, not from the upload.
Published ==
  {[name |-> request[k].name, version |-> request[k].version,
    archive |-> request[k].archive, publisher |-> k] :
     k \in {q \in Clients : request[q].op = "push" /\ request[q].applied}}

\* A delivery counts when pull has extracted the archive.
Extracted ==
  {[consumer |-> k, name |-> request[k].name, version |-> request[k].version,
    archive |-> request[k].archive] :
     k \in {q \in Clients : request[q].op = "pull" /\ request[q].pc = "done"}}

Catalog == INSTANCE VersionCatalog WITH
  Publishers <- Clients,
  author <- [c \in Names |->
               IF metadata[c] = Absent THEN Absent ELSE metadata[c].author],
  newest <- [c \in Names |->
               IF metadata[c] = Absent THEN NoVersion ELSE metadata[c].latest],
  entry <- versions,
  history <- Published,
  delivered <- Extracted

(* Every behaviour of the registry is a behaviour of the catalog: two      *)
(* pushes of one version are never both accepted, latest_version follows   *)
(* the order in which publications take effect, and pull hands out nothing *)
(* but publications.                                                       *)
ImplementsCatalog == Catalog!Spec
=============================================================================
