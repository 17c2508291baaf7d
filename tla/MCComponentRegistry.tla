------------------------ MODULE MCComponentRegistry ------------------------
(* Small instances of ComponentRegistry. Clients, archives and versions are *)
(* only ever compared, so permuting them changes nothing.                   *)
EXTENDS RegistryImplementsCatalog, TLC

CONSTANT Early  \* a client that registers the component first, or does nothing

Symmetry ==
  Permutations(Clients \ {Early}) \cup Permutations(Archives)
    \cup Permutations(Versions)

Registered(c) ==
  /\ request[Early].pc = "done"
  /\ metadata[c] # Absent /\ metadataReplica = metadata

\* Once Early has begun the others wait until its component is registered and
\* replicated, and then publish, delete and pull one version.
AfterRegistration ==
  request'[Early] # Idle =>
    /\ request'[Early].op = "register" /\ request'[Early].pc # "failed"
    /\ \A k \in Clients \ {Early} :
         /\ request'[k] # request[k] => \E c \in Names : Registered(c)
         /\ request'[k].op \in {"none", "push", "delete", "pull"}
         /\ \A j \in Clients \ {Early} :
              {request'[j].version, request'[k].version} \cap Versions
                \in {{}} \cup {{v} : v \in Versions}

\* Any commands of the others, or those after a registration.
EarlyOrNever ==
  request'[Early] # request[Early] => \A k \in Clients \ {Early} : request[k] = Idle

EarlySpec == Init /\ [][Next /\ EarlyOrNever /\ AfterRegistration]_vars
=============================================================================
