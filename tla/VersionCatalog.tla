--------------------------- MODULE VersionCatalog ---------------------------
(***************************************************************************)
(* What the component registry promises, with no handlers, replicas,       *)
(* uploads or errors: a catalog of components in which registering,        *)
(* publishing, deprecating and withdrawing happen at one instant, each     *)
(* publisher publishes at most once, and a consumer is handed nothing but  *)
(* what somebody published under the name and version it asked for.        *)
(***************************************************************************)
CONSTANTS Publishers, Names, Versions, Archives, NoVersion, Absent

VARIABLES
  author,     \* who registered each component, or Absent
  newest,     \* version published last for each component, or NoVersion
  entry,      \* current entry of each name and version, or Absent
  history,    \* every publication that ever took place
  delivered   \* what consumers have been handed

catalogVars == <<author, newest, entry, history, delivered>>

Init ==
  /\ author = [c \in Names |-> Absent]
  /\ newest = [c \in Names |-> NoVersion]
  /\ entry = [c \in Names |-> [v \in Versions |-> Absent]]
  /\ history = {}
  /\ delivered = {}

Register(c, p) ==
  /\ author[c] = Absent
  /\ author' = [author EXCEPT ![c] = p]
  /\ UNCHANGED <<newest, entry, history, delivered>>

Publish(c, v, a, p) ==
  /\ author[c] # Absent
  /\ entry[c][v] = Absent
  /\ \A h \in history : h.publisher # p
  /\ entry' = [entry EXCEPT ![c][v] =
                 [checksum |-> a, deprecated |-> FALSE, publisher |-> p]]
  /\ newest' = [newest EXCEPT ![c] = v]
  /\ history' = history \cup
       {[name |-> c, version |-> v, archive |-> a, publisher |-> p]}
  /\ UNCHANGED <<author, delivered>>

Deprecate(c, v) ==
  /\ entry[c][v] # Absent
  /\ entry' = [entry EXCEPT ![c][v].deprecated = TRUE]
  /\ UNCHANGED <<author, newest, history, delivered>>

Withdraw(c, v) ==
  /\ entry[c][v] # Absent
  /\ entry' = [entry EXCEPT ![c][v] = Absent]
  /\ UNCHANGED <<author, newest, history, delivered>>

\* A version may still be delivered after it was withdrawn: readers lag.
Deliver(k) ==
  /\ \E h \in history :
       delivered' = delivered \cup
         {[consumer |-> k, name |-> h.name, version |-> h.version,
           archive |-> h.archive]}
  /\ UNCHANGED <<author, newest, entry, history>>

Next ==
  \/ \E p \in Publishers, c \in Names : Register(c, p)
  \/ \E p \in Publishers, c \in Names, v \in Versions, a \in Archives :
       Publish(c, v, a, p)
  \/ \E c \in Names, v \in Versions : Deprecate(c, v) \/ Withdraw(c, v)
  \/ \E k \in Publishers : Deliver(k)

Spec == Init /\ [][Next]_catalogVars
=============================================================================
