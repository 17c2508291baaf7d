---------------------------- MODULE RemoteShell ----------------------------
(***************************************************************************)
(* How a page of the frontend gets the shell around it: useRemoteShell and *)
(* RemoteShellWrapper of frontend/src/shell. The shell is a script from    *)
(* the CDN that sets window.DSLayout; a development build prefers its own  *)
(* components, which are the last resort of a production build, too. The   *)
(* application passes no configuration and no fallbackModule.              *)
(*                                                                         *)
(* A development build runs every effect twice (StrictMode): its load 1 is *)
(* cancelled from the beginning and goes on nevertheless.                  *)
(***************************************************************************)
EXTENDS Naturals

CONSTANT None

VARIABLES
  dev,      \* a development build
  layout,   \* window.DSLayout is set
  loads,    \* what each run of loadShell waits for
  scripts,  \* the script element of each run
  shell     \* the state of useRemoteShell

shellVars == <<dev, layout, loads, scripts, shell>>

Loads == {1, 2}
Cancelled(i) == i = 1

ShellState == [state : {"pending", "loaded", "fallback", "error"},
               module : {None, "remote", "local"}, error : BOOLEAN]
Pending == [state |-> "pending", module |-> None, error |-> FALSE]

\* The page is loaded: the effect of useRemoteShell runs.
Started(build) ==
  [i \in Loads |-> IF build THEN "local" ELSE IF i = 2 THEN "begin" ELSE "over"]

ShellInit ==
  /\ dev \in BOOLEAN
  /\ layout = FALSE
  /\ loads = Started(dev)
  /\ scripts = [i \in Loads |-> "none"]
  /\ shell = Pending

ShellReload ==
  /\ layout' = FALSE
  /\ loads' = Started(dev)
  /\ scripts' = [i \in Loads |-> "none"]
  /\ shell' = Pending
  /\ UNCHANGED dev

-----------------------------------------------------------------------------

\* MUTANT: a cancelled run sets the state.
SetAlways(i, s) == shell' = s

\* A run that was not cancelled sets the state.
SetState(i, s) == shell' = IF Cancelled(i) THEN shell ELSE s

Loaded == [state |-> "loaded", module |-> "remote", error |-> FALSE]
Fallback(error) == [state |-> "fallback", module |-> "local", error |-> error]
Failed == [state |-> "error", module |-> None, error |-> TRUE]

Resolve(i) ==
  /\ loads' = [loads EXCEPT ![i] = "over"]
  /\ SetState(i, Loaded)

Reject(i) ==
  /\ loads' = [loads EXCEPT ![i] = IF Cancelled(i) THEN "over" ELSE "lastResort"]
  /\ UNCHANGED shell

\* A development build imports its own components, or turns to the CDN.
ImportLocal(i) ==
  /\ loads[i] = "local"
  /\ \/ loads' = [loads EXCEPT ![i] = "over"] /\ SetState(i, Fallback(FALSE))
     \/ loads' = [loads EXCEPT ![i] = "begin"] /\ UNCHANGED shell
  /\ UNCHANGED <<dev, layout, scripts>>

\* loadShellViaScript: at once if there is a shell already.
LoadShellViaScript(i) ==
  /\ loads[i] = "begin"
  /\ \/ layout /\ Resolve(i) /\ UNCHANGED scripts
     \/ /\ ~layout
        /\ loads' = [loads EXCEPT ![i] = "script"]
        /\ scripts' = [scripts EXCEPT ![i] = "loading"]
        /\ UNCHANGED shell
  /\ UNCHANGED <<dev, layout>>

\* The script has run, after the timeout perhaps. A script that is not the
\* shell leaves window.DSLayout alone.
ScriptLoads(i) ==
  /\ scripts[i] = "loading"
  /\ scripts' = [scripts EXCEPT ![i] = "done"]
  /\ layout' \in {layout, TRUE}
  /\ \/ loads[i] = "script" /\ layout' /\ Resolve(i)
     \/ loads[i] = "script" /\ ~layout' /\ Reject(i)
     \/ loads[i] # "script" /\ UNCHANGED <<loads, shell>>
  /\ UNCHANGED dev

ScriptFails(i) ==
  /\ scripts[i] = "loading"
  /\ scripts' = [scripts EXCEPT ![i] = "done"]
  /\ \/ loads[i] = "script" /\ Reject(i)
     \/ loads[i] # "script" /\ UNCHANGED <<loads, shell>>
  /\ UNCHANGED <<dev, layout>>

Timeout(i) ==
  /\ loads[i] = "script"
  /\ Reject(i)
  /\ UNCHANGED <<dev, layout, scripts>>

\* The local components after a failure; cancelled is not looked at again.
LastResort(i) ==
  /\ loads[i] = "lastResort"
  /\ loads' = [loads EXCEPT ![i] = "over"]
  /\ shell' \in {Fallback(TRUE), Failed}
  /\ UNCHANGED <<dev, layout, scripts>>

\* A timer or a local import ends every wait.
ShellStep(i) ==
  \/ ImportLocal(i) \/ LoadShellViaScript(i) \/ ScriptLoads(i)
  \/ ScriptFails(i) \/ Timeout(i) \/ LastResort(i)

-----------------------------------------------------------------------------
(* RemoteShellWrapper: what it shows, and the layout it provides.          *)

ShellShows(state) ==
  IF state = "pending" THEN "shell loading"
  ELSE IF state = "error" THEN "shell error" ELSE "children"

\* The remote module has no Layout of its own: DSAppShell takes its place.
\* Only the local Layout gets the user from useAuth; DSAppShell needs to be
\* given it.
LayoutOf(module) == IF module = "local" THEN "Layout" ELSE "DSAppShell"

ShellTypeOK ==
  /\ dev \in BOOLEAN /\ layout \in BOOLEAN
  /\ loads \in [Loads -> {"local", "begin", "script", "lastResort", "over"}]
  /\ scripts \in [Loads -> {"none", "loading", "done"}]
  /\ shell \in ShellState
=============================================================================
