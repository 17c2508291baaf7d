---------------------------- MODULE SessionData ----------------------------
(***************************************************************************)
(* The data kept in the user's session, as components see them: the hook   *)
(* useSessionData of ds-core (hooks/useSessionData.ts), several components *)
(* with a copy of the data each, in one page or in several tabs, and the   *)
(* server with the data themselves.                                        *)
(*                                                                         *)
(* Every write changes the copy first and is sent then; any answer brings  *)
(* all data and replaces the copy; answers arrive in any order, or never.  *)
(***************************************************************************)
EXTENDS Integers

CONSTANTS
  Hooks,      \* components that use the hook
  Immediate,  \* those that fetch when they are mounted (option immediate)
  Keys, Values,
  Absent, Kept,
  MaxInFlight \* bound of the model: requests under way at a time

Slots == 1..MaxInFlight

ConstantsAssumption ==
  /\ Immediate \subseteq Hooks /\ Absent \notin Hooks
  /\ MaxInFlight \in Nat
  /\ Absent \notin Values /\ Kept \notin Values /\ Absent # Kept

VARIABLES
  server,    \* the session's data
  history,   \* all that the data have been so far, for the properties
  hooks,
  requests   \* a request, or NoRequest, in each slot

vars == <<server, history, hooks, requests>>

Data == [Keys -> Values \cup {Absent}]
NoData == [k \in Keys |-> Absent]

\* What a request asks the server to change; a GET keeps everything.
Change == [Keys -> Values \cup {Absent, Kept}]
Nothing == [k \in Keys |-> Kept]

Changed(data, c) == [k \in Keys |-> IF c[k] = Kept THEN data[k] ELSE c[k]]

\* hook: Absent if the component is gone that sent it.
Request == [hook : Hooks \cup {Absent}, get : BOOLEAN, change : Change,
            answered : BOOLEAN, answer : Data]
NoRequest == [hook |-> Absent]

\* alone: no write overlapped with, or came after, the last request of this
\* component. It is for the properties.
Hook == [mounted : BOOLEAN, data : Data, session : BOOLEAN,
         isLoading : BOOLEAN, error : BOOLEAN, alone : BOOLEAN]
Unmounted == [mounted |-> FALSE, data |-> NoData, session |-> FALSE,
              isLoading |-> TRUE, error |-> FALSE, alone |-> FALSE]

Init ==
  /\ server = NoData
  /\ history = {server}
  /\ hooks = [h \in Hooks |-> Unmounted]
  /\ requests = [s \in Slots |-> NoRequest]

Busy == {s \in Slots : requests[s] # NoRequest}
Of(h) == {s \in Busy : requests[s].hook = h}
Writes == {s \in Busy : ~requests[s].get}
Free(s) == s \notin Busy /\ \A x \in 1..(s - 1) : x \in Busy
AtRest(h) == hooks[h].mounted /\ Of(h) = {}

-----------------------------------------------------------------------------

Sent(h, get, c) == [hook |-> h, get |-> get, change |-> c,
                    answered |-> FALSE, answer |-> NoData]

\* fetchSessionData puts the component into this state.
Fetching(hook) == [hook EXCEPT !.isLoading = TRUE, !.error = FALSE]

\* Component h sends c in slot s, which others have not overlapped with if
\* no write and no other request of h is under way.
Send(h, s, get, c, hook) ==
  /\ requests' = [requests EXCEPT ![s] = Sent(h, get, c)]
  /\ hooks' = [x \in Hooks |->
       IF x = h THEN [hook EXCEPT !.alone = (Writes \cup Of(h)) \ {s} = {}]
       ELSE [hooks[x] EXCEPT !.alone = @ /\ get]]

\* The initial fetch, also refresh.
FetchSessionData(h) ==
  /\ hooks[h].mounted
  /\ \E s \in Slots : Free(s) /\ Send(h, s, TRUE, Nothing, Fetching(hooks[h]))
  /\ UNCHANGED <<server, history>>

\* The component appears, and fetches if that is what it was asked to.
Mount(h) ==
  /\ ~hooks[h].mounted
  /\ IF h \in Immediate
       THEN \E s \in Slots : Free(s) /\
              Send(h, s, TRUE, Nothing, [Unmounted EXCEPT !.mounted = TRUE])
       ELSE /\ hooks' = [hooks EXCEPT ![h] = [Unmounted EXCEPT !.mounted = TRUE]]
            /\ UNCHANGED requests
  /\ UNCHANGED <<server, history>>

\* An optimistic update, and its request.
Write(h, c) ==
  /\ hooks[h].mounted
  /\ \E s \in Slots : Free(s) /\
       Send(h, s, FALSE, c,
            [hooks[h] EXCEPT !.data = Changed(@, c), !.error = FALSE])
  /\ UNCHANGED <<server, history>>

Set(h, k, v) == Write(h, [Nothing EXCEPT ![k] = v])

Merge(h, partial) ==
  Write(h, [k \in Keys |-> IF partial[k] = Absent THEN Kept ELSE partial[k]])

Remove(h, k) == Write(h, [Nothing EXCEPT ![k] = Absent])

Clear(h) == Write(h, NoData)

-----------------------------------------------------------------------------

\* The server changes the data and answers with all of them.
Serve(s) ==
  /\ s \in Busy /\ ~requests[s].answered
  /\ server' = Changed(server, requests[s].change)
  /\ history' = history \cup {server'}
  /\ requests' = [requests EXCEPT ![s].answered = TRUE, ![s].answer = server']
  /\ UNCHANGED hooks

\* Only a component that is still there takes notice.
Update(h, hook) == hooks' = [x \in Hooks |-> IF x = h THEN hook ELSE hooks[x]]

End(s) == requests' = [requests EXCEPT ![s] = NoRequest]

\* MUTANT: what was changed locally is kept over the answer.
MergeAnswer(hook, r) ==
  [hook EXCEPT !.data = [k \in Keys |->
                 IF @[k] = Absent THEN r.answer[k] ELSE @[k]],
               !.session = TRUE,
               !.isLoading = @ /\ ~r.get]

\* The answer replaces the copy; only a fetch ends the loading.
Answered(hook, r) ==
  [hook EXCEPT !.data = r.answer, !.session = TRUE,
               !.isLoading = @ /\ ~r.get]

Receive(s) ==
  /\ s \in Busy /\ requests[s].answered
  /\ LET h == requests[s].hook IN Update(h, Answered(hooks[h], requests[s]))
  /\ End(s)
  /\ UNCHANGED <<server, history>>

\* MUTANT: a fetch that failed goes on to show that it is loading.
KeepLoading(hook) ==
  [hook EXCEPT !.data = NoData, !.session = FALSE, !.error = TRUE]

FetchFailed(hook) ==
  [hook EXCEPT !.data = NoData, !.session = FALSE, !.error = TRUE,
               !.isLoading = FALSE]

\* The request or its answer is lost, or the server refuses. A fetch leaves
\* the component without data.
LoseGet(s) ==
  /\ s \in Busy /\ requests[s].get
  /\ LET h == requests[s].hook IN Update(h, FetchFailed(hooks[h]))
  /\ End(s)
  /\ UNCHANGED <<server, history>>

\* MUTANT: a write that failed is not followed by a fetch.
ReportFailure(h, s) ==
  /\ hooks' = [hooks EXCEPT ![h].error = TRUE]
  /\ requests' = [requests EXCEPT ![s] = NoRequest]

\* The error is set, and cleared by the fetch that restores the data.
Restore(h, s) == Send(h, s, TRUE, Nothing, Fetching(hooks[h]))

LoseWrite(s) ==
  /\ s \in Writes
  /\ IF requests[s].hook \in Hooks
       THEN Restore(requests[s].hook, s)
       ELSE End(s) /\ UNCHANGED hooks
  /\ UNCHANGED <<server, history>>

\* The component disappears; nothing is cancelled.
Unmount(h) ==
  /\ hooks[h].mounted
  /\ hooks' = [hooks EXCEPT ![h] = Unmounted]
  /\ requests' = [s \in Slots |->
       IF s \in Of(h) THEN [requests[s] EXCEPT !.hook = Absent] ELSE requests[s]]
  /\ UNCHANGED <<server, history>>

Operate(h) ==
  \/ Mount(h) \/ FetchSessionData(h) \/ Clear(h) \/ Unmount(h)
  \/ \E k \in Keys : Remove(h, k) \/ \E v \in Values : Set(h, k, v)
  \/ \E partial \in Data : Merge(h, partial)

Transfer(s) == Serve(s) \/ Receive(s) \/ LoseGet(s) \/ LoseWrite(s)

Next == (\E h \in Hooks : Operate(h)) \/ (\E s \in Slots : Transfer(s))

Spec == Init /\ [][Next]_vars

\* A browser lets no request hang for ever: it is answered or it fails.
FairSpec == Spec /\ \A s \in Slots : WF_vars(Transfer(s))

-----------------------------------------------------------------------------
(* Properties.                                                             *)

(* The session, its copies and the requests have their types.              *)
TypeOK ==
  /\ server \in Data /\ history \subseteq Data
  /\ hooks \in [Hooks -> Hook]
  /\ requests \in [Slots -> Request \cup {NoRequest}]

(* "Refetch to restore correct state": when everything has settled and no  *)
(* error is shown, a component whose last request was not overlapped by a  *)
(* write has exactly the session's data, whatever failed and whatever was  *)
(* applied although the answer got lost.                                   *)
AloneIsInSync ==
  \A h \in Hooks :
    AtRest(h) /\ hooks[h].alone /\ ~hooks[h].error
      => hooks[h].data = server /\ hooks[h].session

(* However the requests overlap, a component that has settled without an   *)
(* error shows data that the session really had at some moment: nothing of *)
(* an optimistic update survives that the server did not confirm.          *)
SettledIsConfirmed ==
  \A h \in Hooks :
    AtRest(h) /\ hooks[h].session => hooks[h].data \in history

(* No component shows that it is loading for ever.                         *)
LoadingEnds ==
  \A h \in Immediate :
    hooks[h].mounted /\ hooks[h].isLoading
      ~> ~(hooks[h].mounted /\ hooks[h].isLoading)
=============================================================================
