------------------------------ MODULE TabHost ------------------------------
(***************************************************************************)
(* The tabs of the detached RPC supervisor: what happens to the requests   *)
(* of its controller (pi-package-webui/bin/pi-webui-rpc-supervisor.mjs).   *)
(*                                                                         *)
(* A request is performed in steps, one per await.  Mutations of a tab     *)
(* wait for each other in the tab's queue; a command only takes its place  *)
(* there and then waits for Pi's answer outside of it; create is not       *)
(* queued.  Meanwhile children exit, an update of the installation fences  *)
(* the host and waits until it acknowledges that it is idle, and the host  *)
(* may be told to shut down.                                               *)
(*                                                                         *)
(* A tab object and a child process are each named by the request that     *)
(* made them.                                                              *)
(***************************************************************************)
EXTENDS Integers, Sequences, FiniteSets

CONSTANTS
  Requests,      \* request ids; each is sent once
  Tabs,          \* tab ids
  Kind,          \* what a request asks for
  TabOf,         \* the tab it names
  TabLimit,      \* RPC_SUPERVISOR_TAB_LIMIT
  DedupeLimit,   \* RPC_SUPERVISOR_REQUEST_DEDUPE_LIMIT
  MaxFences,     \* bound: updates that fence the host
  None           \* no tab, no child

Kinds == {"create", "update", "replace", "replace_update", "close", "command", "read", "write"}

ASSUME RequestAssumption ==
  /\ Kind \in [Requests -> Kinds] /\ TabOf \in [Requests -> Tabs]
  /\ None \notin Requests /\ IsFiniteSet(Requests)
  /\ TabLimit \in Nat /\ DedupeLimit \in Nat /\ MaxFences \in Nat

VARIABLES
  stage,      \* how far each request has come
  place,      \* the tab object in whose queue it stands
  target,     \* the tab object it works on
  at,         \* history: its place in the order of arrival
  tabs,       \* the tab object of each tab id
  queue,      \* the requests in the queue of each tab object
  child,      \* the child of each tab object
  working,    \* whether a tab object believes Pi is working
  proc,       \* the child processes
  written,    \* what has been written to the stdin of each
  overtaken,  \* history: tab objects changed by a request that had not waited its turn
  closing,    \* the host's shutdown
  stops,      \* the tab objects it still waits for
  update,     \* the update that fences the host, and the number of its fence
  fence,
  sawFence,   \* the fence the acknowledgement loop is about to answer
  acked       \* the last fence it answered with idle

reqVars    == <<stage, place, target, at>>
tabVars    == <<tabs, queue, child, working>>
procVars   == <<proc, written>>
updateVars == <<update, fence, sawFence, acked>>
hostVars   == <<overtaken, closing, stops>>
vars == <<reqVars, tabVars, procVars, hostVars, updateVars>>

Creating == {"checking", "spawning", "spawned"}
Settled  == {"done", "failed"}
Stages   == {"new", "queued", "admitted", "stopping", "awaiting", "flushing", "persisting"}
            \cup Creating \cup Settled

\* Requests a fence does not concern, and those that hold the queue until they end.
ReadOnly(r) == Kind[r] = "read"
Exempt(r)   == Kind[r] \in {"read", "replace_update"}

Unsettled == {r \in Requests : stage[r] \notin Settled \cup {"new"}}
Running(o) == child[o] # None /\ proc[child[o]] = "running"      \* tabRunning
Pending(o) == {r \in Requests : stage[r] = "awaiting" /\ target[r] = o}

\* The host's event loop runs until its process exits. A shutdown waits for its stops
\* even when one of them has failed.
Up       == closing # "exited"
Stopping == {"stopping", "failing"}

-----------------------------------------------------------------------------
KeepsPlace(r, st) ==                          \* mutant of Leave: the tail is not released
  stage' = [stage EXCEPT ![r] = st] /\ UNCHANGED queue

\* Leave the tab's queue and move on to stage st.
Leave(r, st) ==
  /\ stage' = [stage EXCEPT ![r] = st]
  /\ queue' = [queue EXCEPT ![place[r]] = IF Kind[r] = "create" THEN @ ELSE Tail(@)]

KeepsPending(o, r, st) ==                     \* mutant of RejectPending
  [q \in Requests |-> IF q = r THEN st ELSE stage[q]]

\* The promises of the pending commands of tab object o are rejected, and r moves on.
RejectPending(o, r, st) ==
  [q \in Requests |-> IF q = r THEN st ELSE IF q \in Pending(o) THEN "failed" ELSE stage[q]]

Fail(r) == stage' = [stage EXCEPT ![r] = "failed"]

\* A frame of the controller: a request whose tab is unknown, one too many, or a
\* create of what exists fails at once, create inserts the tab and goes on, and
\* everything else enters the queue of its tab before any await.
Refused(r) ==
  \/ Cardinality(Unsettled) >= DedupeLimit
  \/ IF Kind[r] = "create"
     THEN tabs[TabOf[r]] # None \/ Cardinality({t \in Tabs : tabs[t] # None}) >= TabLimit
     ELSE tabs[TabOf[r]] = None

Submit(r) ==
  /\ closing \in {"no"} \cup Stopping /\ stage[r] = "new"
  /\ at' = [at EXCEPT ![r] = Cardinality({q \in Requests : stage[q] # "new"}) + 1]
  /\ \/ /\ Refused(r)
        /\ Fail(r)
        /\ UNCHANGED <<place, target, tabVars>>
     \/ /\ ~Refused(r) /\ Kind[r] = "create"
        /\ stage' = [stage EXCEPT ![r] = "checking"]
        /\ place' = [place EXCEPT ![r] = r]
        /\ target' = [target EXCEPT ![r] = r]
        /\ tabs' = [tabs EXCEPT ![TabOf[r]] = r]
        /\ working' = [working EXCEPT ![r] = TRUE]
        /\ UNCHANGED <<queue, child>>
     \/ /\ ~Refused(r) /\ Kind[r] # "create"
        /\ stage' = [stage EXCEPT ![r] = "queued"]
        /\ place' = [place EXCEPT ![r] = tabs[TabOf[r]]]
        /\ target' = [target EXCEPT ![r] = tabs[TabOf[r]]]
        /\ queue' = [queue EXCEPT ![tabs[TabOf[r]]] = Append(@, r)]
        /\ UNCHANGED <<tabs, child, working>>
  /\ UNCHANGED <<procVars, hostVars, updateVars>>

\* assertEffectAdmission reads the lock files; what it read may be stale when the
\* operation that follows begins.
Fenced == update # "none"

\* The turn of a queued request: the tab must still be the one it was queued for.
AnyPlace(r) == stage[r] = "queued"                         \* mutant of IsNext: no queue
IsNext(r) == stage[r] = "queued" /\ Head(queue[place[r]]) = r

Admit(r) ==
  /\ Up /\ IsNext(r)
  /\ IF tabs[TabOf[r]] # place[r] \/ (Fenced /\ ~Exempt(r))
     THEN Leave(r, "failed")
     ELSE stage' = [stage EXCEPT ![r] = "admitted"] /\ UNCHANGED queue
  /\ UNCHANGED <<place, target, at, tabs, child, working, procVars, hostVars, updateVars>>

AdmitCreate(r) ==
  /\ Up /\ stage[r] = "checking"
  /\ IF Fenced
     THEN Fail(r) /\ tabs' = [tabs EXCEPT ![TabOf[r]] = None]
     ELSE stage' = [stage EXCEPT ![r] = "spawning"] /\ UNCHANGED tabs
  /\ UNCHANGED <<place, target, at, queue, child, working, procVars, hostVars, updateVars>>

-----------------------------------------------------------------------------
(* The operations, from their turn on. Each looks its tab up again. *)

NoTab(r) == stage[r] = "admitted" /\ tabs[TabOf[r]] = None
Turn(r, o, kinds) ==
  /\ Up /\ stage[r] = "admitted" /\ Kind[r] \in kinds
  /\ o = tabs[TabOf[r]] /\ o # None
  /\ target' = [target EXCEPT ![r] = o]

Found(r) == {o \in Requests : o = tabs[TabOf[r]]}

BeginWithoutTab(r) ==
  /\ Up /\ NoTab(r)
  /\ Leave(r, "failed")
  /\ UNCHANGED <<place, target, at, tabs, child, working, procVars, hostVars, updateVars>>

\* command and write need a running child; a command is pending once it is
\* written and has then left the queue. Of a child that runs the pipe may be broken.
BeginCommand(r, o) ==
  /\ Turn(r, o, {"command", "read", "write"})
  /\ \/ /\ Running(o) /\ written' = [written EXCEPT ![child[o]] = Append(@, r)]
        /\ IF Kind[r] = "write"
           THEN stage' = [stage EXCEPT ![r] = "flushing"] /\ UNCHANGED queue
           ELSE Leave(r, "awaiting")
     \/ Leave(r, "failed") /\ UNCHANGED written
  /\ UNCHANGED <<place, at, tabs, child, working, proc, hostVars, updateVars>>

BeginUpdate(r, o) ==
  /\ Turn(r, o, {"update"})
  /\ stage' = [stage EXCEPT ![r] = "persisting"]
  /\ UNCHANGED <<place, at, tabVars, procVars, hostVars, updateVars>>

\* What replaceUnderUpdate demands: an update that is complete, and an idle tab.
MayRestart(o) ==
  /\ update = "restarting"
  /\ Running(o) /\ ~working[o] /\ Pending(o) = {}

BeginRestartRefused(r, o) ==
  /\ Turn(r, o, {"replace_update"}) /\ ~MayRestart(o)
  /\ Leave(r, "failed")
  /\ UNCHANGED <<place, at, tabs, child, working, procVars, hostVars, updateVars>>

\* Where stopChild leads: a replacement is spawned, a closed tab is deleted.
AfterStop(r)  == IF Kind[r] = "close" THEN "persisting" ELSE "spawning"
ClosedTabs(r) == IF Kind[r] = "close" THEN [tabs EXCEPT ![TabOf[r]] = None] ELSE tabs

\* Without a child there is nothing to stop.
BeginStop(r, o) ==
  /\ Turn(r, o, {"replace", "replace_update", "close"})
  /\ Kind[r] = "replace_update" => MayRestart(o)
  /\ overtaken' = IF stage[o] \in Creating \/ place[r] # o THEN overtaken \cup {o} ELSE overtaken
  /\ IF child[o] = None
     THEN stage' = [stage EXCEPT ![r] = AfterStop(r)] /\ tabs' = ClosedTabs(r)
     ELSE stage' = [stage EXCEPT ![r] = "stopping"] /\ UNCHANGED tabs
  /\ UNCHANGED <<place, at, queue, child, working, procVars, closing, stops, updateVars>>

StopGivesUp(r) ==                             \* mutant of StopDone: the timeout is taken for an exit
  /\ Up /\ stage[r] = "stopping"
  /\ stage' = RejectPending(target[r], r, AfterStop(r))
  /\ tabs' = ClosedTabs(r)
  /\ UNCHANGED <<place, target, at, queue, child, working, procVars, hostVars, updateVars>>

\* The child has exited within the two grace periods, or it still runs after them.
StopDone(r) ==
  /\ Up /\ stage[r] = "stopping"
  /\ ~Running(target[r])
  /\ stage' = RejectPending(target[r], r, AfterStop(r))
  /\ tabs' = ClosedTabs(r)
  /\ UNCHANGED <<place, target, at, queue, child, working, procVars, hostVars, updateVars>>

StopTimesOut(r) ==
  /\ Up /\ stage[r] = "stopping"
  /\ Running(target[r])
  /\ Leave(r, "failed")
  /\ UNCHANGED <<place, target, at, tabs, child, working, procVars, hostVars, updateVars>>

\* A process starts and the loop hears of it; or it cannot be started, and a
\* create takes its tab away again.
Spawn(r) ==
  /\ Up /\ stage[r] = "spawning"
  /\ stage' = [stage EXCEPT ![r] = "spawned"]
  /\ proc' = [proc EXCEPT ![r] = "running"]
  /\ UNCHANGED <<place, target, at, tabVars, written, hostVars, updateVars>>

SpawnFails(r) ==
  /\ Up /\ stage[r] = "spawning"
  /\ Leave(r, "failed")
  /\ tabs' = IF Kind[r] = "create" THEN [tabs EXCEPT ![TabOf[r]] = None] ELSE tabs
  /\ UNCHANGED <<place, target, at, child, working, procVars, hostVars, updateVars>>

Commit(r) ==
  /\ Up /\ stage[r] = "spawned"
  /\ child' = [child EXCEPT ![target[r]] = r]
  /\ stage' = [stage EXCEPT ![r] = "persisting"]
  /\ UNCHANGED <<place, target, at, tabs, queue, working, procVars, hostVars, updateVars>>

\* The state file has been written, or could not be.
Persisted(r) ==
  /\ Up /\ stage[r] = "persisting"
  /\ \E st \in Settled : Leave(r, st)
  /\ UNCHANGED <<place, target, at, tabs, child, working, procVars, hostVars, updateVars>>

\* A one-way write has been flushed, or has not been in time.
Flushed(r) ==
  /\ Up /\ stage[r] = "flushing"
  /\ \E st \in Settled : Leave(r, st)
  /\ UNCHANGED <<place, target, at, tabs, child, working, procVars, hostVars, updateVars>>

CommandTimesOut(r) ==
  /\ Up /\ stage[r] = "awaiting"
  /\ Fail(r)
  /\ UNCHANGED <<place, target, at, tabVars, procVars, hostVars, updateVars>>

-----------------------------------------------------------------------------
(* The children. Only what the current child of a tab object writes is heard. *)

Answer(r) ==
  /\ Up /\ stage[r] = "awaiting"
  /\ Running(target[r])
  /\ \E i \in DOMAIN written[child[target[r]]] : written[child[target[r]]][i] = r
  /\ stage' = [stage EXCEPT ![r] = "done"]
  /\ UNCHANGED <<place, target, at, tabVars, procVars, hostVars, updateVars>>

\* agent_start, agent_settled, compaction events and the answer to get_state.
HearWorking(o, b) ==
  /\ Up /\ Running(o)
  /\ working[o] # b
  /\ working' = [working EXCEPT ![o] = b]
  /\ UNCHANGED <<reqVars, tabs, queue, child, procVars, hostVars, updateVars>>

\* A child exits, by itself or because it was told to. The loop hears of the
\* exit of a child it has committed to.
ChildExit(p) ==
  /\ proc[p] = "running" /\ stage[p] # "spawned"
  /\ proc' = [proc EXCEPT ![p] = "exited"]
  /\ stage' = IF Up /\ child[target[p]] = p THEN RejectPending(target[p], None, "failed") ELSE stage
  /\ UNCHANGED <<place, target, at, tabVars, written, hostVars, updateVars>>

\* The pipe to a child breaks.
StdinError(o) ==
  /\ Up /\ Running(o) /\ Pending(o) # {}
  /\ stage' = RejectPending(o, None, "failed")
  /\ UNCHANGED <<place, target, at, tabVars, procVars, hostVars, updateVars>>

-----------------------------------------------------------------------------
(* Shutdown: all children are stopped at once, past the queues. A tab without a
   child, or one that comes later, is not waited for. *)

Managed == {o \in Requests : \E t \in Tabs : tabs[t] = o}

ShutdownStarts ==
  /\ closing = "no"
  /\ closing' = "stopping"
  /\ stops' = {o \in Managed : child[o] # None}
  /\ UNCHANGED <<reqVars, tabVars, procVars, overtaken, updateVars>>

ShutdownStops(o) ==
  /\ closing \in Stopping
  /\ o \in stops /\ ~Running(o)
  /\ stops' = stops \ {o}
  /\ stage' = RejectPending(o, None, "failed")
  /\ UNCHANGED <<place, target, at, tabVars, procVars, overtaken, closing, updateVars>>

\* The child still runs after the two grace periods; it may exit while others are awaited.
ShutdownStopFails ==
  /\ closing \in Stopping /\ closing' = "failing"
  /\ \E o \in stops : Running(o) /\ stops' = stops \ {o}
  /\ UNCHANGED <<reqVars, tabVars, procVars, overtaken, updateVars>>

ShutdownBlocked ==
  /\ closing = "failing" /\ stops = {}
  /\ closing' = "no"
  /\ UNCHANGED <<reqVars, tabVars, procVars, overtaken, stops, updateVars>>

\* All children that were waited for are gone: the tabs are forgotten, the
\* sockets are closed and the process ends.
ShutdownCompletes ==
  /\ closing = "stopping" /\ stops = {}
  /\ closing' = "exiting"
  /\ tabs' = [t \in Tabs |-> None]
  /\ UNCHANGED <<reqVars, queue, child, working, procVars, overtaken, stops, updateVars>>

HostExits ==
  /\ closing = "exiting"
  /\ closing' = "exited"
  /\ UNCHANGED <<reqVars, tabVars, procVars, overtaken, stops, updateVars>>

-----------------------------------------------------------------------------
(* The update that fences the host. Its own steps are another process's. *)

FenceTaken ==
  /\ update = "none" /\ fence < MaxFences
  /\ update' = "fenced" /\ fence' = fence + 1
  /\ UNCHANGED <<reqVars, tabVars, procVars, hostVars, sawFence, acked>>

\* The fence is given up without an install; or the install begins once the
\* acknowledgement for this fence says idle, ends, and lets tabs be restarted.
UpdateGoesOn ==
  /\ \/ update = "fenced" /\ update' = "none"
     \/ update = "fenced" /\ acked = fence /\ update' = "installing"
     \/ update = "installing" /\ update' = "restarting"
     \/ update = "restarting" /\ update' = "none"
  /\ UNCHANGED <<reqVars, tabVars, procVars, hostVars, fence, sawFence, acked>>

AckReadsFence ==
  /\ Up /\ Fenced /\ sawFence = 0
  /\ sawFence' = fence
  /\ UNCHANGED <<reqVars, tabVars, procVars, hostVars, update, fence, acked>>

QuietTabs ==                                  \* mutant of Idle: only the tabs are asked
  \A o \in Managed : Running(o) /\ ~working[o] /\ Pending(o) = {}

\* No mutating request is under way and every tab is idle with a running child.
Idle ==
  /\ \A r \in Unsettled : ReadOnly(r)
  /\ \A o \in Managed : Running(o) /\ ~working[o] /\ Pending(o) = {}

AckAnswers ==
  /\ Up /\ sawFence # 0
  /\ acked' = IF Idle THEN sawFence ELSE 0
  /\ sawFence' = 0
  /\ UNCHANGED <<reqVars, tabVars, procVars, hostVars, update, fence>>

-----------------------------------------------------------------------------
Idling ==
  /\ place = [r \in Requests |-> None] /\ target = [r \in Requests |-> None]
  /\ at = [r \in Requests |-> 0]
  /\ tabs = [t \in Tabs |-> None]
  /\ queue = [o \in Requests |-> <<>>]
  /\ child = [o \in Requests |-> None]
  /\ working = [o \in Requests |-> FALSE]
  /\ proc = [p \in Requests |-> "none"]
  /\ written = [p \in Requests |-> <<>>]
  /\ overtaken = {} /\ closing = "no" /\ stops = {}
  /\ update = "none" /\ sawFence = 0 /\ acked = 0

Init == stage = [r \in Requests |-> "new"] /\ fence = 0 /\ Idling

\* The steps of a request that an await leads to: each ends by itself or by a timer.
Perform(r) ==
  \/ Admit(r) \/ AdmitCreate(r)
  \/ BeginWithoutTab(r)
  \/ \E o \in Found(r) : \/ BeginCommand(r, o) \/ BeginUpdate(r, o)
                         \/ BeginRestartRefused(r, o) \/ BeginStop(r, o)
  \/ StopDone(r) \/ StopTimesOut(r)
  \/ Spawn(r) \/ SpawnFails(r) \/ Commit(r) \/ Persisted(r)
  \/ Flushed(r) \/ CommandTimesOut(r) \/ Answer(r)

Shutdown ==
  \/ ShutdownStarts \/ ShutdownStopFails \/ ShutdownBlocked \/ ShutdownCompletes \/ HostExits
  \/ \E o \in Requests : ShutdownStops(o)

Next ==
  \/ \E r \in Requests : Submit(r) \/ Perform(r) \/ ChildExit(r) \/ StdinError(r)
  \/ \E o \in Requests, b \in BOOLEAN : HearWorking(o, b)
  \/ Shutdown
  \/ FenceTaken \/ UpdateGoesOn \/ AckReadsFence \/ AckAnswers

Spec == Init /\ [][Next]_vars

\* Every await of a request resolves: spawn, exit, flush and answer are events
\* with timers behind them, file operations end. Nothing else need happen.
Fairness == WF_vars(\E r \in Unsettled : Perform(r))
FairSpec == Spec /\ Fairness
-----------------------------------------------------------------------------
(* Properties *)

TypeOK ==
  /\ stage \in [Requests -> Stages]
  /\ place \in [Requests -> Requests \cup {None}]
  /\ target \in [Requests -> Requests \cup {None}]
  /\ at \in [Requests -> Nat]
  /\ tabs \in [Tabs -> Requests \cup {None}]
  /\ queue \in [Requests -> Seq(Requests)]
  /\ child \in [Requests -> Requests \cup {None}]
  /\ working \in [Requests -> BOOLEAN]
  /\ proc \in [Requests -> {"none", "running", "exited"}]
  /\ written \in [Requests -> Seq(Requests)]
  /\ overtaken \subseteq Requests /\ stops \subseteq Requests
  /\ closing \in {"no", "exiting", "exited"} \cup Stopping
  /\ update \in {"none", "fenced", "installing", "restarting"}
  /\ fence \in 0..MaxFences /\ sawFence \in 0..MaxFences /\ acked \in 0..MaxFences

\* A tab id for which a close or replace did not wait: for the tab's create, or
\* in the queue of the tab it found.
Spoiled(t) == \E o \in overtaken : TabOf[o] = t

\* A running child is the child of a tab the host still has. The two ways out
\* are a create that a close or replace overtook and a shutdown that completed
\* while a child was being started (create, queueTabMutation, shutdown).
NoOtherStrayChild ==
  \A p \in Requests :
    proc[p] = "running" /\ stage[p] # "spawned" =>
      \/ child[target[p]] = p /\ tabs[TabOf[p]] = target[p]
      \/ Spoiled(TabOf[p])
      \/ closing \in {"exiting", "exited"}

\* The operations of a queue take turns: one of them is under way, and a request
\* that is under way is at the head (queueTabMutation).
HoldStages == {"admitted", "stopping", "spawning", "spawned", "flushing", "persisting"}
Holds(r)   == Kind[r] # "create" /\ stage[r] \in HoldStages
TurnsAreTaken ==
  \A r, q \in {x \in Requests : Holds(x)} : place[r] = place[q] => r = q

\* What waited in one queue arrives at a child in the order in which the host was
\* asked, and what was asked for after a replacement of its tab that succeeded is
\* not written to a child from before it. Only a request that was admitted to a tab
\* whose id has been given to a new one since then finds that one out of its turn
\* (queueTabMutation, queueTabCommand, requireTab).
WritesInOrder ==
  \A p \in Requests : \A i \in 1..Len(written[p]) :
    LET r == written[p][i]
    IN  /\ \A j \in 1..(i - 1) :
             place[written[p][j]] = place[r] => at[written[p][j]] < at[r]
        /\ \A q \in Requests :
             /\ target[q] = target[r] /\ place[r] = target[r] /\ at[q] < at[r]
             /\ Kind[q] \in {"replace", "replace_update"} /\ proc[q] # "none"
             /\ ~Spoiled(TabOf[r])
             => at[p] >= at[q]

\* A pending command can still be answered or rejected: its tab's child is the
\* one it was written to, and it runs (commitChild, rejectPending).
PendingIsAnswerable ==
  \A r \in Requests :
    Up /\ stage[r] = "awaiting" /\ ~Spoiled(TabOf[r]) =>
      /\ Running(target[r])
      /\ \E i \in DOMAIN written[child[target[r]]] : written[child[target[r]]][i] = r

\* While an update installs, nothing but reads is under way in the host: what
\* was admitted before the fence is over, and nothing is admitted after it
\* (assertEffectAdmission, the acknowledgement loop).
Quiet ==
  \A r \in Requests :
    \/ ReadOnly(r)
    \/ stage[r] \in {"new", "queued", "checking"} \cup Settled
    \/ Kind[r] = "replace_update" /\ stage[r] = "admitted"
QuietWhileInstalling == update = "installing" => Quiet

\* Closing a tab terminates its child (SPEC.md, durable supervisor continuity).
ClosedTabHasNoChild ==
  \A r \in Requests :
    Kind[r] = "close" /\ stage[r] = "done" =>
      \A p \in Requests : target[p] = target[r] /\ Up => proc[p] # "running"

\* In the end every request that was sent is answered, unless the host exits: none
\* keeps the queue of its tab to itself (queueTabMutation, perform).
RequestsSettle == <>[](Unsettled = {} \/ ~Up)
=============================================================================
