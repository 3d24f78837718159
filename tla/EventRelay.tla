----------------------------- MODULE EventRelay -----------------------------
(***************************************************************************)
(* The event path between the detached RPC supervisor, which owns the Pi   *)
(* children and numbers what they print, and the HTTP servers that come    *)
(* and go in front of it (pi-package-webui/bin/pi-webui-rpc-supervisor.mjs,*)
(* lib/rpc-supervisor-client.mjs, the supervisor section of                *)
(* bin/pi-webui.mjs).                                                      *)
(*                                                                         *)
(* The supervisor keeps the newest events in a bounded ring and sends each *)
(* new one to the one server that is its controller.  A server that        *)
(* restarts may hand its successor a cursor; the successor is sent what    *)
(* the ring still holds after it and is told whether something is missing. *)
(* Every server validates the numbers again on its own side.               *)
(***************************************************************************)
EXTENDS Integers, Sequences, FiniteSets, SequencesExt

CONSTANTS
  Servers,        \* HTTP server processes; each starts at most once
  Tabs,           \* tab identities; each is used for at most one child
  Sizes,          \* encoded sizes an event may have
  RingLimit,      \* RPC_SUPERVISOR_EVENT_RING_LIMIT
  RingMaxBytes,   \* RPC_SUPERVISOR_EVENT_RING_MAX_BYTES
  MaxSequence,    \* bound: events one supervisor process emits
  MaxEpoch,       \* bound: supervisor processes
  MaxInFlight,    \* bound: requests and frames on a socket when a request is added
  MaxHandoffs,    \* bound: cursors handed out
  Nobody          \* the controller when there is none

ASSUME LimitsAssumption ==
  /\ RingLimit \in Nat \ {0}
  /\ RingMaxBytes \in Nat
  /\ Sizes \subseteq Nat
  /\ MaxSequence \in Nat /\ MaxEpoch \in Nat /\ MaxInFlight \in Nat /\ MaxHandoffs \in Nat

ASSUME NobodyAssumption == Nobody \notin Servers

VARIABLES
  \* the supervisor process
  epoch, sequence, events, retainedEventBytes, child, clients, controller,
  \* the two directions of each server's socket
  requests, frames,
  \* the HTTP servers
  phase, connected, cursor, snapshot, pendingReplay, startupEvents, tabs,
  lastSequence, discontinuities,
  \* history: what each server dispatched, and the cursors handed out
  dispatched, handoffs

ringVars   == <<sequence, events, retainedEventBytes>>
hostVars   == <<epoch, sequence, events, retainedEventBytes, child, clients, controller>>
socketVars == <<requests, frames>>
startVars  == <<snapshot, pendingReplay, startupEvents>>
readVars   == <<lastSequence, discontinuities, dispatched>>
serverVars == <<phase, connected, cursor, snapshot, pendingReplay, startupEvents,
                tabs, lastSequence, discontinuities, dispatched, handoffs>>
vars == <<hostVars, socketVars, serverVars>>

NoSeq    == -1                              \* rpcSupervisorSequenceState.lastSequence === null
NoCursor == [epoch |-> 0, seq |-> 0]        \* no inherited cursor; epochs start at 1

NoSnapshot == [epoch |-> 0, latest |-> 0]

Event == [epoch : Nat, seq : Nat, tab : Tabs, bytes : Nat]

\* What a server writes to the supervisor, and what it reads. A frame's upto is
\* the supervisor's sequence when it was written.
ClientFrame ==
  [type : {"attach"}, cursor : [epoch : Nat, seq : Nat]] \cup
  [type : {"create", "close"}, tab : Tabs] \cup
  [type : {"prepare_handoff"}]

HostFrame ==
  [type : {"attached"}, upto : Nat, epoch : Nat, tabs : SUBSET Tabs, gap : BOOLEAN,
   replay : Seq(Event)] \cup
  [type : {"event"}, upto : Nat, event : Event] \cup
  [type : {"fenced"}, upto : Nat] \cup
  [type : {"handoff"}, upto : Nat, epoch : Nat] \cup
  [type : {"removed"}, upto : Nat, tab : Tabs]

managed == {t \in Tabs : child[t] = "managed"}

-----------------------------------------------------------------------------
(* The supervisor *)

BytesOf(es) == FoldSeq(LAMBDA e, total : e.bytes + total, 0, es)

KeepsHistory   == [ring |-> events, bytes |-> retainedEventBytes]     \* mutant of AfterOversized

\* The ring and its byte counter after an event larger than the whole ring, which
\* is sent but not kept: history ends there, so that older cursors see a gap.
AfterOversized == [ring |-> <<>>, bytes |-> 0]

\* Any other event is pushed, and the oldest events are shifted out, as few as
\* the two limits allow.
Retain(e) ==
  IF e.bytes > RingMaxBytes
  THEN events' = AfterOversized.ring /\ retainedEventBytes' = AfterOversized.bytes
  ELSE LET pushed   == Append(events, e)
           left(k)  == retainedEventBytes + e.bytes - BytesOf(SubSeq(pushed, 1, k))
           Fits(k)  == Len(pushed) - k <= RingLimit /\ left(k) <= RingMaxBytes
       IN  \E k \in 0..Len(pushed) :
             /\ Fits(k) /\ \A j \in 0..(k - 1) : ~Fits(j)
             /\ events' = SubSeq(pushed, k + 1, Len(pushed))
             /\ retainedEventBytes' = left(k)

\* Frames written to a socket whose other end is closed are lost.
Send(s, new) == [frames EXCEPT ![s] = IF connected[s] THEN @ \o new ELSE @]

\* The client an event is sent to.
Receives(s) == s = controller

\* Number an event of tab t, retain it and send it, with the frames of reply
\* behind it.
EmitThen(t, b, reply) ==
  LET e == [epoch |-> epoch, seq |-> sequence + 1, tab |-> t, bytes |-> b]
      f == [type |-> "event", upto |-> sequence + 1, event |-> e]
  IN  /\ sequence < MaxSequence
      /\ sequence' = sequence + 1
      /\ Retain(e)
      /\ frames' = [s \in Servers |->
                      IF Receives(s) /\ connected[s] THEN Append(frames[s], f) \o reply
                      ELSE frames[s]]

\* A line the child of a tab wrote. A closed tab's pipe is read to its end.
HostEmit(t, b) ==
  /\ child[t] \in {"managed", "draining"}
  /\ EmitThen(t, b, <<>>)
  /\ UNCHANGED <<epoch, child, clients, controller, requests, serverVars>>

HostOutputEnds(t) ==
  /\ child[t] = "draining"
  /\ child' = [child EXCEPT ![t] = "gone"]
  /\ UNCHANGED <<epoch, ringVars, clients, controller, socketVars, serverVars>>

FromItself(c) == SelectSeq(events, LAMBDA e : e.seq >= c.seq)         \* mutant of After

\* What a cursor c is answered with: the retained events after it, and whether
\* anything before them may have been missed. The ring is in sequence order, so
\* that the filter keeps a suffix of it.
After(c) ==
  LET k == CHOOSE k \in 0..Len(events) : \A i \in 1..Len(events) : i > k <=> events[i].seq > c.seq
  IN  SubSeq(events, k + 1, Len(events))

ReplayFor(c) ==
  LET earliest == IF events = <<>> THEN sequence + 1 ELSE events[1].seq
  IN  IF c = NoCursor
      THEN [gap |-> managed # {} \/ events # <<>>, events |-> events]
      ELSE IF c.epoch # epoch
      THEN [gap |-> TRUE, events |-> events]
      ELSE [gap |-> c.seq + 1 < earliest, events |-> After(c)]

HostHas(s, type) ==
  /\ s \in clients
  /\ requests[s] # <<>>
  /\ Head(requests[s]).type = type

Attached(c) ==
  [type |-> "attached", upto |-> sequence, epoch |-> epoch, tabs |-> managed,
   gap |-> ReplayFor(c).gap, replay |-> ReplayFor(c).events]

Fences(s) == controller \notin {Nobody, s}       \* a newer server takes over from another

\* What an attach of s with cursor c writes to server q.
OnlyFence(q, s, c) ==                            \* mutant: returns once it has fenced
  IF Fences(s) THEN IF q = controller THEN <<[type |-> "fenced", upto |-> sequence]>> ELSE <<>>
  ELSE IF q = s THEN <<Attached(c)>> ELSE <<>>

AttachFrames(q, s, c) ==
  IF q = s THEN <<Attached(c)>>
  ELSE IF Fences(s) /\ q = controller THEN <<[type |-> "fenced", upto |-> sequence]>>
  ELSE <<>>

HostAttach(s) ==
  /\ HostHas(s, "attach")
  /\ LET c == Head(requests[s]).cursor
     IN  frames' = [q \in Servers |->
                      IF connected[q] THEN frames[q] \o AttachFrames(q, s, c) ELSE frames[q]]
  /\ controller' = s
  /\ requests' = [requests EXCEPT ![s] = Tail(@)]
  /\ UNCHANGED <<epoch, ringVars, child, clients, serverVars>>

\* A connection that has not attached in time is destroyed.
HostAttachTimeout(s) ==
  /\ HostHas(s, "attach")
  /\ clients' = clients \ {s}
  /\ UNCHANGED <<epoch, ringVars, child, controller, socketVars, serverVars>>

\* Only the controller's requests are performed.
HostAccepts(s, type) ==
  /\ HostHas(s, type)
  /\ controller = s
  /\ requests' = [requests EXCEPT ![s] = Tail(@)]

HostRefuse(s) ==
  /\ s \in clients /\ requests[s] # <<>> /\ Head(requests[s]).type # "attach"
  /\ controller # s
  /\ requests' = [requests EXCEPT ![s] = Tail(@)]
  /\ UNCHANGED <<hostVars, frames, serverVars>>

HostCreate(s) ==
  /\ HostAccepts(s, "create")
  /\ LET t == Head(requests[s]).tab
     IN  /\ child' = [child EXCEPT ![t] = "managed"]
         /\ \E b \in Sizes : EmitThen(t, b, <<>>)
  /\ UNCHANGED <<epoch, clients, controller, serverVars>>

Removed(t) == [type |-> "removed", upto |-> sequence, tab |-> t]

HostCreateFails(s) ==
  /\ HostAccepts(s, "create")
  /\ LET t == Head(requests[s]).tab
     IN  /\ child' = [child EXCEPT ![t] = "gone"]
         /\ frames' = Send(s, <<Removed(t)>>)
  /\ UNCHANGED <<epoch, ringVars, clients, controller, serverVars>>

\* Closing a tab reports the child's exit and then answers the request; output
\* of the child that is still in its pipe comes after that.
HostClose(s) ==
  /\ HostAccepts(s, "close")
  /\ LET t == Head(requests[s]).tab
     IN  IF child[t] = "managed"
         THEN /\ child' = [child EXCEPT ![t] = "draining"]
              /\ \E b \in Sizes :
                   EmitThen(t, b, <<[Removed(t) EXCEPT !.upto = sequence + 1]>>)
         ELSE UNCHANGED <<child, ringVars, frames>>
  /\ UNCHANGED <<epoch, clients, controller, serverVars>>

HostPrepareHandoff(s) ==
  /\ HostAccepts(s, "prepare_handoff")
  /\ frames' = Send(s, <<[type |-> "handoff", upto |-> sequence, epoch |-> epoch]>>)
  /\ UNCHANGED <<hostVars, serverVars>>

\* The controller once the socket of s is closed.
AnyCloseClears(s) == Nobody                      \* mutant: whoever closes
AfterClose(s) == IF controller = s THEN Nobody ELSE controller

\* The supervisor notices that a server's end of the socket is closed.
HostSocketClose(s) ==
  /\ s \in clients /\ ~connected[s]
  /\ clients' = clients \ {s}
  /\ controller' = AfterClose(s)
  /\ UNCHANGED <<epoch, ringVars, child, socketVars, serverVars>>

\* The supervisor process ends, by a crash or because it was idle; the next
\* attach finds a new process with a new epoch and nothing retained.
HostExit ==
  /\ epoch < MaxEpoch
  /\ epoch' = epoch + 1
  /\ sequence' = 0 /\ events' = <<>> /\ retainedEventBytes' = 0
  /\ child' = [t \in Tabs |-> IF child[t] = "none" THEN "none" ELSE "gone"]
  /\ clients' = {} /\ controller' = Nobody
  /\ requests' = [s \in Servers |-> <<>>]
  /\ UNCHANGED <<frames, serverVars>>

-----------------------------------------------------------------------------
(* The HTTP servers *)

Running(s) == phase[s] \notin {"new", "gone"}

\* The cursors a server may find in its environment (readSupervisorCursorFromEnv).
InheritedCursors ==
  {NoCursor} \cup {[epoch |-> h.epoch, seq |-> h.seq] : h \in handoffs}

\* A server starts with the cursor some predecessor handed out, or with none,
\* connects and writes its attach request.
ServerStart(s) ==
  /\ phase[s] = "new"
  /\ \E c \in InheritedCursors :
       /\ cursor' = [cursor EXCEPT ![s] = c]
       /\ requests' = [requests EXCEPT ![s] = <<[type |-> "attach", cursor |-> c]>>]
  /\ phase' = [phase EXCEPT ![s] = "attaching"]
  /\ connected' = [connected EXCEPT ![s] = TRUE]
  /\ clients' = clients \cup {s}
  /\ UNCHANGED <<epoch, ringVars, child, controller, frames, startVars, tabs,
                 readVars, handoffs>>

\* Explicit shutdown, restart, SIGTERM, a crash or an attach that timed out: the
\* process, its memory and its end of the socket are gone, and whatever was in
\* flight to it.
ServerStop(s) ==
  /\ Running(s)
  /\ phase' = [phase EXCEPT ![s] = "gone"]
  /\ connected' = [connected EXCEPT ![s] = FALSE]
  /\ frames' = [frames EXCEPT ![s] = <<>>]
  /\ snapshot' = [snapshot EXCEPT ![s] = NoSnapshot]
  /\ pendingReplay' = [pendingReplay EXCEPT ![s] = <<>>]
  /\ startupEvents' = [startupEvents EXCEPT ![s] = <<>>]
  /\ tabs' = [tabs EXCEPT ![s] = {}]
  /\ UNCHANGED <<hostVars, requests, cursor, readVars, handoffs>>

\* RpcSupervisorClient#fail. A server that has not attached gives up; one that
\* has attached lives on without a supervisor.
ClientFails(s) ==
  /\ connected' = [connected EXCEPT ![s] = FALSE]
  /\ phase' = [phase EXCEPT ![s] = IF @ = "attaching" THEN "gone" ELSE @]
  /\ frames' = [frames EXCEPT ![s] = <<>>]
  /\ UNCHANGED <<hostVars, requests, cursor, startVars, tabs, readVars, handoffs>>

ServerLosesSocket(s) ==
  /\ connected[s] /\ s \notin clients
  /\ ClientFails(s)

\* The next frame of the socket is of this type. Nothing is read while the
\* startup events are drained.
Draining(s) == phase[s] = "live" /\ startupEvents[s] # <<>>

Reads(s, type) ==
  /\ connected[s] /\ ~Draining(s)
  /\ frames[s] # <<>> /\ Head(frames[s]).type = type

Consume(s) == frames' = [frames EXCEPT ![s] = Tail(@)]

ReadFenced(s) == Reads(s, "fenced") /\ ClientFails(s)

\* The attach snapshot arrives: the dispatch state is set up from it and the
\* tabs it names are hydrated. Without a managed tab nothing is replayed.
ReadAttached(s) ==
  /\ Reads(s, "attached")
  /\ LET f == Head(frames[s])
     IN  /\ snapshot' = [snapshot EXCEPT ![s] = [epoch |-> f.epoch, latest |-> f.upto]]
         /\ lastSequence' = [lastSequence EXCEPT ![s] =
              IF cursor[s].epoch = f.epoch /\ ~f.gap THEN cursor[s].seq
              ELSE IF f.upto = 0 THEN 0 ELSE NoSeq]
         /\ discontinuities' = [discontinuities EXCEPT ![s] =
              IF f.gap THEN {"replay gap"} ELSE {}]
         /\ tabs' = [tabs EXCEPT ![s] = f.tabs]
         /\ pendingReplay' = [pendingReplay EXCEPT ![s] = IF f.tabs = {} THEN <<>> ELSE f.replay]
  /\ phase' = [phase EXCEPT ![s] = "starting"]
  /\ Consume(s)
  /\ UNCHANGED <<hostVars, requests, connected, cursor, startupEvents, dispatched, handoffs>>

\* What validateRpcSupervisorEvent and dispatchRpcSupervisorEvent find wrong
\* with event e, and whether e reaches the listener of its tab.
OutOfOrder(s, e) == lastSequence[s] # NoSeq /\ e.seq <= lastSequence[s]

Gapped(s, e)     == lastSequence[s] # NoSeq /\ e.seq # lastSequence[s] + 1
UnknownTab(s, e) == e.tab \notin tabs[s]

OnlyOrder(s, e) ==                               \* mutant: an unknown tab is ignored
  IF e.epoch # snapshot[s].epoch THEN {"envelope"}
  ELSE IF OutOfOrder(s, e) THEN {"duplicate"}
  ELSE IF Gapped(s, e) THEN {"missing"} ELSE {}

Anomalies(s, e) ==
  IF e.epoch # snapshot[s].epoch THEN {"envelope"}
  ELSE IF OutOfOrder(s, e) THEN {"duplicate"}
  ELSE (IF Gapped(s, e) THEN {"missing"} ELSE {})
       \cup (IF UnknownTab(s, e) THEN {"unknown tab"} ELSE {})

Dispatch(s, e) ==
  LET valid == e.epoch = snapshot[s].epoch /\ ~OutOfOrder(s, e)
  IN  /\ discontinuities' = [discontinuities EXCEPT ![s] = @ \cup Anomalies(s, e)]
      /\ lastSequence' = [lastSequence EXCEPT ![s] = IF valid THEN e.seq ELSE @]
      /\ dispatched' = [dispatched EXCEPT ![s] =
                          IF valid /\ e.tab \in tabs[s] THEN Append(@, e.seq) ELSE @]

ReplayNext(s) ==
  /\ phase[s] = "starting" /\ pendingReplay[s] # <<>>
  /\ Dispatch(s, Head(pendingReplay[s]))
  /\ pendingReplay' = [pendingReplay EXCEPT ![s] = Tail(@)]
  /\ UNCHANGED <<hostVars, socketVars, phase, connected, cursor, snapshot,
                 startupEvents, tabs, handoffs>>

\* finishRpcSupervisorReplay: the replay must have reached the snapshot's end,
\* from where the live events are checked; those buffered so far are dispatched
\* next, in one synchronous loop.
UnreachedOnly(s) ==                              \* mutant: a replay cut short passes
  lastSequence[s] = NoSeq /\ snapshot[s].latest > 0
ShortReplay(s) ==
  IF lastSequence[s] = NoSeq THEN snapshot[s].latest > 0
  ELSE lastSequence[s] # snapshot[s].latest

Observed(s) == lastSequence[s]                   \* mutant of ResumeAt
ResumeAt(s) == snapshot[s].latest

FinishReplay(s) ==
  /\ phase[s] = "starting" /\ pendingReplay[s] = <<>>
  /\ phase' = [phase EXCEPT ![s] = "live"]
  /\ discontinuities' = [discontinuities EXCEPT ![s] =
       IF ShortReplay(s) THEN @ \cup {"short replay"} ELSE @]
  /\ lastSequence' = [lastSequence EXCEPT ![s] = ResumeAt(s)]
  /\ UNCHANGED <<hostVars, socketVars, connected, cursor, startVars, tabs, dispatched, handoffs>>

DrainNext(s) ==
  /\ phase[s] = "live" /\ startupEvents[s] # <<>>
  /\ Dispatch(s, Head(startupEvents[s]))
  /\ startupEvents' = [startupEvents EXCEPT ![s] = Tail(@)]
  /\ UNCHANGED <<hostVars, socketVars, phase, connected, cursor, snapshot,
                 pendingReplay, tabs, handoffs>>

\* A live event is buffered until the startup is over and dispatched after it.
ReadEvent(s) ==
  /\ Reads(s, "event")
  /\ LET e == Head(frames[s]).event
     IN  \/ /\ phase[s] = "starting"
            /\ startupEvents' = [startupEvents EXCEPT ![s] = Append(@, e)]
            /\ UNCHANGED readVars
         \/ /\ phase[s] = "live"
            /\ Dispatch(s, e)
            /\ UNCHANGED startupEvents
  /\ Consume(s)
  /\ UNCHANGED <<hostVars, requests, phase, connected, cursor, snapshot, pendingReplay,
                 tabs, handoffs>>

\* The answer to prepare_handoff is the cursor the successor is spawned with.
ReadHandoff(s) ==
  /\ Reads(s, "handoff")
  /\ LET f == Head(frames[s])
     IN  handoffs' = handoffs \cup {[epoch |-> f.epoch, seq |-> f.upto, by |-> s]}
  /\ Consume(s)
  /\ UNCHANGED <<hostVars, requests, phase, connected, cursor, startVars, tabs, readVars>>

ReadRemoved(s) ==
  /\ Reads(s, "removed")
  /\ tabs' = [tabs EXCEPT ![s] = @ \ {Head(frames[s]).tab}]
  /\ Consume(s)
  /\ UNCHANGED <<hostVars, requests, phase, connected, cursor, startVars, readVars, handoffs>>

\* Requests are accepted by the HTTP server as soon as it is attached, during
\* its startup too.
Request(s, r) ==
  /\ connected[s] /\ phase[s] \in {"starting", "live"}
  /\ pendingReplay[s] = <<>> /\ ~Draining(s)
  /\ Len(requests[s]) + Len(frames[s]) < MaxInFlight
  /\ requests' = [requests EXCEPT ![s] = Append(@, r)]

\* The tab is known to the server before the supervisor is asked to create it.
ServerCreateTab(s, t) ==
  /\ child[t] = "none"
  /\ Request(s, [type |-> "create", tab |-> t])
  /\ child' = [child EXCEPT ![t] = "requested"]
  /\ tabs' = [tabs EXCEPT ![s] = @ \cup {t}]
  /\ UNCHANGED <<epoch, ringVars, clients, controller, frames, phase, connected, cursor,
                 startVars, readVars, handoffs>>

\* The server forgets the tab only when the supervisor has answered.
ServerCloseTab(s, t) ==
  /\ t \in tabs[s]
  /\ Request(s, [type |-> "close", tab |-> t])
  /\ UNCHANGED <<hostVars, frames, serverVars>>

ServerPrepareHandoff(s) ==
  /\ Cardinality(handoffs) < MaxHandoffs
  /\ Request(s, [type |-> "prepare_handoff"])
  /\ UNCHANGED <<hostVars, frames, serverVars>>

-----------------------------------------------------------------------------
Init ==
  /\ epoch = 1 /\ sequence = 0 /\ events = <<>> /\ retainedEventBytes = 0
  /\ child = [t \in Tabs |-> "none"]
  /\ clients = {} /\ controller = Nobody
  /\ requests = [s \in Servers |-> <<>>]
  /\ frames = [s \in Servers |-> <<>>]
  /\ phase = [s \in Servers |-> "new"]
  /\ connected = [s \in Servers |-> FALSE]
  /\ cursor = [s \in Servers |-> NoCursor]
  /\ snapshot = [s \in Servers |-> NoSnapshot]
  /\ pendingReplay = [s \in Servers |-> <<>>]
  /\ startupEvents = [s \in Servers |-> <<>>]
  /\ tabs = [s \in Servers |-> {}]
  /\ lastSequence = [s \in Servers |-> NoSeq]
  /\ discontinuities = [s \in Servers |-> {}]
  /\ dispatched = [s \in Servers |-> <<>>]
  /\ handoffs = {}

HostStep(s) ==
  \/ HostAttach(s) \/ HostAttachTimeout(s) \/ HostRefuse(s)
  \/ HostCreate(s) \/ HostCreateFails(s) \/ HostClose(s) \/ HostPrepareHandoff(s)
  \/ HostSocketClose(s)

ReadStep(s) ==
  \/ ReadAttached(s) \/ ReadFenced(s) \/ ReadEvent(s) \/ ReadHandoff(s) \/ ReadRemoved(s)

StartupStep(s) ==
  \/ ReplayNext(s) \/ FinishReplay(s) \/ DrainNext(s)

Next ==
  \/ HostExit
  \/ \E t \in Tabs, b \in Sizes : HostEmit(t, b)
  \/ \E t \in Tabs : HostOutputEnds(t)
  \/ \E s \in Servers :
       \/ HostStep(s) \/ ReadStep(s) \/ StartupStep(s)
       \/ ServerStart(s) \/ ServerStop(s) \/ ServerLosesSocket(s)
       \/ ServerPrepareHandoff(s)
       \/ \E t \in Tabs : ServerCreateTab(s, t) \/ ServerCloseTab(s, t)

Spec == Init /\ [][Next]_vars

\* Both event loops keep reading their sockets, a startup runs to its end, and
\* a closed socket is noticed. Nobody need start, stop, create or close anything.
Fairness ==
  \A s \in Servers :
    /\ WF_vars(HostAttach(s)) /\ WF_vars(HostRefuse(s)) /\ WF_vars(HostPrepareHandoff(s))
    /\ WF_vars(HostClose(s)) /\ WF_vars(HostCreate(s)) /\ WF_vars(HostSocketClose(s))
    /\ WF_vars(ReadStep(s)) /\ WF_vars(StartupStep(s)) /\ WF_vars(ServerLosesSocket(s))

FairSpec == Spec /\ Fairness

-----------------------------------------------------------------------------
(* Properties *)

TypeOK ==
  /\ epoch \in Nat /\ sequence \in Nat
  /\ events \in Seq(Event)
  /\ child \in [Tabs -> {"none", "requested", "managed", "draining", "gone"}]
  /\ clients \subseteq Servers /\ controller \in Servers \cup {Nobody}
  /\ requests \in [Servers -> Seq(ClientFrame)]
  /\ frames \in [Servers -> Seq(HostFrame)]
  /\ phase \in [Servers -> {"new", "attaching", "starting", "live", "gone"}]
  /\ connected \in [Servers -> BOOLEAN]
  /\ cursor \in [Servers -> [epoch : Nat, seq : Nat]]
  /\ snapshot \in [Servers -> [epoch : Nat, latest : Nat]]
  /\ pendingReplay \in [Servers -> Seq(Event)]
  /\ startupEvents \in [Servers -> Seq(Event)]
  /\ tabs \in [Servers -> SUBSET Tabs]
  /\ lastSequence \in [Servers -> Nat \cup {NoSeq}]
  /\ discontinuities \in [Servers -> SUBSET
       {"replay gap", "envelope", "duplicate", "missing", "unknown tab", "short replay"}]
  /\ dispatched \in [Servers -> Seq(Nat)]
  /\ handoffs \subseteq [epoch : Nat, seq : Nat, by : Servers]

\* The ring is a gapless suffix of what was emitted: unless it is empty its last
\* event is the newest one, and numbers step by one (retainEvent, emit).
RingIsSuffix ==
  \A i \in 1..Len(events) :
    events[i].seq = sequence - Len(events) + i /\ events[i].epoch = epoch

\* A server that has reported no discontinuity has dispatched every event from
\* its starting point to its current position, once each and in order
\* (validateRpcSupervisorEvent, installRpcSupervisorEventDispatch).
NoSilentLoss ==
  \A s \in Servers :
    discontinuities[s] = {} /\ lastSequence[s] # NoSeq =>
      /\ lastSequence[s] = cursor[s].seq + Len(dispatched[s])
      /\ \A i \in 1..Len(dispatched[s]) : dispatched[s][i] = cursor[s].seq + i

\* Between them the ring, the replay and the socket never give a server an event
\* twice, out of order, of another epoch, or with a predecessor missing: what a
\* server reports is only an evicted history, a tab it does not know, or a
\* replay it did not dispatch (attach, emit, finishRpcSupervisorReplay).
SequenceIntact ==
  \A s \in Servers : discontinuities[s] \cap {"envelope", "duplicate", "missing"} = {}

\* A server whose socket is whole, that has attached and has no fence ahead of
\* it, is the controller: a predecessor's late close or fence cannot take the
\* supervisor from it (accept's close handler, attach).
ActiveServerIsController ==
  \A s \in clients :
    /\ connected[s] /\ phase[s] \notin {"new", "attaching", "gone"}
    /\ \A i \in 1..Len(frames[s]) : frames[s][i].type # "fenced"
    => controller = s

\* A cursor that is handed out covers only events its server has itself taken: the
\* client's promise is that events received before the startup is over are not
\* dropped (drainStartupEvents).
StartupEventsAreNotDropped ==
  \A h \in handoffs :
    phase[h.by] = "gone" /\ discontinuities[h.by] = {} => h.seq <= lastSequence[h.by]

\* An attach is answered or given up: no server waits in its startup forever.
StartupEnds ==
  \A s \in Servers : phase[s] = "attaching" ~> phase[s] \in {"live", "gone"}

\* What the supervisor has emitted reaches its server, or the server loses the
\* socket or stops.
EventsArrive ==
  \A s \in Servers, n \in 1..MaxSequence :
    controller = s /\ sequence = n ~>
      \/ phase[s] = "live" /\ lastSequence[s] >= n
      \/ ~connected[s]

Delivery == INSTANCE OrderedDelivery WITH
  Readers <- Servers,
  position <- lastSequence,
  delivered <- dispatched,
  gap <- [s \in Servers |-> discontinuities[s] # {}]

\* The relay implements ordered delivery with an honest gap: every step of the
\* supervisor, the sockets and the servers is a step of OrderedDelivery or leaves
\* the readers alone.
ImplementsOrderedDelivery == Delivery!Spec
=============================================================================
