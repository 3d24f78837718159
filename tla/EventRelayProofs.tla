-------------------------- MODULE EventRelayProofs --------------------------
(***************************************************************************)
(* Theorems about EventRelay, for any number of servers, tabs, sizes and   *)
(* any limits.                                                             *)
(***************************************************************************)
EXTENDS EventRelay, TLAPS

USE LimitsAssumption, NobodyAssumption

(* The steps by component, for the case splits below. *)
ServerSteps(s) ==
  \/ ServerStart(s) \/ ServerStop(s) \/ ServerLosesSocket(s) \/ ServerPrepareHandoff(s)

-----------------------------------------------------------------------------
(* Type correctness and the shape of the ring *)

\* The invariant both follow from: the filter of replayFor keeps a suffix only
\* of a ring in sequence order.
RingInv == TypeOK /\ RingIsSuffix

LEMMA InitRingInv == Init => RingInv
BY DEF Init, RingInv, TypeOK, RingIsSuffix, NoCursor, NoSnapshot, NoSeq

\* Retaining an event empties the ring or keeps a suffix of the ring with it.
LEMMA RetainCases ==
  ASSUME NEW e, Retain(e)
  PROVE  \/ events' = <<>>
         \/ \E k \in 0..Len(Append(events, e)) :
              events' = SubSeq(Append(events, e), k + 1, Len(Append(events, e)))
<1>1. CASE e.bytes > RingMaxBytes
  BY <1>1 DEF Retain, AfterOversized
<1>2. CASE ~(e.bytes > RingMaxBytes)
  BY <1>2 DEF Retain
<1>3. QED BY <1>1, <1>2

\* A suffix of a sequence.
LEMMA SuffixOf ==
  ASSUME NEW S, NEW s \in Seq(S), NEW k \in 0..Len(s)
  PROVE  /\ SubSeq(s, k + 1, Len(s)) \in Seq(S)
         /\ Len(SubSeq(s, k + 1, Len(s))) = Len(s) - k
         /\ \A i \in 1..(Len(s) - k) : SubSeq(s, k + 1, Len(s))[i] = s[k + i]
OBVIOUS

\* The event that follows leaves the ring typed and a gapless suffix.
LEMMA RetainKeepsSuffix ==
  ASSUME RingInv, NEW e \in Event, e.seq = sequence + 1, e.epoch = epoch,
         sequence' = sequence + 1, epoch' = epoch, Retain(e)
  PROVE  events' \in Seq(Event) /\ RingIsSuffix'
<1>1. CASE events' = <<>>
  BY <1>1 DEF RingIsSuffix
<1>2. CASE \E k \in 0..Len(Append(events, e)) :
             events' = SubSeq(Append(events, e), k + 1, Len(Append(events, e)))
  <2> DEFINE pushed == Append(events, e)
  <2>1. events \in Seq(Event) /\ sequence \in Nat
    BY DEF RingInv, TypeOK
  <2>2. /\ pushed \in Seq(Event) /\ Len(pushed) = Len(events) + 1
        /\ \A i \in 1..Len(events) : pushed[i] = events[i]
        /\ pushed[Len(events) + 1] = e
    BY <2>1
  <2>3. PICK k \in 0..Len(pushed) : events' = SubSeq(pushed, k + 1, Len(pushed))
    BY <1>2
  <2> HIDE DEF pushed
  <2>4. \A i \in 1..Len(pushed) :
          pushed[i].seq = sequence + 1 - Len(pushed) + i /\ pushed[i].epoch = epoch
    <3>1. TAKE i \in 1..Len(pushed)
    <3>2. CASE i = Len(pushed)
      BY <2>1, <2>2, <3>2
    <3>3. CASE i \in 1..Len(events)
      BY <2>1, <2>2, <3>3 DEF RingInv, RingIsSuffix
    <3>4. QED BY <2>1, <2>2, <3>2, <3>3
  <2>5. /\ events' \in Seq(Event) /\ Len(events') = Len(pushed) - k
        /\ \A i \in 1..(Len(pushed) - k) : events'[i] = pushed[k + i]
    BY <2>2, <2>3, SuffixOf
  <2>6. \A i \in 1..Len(events') : k + i \in 1..Len(pushed)
    BY <2>2, <2>5
  <2>7. QED BY <2>1, <2>2, <2>4, <2>5, <2>6 DEF RingIsSuffix
<1>3. QED BY <1>1, <1>2, RetainCases

\* Emitting types the frames it writes and keeps the ring.
LEMMA EmitKeepsRing ==
  ASSUME RingInv, NEW t \in Tabs, NEW b \in Sizes, NEW reply \in Seq(HostFrame),
         EmitThen(t, b, reply), epoch' = epoch
  PROVE  /\ sequence' \in Nat /\ events' \in Seq(Event)
         /\ frames' \in [Servers -> Seq(HostFrame)] /\ RingIsSuffix'
<1> DEFINE e == [epoch |-> epoch, seq |-> sequence + 1, tab |-> t, bytes |-> b]
           f == [type |-> "event", upto |-> sequence + 1, event |-> e]
<1>t. /\ epoch \in Nat /\ sequence \in Nat /\ events \in Seq(Event)
      /\ frames \in [Servers -> Seq(HostFrame)]
  BY DEF RingInv, TypeOK
<1>1. e \in Event /\ e.seq = sequence + 1 /\ e.epoch = epoch
  BY <1>t DEF Event
<1>f. f \in HostFrame
  <2> HIDE DEF e
  <2>1. QED BY <1>t, <1>1 DEF HostFrame
<1>2. /\ sequence' = sequence + 1 /\ Retain(e)
      /\ frames' = [s \in Servers |->
                      IF Receives(s) /\ connected[s] THEN Append(frames[s], f) \o reply
                      ELSE frames[s]]
  BY DEF EmitThen
<1> HIDE DEF e, f
<1>3. events' \in Seq(Event) /\ RingIsSuffix'
  BY <1>1, <1>2, RetainKeepsSuffix
<1>4. \A s \in Servers : Append(frames[s], f) \o reply \in Seq(HostFrame)
  <2>1. TAKE s \in Servers
  <2>2. Append(frames[s], f) \in Seq(HostFrame)
    BY <1>t, <1>f
  <2>3. QED BY <2>2
<1>5. frames' \in [Servers -> Seq(HostFrame)]
  BY <1>t, <1>2, <1>4
<1>6. QED BY <1>t, <1>2, <1>3, <1>5

\* The filter keeps what follows some place in the ring.
LEMMA AfterIs ==
  ASSUME RingInv, NEW c \in [epoch : Nat, seq : Nat]
  PROVE  \E k \in 0..Len(events) :
           /\ After(c) = SubSeq(events, k + 1, Len(events))
           /\ \A i \in 1..Len(events) : i > k <=> events[i].seq > c.seq
<1>t. events \in Seq(Event) /\ sequence \in Nat
  BY DEF RingInv, TypeOK
<1> DEFINE first == sequence - Len(events)
           P(k) == \A i \in 1..Len(events) : i > k <=> events[i].seq > c.seq
<1>1. \E k \in 0..Len(events) : P(k)
  <2>1. \A i \in 1..Len(events) : events[i].seq = first + i
    BY DEF RingInv, RingIsSuffix
  <2>2. first \in Int /\ c.seq \in Nat /\ Len(events) \in Nat
    BY <1>t
  <2> HIDE DEF first
  <2> DEFINE n == Len(events)
  <2>3. CASE c.seq < first
    <3>1. \A i \in 1..n : i > 0 <=> events[i].seq > c.seq
      BY <2>1, <2>2, <2>3
    <3>2. QED BY <2>2, <3>1
  <2>4. CASE c.seq > first + n
    <3>1. \A i \in 1..n : i > n <=> events[i].seq > c.seq
      BY <2>1, <2>2, <2>4
    <3>2. n \in 0..n
      BY <2>2
    <3>3. QED BY <3>1, <3>2
  <2>5. CASE c.seq >= first /\ c.seq <= first + n
    <3>1. c.seq - first \in 0..n
      BY <2>2, <2>5
    <3>2. \A i \in 1..n : i > c.seq - first <=> events[i].seq > c.seq
      BY <2>1, <2>2, <2>5
    <3>3. QED BY <3>1, <3>2
  <2>6. QED BY <2>2, <2>3, <2>4, <2>5
<1> DEFINE k == CHOOSE k \in 0..Len(events) : P(k)
<1>2. k \in 0..Len(events) /\ P(k)
  BY <1>1
<1>3. After(c) = SubSeq(events, k + 1, Len(events))
  BY DEF After
<1> HIDE DEF k
<1>4. QED BY <1>2, <1>3

\* The replay an attach is answered with is a sequence of events.
LEMMA ReplayTyped ==
  ASSUME RingInv, NEW c \in [epoch : Nat, seq : Nat]
  PROVE  ReplayFor(c).gap \in BOOLEAN /\ ReplayFor(c).events \in Seq(Event)
<1>t. events \in Seq(Event) /\ sequence \in Nat
  BY DEF RingInv, TypeOK
<1>1. After(c) \in Seq(Event)
  <2>1. PICK k \in 0..Len(events) : After(c) = SubSeq(events, k + 1, Len(events))
    BY AfterIs
  <2>2. QED BY <1>t, <2>1, SuffixOf
<1>2. ReplayFor(c).events \in Seq(Event)
  BY <1>t, <1>1 DEF ReplayFor
<1>3. ReplayFor(c).gap \in BOOLEAN
  <2>1. CASE c = NoCursor
    BY <2>1 DEF ReplayFor
  <2>2. CASE c # NoCursor /\ c.epoch # epoch
    BY <2>2 DEF ReplayFor
  <2>3. CASE c # NoCursor /\ c.epoch = epoch
    BY <2>3 DEF ReplayFor
  <2>4. QED BY <2>1, <2>2, <2>3
<1>4. QED BY <1>2, <1>3

\* A step that leaves the ring alone.
LEMMA SameRing ==
  ASSUME RingIsSuffix, UNCHANGED <<epoch, sequence, events>>
  PROVE  RingIsSuffix'
BY DEF RingIsSuffix

LEMMA HeadTail ==
  ASSUME NEW S, NEW q \in Seq(S), q # <<>>
  PROVE  Head(q) \in S /\ Tail(q) \in Seq(S)
OBVIOUS

LEMMA HostKeepsRingInv ==
  ASSUME RingInv, NEW s \in Servers, HostStep(s)
  PROVE  RingInv'
<1> USE DEF RingInv
<1>t. /\ requests \in [Servers -> Seq(ClientFrame)] /\ frames \in [Servers -> Seq(HostFrame)]
      /\ sequence \in Nat /\ epoch \in Nat
  BY DEF TypeOK
<1>h. ASSUME requests[s] # <<>>, requests' = [requests EXCEPT ![s] = Tail(@)]
      PROVE  Head(requests[s]) \in ClientFrame /\ requests' \in [Servers -> Seq(ClientFrame)]
  BY <1>t, <1>h, HeadTail
<1>1. CASE HostAttach(s)
  <2> DEFINE c == Head(requests[s]).cursor
  <2>1. /\ Head(requests[s]) \in ClientFrame /\ Head(requests[s]).type = "attach"
        /\ requests' \in [Servers -> Seq(ClientFrame)]
    BY <1>1, <1>h DEF HostAttach, HostHas
  <2>2. c \in [epoch : Nat, seq : Nat]
    BY <2>1 DEF ClientFrame
  <2> HIDE DEF c
  <2>3. ReplayFor(c).gap \in BOOLEAN /\ ReplayFor(c).events \in Seq(Event)
    BY <2>2, ReplayTyped
  <2>4. sequence \in Nat /\ epoch \in Nat /\ frames \in [Servers -> Seq(HostFrame)] /\ managed \in SUBSET Tabs
    BY DEF TypeOK, managed
  <2>5. Attached(c) \in HostFrame /\ [type |-> "fenced", upto |-> sequence] \in HostFrame
    BY <2>3, <2>4 DEF Attached, HostFrame
  <2>6. \A q \in Servers : AttachFrames(q, s, c) \in Seq(HostFrame)
    BY <2>5 DEF AttachFrames
  <2>7. frames' = [q \in Servers |->
                      IF connected[q] THEN frames[q] \o AttachFrames(q, s, c) ELSE frames[q]]
    BY <1>1 DEF HostAttach, c
  <2>8. frames' \in [Servers -> Seq(HostFrame)]
    BY <2>4, <2>6, <2>7
  <2>9. controller' \in Servers \cup {Nobody}
    BY <1>1 DEF HostAttach
  <2>10. UNCHANGED <<epoch, sequence, events, child, clients, serverVars>>
    BY <1>1 DEF HostAttach, ringVars
  <2>11. TypeOK'
    BY <2>1, <2>8, <2>9, <2>10 DEF TypeOK, serverVars
  <2>12. QED BY <2>10, <2>11, SameRing
<1>2. CASE HostAttachTimeout(s)
  <2>1. TypeOK'
    BY <1>2 DEF HostAttachTimeout, TypeOK, ringVars, socketVars, serverVars
  <2>2. QED BY <1>2, <2>1, SameRing DEF HostAttachTimeout, ringVars
<1>3. CASE HostRefuse(s)
  <2>1. requests' \in [Servers -> Seq(ClientFrame)]
    BY <1>3, <1>h DEF HostRefuse
  <2>2. TypeOK'
    BY <1>3, <2>1 DEF HostRefuse, TypeOK, hostVars, serverVars
  <2>3. QED BY <1>3, <2>2, SameRing DEF HostRefuse, hostVars
<1>q. ASSUME NEW type, HostAccepts(s, type)
      PROVE  /\ requests' \in [Servers -> Seq(ClientFrame)]
             /\ Head(requests[s]) \in ClientFrame /\ Head(requests[s]).type = type
             /\ controller = s
  BY <1>q, <1>h DEF HostAccepts, HostHas
<1>c. ASSUME NEW type \in {"create", "close"}, HostAccepts(s, type)
      PROVE  Head(requests[s]).tab \in Tabs
  BY <1>q, <1>c DEF ClientFrame
<1>r. \A t \in Tabs : Removed(t) \in HostFrame
  BY <1>t DEF Removed, HostFrame
<1>4. CASE HostCreate(s)
  <2> DEFINE t == Head(requests[s]).tab
  <2>1. t \in Tabs /\ requests' \in [Servers -> Seq(ClientFrame)]
    BY <1>4, <1>q, <1>c DEF HostCreate
  <2>2. UNCHANGED <<epoch, clients, controller, serverVars>>
    BY <1>4 DEF HostCreate
  <2>3. PICK b \in Sizes : EmitThen(t, b, <<>>)
    BY <1>4 DEF HostCreate
  <2>4. child' = [child EXCEPT ![t] = "managed"]
    BY <1>4 DEF HostCreate
  <2> HIDE DEF t
  <2>e. <<>> \in Seq(HostFrame)
    OBVIOUS
  <2>5. /\ sequence' \in Nat /\ events' \in Seq(Event)
        /\ frames' \in [Servers -> Seq(HostFrame)] /\ RingIsSuffix'
    BY <2>1, <2>2, <2>3, <2>e, EmitKeepsRing
  <2>6. TypeOK'
    BY <2>1, <2>2, <2>4, <2>5 DEF TypeOK, serverVars
  <2>7. QED BY <2>5, <2>6
<1>5. CASE HostCreateFails(s)
  <2> DEFINE t == Head(requests[s]).tab
  <2>1. t \in Tabs /\ requests' \in [Servers -> Seq(ClientFrame)]
    BY <1>5, <1>q, <1>c DEF HostCreateFails
  <2>2. UNCHANGED <<epoch, sequence, events, clients, controller, serverVars>>
    BY <1>5 DEF HostCreateFails, ringVars
  <2>3. child' = [child EXCEPT ![t] = "gone"] /\ frames' = Send(s, <<Removed(t)>>)
    BY <1>5 DEF HostCreateFails
  <2> HIDE DEF t
  <2>4. frames' \in [Servers -> Seq(HostFrame)]
    BY <1>t, <1>r, <2>1, <2>3 DEF Send
  <2>5. TypeOK'
    BY <2>1, <2>2, <2>3, <2>4 DEF TypeOK, serverVars
  <2>6. QED BY <2>2, <2>5, SameRing
<1>6. CASE HostClose(s)
  <2> DEFINE t == Head(requests[s]).tab
             reply == <<[Removed(t) EXCEPT !.upto = sequence + 1]>>
  <2>1. t \in Tabs /\ requests' \in [Servers -> Seq(ClientFrame)]
    BY <1>6, <1>q, <1>c DEF HostClose
  <2>2. UNCHANGED <<epoch, clients, controller, serverVars>>
    BY <1>6 DEF HostClose
  <2>3. reply \in Seq(HostFrame)
    BY <1>t, <2>1 DEF Removed, HostFrame
  <2>4. CASE child[t] = "managed"
    <3>1. PICK b \in Sizes : EmitThen(t, b, reply)
      BY <1>6, <2>4 DEF HostClose
    <3>2. child' = [child EXCEPT ![t] = "draining"]
      BY <1>6, <2>4 DEF HostClose
    <3> HIDE DEF t, reply
    <3>3. /\ sequence' \in Nat /\ events' \in Seq(Event)
          /\ frames' \in [Servers -> Seq(HostFrame)] /\ RingIsSuffix'
      BY <2>1, <2>2, <2>3, <3>1, EmitKeepsRing
    <3>4. TypeOK'
      BY <2>1, <2>2, <3>2, <3>3 DEF TypeOK, serverVars
    <3>5. QED BY <3>3, <3>4
  <2>5. CASE child[t] # "managed"
    <3>1. UNCHANGED <<child, sequence, events, frames>>
      BY <1>6, <2>5 DEF HostClose, ringVars
    <3> HIDE DEF t
    <3>2. TypeOK'
      BY <2>1, <2>2, <3>1 DEF TypeOK, serverVars
    <3>3. QED BY <2>2, <3>1, <3>2, SameRing
  <2>6. QED BY <2>4, <2>5
<1>7. CASE HostPrepareHandoff(s)
  <2>1. requests' \in [Servers -> Seq(ClientFrame)]
    BY <1>7, <1>q DEF HostPrepareHandoff
  <2>2. UNCHANGED <<hostVars, serverVars>>
    BY <1>7 DEF HostPrepareHandoff
  <2>3. [type |-> "handoff", upto |-> sequence, epoch |-> epoch] \in HostFrame
    BY <1>t DEF HostFrame
  <2>4. frames' \in [Servers -> Seq(HostFrame)]
    BY <1>t, <1>7, <2>3 DEF HostPrepareHandoff, Send
  <2>5. TypeOK'
    BY <2>1, <2>2, <2>4 DEF TypeOK, hostVars, serverVars
  <2>6. QED BY <2>2, <2>5, SameRing DEF hostVars
<1>8. CASE HostSocketClose(s)
  <2>1. clients' \subseteq Servers /\ controller' \in Servers \cup {Nobody}
    BY <1>8 DEF HostSocketClose, AfterClose, TypeOK
  <2>2. UNCHANGED <<epoch, sequence, events, child, requests, frames, serverVars>>
    BY <1>8 DEF HostSocketClose, ringVars, socketVars
  <2>3. TypeOK'
    BY <2>1, <2>2 DEF TypeOK, serverVars
  <2>4. QED BY <2>2, <2>3, SameRing
<1>9. QED BY <1>1, <1>2, <1>3, <1>4, <1>5, <1>6, <1>7, <1>8 DEF HostStep

\* What dispatching an event changes.
LEMMA DispatchTyped ==
  ASSUME TypeOK, NEW s \in Servers, NEW e \in Event, Dispatch(s, e)
  PROVE  /\ lastSequence' \in [Servers -> Nat \cup {NoSeq}]
         /\ discontinuities' \in [Servers -> SUBSET
              {"replay gap", "envelope", "duplicate", "missing", "unknown tab", "short replay"}]
         /\ dispatched' \in [Servers -> Seq(Nat)]
<1>1. e.seq \in Nat
  BY DEF Event
<1>2. lastSequence' \in [Servers -> Nat \cup {NoSeq}]
  BY <1>1 DEF Dispatch, TypeOK
<1>3. Anomalies(s, e) \subseteq {"envelope", "duplicate", "missing", "unknown tab"}
  BY DEF Anomalies
<1>4. discontinuities' \in [Servers -> SUBSET
              {"replay gap", "envelope", "duplicate", "missing", "unknown tab", "short replay"}]
  BY <1>3 DEF Dispatch, TypeOK
<1>d. dispatched \in [Servers -> Seq(Nat)]
  BY DEF TypeOK
<1>5. dispatched[s] \in Seq(Nat) /\ Append(dispatched[s], e.seq) \in Seq(Nat)
  BY <1>1, <1>d
<1>6. dispatched' \in [Servers -> Seq(Nat)]
  BY <1>5, <1>d DEF Dispatch
<1>7. QED BY <1>2, <1>4, <1>6

\* No step of a server touches the ring.
LEMMA ServersKeepTypes ==
  ASSUME TypeOK, NEW s \in Servers, ReadStep(s) \/ StartupStep(s) \/ ServerSteps(s)
  PROVE  TypeOK' /\ UNCHANGED <<epoch, sequence, events>>
<1>t. /\ requests \in [Servers -> Seq(ClientFrame)] /\ frames \in [Servers -> Seq(HostFrame)]
      /\ pendingReplay \in [Servers -> Seq(Event)] /\ startupEvents \in [Servers -> Seq(Event)]
      /\ cursor \in [Servers -> [epoch : Nat, seq : Nat]]
  BY DEF TypeOK
<1>h. ASSUME frames[s] # <<>>, Consume(s)
      PROVE  Head(frames[s]) \in HostFrame /\ frames' \in [Servers -> Seq(HostFrame)]
  BY <1>t, <1>h, HeadTail DEF Consume
<1>f. ASSUME ClientFails(s)
      PROVE  TypeOK' /\ UNCHANGED <<epoch, sequence, events>>
  <2>1. frames' = [frames EXCEPT ![s] = <<>>] /\ frames' \in [Servers -> Seq(HostFrame)]
    BY <1>t, <1>f DEF ClientFails
  <2>2. /\ connected' \in [Servers -> BOOLEAN]
        /\ phase' \in [Servers -> {"new", "attaching", "starting", "live", "gone"}]
    BY <1>f DEF ClientFails, TypeOK
  <2>3. UNCHANGED <<hostVars, requests, cursor, startVars, tabs, readVars, handoffs>>
    BY <1>f DEF ClientFails
  <2>4. QED BY <2>1, <2>2, <2>3 DEF TypeOK, hostVars, startVars, readVars
<1>1. CASE ReadAttached(s)
  <2> DEFINE f == Head(frames[s])
  <2>1. f \in HostFrame /\ f.type = "attached" /\ frames' \in [Servers -> Seq(HostFrame)]
    BY <1>1, <1>h DEF ReadAttached, Reads
  <2>2. f \in [type : {"attached"}, upto : Nat, epoch : Nat, tabs : SUBSET Tabs, gap : BOOLEAN,
               replay : Seq(Event)]
    BY <2>1 DEF HostFrame
  <2>3. /\ snapshot' = [snapshot EXCEPT ![s] = [epoch |-> f.epoch, latest |-> f.upto]]
        /\ lastSequence' = [lastSequence EXCEPT ![s] =
              IF cursor[s].epoch = f.epoch /\ ~f.gap THEN cursor[s].seq
              ELSE IF f.upto = 0 THEN 0 ELSE NoSeq]
        /\ discontinuities' = [discontinuities EXCEPT ![s] =
              IF f.gap THEN {"replay gap"} ELSE {}]
        /\ tabs' = [tabs EXCEPT ![s] = f.tabs]
        /\ pendingReplay' = [pendingReplay EXCEPT ![s] = IF f.tabs = {} THEN <<>> ELSE f.replay]
        /\ phase' = [phase EXCEPT ![s] = "starting"]
        /\ UNCHANGED <<hostVars, requests, connected, cursor, startupEvents, dispatched, handoffs>>
    BY <1>1 DEF ReadAttached
  <2> HIDE DEF f
  <2>4. snapshot' \in [Servers -> [epoch : Nat, latest : Nat]]
    BY <2>2, <2>3 DEF TypeOK
  <2>5. lastSequence' \in [Servers -> Nat \cup {NoSeq}]
    BY <2>2, <2>3 DEF TypeOK
  <2>6. pendingReplay' \in [Servers -> Seq(Event)]
    <3>1. f.replay \in Seq(Event) /\ <<>> \in Seq(Event)
      BY <2>2
    <3>2. QED BY <1>t, <2>3, <3>1
  <2>7. tabs' \in [Servers -> SUBSET Tabs]
    <3>1. f.tabs \in SUBSET Tabs
      BY <2>2
    <3>2. QED BY <2>3, <3>1 DEF TypeOK
  <2>8. QED BY <2>1, <2>3, <2>4, <2>5, <2>6, <2>7 DEF TypeOK, hostVars
<1>2. CASE ReadFenced(s)
  BY <1>2, <1>f DEF ReadFenced
<1>3. CASE ReadEvent(s)
  <2> DEFINE e == Head(frames[s]).event
  <2>1. Head(frames[s]) \in HostFrame /\ Head(frames[s]).type = "event" /\ frames' \in [Servers -> Seq(HostFrame)]
    BY <1>3, <1>h DEF ReadEvent, Reads
  <2>2. e \in Event
    BY <2>1 DEF HostFrame
  <2>3. UNCHANGED <<hostVars, requests, phase, connected, cursor, snapshot, pendingReplay, tabs, handoffs>>
    BY <1>3 DEF ReadEvent
  <2>4. CASE startupEvents' = [startupEvents EXCEPT ![s] = Append(@, e)] /\ UNCHANGED readVars
    <3> HIDE DEF e
    <3>1. startupEvents' \in [Servers -> Seq(Event)]
      BY <1>t, <2>2, <2>4
    <3>2. QED BY <2>1, <2>3, <2>4, <3>1 DEF TypeOK, hostVars, readVars
  <2>5. CASE Dispatch(s, e) /\ UNCHANGED startupEvents
    <3> HIDE DEF e
    <3>1. /\ lastSequence' \in [Servers -> Nat \cup {NoSeq}]
          /\ discontinuities' \in [Servers -> SUBSET
              {"replay gap", "envelope", "duplicate", "missing", "unknown tab", "short replay"}]
          /\ dispatched' \in [Servers -> Seq(Nat)]
      BY <2>2, <2>5, DispatchTyped
    <3>2. QED BY <2>1, <2>3, <2>5, <3>1 DEF TypeOK, hostVars
  <2>6. QED BY <1>3, <2>4, <2>5 DEF ReadEvent
<1>4. CASE ReadHandoff(s)
  <2>1. Head(frames[s]) \in HostFrame /\ Head(frames[s]).type = "handoff" /\ frames' \in [Servers -> Seq(HostFrame)]
    BY <1>4, <1>h DEF ReadHandoff, Reads
  <2>2. Head(frames[s]).epoch \in Nat /\ Head(frames[s]).upto \in Nat
    BY <2>1 DEF HostFrame
  <2> DEFINE h == [epoch |-> Head(frames[s]).epoch, seq |-> Head(frames[s]).upto, by |-> s]
  <2>h. h \in [epoch : Nat, seq : Nat, by : Servers]
    BY <2>2
  <2>i. handoffs' = handoffs \cup {h}
    BY <1>4 DEF ReadHandoff
  <2> HIDE DEF h
  <2>3. handoffs' \subseteq [epoch : Nat, seq : Nat, by : Servers]
    BY <2>h, <2>i DEF TypeOK
  <2>4. QED BY <1>4, <2>1, <2>3 DEF ReadHandoff, TypeOK, hostVars, startVars, readVars
<1>5. CASE ReadRemoved(s)
  <2>1. frames' \in [Servers -> Seq(HostFrame)]
    BY <1>5, <1>h DEF ReadRemoved, Reads
  <2>2. tabs' \in [Servers -> SUBSET Tabs]
    BY <1>5 DEF ReadRemoved, TypeOK
  <2>3. QED BY <1>5, <2>1, <2>2 DEF ReadRemoved, TypeOK, hostVars, startVars, readVars
<1>6. CASE ReplayNext(s)
  <2>1. Head(pendingReplay[s]) \in Event /\ pendingReplay' \in [Servers -> Seq(Event)]
    BY <1>6, <1>t, HeadTail DEF ReplayNext
  <2>2. /\ lastSequence' \in [Servers -> Nat \cup {NoSeq}]
        /\ discontinuities' \in [Servers -> SUBSET
              {"replay gap", "envelope", "duplicate", "missing", "unknown tab", "short replay"}]
        /\ dispatched' \in [Servers -> Seq(Nat)]
    BY <1>6, <2>1, DispatchTyped DEF ReplayNext
  <2>3. UNCHANGED <<hostVars, socketVars, phase, connected, cursor, snapshot, startupEvents, tabs, handoffs>>
    BY <1>6 DEF ReplayNext
  <2>4. QED BY <2>1, <2>2, <2>3 DEF TypeOK, hostVars, socketVars
<1>7. CASE FinishReplay(s)
  <2>1. ResumeAt(s) \in Nat
    BY DEF ResumeAt, TypeOK
  <2>2. lastSequence' \in [Servers -> Nat \cup {NoSeq}]
    BY <1>7, <2>1 DEF FinishReplay, TypeOK
  <2>3. discontinuities' \in [Servers -> SUBSET
              {"replay gap", "envelope", "duplicate", "missing", "unknown tab", "short replay"}]
    BY <1>7 DEF FinishReplay, TypeOK
  <2>4. phase' = [phase EXCEPT ![s] = "live"]
    BY <1>7 DEF FinishReplay
  <2>5. UNCHANGED <<hostVars, socketVars, connected, cursor, startVars, tabs, dispatched, handoffs>>
    BY <1>7 DEF FinishReplay
  <2>6. QED BY <2>2, <2>3, <2>4, <2>5 DEF TypeOK, hostVars, socketVars, startVars
<1>8. CASE DrainNext(s)
  <2>1. Head(startupEvents[s]) \in Event /\ startupEvents' \in [Servers -> Seq(Event)]
    BY <1>8, <1>t, HeadTail DEF DrainNext
  <2>2. /\ lastSequence' \in [Servers -> Nat \cup {NoSeq}]
        /\ discontinuities' \in [Servers -> SUBSET
              {"replay gap", "envelope", "duplicate", "missing", "unknown tab", "short replay"}]
        /\ dispatched' \in [Servers -> Seq(Nat)]
    BY <1>8, <2>1, DispatchTyped DEF DrainNext
  <2>3. UNCHANGED <<hostVars, socketVars, phase, connected, cursor, snapshot, pendingReplay, tabs, handoffs>>
    BY <1>8 DEF DrainNext
  <2>4. QED BY <2>1, <2>2, <2>3 DEF TypeOK, hostVars, socketVars
<1>9. CASE ServerStart(s)
  <2>1. PICK c \in InheritedCursors :
          /\ cursor' = [cursor EXCEPT ![s] = c]
          /\ requests' = [requests EXCEPT ![s] = <<[type |-> "attach", cursor |-> c]>>]
    BY <1>9 DEF ServerStart
  <2>2. c \in [epoch : Nat, seq : Nat]
    <3>1. CASE c = NoCursor
      BY <3>1 DEF NoCursor
    <3>2. CASE \E h \in handoffs : c = [epoch |-> h.epoch, seq |-> h.seq]
      <4>1. PICK h \in handoffs : c = [epoch |-> h.epoch, seq |-> h.seq]
        BY <3>2
      <4>2. h.epoch \in Nat /\ h.seq \in Nat
        BY DEF TypeOK
      <4>3. QED BY <4>1, <4>2
    <3>3. QED BY <3>1, <3>2 DEF InheritedCursors
  <2>3. requests' \in [Servers -> Seq(ClientFrame)]
    BY <1>t, <2>1, <2>2 DEF ClientFrame
  <2>4. cursor' \in [Servers -> [epoch : Nat, seq : Nat]]
    BY <1>t, <2>1, <2>2
  <2>5. /\ phase' = [phase EXCEPT ![s] = "attaching"] /\ connected' = [connected EXCEPT ![s] = TRUE]
        /\ clients' = clients \cup {s}
        /\ UNCHANGED <<epoch, ringVars, child, controller, frames, startVars, tabs, readVars, handoffs>>
    BY <1>9 DEF ServerStart
  <2>6. QED BY <2>3, <2>4, <2>5 DEF TypeOK, ringVars, startVars, readVars
<1>10. CASE ServerStop(s)
  <2>s. snapshot' \in [Servers -> [epoch : Nat, latest : Nat]]
    BY <1>10 DEF ServerStop, NoSnapshot, TypeOK
  <2>1. /\ pendingReplay' \in [Servers -> Seq(Event)] /\ startupEvents' \in [Servers -> Seq(Event)]
        /\ frames' \in [Servers -> Seq(HostFrame)]
    BY <1>t, <1>10 DEF ServerStop
  <2>2. tabs' \in [Servers -> SUBSET Tabs] /\ connected' \in [Servers -> BOOLEAN]
    BY <1>10 DEF ServerStop, TypeOK
  <2>p. phase' \in [Servers -> {"new", "attaching", "starting", "live", "gone"}]
    BY <1>10 DEF ServerStop, TypeOK
  <2>3. UNCHANGED <<hostVars, requests, cursor, readVars, handoffs>>
    BY <1>10 DEF ServerStop
  <2>4. QED BY <2>s, <2>1, <2>2, <2>p, <2>3 DEF TypeOK, hostVars, readVars
<1>11. CASE ServerLosesSocket(s)
  BY <1>11, <1>f DEF ServerLosesSocket
<1>12. CASE ServerPrepareHandoff(s)
  <2>1. requests' = [requests EXCEPT ![s] = Append(@, [type |-> "prepare_handoff"])]
    BY <1>12 DEF ServerPrepareHandoff, Request
  <2>2. requests' \in [Servers -> Seq(ClientFrame)]
    BY <1>t, <2>1 DEF ClientFrame
  <2>3. QED BY <1>12, <2>2 DEF ServerPrepareHandoff, TypeOK, hostVars, serverVars
<1>13. QED
  BY <1>1, <1>2, <1>3, <1>4, <1>5, <1>6, <1>7, <1>8, <1>9, <1>10, <1>11, <1>12
  DEF ReadStep, StartupStep, ServerSteps

LEMMA TabsKeepTypes ==
  ASSUME TypeOK, NEW s \in Servers, NEW t \in Tabs, ServerCreateTab(s, t) \/ ServerCloseTab(s, t)
  PROVE  TypeOK' /\ UNCHANGED <<epoch, sequence, events>>
<1>1. requests \in [Servers -> Seq(ClientFrame)] /\ tabs \in [Servers -> SUBSET Tabs]
  BY DEF TypeOK
<1>2. \A type \in {"create", "close"} : [type |-> type, tab |-> t] \in ClientFrame
  BY DEF ClientFrame
<1>3. CASE ServerCreateTab(s, t)
  <2>1. requests' \in [Servers -> Seq(ClientFrame)]
    BY <1>1, <1>2, <1>3 DEF ServerCreateTab, Request
  <2>2. tabs' \in [Servers -> SUBSET Tabs]
    BY <1>1, <1>3 DEF ServerCreateTab
  <2>3. QED BY <1>3, <2>1, <2>2 DEF ServerCreateTab, TypeOK, ringVars, startVars, readVars
<1>4. CASE ServerCloseTab(s, t)
  <2>1. requests' \in [Servers -> Seq(ClientFrame)]
    BY <1>1, <1>2, <1>4 DEF ServerCloseTab, Request
  <2>2. QED BY <1>4, <2>1 DEF ServerCloseTab, TypeOK, hostVars, serverVars
<1>5. QED BY <1>3, <1>4

LEMMA StepRingInv == RingInv /\ [Next]_vars => RingInv'
<1> SUFFICES ASSUME RingInv, [Next]_vars PROVE RingInv'
  OBVIOUS
<1>1. CASE HostExit
  <2>1. /\ epoch' = epoch + 1 /\ sequence' = 0 /\ events' = <<>> /\ clients' = {} /\ controller' = Nobody
        /\ child' = [t \in Tabs |-> IF child[t] = "none" THEN "none" ELSE "gone"]
        /\ requests' = [s \in Servers |-> <<>>]
        /\ UNCHANGED <<frames, serverVars>>
    BY <1>1 DEF HostExit
  <2>2. events' \in Seq(Event) /\ RingIsSuffix' /\ requests' \in [Servers -> Seq(ClientFrame)]
    BY <2>1 DEF RingIsSuffix
  <2>a. child' \in [Tabs -> {"none", "requested", "managed", "draining", "gone"}]
    BY <2>1 DEF RingInv, TypeOK
  <2>b. epoch' \in Nat /\ sequence' \in Nat
    <3>1. epoch \in Nat
      BY DEF RingInv, TypeOK
    <3>2. epoch' = epoch + 1 /\ sequence' = 0
      BY <2>1
    <3>3. QED BY <3>1, <3>2
  <2>c. clients' \subseteq Servers /\ controller' \in Servers \cup {Nobody}
    BY <2>1
  <2>u. UNCHANGED <<frames, serverVars>>
    BY <2>1
  <2>3. TypeOK'
    BY <2>2, <2>a, <2>b, <2>c, <2>u DEF RingInv, TypeOK, serverVars
  <2>4. QED BY <2>2, <2>3 DEF RingInv
<1>2. ASSUME NEW t \in Tabs, NEW b \in Sizes, HostEmit(t, b) PROVE RingInv'
  <2>1. /\ EmitThen(t, b, <<>>)
        /\ UNCHANGED <<epoch, child, clients, controller, requests, serverVars>>
    BY <1>2 DEF HostEmit
  <2>2. <<>> \in Seq(HostFrame)
    OBVIOUS
  <2>3. /\ sequence' \in Nat /\ events' \in Seq(Event)
        /\ frames' \in [Servers -> Seq(HostFrame)] /\ RingIsSuffix'
    BY <2>1, <2>2, EmitKeepsRing
  <2>4. QED BY <2>1, <2>3 DEF RingInv, TypeOK, serverVars
<1>3. ASSUME NEW t \in Tabs, HostOutputEnds(t) PROVE RingInv'
  <2>1. TypeOK'
    BY <1>3 DEF HostOutputEnds, RingInv, TypeOK, ringVars, socketVars, serverVars
  <2>2. QED BY <1>3, <2>1, SameRing DEF HostOutputEnds, ringVars, RingInv
<1>4. ASSUME NEW s \in Servers, HostStep(s) PROVE RingInv'
  BY <1>4, HostKeepsRingInv
<1>5. ASSUME NEW s \in Servers, ReadStep(s) \/ StartupStep(s) \/ ServerSteps(s) PROVE RingInv'
  BY <1>5, ServersKeepTypes, SameRing DEF RingInv
<1>6. ASSUME NEW s \in Servers, NEW t \in Tabs, ServerCreateTab(s, t) \/ ServerCloseTab(s, t)
      PROVE  RingInv'
  BY <1>6, TabsKeepTypes, SameRing DEF RingInv
<1>7. CASE UNCHANGED vars
  BY <1>7 DEF RingInv, RingIsSuffix, TypeOK, vars, hostVars, socketVars, serverVars
<1>8. QED
  BY <1>1, <1>2, <1>3, <1>4, <1>5, <1>6, <1>7 DEF Next, ServerSteps

\* Every reachable state is typed and the ring is a gapless suffix of what the
\* current supervisor process emitted (retainEvent): whatever the limits and the
\* sizes of the events.
THEOREM TypeAndRing == Spec => [](TypeOK /\ RingIsSuffix)
<1>1. RingInv => TypeOK /\ RingIsSuffix
  BY DEF RingInv
<1>2. QED BY <1>1, InitRingInv, StepRingInv, PTL DEF Spec

-----------------------------------------------------------------------------
(* The stream of a server: from the snapshot it attached with, over the     *)
(* replay and the events it buffers, to the frames on its socket, up to what *)
(* the supervisor has emitted. The parts of the inductive invariant.         *)

\* The events of es are those after number from of supervisor process p.
Steady(es, from, p) == \A i \in 1..Len(es) : es[i].seq = from + i /\ es[i].epoch = p

\* So are the events among the frames fs, and each frame tells where it stands.
Advance(f) == IF f.type = "event" THEN 1 ELSE 0

Continues(f, n, p) ==
  /\ f.upto = n + Advance(f)
  /\ f.type = "event" => f.event.seq = f.upto /\ f.event.epoch = p

Chain(fs, from, p) ==
  \A i \in 1..Len(fs) :
    /\ Continues(fs[i], IF i = 1 THEN from ELSE fs[i - 1].upto, p)
    /\ i > 1 => fs[i].type # "attached"

EndOf(fs, from) == IF fs = <<>> THEN from ELSE fs[Len(fs)].upto

\* The snapshot is still on the socket; the numbers and the process of the stream.
Answered(s) == frames[s] # <<>> /\ frames[s][1].type = "attached"
Base(s)     == IF phase[s] = "starting" THEN snapshot[s].latest ELSE lastSequence[s]
From(s)     == IF Answered(s) THEN frames[s][1].upto ELSE Base(s) + Len(startupEvents[s])
Process(s)  == IF Answered(s) THEN frames[s][1].epoch ELSE snapshot[s].epoch

Lifecycle(s) ==
  /\ phase[s] \in {"new", "attaching"} =>
       /\ startupEvents[s] = <<>>
       /\ lastSequence[s] = NoSeq /\ discontinuities[s] = {} /\ dispatched[s] = <<>>
  /\ phase[s] # "starting" => pendingReplay[s] = <<>>
  /\ phase[s] = "live" => lastSequence[s] # NoSeq
  /\ connected[s] => phase[s] \in {"attaching", "starting", "live"}
  /\ ~connected[s] => frames[s] = <<>>
  /\ frames[s] # <<>> => (phase[s] = "attaching" <=> frames[s][1].type = "attached")

\* An attach is asked for once, with the server's cursor, before anything is sent.
Asking(s) ==
  /\ phase[s] = "new" => requests[s] = <<>> /\ s \notin clients /\ controller # s
  /\ \A i \in 1..Len(requests[s]) : requests[s][i].type = "attach" =>
       /\ i = 1 /\ requests[s][1].cursor = cursor[s]
       /\ phase[s] \in {"attaching", "gone"} /\ frames[s] = <<>> /\ controller # s

\* What the controller has taken and what is on its socket is all there is.
Served(s) ==
  controller = s /\ connected[s] =>
    /\ EndOf(frames[s], From(s)) = sequence /\ Process(s) = epoch
    /\ phase[s] = "attaching" => frames[s] # <<>>

\* A cursor is not ahead of the supervisor.
Behind(c) == 1 <= c.epoch /\ c.epoch <= epoch /\ (c.epoch = epoch => c.seq <= sequence)

CursorOf(f) == [epoch |-> f.epoch, seq |-> f.upto]

CursorsBehind ==
  /\ 1 <= epoch
  /\ \A h \in handoffs : Behind(h)
  /\ \A s \in Servers : cursor[s] = NoCursor \/ Behind(cursor[s])
  /\ \A s \in Servers : \A i \in 1..Len(frames[s]) :
       frames[s][i].type = "handoff" => Behind(CursorOf(frames[s][i]))

\* The snapshot f answers cursor c: a steady replay up to it, that starts at the
\* cursor unless it says that something is missing.
Replies(f, c) ==
  /\ Steady(f.replay, f.upto - Len(f.replay), f.epoch)
  /\ f.upto = 0 => f.replay = <<>>
  /\ c.epoch = f.epoch =>
       c.seq <= f.upto /\ (~f.gap /\ f.replay # <<>> => c.seq = f.upto - Len(f.replay))
  /\ c.epoch # f.epoch /\ ~f.gap => c = NoCursor /\ f.replay = <<>>

Replaying(s) ==
  phase[s] = "starting" =>
    /\ Steady(pendingReplay[s], snapshot[s].latest - Len(pendingReplay[s]), snapshot[s].epoch)
    /\ lastSequence[s] # NoSeq =>
         /\ lastSequence[s] <= snapshot[s].latest
         /\ pendingReplay[s] # <<>> => lastSequence[s] = snapshot[s].latest - Len(pendingReplay[s])
    /\ lastSequence[s] = NoSeq =>
         /\ snapshot[s].latest > 0 /\ dispatched[s] = <<>>
         /\ pendingReplay[s] # <<>> => discontinuities[s] # {}

Flows(s) ==
  /\ Chain(frames[s], From(s), Process(s))
  /\ Answered(s) => Replies(frames[s][1], cursor[s])
  /\ Steady(startupEvents[s], Base(s), snapshot[s].epoch)

\* NoSilentLoss and SequenceIntact for one server.
Honest(s) ==
  /\ discontinuities[s] \cap {"envelope", "duplicate", "missing"} = {}
  /\ discontinuities[s] = {} /\ lastSequence[s] # NoSeq =>
       /\ lastSequence[s] = cursor[s].seq + Len(dispatched[s])
       /\ \A i \in 1..Len(dispatched[s]) : dispatched[s][i] = cursor[s].seq + i

Active(s) ==
    /\ s \in clients /\ connected[s] /\ (phase[s] \in {"starting", "live"} \/ frames[s] # <<>>)
    /\ \A i \in 1..Len(frames[s]) : frames[s][i].type # "fenced"
    => controller = s

ServerInv(s) ==
  /\ Lifecycle(s) /\ Asking(s) /\ Served(s) /\ Replaying(s) /\ Flows(s) /\ Honest(s)
  /\ Active(s)

StreamInv ==
  /\ RingInv /\ Len(events) <= sequence /\ CursorsBehind
  /\ \A s \in Servers : ServerInv(s)

-----------------------------------------------------------------------------
(* Frames read from the head of a chain and written to its end *)

LEMMA TailAt ==
  ASSUME NEW S, NEW q \in Seq(S), q # <<>>
  PROVE  /\ Head(q) = q[1] /\ q[1] \in S /\ Tail(q) \in Seq(S)
         /\ Len(Tail(q)) = Len(q) - 1 /\ Len(q) \in Nat \ {0}
         /\ \A i \in 1..(Len(q) - 1) : Tail(q)[i] = q[i + 1]
OBVIOUS

LEMMA AppendAt ==
  ASSUME NEW S, NEW q \in Seq(S), NEW x \in S
  PROVE  /\ Append(q, x) \in Seq(S) /\ Len(Append(q, x)) = Len(q) + 1 /\ Len(q) \in Nat
         /\ Append(q, x) # <<>>
         /\ \A i \in 1..Len(q) : Append(q, x)[i] = q[i]
         /\ Append(q, x)[Len(q) + 1] = x
OBVIOUS

LEMMA EmptyIs ==
  ASSUME NEW S, NEW q \in Seq(S)
  PROVE  q = <<>> <=> Len(q) = 0
OBVIOUS

LEMMA ChainTail ==
  ASSUME NEW fs \in Seq(HostFrame), fs # <<>>, NEW from, NEW p, Chain(fs, from, p)
  PROVE  /\ Chain(Tail(fs), fs[1].upto, p)
         /\ EndOf(Tail(fs), fs[1].upto) = EndOf(fs, from)
         /\ Tail(fs) # <<>> => Tail(fs)[1].type # "attached"
         /\ Continues(fs[1], from, p)
<1> DEFINE n == Len(fs)
<1>1. /\ Tail(fs) \in Seq(HostFrame) /\ Len(Tail(fs)) = n - 1 /\ n \in Nat \ {0}
      /\ \A i \in 1..(n - 1) : Tail(fs)[i] = fs[i + 1]
  BY TailAt
<1>2. \A i \in 1..n : /\ Continues(fs[i], IF i = 1 THEN from ELSE fs[i - 1].upto, p)
                      /\ i > 1 => fs[i].type # "attached"
  BY DEF Chain
<1>3. \A i \in 1..(n - 1) :
        /\ Continues(fs[i + 1], fs[i].upto, p) /\ fs[i + 1].type # "attached"
  <2>1. TAKE i \in 1..(n - 1)
  <2>2. i + 1 \in 1..n /\ i + 1 # 1 /\ i + 1 > 1 /\ (i + 1) - 1 = i
    BY <1>1
  <2>3. QED BY <1>2, <2>2
<1>4. Chain(Tail(fs), fs[1].upto, p)
  <2>1. ASSUME NEW i \in 1..(n - 1)
        PROVE  /\ Continues(Tail(fs)[i], IF i = 1 THEN fs[1].upto ELSE Tail(fs)[i - 1].upto, p)
               /\ Tail(fs)[i].type # "attached"
    <3>1. CASE i = 1
      BY <1>1, <1>3, <3>1
    <3>2. CASE i # 1
      <4>1. i - 1 \in 1..(n - 1) /\ (i - 1) + 1 = i
        BY <1>1, <3>2
      <4>2. Tail(fs)[i - 1] = fs[i]
        BY <1>1, <4>1
      <4>3. QED BY <1>1, <1>3, <3>2, <4>2
    <3>3. QED BY <3>1, <3>2
  <2>2. QED BY <1>1, <2>1 DEF Chain
<1>5. EndOf(Tail(fs), fs[1].upto) = EndOf(fs, from)
  <2>1. CASE n = 1
    <3>1. Tail(fs) = <<>>
      <4>1. Tail(fs) \in Seq(HostFrame) /\ Len(Tail(fs)) = 0
        BY <1>1, <2>1
      <4>2. QED BY <4>1, EmptyIs
    <3>2. QED BY <2>1, <3>1 DEF EndOf
  <2>2. CASE n # 1
    <3>1. Tail(fs) # <<>>
      <4>1. Tail(fs) \in Seq(HostFrame) /\ Len(Tail(fs)) # 0
        BY <1>1, <2>2
      <4>2. QED BY <4>1, EmptyIs
    <3>3. (n - 1) + 1 = n /\ n - 1 \in 1..(n - 1)
      BY <1>1, <2>2
    <3>4. Tail(fs)[n - 1] = fs[n]
      BY <1>1, <3>3
    <3>2. QED BY <1>1, <3>1, <3>4 DEF EndOf
  <2>3. QED BY <2>1, <2>2
<1>6. Tail(fs) # <<>> => Tail(fs)[1].type # "attached"
  <2>1. Tail(fs) # <<>> => 1 \in 1..(n - 1)
    BY <1>1
  <2>2. QED BY <1>1, <1>3, <2>1
<1>7. Continues(fs[1], from, p)
  <2>1. 1 \in 1..n
    BY <1>1
  <2>2. QED BY <1>2, <2>1
<1>8. QED BY <1>4, <1>5, <1>6, <1>7

\* What a longer socket gs keeps of fs: the frame at its head.
SameHead(fs, gs) ==
  /\ gs # <<>>
  /\ IF fs = <<>> THEN gs[1].type # "attached" ELSE gs[1] = fs[1]

LEMMA ChainAppend ==
  ASSUME NEW fs \in Seq(HostFrame), NEW f \in HostFrame, NEW from, NEW p,
         Chain(fs, from, p), Continues(f, EndOf(fs, from), p), f.type # "attached"
  PROVE  /\ Append(fs, f) \in Seq(HostFrame)
         /\ Chain(Append(fs, f), from, p)
         /\ EndOf(Append(fs, f), from) = f.upto
         /\ SameHead(fs, Append(fs, f))
<1> DEFINE n == Len(fs)
           gs == Append(fs, f)
<1>1. /\ gs \in Seq(HostFrame) /\ Len(gs) = n + 1 /\ n \in Nat /\ gs # <<>>
      /\ \A i \in 1..n : gs[i] = fs[i]
      /\ gs[n + 1] = f
  BY AppendAt
<1> HIDE DEF gs
<1>2. ASSUME NEW i \in 1..(n + 1)
      PROVE  /\ Continues(gs[i], IF i = 1 THEN from ELSE gs[i - 1].upto, p)
             /\ i > 1 => gs[i].type # "attached"
  <2>1. CASE i \in 1..n
    <3>1. /\ Continues(fs[i], IF i = 1 THEN from ELSE fs[i - 1].upto, p)
          /\ i > 1 => fs[i].type # "attached"
      BY <2>1 DEF Chain
    <3>2. i # 1 => gs[i - 1] = fs[i - 1]
      BY <1>1, <2>1
    <3>3. QED BY <1>1, <2>1, <3>1, <3>2
  <2>2. CASE i = n + 1
    <3>1. (IF i = 1 THEN from ELSE gs[i - 1].upto) = EndOf(fs, from)
      <4>1. CASE n = 0
        <5>1. fs = <<>> /\ i = 1
          BY <2>2, <4>1
        <5>2. QED BY <5>1 DEF EndOf
      <4>2. CASE n # 0
        <5>1. fs # <<>> /\ i # 1 /\ i - 1 = n /\ n \in 1..n
          BY <1>1, <2>2, <4>2
        <5>2. QED BY <1>1, <5>1 DEF EndOf
      <4>3. QED BY <4>1, <4>2
    <3>2. QED BY <1>1, <2>2, <3>1
  <2>3. QED BY <1>1, <2>1, <2>2
<1>3. Chain(gs, from, p)
  BY <1>1, <1>2 DEF Chain
<1>4. EndOf(gs, from) = f.upto
  BY <1>1 DEF EndOf
<1>5. SameHead(fs, gs)
  <2>1. CASE fs = <<>>
    <3>1. n = 0
      BY <2>1
    <3>2. QED BY <1>1, <2>1, <3>1 DEF SameHead
  <2>2. CASE fs # <<>>
    <3>1. 1 \in 1..n
      BY <1>1, <2>2
    <3>2. QED BY <1>1, <2>2, <3>1 DEF SameHead
  <2>3. QED BY <2>1, <2>2
<1>6. QED BY <1>1, <1>3, <1>4, <1>5 DEF gs

\* The first event of a steady sequence, and what is left of it.
LEMMA SteadyTail ==
  ASSUME NEW es \in Seq(Event), es # <<>>, NEW from \in Int, NEW p, Steady(es, from, p)
  PROVE  /\ es[1].seq = from + 1 /\ es[1].epoch = p
         /\ Steady(Tail(es), from + 1, p)
<1>1. /\ Tail(es) \in Seq(Event) /\ Len(Tail(es)) = Len(es) - 1 /\ Len(es) \in Nat \ {0}
      /\ \A i \in 1..(Len(es) - 1) : Tail(es)[i] = es[i + 1]
  BY TailAt
<1>2. \A i \in 1..Len(es) : es[i].seq = from + i /\ es[i].epoch = p
  BY DEF Steady
<1>3. es[1].seq = from + 1 /\ es[1].epoch = p
  BY <1>1, <1>2
<1>4. ASSUME NEW i \in 1..(Len(es) - 1)
      PROVE  Tail(es)[i].seq = (from + 1) + i /\ Tail(es)[i].epoch = p
  <2>1. i + 1 \in 1..Len(es) /\ from + (i + 1) = (from + 1) + i
    BY <1>1
  <2>2. QED BY <1>1, <1>2, <2>1
<1>5. QED BY <1>1, <1>3, <1>4 DEF Steady

LEMMA SteadyAppend ==
  ASSUME NEW es \in Seq(Event), NEW e \in Event, NEW from \in Int, NEW p, Steady(es, from, p),
         e.seq = from + Len(es) + 1, e.epoch = p
  PROVE  Steady(Append(es, e), from, p)
<1>1. /\ Len(Append(es, e)) = Len(es) + 1 /\ Len(es) \in Nat
      /\ \A i \in 1..Len(es) : Append(es, e)[i] = es[i]
      /\ Append(es, e)[Len(es) + 1] = e
  BY AppendAt
<1>2. ASSUME NEW i \in 1..(Len(es) + 1)
      PROVE  Append(es, e)[i].seq = from + i /\ Append(es, e)[i].epoch = p
  <2>1. CASE i \in 1..Len(es)
    BY <1>1, <2>1 DEF Steady
  <2>2. CASE i = Len(es) + 1
    BY <1>1, <2>2
  <2>3. QED BY <1>1, <2>1, <2>2
<1>3. QED BY <1>1, <1>2 DEF Steady

-----------------------------------------------------------------------------
(* Servers that a step leaves alone, and servers that are written to *)

\* Everything of a server that the invariant looks at.
Untouched(q) ==
  /\ phase'[q] = phase[q] /\ connected'[q] = connected[q] /\ cursor'[q] = cursor[q]
  /\ snapshot'[q] = snapshot[q] /\ pendingReplay'[q] = pendingReplay[q]
  /\ startupEvents'[q] = startupEvents[q] /\ lastSequence'[q] = lastSequence[q]
  /\ discontinuities'[q] = discontinuities[q] /\ dispatched'[q] = dispatched[q]

\* A server that keeps its socket stays what it is; it may lose the supervisor,
\* and only the controller's stream has to keep up with what is emitted.
LEMMA RestsKeeps ==
  ASSUME NEW q \in Servers, ServerInv(q), Untouched(q), frames'[q] = frames[q],
         requests[q] \in Seq(ClientFrame),
         \/ requests'[q] = requests[q]
         \/ requests[q] # <<>> /\ requests'[q] = Tail(requests[q])
         \/ requests'[q] = <<>>
         \/ \E r \in ClientFrame : /\ r.type # "attach" /\ phase[q] # "new"
                                   /\ requests'[q] = Append(requests[q], r),
         q \in clients' => q \in clients,
         controller' = q => controller = q /\ (connected[q] => UNCHANGED <<epoch, sequence>>),
         controller = q /\ connected[q] /\ q \in clients' => controller' = q
  PROVE  ServerInv(q)'
<1> USE DEF Untouched
<1>1. Lifecycle(q)'
  BY DEF ServerInv, Lifecycle
<1>2. Asking(q)'
  <2>1. ASSUME NEW i \in 1..Len(requests'[q]), requests'[q][i].type = "attach"
        PROVE  i \in 1..Len(requests[q]) /\ i = 1 /\ requests'[q][i] = requests[q][i]
    <3>1. CASE requests'[q] = requests[q]
      BY <2>1, <3>1 DEF ServerInv, Asking
    <3>2. CASE requests[q] # <<>> /\ requests'[q] = Tail(requests[q])
      <4>1. i + 1 \in 1..Len(requests[q]) /\ requests[q][i + 1].type = "attach" /\ i + 1 # 1
        BY <2>1, <3>2, TailAt
      <4>2. QED BY <4>1 DEF ServerInv, Asking
    <3>3. CASE requests'[q] = <<>>
      BY <2>1, <3>3
    <3>4. CASE \E r \in ClientFrame : r.type # "attach" /\ phase[q] # "new" /\ requests'[q] = Append(requests[q], r)
      <4>1. PICK r \in ClientFrame : r.type # "attach" /\ requests'[q] = Append(requests[q], r)
        BY <3>4
      <4>2. i \in 1..Len(requests[q]) /\ requests'[q][i] = requests[q][i]
        BY <2>1, <4>1, AppendAt
      <4>3. QED BY <2>1, <4>2 DEF ServerInv, Asking
    <3>5. QED BY <3>1, <3>2, <3>3, <3>4
  <2>2. phase[q] = "new" => requests'[q] = <<>>
    <3>1. CASE phase[q] = "new"
      <4>1. requests[q] = <<>>
        BY <3>1 DEF ServerInv, Asking
      <4>2. QED BY <3>1, <4>1
    <3>2. QED BY <3>1
  <2>3. QED BY <2>1, <2>2 DEF ServerInv, Asking
<1>3. From(q)' = From(q) /\ Process(q)' = Process(q) /\ Answered(q)' = Answered(q) /\ Base(q)' = Base(q)
  BY DEF From, Process, Answered, Base
<1>4. Served(q)'
  BY <1>3 DEF ServerInv, Served
<1>5. Replaying(q)'
  BY DEF ServerInv, Replaying
<1>6. Flows(q)'
  BY <1>3 DEF ServerInv, Flows
<1>7. Honest(q)'
  BY DEF ServerInv, Honest
<1>8. Active(q)'
  BY DEF ServerInv, Active
<1>9. QED BY <1>1, <1>2, <1>4, <1>5, <1>6, <1>7, <1>8 DEF ServerInv

\* Frames that continue the controller's stream up to what is emitted.
LEMMA WrittenKeeps ==
  ASSUME NEW q \in Servers, ServerInv(q), Untouched(q), NEW gs \in Seq(HostFrame), frames'[q] = gs,
         controller = q, connected[q], epoch' = epoch,
         SameHead(frames[q], gs), Chain(gs, From(q), Process(q)), EndOf(gs, From(q)) = sequence',
         requests[q] \in Seq(ClientFrame),
         requests'[q] = requests[q] \/ (requests[q] # <<>> /\ requests'[q] = Tail(requests[q])),
         \/ controller' = q
         \/ \E i \in 1..Len(gs) : gs[i].type = "fenced"
  PROVE  ServerInv(q)'
<1> USE DEF Untouched
<1>a. phase[q] \in {"attaching", "starting", "live"} /\ (phase[q] = "attaching" => frames[q] # <<>>)
  BY DEF ServerInv, Lifecycle, Served
<1>1. Lifecycle(q)'
  BY <1>a DEF ServerInv, Lifecycle, SameHead
<1>r. \A i \in 1..Len(requests'[q]) : requests'[q][i].type # "attach"
  <2>1. \A i \in 1..Len(requests[q]) : requests[q][i].type # "attach"
    BY DEF ServerInv, Asking
  <2>2. CASE requests[q] # <<>> /\ requests'[q] = Tail(requests[q])
    <3>1. ASSUME NEW i \in 1..Len(requests'[q]) PROVE requests'[q][i].type # "attach"
      <4>1. i + 1 \in 1..Len(requests[q]) /\ requests'[q][i] = requests[q][i + 1]
        BY <2>2, TailAt
      <4>2. QED BY <2>1, <4>1
    <3>2. QED BY <3>1
  <2>3. QED BY <2>1, <2>2
<1>2. Asking(q)'
  BY <1>a, <1>r DEF ServerInv, Asking
<1>3. From(q)' = From(q) /\ Process(q)' = Process(q) /\ Answered(q)' = Answered(q) /\ Base(q)' = Base(q)
  <2>1. Answered(q)' = Answered(q)
    BY DEF Answered, SameHead
  <2>2. Answered(q) => frames'[q][1] = frames[q][1]
    BY DEF Answered, SameHead
  <2>3. Base(q)' = Base(q)
    BY DEF Base
  <2>4. QED BY <2>1, <2>2, <2>3 DEF From, Process
<1>4. Served(q)'
  BY <1>a, <1>3 DEF ServerInv, Served, SameHead
<1>5. Replaying(q)'
  BY DEF ServerInv, Replaying
<1>6. Flows(q)'
  <2>1. Answered(q)' => frames'[q][1] = frames[q][1]
    BY <1>3 DEF Answered, SameHead
  <2>2. QED BY <1>3, <2>1 DEF ServerInv, Flows
<1>7. Honest(q)'
  BY DEF ServerInv, Honest
<1>8. Active(q)'
  BY DEF ServerInv, Active
<1>9. QED BY <1>1, <1>2, <1>4, <1>5, <1>6, <1>7, <1>8 DEF ServerInv

\* The stream the controller is written to ends at what is emitted.
LEMMA ControllerStream ==
  ASSUME NEW q \in Servers, ServerInv(q), controller = q, connected[q]
  PROVE  /\ Chain(frames[q], From(q), Process(q))
         /\ EndOf(frames[q], From(q)) = sequence /\ Process(q) = epoch
BY DEF ServerInv, Flows, Served

\* A frame that is no event is written to the controller.
LEMMA NoteWritten ==
  ASSUME StreamInv, NEW q \in Servers, controller = q, connected[q],
         NEW f \in HostFrame, f.type \notin {"event", "attached"}, f.upto = sequence,
         frames'[q] = Append(frames[q], f), UNCHANGED <<epoch, sequence, serverVars>>,
         requests'[q] = requests[q] \/ (requests[q] # <<>> /\ requests'[q] = Tail(requests[q])),
         controller' = q \/ f.type = "fenced"
  PROVE  ServerInv(q)'
<1>1. /\ frames[q] \in Seq(HostFrame) /\ requests[q] \in Seq(ClientFrame) /\ sequence \in Nat /\ ServerInv(q)
  BY DEF StreamInv, RingInv, TypeOK
<1>2. Continues(f, sequence, epoch)
  BY <1>1 DEF Continues, Advance
<1>3. /\ Append(frames[q], f) \in Seq(HostFrame)
      /\ Chain(Append(frames[q], f), From(q), Process(q))
      /\ EndOf(Append(frames[q], f), From(q)) = sequence
      /\ SameHead(frames[q], Append(frames[q], f))
  BY <1>1, <1>2, ControllerStream, ChainAppend
<1>4. Untouched(q)
  BY DEF Untouched, serverVars
<1>5. \A i \in {Len(frames[q]) + 1} : i \in 1..Len(Append(frames[q], f)) /\ Append(frames[q], f)[i] = f
  BY <1>1, AppendAt
<1>6. QED BY <1>1, <1>3, <1>4, <1>5, WrittenKeeps

-----------------------------------------------------------------------------
(* The steps of the supervisor *)

\* Requests of q after a step: those it had, or without the first.
Served1(q) == requests'[q] = requests[q] \/ (requests[q] # <<>> /\ requests'[q] = Tail(requests[q]))

\* An emitted event, and the answer behind it, continue every stream.
LEMMA EmitKeepsStreams ==
  ASSUME StreamInv, NEW t \in Tabs, NEW b \in Sizes, NEW reply \in Seq(HostFrame), EmitThen(t, b, reply),
         \/ reply = <<>>
         \/ \E g \in HostFrame : /\ reply = <<g>> /\ g.type \notin {"event", "attached"}
                                 /\ g.upto = sequence + 1,
         UNCHANGED <<epoch, controller, clients, serverVars>>,
         \A q \in Servers : Served1(q)
  PROVE  Len(events') <= sequence' /\ \A q \in Servers : ServerInv(q)'
<1> DEFINE e == [epoch |-> epoch, seq |-> sequence + 1, tab |-> t, bytes |-> b]
           f == [type |-> "event", upto |-> sequence + 1, event |-> e]
<1>t. /\ epoch \in Nat /\ sequence \in Nat /\ events \in Seq(Event)
      /\ frames \in [Servers -> Seq(HostFrame)] /\ requests \in [Servers -> Seq(ClientFrame)]
  BY DEF StreamInv, RingInv, TypeOK
<1>1. e \in Event /\ e.seq = sequence + 1 /\ e.epoch = epoch
  BY <1>t DEF Event
<1>2. f \in HostFrame /\ f.type = "event" /\ f.upto = sequence + 1 /\ f.event = e
  <2> HIDE DEF e
  <2>1. QED BY <1>t, <1>1 DEF HostFrame
<1>3. /\ sequence' = sequence + 1 /\ Retain(e)
      /\ frames' = [s \in Servers |->
                      IF Receives(s) /\ connected[s] THEN Append(frames[s], f) \o reply
                      ELSE frames[s]]
  BY DEF EmitThen
<1> HIDE DEF e, f
<1>4. Len(events') <= sequence'
  <2>1. Len(events) <= sequence
    BY DEF StreamInv
  <2>2. Append(events, e) \in Seq(Event) /\ Len(Append(events, e)) = Len(events) + 1 /\ Len(events) \in Nat
    BY <1>t, <1>1, AppendAt
  <2>3. CASE events' = <<>>
    BY <1>t, <1>3, <2>3
  <2>4. CASE \E k \in 0..Len(Append(events, e)) :
               events' = SubSeq(Append(events, e), k + 1, Len(Append(events, e)))
    <3>1. PICK k \in 0..Len(Append(events, e)) :
            events' = SubSeq(Append(events, e), k + 1, Len(Append(events, e)))
      BY <2>4
    <3>2. Len(events') = Len(Append(events, e)) - k
      BY <2>2, <3>1, SuffixOf
    <3>3. QED BY <1>t, <1>3, <2>1, <2>2, <3>2
  <2>5. QED BY <1>3, <2>3, <2>4, RetainCases
<1>5. ASSUME NEW q \in Servers PROVE ServerInv(q)'
  <2>1. Untouched(q) /\ ServerInv(q) /\ requests[q] \in Seq(ClientFrame) /\ frames[q] \in Seq(HostFrame)
    BY <1>t DEF Untouched, serverVars, StreamInv
  <2>2. CASE controller = q /\ connected[q]
    <3> DEFINE g1 == Append(frames[q], f)
    <3>1. /\ Chain(frames[q], From(q), Process(q))
          /\ EndOf(frames[q], From(q)) = sequence /\ Process(q) = epoch
      BY <2>1, <2>2, ControllerStream
    <3>2. Continues(f, sequence, epoch)
      BY <1>1, <1>2 DEF Continues, Advance
    <3>3. /\ g1 \in Seq(HostFrame) /\ Chain(g1, From(q), Process(q))
          /\ EndOf(g1, From(q)) = sequence + 1 /\ SameHead(frames[q], g1)
      BY <1>2, <2>1, <3>1, <3>2, ChainAppend
    <3>f. frames'[q] = g1 \o reply
      BY <1>3, <2>2 DEF Receives
    <3> HIDE DEF g1
    <3>4. CASE reply = <<>>
      <4>1. frames'[q] = g1
        BY <3>3, <3>4, <3>f
      <4>2. QED BY <1>3, <2>1, <2>2, <3>3, <4>1, WrittenKeeps DEF Served1
    <3>5. CASE \E g \in HostFrame : /\ reply = <<g>> /\ g.type \notin {"event", "attached"}
                                    /\ g.upto = sequence + 1
      <4>1. PICK g \in HostFrame : /\ reply = <<g>> /\ g.type \notin {"event", "attached"}
                                   /\ g.upto = sequence + 1
        BY <3>5
      <4> DEFINE g2 == Append(g1, g)
      <4>2. frames'[q] = g2
        BY <3>3, <3>f, <4>1
      <4>3. Continues(g, EndOf(g1, From(q)), Process(q))
        BY <1>t, <3>3, <4>1 DEF Continues, Advance
      <4>4. /\ g2 \in Seq(HostFrame) /\ Chain(g2, From(q), Process(q))
            /\ EndOf(g2, From(q)) = g.upto /\ SameHead(g1, g2)
        BY <3>3, <4>1, <4>3, ChainAppend
      <4> HIDE DEF g2
      <4>5. SameHead(frames[q], g2)
        BY <3>3, <4>4 DEF SameHead
      <4>6. EndOf(g2, From(q)) = sequence'
        BY <1>3, <4>1, <4>4
      <4>7. QED BY <2>1, <2>2, <4>2, <4>4, <4>5, <4>6, WrittenKeeps DEF Served1
    <3>6. QED BY <3>4, <3>5
  <2>3. CASE ~(controller = q /\ connected[q])
    <3>1. frames'[q] = frames[q]
      BY <1>3, <2>3 DEF Receives
    <3>2. QED BY <2>1, <2>3, <3>1, RestsKeeps DEF Served1
  <2>4. QED BY <2>2, <2>3
<1>6. QED BY <1>4, <1>5

\* A step that writes no answer to prepare_handoff keeps the cursors behind.
LEMMA BehindKeeps ==
  ASSUME CursorsBehind, TypeOK, epoch' = epoch, sequence' >= sequence, sequence' \in Nat, UNCHANGED <<handoffs, cursor>>,
         \A q \in Servers : \A i \in 1..Len(frames'[q]) : frames'[q][i].type = "handoff" =>
           \/ \E j \in 1..Len(frames[q]) : frames'[q][i] = frames[q][j]
           \/ frames'[q][i].epoch = epoch /\ frames'[q][i].upto = sequence
  PROVE  CursorsBehind'
<1>t. /\ epoch \in Nat /\ sequence \in Nat
      /\ \A h \in handoffs : h.epoch \in Nat /\ h.seq \in Nat
      /\ \A q \in Servers : cursor[q].epoch \in Nat /\ cursor[q].seq \in Nat
      /\ frames \in [Servers -> Seq(HostFrame)]
  BY DEF TypeOK
<1>1. ASSUME NEW c, c.epoch \in Nat, c.seq \in Nat, Behind(c)
      PROVE  1 <= c.epoch /\ c.epoch <= epoch' /\ (c.epoch = epoch' => c.seq <= sequence')
  BY <1>t, <1>1 DEF Behind
<1>2. \A h \in handoffs : Behind(h)'
  BY <1>t, <1>1 DEF CursorsBehind, Behind
<1>3. \A q \in Servers : cursor'[q] = NoCursor \/ Behind(cursor[q])'
  BY <1>t, <1>1 DEF CursorsBehind, Behind
<1>4. ASSUME NEW q \in Servers, NEW i \in 1..Len(frames'[q]), frames'[q][i].type = "handoff"
      PROVE  Behind(CursorOf(frames[q][i]))'
  <2>1. CASE \E j \in 1..Len(frames[q]) : frames'[q][i] = frames[q][j]
    <3>1. PICK j \in 1..Len(frames[q]) : frames'[q][i] = frames[q][j]
      BY <2>1
    <3>2. frames[q][j] \in HostFrame /\ frames[q][j].type = "handoff"
      BY <1>t, <1>4, <3>1
    <3>3. frames[q][j].epoch \in Nat /\ frames[q][j].upto \in Nat
      BY <3>2 DEF HostFrame
    <3>4. Behind(CursorOf(frames[q][j]))
      BY <3>2 DEF CursorsBehind
    <3>5. QED BY <1>t, <3>1, <3>3, <3>4 DEF Behind, CursorOf
  <2>2. CASE frames'[q][i].epoch = epoch /\ frames'[q][i].upto = sequence
    BY <1>t, <2>2 DEF Behind, CursorOf, CursorsBehind
  <2>3. QED BY <1>4, <2>1, <2>2
<1>5. QED BY <1>2, <1>3, <1>4 DEF CursorsBehind

\* What an attach is answered with replies to its cursor: the replay ends at the
\* newest event and starts behind the cursor, or it says that it does not.
LEMMA ReplyIsRight ==
  ASSUME StreamInv, NEW c \in [epoch : Nat, seq : Nat], c = NoCursor \/ Behind(c)
  PROVE  Replies(Attached(c), c)
<1> DEFINE f == Attached(c)
           n == Len(events)
<1>t. /\ events \in Seq(Event) /\ sequence \in Nat /\ epoch \in Nat /\ n \in Nat
      /\ c.epoch \in Nat /\ c.seq \in Nat /\ n <= sequence /\ 1 <= epoch
  <2>1. events \in Seq(Event) /\ sequence \in Nat /\ epoch \in Nat
    BY DEF StreamInv, RingInv, TypeOK
  <2>2. n <= sequence /\ 1 <= epoch
    BY DEF StreamInv, CursorsBehind
  <2>3. QED BY <2>1, <2>2
<1>r. \A i \in 1..n : events[i].seq = sequence - n + i /\ events[i].epoch = epoch
  BY DEF StreamInv, RingInv, RingIsSuffix
<1>f. f.upto = sequence /\ f.epoch = epoch /\ f.gap = ReplayFor(c).gap /\ f.replay = ReplayFor(c).events
  BY DEF Attached
<1>n. sequence = 0 => events = <<>>
  BY <1>t
<1> HIDE DEF f
<1>1. CASE c = NoCursor
  <2>1. f.replay = events /\ f.gap = (managed # {} \/ events # <<>>) /\ c.epoch # epoch
    BY <1>t, <1>1, <1>f DEF ReplayFor, NoCursor
  <2>2. Steady(f.replay, f.upto - Len(f.replay), f.epoch)
    BY <1>r, <1>f, <2>1 DEF Steady
  <2>3. QED BY <1>1, <1>f, <1>n, <2>1, <2>2 DEF Replies, f
<1>2. CASE c # NoCursor /\ c.epoch # epoch
  <2>1. f.replay = events /\ f.gap = TRUE
    BY <1>2, <1>f DEF ReplayFor
  <2>2. Steady(f.replay, f.upto - Len(f.replay), f.epoch)
    BY <1>r, <1>f, <2>1 DEF Steady
  <2>3. QED BY <1>2, <1>f, <1>n, <2>1, <2>2 DEF Replies, f
<1>3. CASE c # NoCursor /\ c.epoch = epoch
  <2>1. PICK k \in 0..n : /\ After(c) = SubSeq(events, k + 1, n)
                          /\ \A i \in 1..n : i > k <=> events[i].seq > c.seq
    BY AfterIs DEF StreamInv
  <2>2. f.replay = After(c)
    BY <1>3, <1>f DEF ReplayFor
  <2>3. /\ f.replay \in Seq(Event) /\ Len(f.replay) = n - k
        /\ \A i \in 1..(n - k) : f.replay[i] = events[k + i]
    BY <1>t, <2>1, <2>2, SuffixOf
  <2>4. Steady(f.replay, f.upto - Len(f.replay), f.epoch)
    <3>1. ASSUME NEW i \in 1..Len(f.replay)
          PROVE  f.replay[i].seq = (f.upto - Len(f.replay)) + i /\ f.replay[i].epoch = f.epoch
      <4>1. k + i \in 1..n /\ f.replay[i] = events[k + i]
        BY <1>t, <2>3, <3>1
      <4>2. f.replay[i].seq = sequence - n + (k + i) /\ f.replay[i].epoch = epoch
        BY <1>r, <4>1
      <4>3. QED BY <1>t, <1>f, <2>3, <4>2
    <3>2. QED BY <3>1 DEF Steady
  <2>5. f.upto = 0 => f.replay = <<>>
    BY <1>t, <1>f, <2>3
  <2>6. c.seq <= f.upto
    BY <1>3, <1>f DEF Behind
  <2>7. ASSUME ~f.gap, f.replay # <<>>
        PROVE  c.seq = f.upto - Len(f.replay)
    <3>1. k < n
      BY <1>t, <2>3, <2>7
    <3>2. events # <<>> /\ ~(c.seq + 1 < events[1].seq)
      <4>1. events # <<>>
        BY <1>t, <3>1
      <4>2. ReplayFor(c).gap = (c.seq + 1 < events[1].seq)
        BY <1>3, <4>1 DEF ReplayFor
      <4>3. QED BY <1>f, <2>7, <4>1, <4>2
    <3>3. events[1].seq = sequence - n + 1
      BY <1>t, <1>r, <3>1
    <3>4. events[k + 1].seq = sequence - n + (k + 1) /\ events[k + 1].seq > c.seq
      <4>1. k + 1 \in 1..n /\ k + 1 > k
        BY <1>t, <3>1
      <4>2. QED BY <1>r, <2>1, <4>1
    <3>5. k # 0 => events[k].seq = sequence - n + k /\ ~(events[k].seq > c.seq)
      <4>1. k # 0 => k \in 1..n /\ ~(k > k)
        BY <1>t
      <4>2. QED BY <1>r, <2>1, <4>1
    <3>6. c.seq = sequence - n + k
      <4>1. CASE k = 0
        BY <1>t, <3>2, <3>3, <3>4, <4>1
      <4>2. CASE k # 0
        BY <1>t, <3>4, <3>5, <4>2
      <4>3. QED BY <4>1, <4>2
    <3>7. QED BY <1>t, <1>f, <2>3, <3>6
  <2>8. QED BY <1>3, <1>f, <2>4, <2>5, <2>6, <2>7 DEF Replies, f
<1>4. QED BY <1>1, <1>2, <1>3

LEMMA AttachKeeps ==
  ASSUME StreamInv, NEW s \in Servers, HostAttach(s)
  PROVE  CursorsBehind' /\ \A q \in Servers : ServerInv(q)'
<1> DEFINE c == Head(requests[s]).cursor
<1>t. /\ epoch \in Nat /\ sequence \in Nat /\ controller \in Servers \cup {Nobody}
      /\ frames \in [Servers -> Seq(HostFrame)] /\ requests \in [Servers -> Seq(ClientFrame)]
      /\ cursor \in [Servers -> [epoch : Nat, seq : Nat]] /\ TypeOK
  BY DEF StreamInv, RingInv, TypeOK
<1>1. /\ requests[s] # <<>> /\ requests[s][1].type = "attach" /\ Head(requests[s]) = requests[s][1]
      /\ controller' = s /\ requests' = [requests EXCEPT ![s] = Tail(@)]
      /\ UNCHANGED <<epoch, sequence, events, clients, serverVars>> /\ s \in clients
      /\ frames' = [q \in Servers |->
                      IF connected[q] THEN frames[q] \o AttachFrames(q, s, c) ELSE frames[q]]
  <2>1. requests[s] # <<>> => Head(requests[s]) = requests[s][1]
    BY <1>t
  <2>2. QED BY <2>1 DEF HostAttach, HostHas, ringVars
<1>2. /\ c = cursor[s] /\ phase[s] \in {"attaching", "gone"} /\ frames[s] = <<>> /\ controller # s
      /\ Len(requests[s]) \in Nat \ {0}
  <2>1. 1 \in 1..Len(requests[s]) /\ Len(requests[s]) \in Nat \ {0}
    BY <1>t, <1>1
  <2>2. QED BY <1>1, <2>1 DEF StreamInv, ServerInv, Asking
<1>3. c \in [epoch : Nat, seq : Nat] /\ (c = NoCursor \/ Behind(c))
  BY <1>t, <1>2 DEF StreamInv, CursorsBehind
<1> HIDE DEF c
<1>4. Replies(Attached(c), c) /\ Attached(c) \in HostFrame
  <2>1. ReplayFor(c).gap \in BOOLEAN /\ ReplayFor(c).events \in Seq(Event)
    BY <1>3, ReplayTyped DEF StreamInv
  <2>2. managed \in SUBSET Tabs
    BY DEF managed
  <2>3. QED BY <1>3, <1>t, <2>1, <2>2, ReplyIsRight DEF Attached, HostFrame
<1>a. Attached(c).type = "attached" /\ Attached(c).upto = sequence /\ Attached(c).epoch = epoch
  BY DEF Attached
<1> DEFINE fenced == [type |-> "fenced", upto |-> sequence]
<1>f. fenced \in HostFrame /\ fenced.type = "fenced" /\ fenced.upto = sequence
  BY <1>t DEF HostFrame
<1> HIDE DEF fenced
<1>5. ASSUME NEW q \in Servers
      PROVE  IF ~connected[q] THEN frames'[q] = frames[q]
             ELSE IF q = s THEN frames'[q] = <<Attached(c)>>
             ELSE IF q = controller THEN frames'[q] = Append(frames[q], fenced)
             ELSE frames'[q] = frames[q]
  <2>1. frames[q] \in Seq(HostFrame)
    BY <1>t
  <2>2. CASE connected[q] /\ q = s
    <3>1. AttachFrames(q, s, c) = <<Attached(c)>> /\ frames[q] = <<>>
      BY <1>2, <2>2 DEF AttachFrames
    <3>2. <<>> \o <<Attached(c)>> = <<Attached(c)>>
      OBVIOUS
    <3>3. QED BY <1>1, <2>2, <3>1, <3>2
  <2>3. CASE connected[q] /\ q # s /\ q = controller
    <3>1. AttachFrames(q, s, c) = <<fenced>>
      BY <2>3 DEF AttachFrames, Fences, fenced
    <3>2. frames[q] \o <<fenced>> = Append(frames[q], fenced)
      BY <1>f, <2>1
    <3>3. QED BY <1>1, <2>3, <3>1, <3>2
  <2>4. CASE connected[q] /\ q # s /\ q # controller
    <3>1. AttachFrames(q, s, c) = <<>>
      BY <2>4 DEF AttachFrames
    <3>2. QED BY <1>1, <2>1, <2>4, <3>1
  <2>5. CASE ~connected[q]
    BY <1>1, <2>5
  <2>6. QED BY <2>2, <2>3, <2>4, <2>5
<1>6. CursorsBehind'
  <2>1. ASSUME NEW q \in Servers, NEW i \in 1..Len(frames'[q]), frames'[q][i].type = "handoff"
        PROVE  \E j \in 1..Len(frames[q]) : frames'[q][i] = frames[q][j]
    <3>1. frames[q] \in Seq(HostFrame)
      BY <1>t
    <3>2. CASE frames'[q] = frames[q]
      BY <2>1, <3>2
    <3>3. CASE frames'[q] = <<Attached(c)>>
      BY <1>a, <2>1, <3>3
    <3>4. CASE frames'[q] = Append(frames[q], fenced)
      <4>1. i \in 1..Len(frames[q]) \/ i = Len(frames[q]) + 1
        BY <1>f, <2>1, <3>1, <3>4, AppendAt
      <4>2. QED BY <1>f, <2>1, <3>1, <3>4, <4>1, AppendAt
    <3>5. QED BY <1>5, <3>2, <3>3, <3>4
  <2>2. QED BY <1>t, <1>1, <2>1, BehindKeeps DEF StreamInv, serverVars
<1>7. ASSUME NEW q \in Servers PROVE ServerInv(q)'
  <2>1. /\ Untouched(q) /\ ServerInv(q) /\ requests[q] \in Seq(ClientFrame) /\ frames[q] \in Seq(HostFrame)
        /\ Served1(q)
    BY <1>t, <1>1 DEF Untouched, serverVars, StreamInv, Served1
  <2>2. CASE q # s /\ ~(connected[q] /\ q = controller)
    <3>1. frames'[q] = frames[q] /\ controller' # q
      BY <1>1, <1>5, <2>2
    <3>2. QED BY <1>1, <2>1, <2>2, <3>1, RestsKeeps DEF Served1
  <2>3. CASE q # s /\ connected[q] /\ q = controller
    BY <1>1, <1>5, <1>f, <2>1, <2>3, NoteWritten DEF Served1
  <2>4. CASE q = s
    <3>r. \A i \in 1..Len(requests'[s]) : requests'[s][i].type # "attach"
      <4>1. ASSUME NEW i \in 1..Len(requests'[s]), requests'[s][i].type = "attach" PROVE FALSE
        <5>1. requests'[s] = Tail(requests[s])
          BY <1>t, <1>1
        <5>s. requests[s] \in Seq(ClientFrame) /\ requests[s] # <<>>
          BY <1>t, <1>1
        <5>2. i + 1 \in 1..Len(requests[s]) /\ requests[s][i + 1].type = "attach" /\ i + 1 # 1
          BY <4>1, <5>1, <5>s, TailAt
        <5>3. QED BY <2>1, <2>4, <5>2 DEF ServerInv, Asking
      <4>2. QED BY <4>1
    <3>2. Asking(s)'
      BY <1>1, <1>2, <2>1, <2>4, <3>r DEF Asking, Untouched
    <3>3. CASE ~connected[s]
      <4>1. frames'[s] = frames[s] /\ controller' = s /\ connected'[s] = FALSE
        BY <1>1, <1>5, <2>1, <2>4, <3>3 DEF Untouched
      <4>2. From(s)' = From(s) /\ Process(s)' = Process(s) /\ Answered(s)' = Answered(s) /\ Base(s)' = Base(s)
        BY <2>1, <2>4, <4>1 DEF From, Process, Answered, Base, Untouched
      <4>3. Lifecycle(s)'
        BY <2>1, <2>4, <4>1 DEF ServerInv, Lifecycle, Untouched
      <4>4. Flows(s)'
        BY <2>1, <2>4, <4>1, <4>2 DEF ServerInv, Flows, Untouched
      <4>5. Replaying(s)' /\ Honest(s)'
        BY <2>1, <2>4 DEF ServerInv, Replaying, Honest, Untouched
      <4>6. Served(s)' /\ Active(s)'
        BY <4>1 DEF Served, Active
      <4>7. QED BY <2>4, <3>2, <4>3, <4>4, <4>5, <4>6 DEF ServerInv
    <3>4. CASE connected[s]
      <4>1. /\ frames'[s] = <<Attached(c)>> /\ phase[s] = "attaching"
            /\ UNCHANGED <<epoch, sequence>> /\ controller' = s
        BY <1>1, <1>2, <1>5, <2>1, <2>4, <3>4 DEF ServerInv, Lifecycle
      <4>2. /\ frames'[s] # <<>> /\ frames'[s][1] = Attached(c) /\ Len(frames'[s]) = 1
            /\ Answered(s)' /\ From(s)' = sequence /\ Process(s)' = epoch
        BY <1>a, <4>1 DEF Answered, From, Process
      <4>u. Untouched(s) /\ Lifecycle(s)
        BY <2>1, <2>4 DEF ServerInv
      <4>3. Lifecycle(s)'
        BY <1>a, <3>4, <4>1, <4>2, <4>u DEF Lifecycle, Untouched
      <4>4. Served(s)'
        BY <1>a, <4>1, <4>2 DEF Served, EndOf
      <4>5. Chain(frames'[s], sequence, epoch)
        BY <1>a, <1>t, <4>2 DEF Chain, Continues, Advance
      <4>6. Replies(frames'[s][1], cursor'[s])
        BY <1>2, <1>4, <2>1, <2>4, <4>2 DEF Untouched
      <4>b. startupEvents[s] = <<>> /\ startupEvents'[s] = <<>>
        BY <2>1, <2>4, <4>1 DEF ServerInv, Lifecycle, Untouched
      <4>7. Steady(startupEvents[s], Base(s), snapshot[s].epoch)'
        BY <4>b DEF Steady
      <4>8. Flows(s)'
        BY <4>2, <4>5, <4>6, <4>7 DEF Flows
      <4>9. Replaying(s)' /\ Honest(s)'
        BY <2>1, <2>4 DEF ServerInv, Replaying, Honest, Untouched
      <4>10. Active(s)'
        BY <4>1 DEF Active
      <4>11. QED BY <2>4, <3>2, <4>3, <4>4, <4>8, <4>9, <4>10 DEF ServerInv
    <3>5. QED BY <3>3, <3>4
  <2>5. QED BY <2>2, <2>3, <2>4
<1>8. QED BY <1>6, <1>7

\* The steps that write no frame.
LEMMA SilentHostKeeps ==
  ASSUME StreamInv, NEW s \in Servers, HostAttachTimeout(s) \/ HostRefuse(s) \/ HostSocketClose(s)
  PROVE  Len(events') <= sequence' /\ CursorsBehind' /\ \A q \in Servers : ServerInv(q)'
<1>t. /\ sequence \in Nat /\ TypeOK
      /\ frames \in [Servers -> Seq(HostFrame)] /\ requests \in [Servers -> Seq(ClientFrame)]
  BY DEF StreamInv, RingInv, TypeOK
<1>1. /\ UNCHANGED <<epoch, sequence, events, frames, serverVars>> /\ clients' \subseteq clients
      /\ \A q \in Servers : Served1(q)
      /\ \/ controller' = controller
         \/ controller' = Nobody /\ controller = s /\ ~connected[s]
  BY <1>t DEF HostAttachTimeout, HostRefuse, HostSocketClose, AfterClose, ringVars, hostVars, socketVars, Served1
<1>2. CursorsBehind'
  BY <1>t, <1>1, BehindKeeps DEF StreamInv, serverVars
<1>3. ASSUME NEW q \in Servers PROVE ServerInv(q)'
  <2>1. /\ Untouched(q) /\ ServerInv(q) /\ requests[q] \in Seq(ClientFrame) /\ frames'[q] = frames[q]
    BY <1>t, <1>1 DEF Untouched, serverVars, StreamInv
  <2>2. QED BY <1>1, <2>1, RestsKeeps DEF Served1
<1>4. QED BY <1>1, <1>2, <1>3 DEF StreamInv

\* An answer to the controller, behind what it has been sent.
LEMMA SendKeeps ==
  ASSUME StreamInv, NEW s \in Servers, controller = s,
         NEW f \in HostFrame, f.type \notin {"event", "attached"}, f.upto = sequence,
         f.type = "handoff" => f.epoch = epoch,
         frames' = Send(s, <<f>>), UNCHANGED <<epoch, sequence, events, clients, controller, serverVars>>,
         \A q \in Servers : Served1(q)
  PROVE  Len(events') <= sequence' /\ CursorsBehind' /\ \A q \in Servers : ServerInv(q)'
<1>t. /\ sequence \in Nat /\ TypeOK
      /\ frames \in [Servers -> Seq(HostFrame)] /\ requests \in [Servers -> Seq(ClientFrame)]
  BY DEF StreamInv, RingInv, TypeOK
<1>1. ASSUME NEW q \in Servers
      PROVE  frames'[q] = IF q = s /\ connected[q] THEN Append(frames[q], f) ELSE frames[q]
  <2>1. frames[q] \o <<f>> = Append(frames[q], f)
    BY <1>t
  <2>2. QED BY <1>t, <2>1 DEF Send
<1>2. CursorsBehind'
  <2>1. ASSUME NEW q \in Servers, NEW i \in 1..Len(frames'[q]), frames'[q][i].type = "handoff"
        PROVE  \/ \E j \in 1..Len(frames[q]) : frames'[q][i] = frames[q][j]
               \/ frames'[q][i].epoch = epoch /\ frames'[q][i].upto = sequence
    <3>1. CASE q = s /\ connected[q]
      <4>s. frames[q] \in Seq(HostFrame)
        BY <1>t
      <4> DEFINE g == Append(frames[q], f)
      <4>1. /\ Len(g) = Len(frames[q]) + 1 /\ Len(frames[q]) \in Nat
            /\ \A j \in 1..Len(frames[q]) : g[j] = frames[q][j]
            /\ g[Len(frames[q]) + 1] = f
        BY <4>s, AppendAt
      <4>2. frames'[q] = g
        BY <1>1, <3>1
      <4> HIDE DEF g
      <4>3. i \in 1..Len(frames[q]) \/ i = Len(frames[q]) + 1
        BY <2>1, <4>1, <4>2
      <4>4. CASE i \in 1..Len(frames[q])
        BY <4>1, <4>2, <4>4
      <4>5. CASE i = Len(frames[q]) + 1
        BY <2>1, <4>1, <4>2, <4>5
      <4>6. QED BY <4>3, <4>4, <4>5
    <3>2. CASE ~(q = s /\ connected[q])
      BY <1>1, <2>1, <3>2
    <3>3. QED BY <3>1, <3>2
  <2>2. CursorsBehind /\ UNCHANGED <<handoffs, cursor>> /\ epoch' = epoch /\ sequence' = sequence
    BY DEF StreamInv, serverVars
  <2>3. sequence' >= sequence /\ sequence' \in Nat
    BY <1>t, <2>2
  <2>4. \A q \in Servers : \A i \in 1..Len(frames'[q]) : frames'[q][i].type = "handoff" =>
           \/ \E j \in 1..Len(frames[q]) : frames'[q][i] = frames[q][j]
           \/ frames'[q][i].epoch = epoch /\ frames'[q][i].upto = sequence
    BY <2>1
  <2>5. QED BY <1>t, <2>2, <2>3, <2>4, BehindKeeps
<1>3. ASSUME NEW q \in Servers PROVE ServerInv(q)'
  <2>1. /\ Untouched(q) /\ ServerInv(q) /\ requests[q] \in Seq(ClientFrame)
    BY <1>t DEF Untouched, serverVars, StreamInv
  <2>2. CASE q = s /\ connected[q]
    BY <1>1, <2>2, NoteWritten DEF Served1
  <2>3. CASE ~(q = s /\ connected[q])
    BY <1>1, <2>1, <2>3, RestsKeeps DEF Served1
  <2>4. QED BY <2>2, <2>3
<1>4. QED BY <1>2, <1>3 DEF StreamInv

\* A child's line, and the exit of a child that a close reports.
LEMMA EmitKeepsCursors ==
  ASSUME StreamInv, NEW t \in Tabs, NEW b \in Sizes, NEW reply \in Seq(HostFrame), EmitThen(t, b, reply),
         reply = <<>> \/ \E g \in HostFrame : reply = <<g>> /\ g.type # "handoff",
         UNCHANGED <<epoch, serverVars>>
  PROVE  CursorsBehind'
<1> DEFINE e == [epoch |-> epoch, seq |-> sequence + 1, tab |-> t, bytes |-> b]
           f == [type |-> "event", upto |-> sequence + 1, event |-> e]
<1>t. /\ epoch \in Nat /\ sequence \in Nat /\ TypeOK /\ frames \in [Servers -> Seq(HostFrame)]
  BY DEF StreamInv, RingInv, TypeOK
<1>e. e \in Event
  BY <1>t DEF Event
<1> HIDE DEF e
<1>f. f \in HostFrame /\ f.type = "event"
  BY <1>t, <1>e DEF HostFrame
<1>1. /\ sequence' = sequence + 1
      /\ frames' = [s \in Servers |->
                      IF Receives(s) /\ connected[s] THEN Append(frames[s], f) \o reply
                      ELSE frames[s]]
  BY DEF EmitThen, e
<1> HIDE DEF f
<1>2. ASSUME NEW q \in Servers, NEW i \in 1..Len(frames'[q]), frames'[q][i].type = "handoff"
      PROVE  \E j \in 1..Len(frames[q]) : frames'[q][i] = frames[q][j]
  <2>s. frames[q] \in Seq(HostFrame)
    BY <1>t
  <2> DEFINE g1 == Append(frames[q], f)
  <2>1. /\ g1 \in Seq(HostFrame) /\ Len(g1) = Len(frames[q]) + 1 /\ Len(frames[q]) \in Nat
        /\ \A j \in 1..Len(frames[q]) : g1[j] = frames[q][j]
        /\ g1[Len(frames[q]) + 1] = f
    BY <1>f, <2>s, AppendAt
  <2>2. frames'[q] = g1 \o reply \/ frames'[q] = frames[q]
    BY <1>1
  <2> HIDE DEF g1
  <2>3. CASE frames'[q] = frames[q]
    BY <1>2, <2>3
  <2>4. CASE frames'[q] = g1 \o reply /\ reply = <<>>
    <3>1. frames'[q] = g1
      BY <2>1, <2>4
    <3>2. i \in 1..Len(frames[q]) \/ i = Len(frames[q]) + 1
      BY <1>2, <2>1, <3>1
    <3>3. QED BY <1>2, <1>f, <2>1, <3>1, <3>2
  <2>5. CASE frames'[q] = g1 \o reply /\ reply # <<>>
    <3>1. PICK g \in HostFrame : reply = <<g>> /\ g.type # "handoff"
      BY <2>5
    <3>2. frames'[q] = Append(g1, g)
      BY <2>1, <2>5, <3>1
    <3>3. /\ Len(frames'[q]) = Len(g1) + 1 /\ frames'[q][Len(g1) + 1] = g
          /\ \A j \in 1..Len(g1) : frames'[q][j] = g1[j]
      BY <2>1, <3>2, AppendAt
    <3>4. i \in 1..Len(frames[q]) \/ i = Len(frames[q]) + 1 \/ i = Len(g1) + 1
      BY <1>2, <2>1, <3>3
    <3>5. CASE i \in 1..Len(frames[q])
      <4>1. i \in 1..Len(g1)
        BY <2>1, <3>5
      <4>2. QED BY <2>1, <3>3, <3>5, <4>1
    <3>6. CASE i = Len(frames[q]) + 1
      <4>1. i \in 1..Len(g1) /\ i = Len(g1)
        BY <2>1, <3>6
      <4>2. QED BY <1>2, <1>f, <2>1, <3>3, <3>6, <4>1
    <3>7. CASE i = Len(g1) + 1
      BY <1>2, <3>1, <3>3, <3>7
    <3>8. QED BY <3>4, <3>5, <3>6, <3>7
  <2>6. QED BY <2>2, <2>3, <2>4, <2>5
<1>3. QED BY <1>t, <1>1, <1>2, BehindKeeps DEF StreamInv, serverVars

LEMMA HostKeepsStream ==
  ASSUME StreamInv, NEW s \in Servers, HostStep(s)
  PROVE  StreamInv'
<1>t. /\ sequence \in Nat /\ epoch \in Nat /\ TypeOK
      /\ frames \in [Servers -> Seq(HostFrame)] /\ requests \in [Servers -> Seq(ClientFrame)]
  BY DEF StreamInv, RingInv, TypeOK
<1>0. RingInv'
  BY HostKeepsRingInv DEF StreamInv
<1>q. ASSUME NEW type, HostAccepts(s, type)
      PROVE  controller = s /\ Head(requests[s]) \in ClientFrame /\ \A q \in Servers : Served1(q)
  <2>1. controller = s /\ requests[s] # <<>> /\ requests' = [requests EXCEPT ![s] = Tail(@)]
    BY <1>q DEF HostAccepts, HostHas
  <2>2. QED BY <1>t, <2>1 DEF Served1
<1>c. ASSUME NEW type \in {"create", "close"}, HostAccepts(s, type)
      PROVE  Head(requests[s]).tab \in Tabs
  <2>1. Head(requests[s]) \in ClientFrame /\ Head(requests[s]).type = type
    BY <1>q, <1>c DEF HostAccepts, HostHas
  <2>2. QED BY <2>1 DEF ClientFrame
<1>r. ASSUME NEW t \in Tabs
      PROVE  /\ Removed(t) \in HostFrame /\ Removed(t).type = "removed" /\ Removed(t).upto = sequence
             /\ [Removed(t) EXCEPT !.upto = sequence + 1] \in HostFrame
             /\ [Removed(t) EXCEPT !.upto = sequence + 1].type = "removed"
             /\ [Removed(t) EXCEPT !.upto = sequence + 1].upto = sequence + 1
  BY <1>t DEF Removed, HostFrame
<1>1. CASE HostAttach(s)
  <2>1. UNCHANGED <<sequence, events>>
    BY <1>1 DEF HostAttach, ringVars
  <2>2. QED BY <1>0, <1>1, <2>1, AttachKeeps DEF StreamInv
<1>2. CASE HostAttachTimeout(s) \/ HostRefuse(s) \/ HostSocketClose(s)
  BY <1>0, <1>2, SilentHostKeeps DEF StreamInv
<1>3. CASE HostCreate(s)
  <2>1. PICK b \in Sizes : EmitThen(Head(requests[s]).tab, b, <<>>)
    BY <1>3 DEF HostCreate
  <2>2. HostAccepts(s, "create") /\ UNCHANGED <<epoch, clients, controller, serverVars>>
    BY <1>3 DEF HostCreate
  <2>3. <<>> \in Seq(HostFrame) /\ Head(requests[s]).tab \in Tabs /\ \A q \in Servers : Served1(q)
    BY <1>q, <1>c, <2>2
  <2>4. CursorsBehind'
    BY <2>1, <2>2, <2>3, EmitKeepsCursors
  <2>5. Len(events') <= sequence' /\ \A q \in Servers : ServerInv(q)'
    BY <2>1, <2>2, <2>3, EmitKeepsStreams
  <2>6. QED BY <1>0, <2>4, <2>5 DEF StreamInv
<1>4. CASE HostCreateFails(s)
  <2>1. /\ HostAccepts(s, "create") /\ frames' = Send(s, <<Removed(Head(requests[s]).tab)>>)
        /\ UNCHANGED <<epoch, sequence, events, clients, controller, serverVars>>
    BY <1>4 DEF HostCreateFails, ringVars
  <2>2. Head(requests[s]).tab \in Tabs /\ controller = s /\ \A q \in Servers : Served1(q)
    BY <1>q, <1>c, <2>1
  <2>3. /\ Removed(Head(requests[s]).tab) \in HostFrame
        /\ Removed(Head(requests[s]).tab).type = "removed"
        /\ Removed(Head(requests[s]).tab).upto = sequence
    BY <1>r, <2>2
  <2>4. Len(events') <= sequence' /\ CursorsBehind' /\ \A q \in Servers : ServerInv(q)'
    BY <2>1, <2>2, <2>3, SendKeeps
  <2>5. QED BY <1>0, <2>4 DEF StreamInv
<1>5. CASE HostClose(s)
  <2> DEFINE t == Head(requests[s]).tab
             g == [Removed(t) EXCEPT !.upto = sequence + 1]
  <2>1. HostAccepts(s, "close") /\ UNCHANGED <<epoch, clients, controller, serverVars>>
    BY <1>5 DEF HostClose
  <2>2. t \in Tabs /\ controller = s /\ \A q \in Servers : Served1(q)
    BY <1>q, <1>c, <2>1
  <2>3. g \in HostFrame /\ g.type = "removed" /\ g.upto = sequence + 1
    BY <1>r, <2>2
  <2>4. CASE child[t] = "managed"
    <3>1. PICK b \in Sizes : EmitThen(t, b, <<g>>)
      BY <1>5, <2>4 DEF HostClose
    <3> HIDE DEF t, g
    <3>2. <<g>> \in Seq(HostFrame)
      BY <2>3
    <3>3. CursorsBehind'
      BY <2>1, <2>2, <2>3, <3>1, <3>2, EmitKeepsCursors
    <3>4. Len(events') <= sequence' /\ \A q \in Servers : ServerInv(q)'
      BY <2>1, <2>2, <2>3, <3>1, <3>2, EmitKeepsStreams
    <3>5. QED BY <1>0, <3>3, <3>4 DEF StreamInv
  <2>5. CASE child[t] # "managed"
    <3>1. UNCHANGED <<sequence, events, frames>>
      BY <1>5, <2>5 DEF HostClose, ringVars
    <3>2. CursorsBehind'
      BY <1>t, <2>1, <3>1, BehindKeeps DEF StreamInv, serverVars
    <3>3. ASSUME NEW q \in Servers PROVE ServerInv(q)'
      <4>1. /\ Untouched(q) /\ ServerInv(q) /\ requests[q] \in Seq(ClientFrame) /\ frames'[q] = frames[q]
        BY <1>t, <2>1, <3>1 DEF Untouched, serverVars, StreamInv
      <4>2. QED BY <2>1, <2>2, <3>1, <4>1, RestsKeeps DEF Served1
    <3>4. QED BY <1>0, <3>1, <3>2, <3>3 DEF StreamInv
  <2>6. QED BY <2>4, <2>5
<1>6. CASE HostPrepareHandoff(s)
  <2> DEFINE f == [type |-> "handoff", upto |-> sequence, epoch |-> epoch]
  <2>1. /\ HostAccepts(s, "prepare_handoff") /\ frames' = Send(s, <<f>>)
        /\ UNCHANGED <<epoch, sequence, events, clients, controller, serverVars>>
    BY <1>6 DEF HostPrepareHandoff, hostVars
  <2>2. controller = s /\ \A q \in Servers : Served1(q)
    BY <1>q, <2>1
  <2>3. f \in HostFrame /\ f.type = "handoff" /\ f.upto = sequence /\ f.epoch = epoch
    BY <1>t DEF HostFrame
  <2> HIDE DEF f
  <2>4. Len(events') <= sequence' /\ CursorsBehind' /\ \A q \in Servers : ServerInv(q)'
    BY <2>1, <2>2, <2>3, SendKeeps
  <2>5. QED BY <1>0, <2>4 DEF StreamInv
<1>7. QED BY <1>1, <1>2, <1>3, <1>4, <1>5, <1>6 DEF HostStep

LEMMA HostEmitKeepsStream ==
  ASSUME StreamInv, NEW t \in Tabs, NEW b \in Sizes, HostEmit(t, b), RingInv'
  PROVE  StreamInv'
<1>1. EmitThen(t, b, <<>>) /\ UNCHANGED <<epoch, clients, controller, requests, serverVars>>
  BY DEF HostEmit
<1>2. <<>> \in Seq(HostFrame) /\ \A q \in Servers : Served1(q)
  BY <1>1 DEF Served1
<1>3. CursorsBehind'
  BY <1>1, <1>2, EmitKeepsCursors
<1>4. Len(events') <= sequence' /\ \A q \in Servers : ServerInv(q)'
  BY <1>1, <1>2, EmitKeepsStreams
<1>5. QED BY <1>3, <1>4 DEF StreamInv

\* A new supervisor process knows no server, and no cursor is of it.
LEMMA HostExitKeepsStream ==
  ASSUME StreamInv, HostExit, RingInv'
  PROVE  StreamInv'
<1>t. /\ sequence \in Nat /\ epoch \in Nat /\ TypeOK
      /\ frames \in [Servers -> Seq(HostFrame)] /\ requests \in [Servers -> Seq(ClientFrame)]
  BY DEF StreamInv, RingInv, TypeOK
<1>1. /\ epoch' = epoch + 1 /\ sequence' = 0 /\ events' = <<>> /\ clients' = {} /\ controller' = Nobody
      /\ requests' = [s \in Servers |-> <<>>] /\ UNCHANGED <<frames, serverVars>>
  BY DEF HostExit
<1>2. CursorsBehind'
  <2>1. ASSUME NEW c, c.epoch \in Nat, Behind(c) PROVE Behind(c)'
    BY <1>t, <1>1, <2>1 DEF Behind
  <2>2. \A h \in handoffs : Behind(h)'
    <3>1. \A h \in handoffs : h.epoch \in Nat
      BY <1>t DEF TypeOK
    <3>2. QED BY <2>1, <3>1 DEF StreamInv, CursorsBehind
  <2>3. \A q \in Servers : cursor[q] = NoCursor \/ Behind(cursor[q])'
    <3>1. \A q \in Servers : cursor[q].epoch \in Nat
      BY <1>t DEF TypeOK
    <3>2. \A q \in Servers : cursor[q] = NoCursor \/ Behind(cursor[q])
      BY DEF StreamInv, CursorsBehind
    <3>3. ASSUME NEW q \in Servers, Behind(cursor[q]) PROVE Behind(cursor[q])'
      <4>1. cursor'[q] = cursor[q]
        BY <1>1 DEF serverVars
      <4>2. QED BY <1>t, <1>1, <3>1, <3>3, <4>1 DEF Behind
    <3>4. QED BY <3>2, <3>3
  <2>4. ASSUME NEW q \in Servers, NEW i \in 1..Len(frames[q]), frames[q][i].type = "handoff"
        PROVE  Behind(CursorOf(frames[q][i]))'
    <3>1. frames[q][i] \in HostFrame
      BY <1>t
    <3>2. frames[q][i].epoch \in Nat
      BY <2>4, <3>1 DEF HostFrame
    <3>3. Behind(CursorOf(frames[q][i]))
      BY <2>4 DEF StreamInv, CursorsBehind
    <3>4. QED BY <1>t, <1>1, <3>2, <3>3 DEF Behind, CursorOf
  <2>5. 1 <= epoch'
    BY <1>t, <1>1
  <2>6. QED BY <1>1, <2>2, <2>3, <2>4, <2>5 DEF CursorsBehind, serverVars
<1>3. ASSUME NEW q \in Servers PROVE ServerInv(q)'
  <2>1. /\ Untouched(q) /\ ServerInv(q) /\ requests[q] \in Seq(ClientFrame) /\ frames'[q] = frames[q]
        /\ requests'[q] = <<>> /\ controller' # q /\ q \notin clients'
    BY <1>t, <1>1 DEF Untouched, serverVars, StreamInv
  <2>2. QED BY <2>1, RestsKeeps
<1>4. Len(events') <= sequence'
  BY <1>1
<1>5. QED BY <1>2, <1>3, <1>4 DEF StreamInv

-----------------------------------------------------------------------------
(* The steps of the servers *)

\* The servers a step of s leaves alone.
LEMMA OthersKeep ==
  ASSUME StreamInv, NEW s \in Servers, UNCHANGED <<epoch, sequence, controller>>,
         clients' \in {clients, clients \cup {s}},
         \A q \in Servers \ {s} : Untouched(q) /\ frames'[q] = frames[q] /\ requests'[q] = requests[q],
         ServerInv(s)'
  PROVE  \A q \in Servers : ServerInv(q)'
<1>1. ASSUME NEW q \in Servers, q # s PROVE ServerInv(q)'
  <2>1. ServerInv(q) /\ requests[q] \in Seq(ClientFrame)
    BY DEF StreamInv, RingInv, TypeOK
  <2>2. QED BY <1>1, <2>1, RestsKeeps
<1>2. QED BY <1>1

\* Reading or losing frames writes none.
LEMMA ReadKeepsCursors ==
  ASSUME StreamInv, NEW s \in Servers, UNCHANGED <<epoch, sequence, handoffs, cursor>>,
         \/ frames' = frames
         \/ frames[s] # <<>> /\ frames' = [frames EXCEPT ![s] = Tail(@)]
         \/ frames' = [frames EXCEPT ![s] = <<>>]
  PROVE  CursorsBehind'
<1>t. /\ sequence \in Nat /\ TypeOK /\ frames \in [Servers -> Seq(HostFrame)] /\ CursorsBehind
  BY DEF StreamInv, RingInv, TypeOK
<1>1. ASSUME NEW q \in Servers, NEW i \in 1..Len(frames'[q]), frames'[q][i].type = "handoff"
      PROVE  \E j \in 1..Len(frames[q]) : frames'[q][i] = frames[q][j]
  <2>s. frames[q] \in Seq(HostFrame)
    BY <1>t
  <2>1. CASE frames'[q] = frames[q]
    BY <1>1, <2>1
  <2>2. CASE frames[q] # <<>> /\ frames'[q] = Tail(frames[q])
    <3>1. i + 1 \in 1..Len(frames[q]) /\ frames'[q][i] = frames[q][i + 1]
      BY <1>1, <2>2, <2>s, TailAt
    <3>2. QED BY <3>1
  <2>3. CASE frames'[q] = <<>>
    BY <1>1, <2>3
  <2>4. QED BY <1>t, <2>1, <2>2, <2>3
<1>2. sequence' >= sequence /\ sequence' \in Nat
  BY <1>t
<1>3. \A q \in Servers : \A i \in 1..Len(frames'[q]) : frames'[q][i].type = "handoff" =>
        \/ \E j \in 1..Len(frames[q]) : frames'[q][i] = frames[q][j]
        \/ frames'[q][i].epoch = epoch /\ frames'[q][i].upto = sequence
  BY <1>1
<1>4. QED BY <1>t, <1>2, <1>3, BehindKeeps

\* The head of an attached server's socket goes on from what the server has taken.
LEMMA ReadNext ==
  ASSUME NEW s \in Servers, ServerInv(s), frames[s] \in Seq(HostFrame), frames[s] # <<>>,
         Head(frames[s]).type # "attached", connected[s], frames'[s] = Tail(frames[s])
  PROVE  /\ Head(frames[s]) = frames[s][1] /\ frames[s][1] \in HostFrame
         /\ phase[s] \in {"starting", "live"}
         /\ Continues(frames[s][1], Base(s) + Len(startupEvents[s]), snapshot[s].epoch)
         /\ Chain(frames'[s], frames[s][1].upto, snapshot[s].epoch)
         /\ EndOf(frames'[s], frames[s][1].upto) = EndOf(frames[s], From(s))
         /\ Process(s) = snapshot[s].epoch
         /\ frames'[s] # <<>> => frames'[s][1].type # "attached"
         /\ \A i \in 1..Len(requests[s]) : requests[s][i].type # "attach"
         /\ (\A i \in 1..Len(frames'[s]) : frames'[s][i].type # "fenced") /\ frames[s][1].type # "fenced"
              => \A i \in 1..Len(frames[s]) : frames[s][i].type # "fenced"
<1>1. Head(frames[s]) = frames[s][1] /\ frames[s][1] \in HostFrame
  BY TailAt
<1>2. ~Answered(s) /\ From(s) = Base(s) + Len(startupEvents[s]) /\ Process(s) = snapshot[s].epoch
  BY <1>1 DEF Answered, From, Process
<1>3. phase[s] \in {"starting", "live"}
  BY <1>1 DEF ServerInv, Lifecycle
<1>4. Chain(frames[s], From(s), Process(s))
  BY DEF ServerInv, Flows
<1>5. /\ Chain(frames'[s], frames[s][1].upto, Process(s))
      /\ EndOf(frames'[s], frames[s][1].upto) = EndOf(frames[s], From(s))
      /\ frames'[s] # <<>> => frames'[s][1].type # "attached"
      /\ Continues(frames[s][1], From(s), Process(s))
  BY <1>4, ChainTail
<1>6. \A i \in 1..Len(requests[s]) : requests[s][i].type # "attach"
  BY DEF ServerInv, Asking
<1>7. ASSUME \A i \in 1..Len(frames'[s]) : frames'[s][i].type # "fenced", frames[s][1].type # "fenced",
             NEW i \in 1..Len(frames[s])
      PROVE  frames[s][i].type # "fenced"
  <2>1. CASE i = 1
    BY <1>7, <2>1
  <2>2. CASE i # 1
    <3>t. /\ Len(frames'[s]) = Len(frames[s]) - 1 /\ Len(frames[s]) \in Nat
          /\ \A j \in 1..(Len(frames[s]) - 1) : frames'[s][j] = frames[s][j + 1]
      BY TailAt
    <3>1. i - 1 \in 1..(Len(frames[s]) - 1) /\ (i - 1) + 1 = i
      BY <2>2, <3>t
    <3>2. QED BY <1>7, <3>t, <3>1
  <2>3. QED BY <2>1, <2>2
<1>8. QED BY <1>1, <1>2, <1>3, <1>5, <1>6, <1>7

\* A server that has taken a frame which is no fence, up to its number.
LEMMA TakenKeeps ==
  ASSUME NEW s \in Servers, ServerInv(s), frames[s] \in Seq(HostFrame), frames[s] # <<>>,
         Head(frames[s]).type \notin {"attached", "fenced"}, connected[s], frames'[s] = Tail(frames[s]),
         UNCHANGED <<epoch, sequence, controller, clients>>,
         requests'[s] = requests[s], phase'[s] = phase[s], connected'[s] = connected[s],
         snapshot'[s] = snapshot[s], pendingReplay'[s] = pendingReplay[s],
         Base(s)' + Len(startupEvents'[s]) = frames[s][1].upto,
         Steady(startupEvents[s], Base(s), snapshot[s].epoch)',
         phase[s] = "live" => lastSequence'[s] # NoSeq,
         Replaying(s)', Honest(s)'
  PROVE  ServerInv(s)'
<1>1. /\ Head(frames[s]) = frames[s][1]
      /\ phase[s] \in {"starting", "live"}
      /\ Chain(frames'[s], frames[s][1].upto, snapshot[s].epoch)
      /\ EndOf(frames'[s], frames[s][1].upto) = EndOf(frames[s], From(s))
      /\ Process(s) = snapshot[s].epoch
      /\ frames'[s] # <<>> => frames'[s][1].type # "attached"
      /\ \A i \in 1..Len(requests[s]) : requests[s][i].type # "attach"
      /\ (\A i \in 1..Len(frames'[s]) : frames'[s][i].type # "fenced") /\ frames[s][1].type # "fenced"
              => \A i \in 1..Len(frames[s]) : frames[s][i].type # "fenced"
  BY ReadNext
<1>2. ~Answered(s)' /\ From(s)' = frames[s][1].upto /\ Process(s)' = snapshot[s].epoch
  BY <1>1 DEF Answered, From, Process
<1>3. Lifecycle(s)'
  BY <1>1 DEF ServerInv, Lifecycle
<1>4. Asking(s)'
  BY <1>1 DEF Asking
<1>5. Served(s)'
  BY <1>1, <1>2 DEF ServerInv, Served
<1>6. Flows(s)'
  BY <1>1, <1>2 DEF Flows
<1>7. Active(s)'
  BY <1>1 DEF ServerInv, Active
<1>8. QED BY <1>3, <1>4, <1>5, <1>6, <1>7 DEF ServerInv

\* The next event in order is dispatched, or reported as of an unknown tab.
LEMMA DispatchNext ==
  ASSUME TypeOK, NEW s \in Servers, NEW e \in Event, Dispatch(s, e), e.epoch = snapshot[s].epoch,
         lastSequence[s] = NoSeq \/ e.seq = lastSequence[s] + 1
  PROVE  /\ lastSequence' = [lastSequence EXCEPT ![s] = e.seq]
         /\ IF e.tab \in tabs[s]
            THEN discontinuities' = discontinuities /\ dispatched' = [dispatched EXCEPT ![s] = Append(@, e.seq)]
            ELSE /\ discontinuities' = [discontinuities EXCEPT ![s] = @ \cup {"unknown tab"}]
                 /\ dispatched' = dispatched
<1>1. e.seq \in Nat /\ lastSequence[s] \in Nat \cup {NoSeq}
  BY DEF TypeOK, Event
<1>2. ~OutOfOrder(s, e) /\ ~Gapped(s, e)
  BY <1>1 DEF OutOfOrder, Gapped
<1>3. Anomalies(s, e) = IF e.tab \in tabs[s] THEN {} ELSE {"unknown tab"}
  BY <1>2 DEF Anomalies, UnknownTab
<1>4. /\ discontinuities' = [discontinuities EXCEPT ![s] = @ \cup Anomalies(s, e)]
      /\ lastSequence' = [lastSequence EXCEPT ![s] = e.seq]
      /\ dispatched' = [dispatched EXCEPT ![s] = IF e.tab \in tabs[s] THEN Append(@, e.seq) ELSE @]
  BY <1>2 DEF Dispatch
<1>5. discontinuities \in [Servers -> SUBSET
        {"replay gap", "envelope", "duplicate", "missing", "unknown tab", "short replay"}]
      /\ dispatched \in [Servers -> Seq(Nat)]
  BY DEF TypeOK
<1>6. CASE e.tab \in tabs[s]
  <2>1. discontinuities' = discontinuities
    BY <1>3, <1>4, <1>5, <1>6
  <2>2. QED BY <1>4, <1>6, <2>1
<1>7. CASE e.tab \notin tabs[s]
  BY <1>3, <1>4, <1>5, <1>7
<1>8. QED BY <1>4, <1>6, <1>7

\* Numbers counted from a starting point, and one more.
LEMMA CountOn ==
  ASSUME NEW d \in Seq(Nat), NEW n \in Nat, NEW from \in Nat, n = from + Len(d) + 1,
         \A i \in 1..Len(d) : d[i] = from + i
  PROVE  /\ n = from + Len(Append(d, n))
         /\ \A i \in 1..Len(Append(d, n)) : Append(d, n)[i] = from + i
<1>1. /\ Len(Append(d, n)) = Len(d) + 1 /\ Len(d) \in Nat
      /\ \A i \in 1..Len(d) : Append(d, n)[i] = d[i]
      /\ Append(d, n)[Len(d) + 1] = n
  BY AppendAt
<1>2. QED BY <1>1

\* What is reported stays honest.
LEMMA DispatchIsHonest ==
  ASSUME TypeOK, NEW s \in Servers, NEW e \in Event, Dispatch(s, e), e.epoch = snapshot[s].epoch,
         \/ lastSequence[s] = NoSeq /\ discontinuities[s] # {}
         \/ lastSequence[s] # NoSeq /\ e.seq = lastSequence[s] + 1,
         Honest(s), cursor' = cursor
  PROVE  lastSequence'[s] = e.seq /\ e.seq \in Nat /\ Honest(s)'
<1>t. /\ e.seq \in Nat /\ lastSequence \in [Servers -> Nat \cup {NoSeq}] /\ cursor[s].seq \in Nat
      /\ discontinuities \in [Servers -> SUBSET
           {"replay gap", "envelope", "duplicate", "missing", "unknown tab", "short replay"}]
      /\ dispatched \in [Servers -> Seq(Nat)]
  BY DEF TypeOK, Event
<1>1. /\ lastSequence'[s] = e.seq
      /\ \/ discontinuities'[s] = discontinuities[s] /\ dispatched'[s] = Append(dispatched[s], e.seq)
         \/ discontinuities'[s] = discontinuities[s] \cup {"unknown tab"} /\ dispatched'[s] = dispatched[s]
  <2>1. /\ lastSequence' = [lastSequence EXCEPT ![s] = e.seq]
        /\ IF e.tab \in tabs[s]
           THEN discontinuities' = discontinuities /\ dispatched' = [dispatched EXCEPT ![s] = Append(@, e.seq)]
           ELSE /\ discontinuities' = [discontinuities EXCEPT ![s] = @ \cup {"unknown tab"}]
                /\ dispatched' = dispatched
    BY DispatchNext
  <2>2. CASE e.tab \in tabs[s]
    BY <1>t, <2>1, <2>2
  <2>3. CASE e.tab \notin tabs[s]
    BY <1>t, <2>1, <2>3
  <2>4. QED BY <2>2, <2>3
<1>2. discontinuities'[s] \cap {"envelope", "duplicate", "missing"} = {}
  BY <1>1 DEF Honest
<1>3. ASSUME discontinuities'[s] = {}
      PROVE  /\ lastSequence'[s] = cursor[s].seq + Len(dispatched'[s])
             /\ \A i \in 1..Len(dispatched'[s]) : dispatched'[s][i] = cursor[s].seq + i
  <2>1. discontinuities[s] = {} /\ dispatched'[s] = Append(dispatched[s], e.seq) /\ e.seq = lastSequence[s] + 1
    BY <1>1, <1>3
  <2>2. /\ lastSequence[s] = cursor[s].seq + Len(dispatched[s])
        /\ \A i \in 1..Len(dispatched[s]) : dispatched[s][i] = cursor[s].seq + i
    BY <2>1 DEF Honest
  <2>3. dispatched[s] \in Seq(Nat) /\ e.seq \in Nat /\ cursor[s].seq \in Nat
    BY <1>t
  <2>4. e.seq = cursor[s].seq + Len(dispatched[s]) + 1
    BY <2>1, <2>2
  <2>5. /\ e.seq = cursor[s].seq + Len(Append(dispatched[s], e.seq))
        /\ \A i \in 1..Len(Append(dispatched[s], e.seq)) : Append(dispatched[s], e.seq)[i] = cursor[s].seq + i
    <3> DEFINE d == dispatched[s]
               n == e.seq
               from == cursor[s].seq
    <3>1. /\ d \in Seq(Nat) /\ n \in Nat /\ from \in Nat /\ n = from + Len(d) + 1
          /\ \A i \in 1..Len(d) : d[i] = from + i
      BY <2>2, <2>3, <2>4
    <3> HIDE DEF d, n, from
    <3>2. n = from + Len(Append(d, n)) /\ \A i \in 1..Len(Append(d, n)) : Append(d, n)[i] = from + i
      BY <3>1, CountOn
    <3>3. QED BY <3>2 DEF d, n, from
  <2>6. QED BY <1>1, <2>1, <2>5
<1>4. QED BY <1>t, <1>1, <1>2, <1>3 DEF Honest

\* The snapshot is read: the stream starts at its end, the replay before that.
LEMMA ReadAttachedKeeps ==
  ASSUME StreamInv, NEW s \in Servers, ReadAttached(s)
  PROVE  ServerInv(s)'
<1> DEFINE f == frames[s][1]
           c == cursor[s]
<1>t. /\ frames \in [Servers -> Seq(HostFrame)] /\ requests \in [Servers -> Seq(ClientFrame)]
      /\ cursor \in [Servers -> [epoch : Nat, seq : Nat]] /\ TypeOK /\ ServerInv(s)
  BY DEF StreamInv, RingInv, TypeOK
<1>s. frames[s] \in Seq(HostFrame) /\ frames[s] # <<>> /\ connected[s] /\ Head(frames[s]) = f
  <2>1. frames[s] \in Seq(HostFrame)
    BY <1>t
  <2>2. QED BY <2>1, TailAt DEF ReadAttached, Reads
<1>1. f.type = "attached" /\ f \in HostFrame
  BY <1>s, TailAt DEF ReadAttached, Reads
<1>f. f.upto \in Nat /\ f.epoch \in Nat /\ f.gap \in BOOLEAN /\ f.replay \in Seq(Event) /\ c.seq \in Nat
  BY <1>t, <1>1 DEF HostFrame
<1>2. /\ snapshot' = [snapshot EXCEPT ![s] = [epoch |-> f.epoch, latest |-> f.upto]]
      /\ lastSequence' = [lastSequence EXCEPT ![s] =
            IF c.epoch = f.epoch /\ ~f.gap THEN c.seq
            ELSE IF f.upto = 0 THEN 0 ELSE NoSeq]
      /\ discontinuities' = [discontinuities EXCEPT ![s] = IF f.gap THEN {"replay gap"} ELSE {}]
      /\ pendingReplay' = [pendingReplay EXCEPT ![s] = IF f.tabs = {} THEN <<>> ELSE f.replay]
      /\ phase' = [phase EXCEPT ![s] = "starting"]
      /\ frames' = [frames EXCEPT ![s] = Tail(@)]
      /\ UNCHANGED <<epoch, sequence, clients, controller, requests, connected, cursor, startupEvents, dispatched>>
  BY <1>s DEF ReadAttached, Consume, hostVars
<1>3. /\ snapshot'[s].epoch = f.epoch /\ snapshot'[s].latest = f.upto
      /\ lastSequence'[s] = (IF c.epoch = f.epoch /\ ~f.gap THEN c.seq
                             ELSE IF f.upto = 0 THEN 0 ELSE NoSeq)
      /\ pendingReplay'[s] \in {<<>>, f.replay}
      /\ phase'[s] = "starting" /\ frames'[s] = Tail(frames[s])
  BY <1>t, <1>2 DEF TypeOK
<1>d. discontinuities'[s] = IF f.gap THEN {"replay gap"} ELSE {}
  <2>1. discontinuities \in [Servers -> SUBSET
          {"replay gap", "envelope", "duplicate", "missing", "unknown tab", "short replay"}]
    BY <1>t DEF TypeOK
  <2>2. discontinuities' = [discontinuities EXCEPT ![s] = IF f.gap THEN {"replay gap"} ELSE {}]
    BY <1>2
  <2>3. QED BY <2>1, <2>2
<1>e. UNCHANGED <<epoch, sequence, clients, controller, requests, connected, cursor, startupEvents, dispatched>>
  BY <1>2
<1>g. discontinuities'[s] # {} <=> f.gap
  BY <1>d
<1>4. Answered(s) /\ From(s) = f.upto /\ Process(s) = f.epoch /\ Replies(f, c) /\ Chain(frames[s], f.upto, f.epoch)
  <2>1. Answered(s)
    BY <1>s, <1>1 DEF Answered
  <2>2. From(s) = f.upto /\ Process(s) = f.epoch
    BY <2>1 DEF From, Process
  <2>3. QED BY <1>t, <2>1, <2>2 DEF ServerInv, Flows
<1> HIDE DEF f, c
<1>5. phase[s] = "attaching" /\ startupEvents[s] = <<>> /\ dispatched[s] = <<>>
  BY <1>t, <1>s, <1>1 DEF ServerInv, Lifecycle, f
<1>6. /\ Chain(frames'[s], f.upto, f.epoch)
      /\ EndOf(frames'[s], f.upto) = EndOf(frames[s], f.upto)
      /\ frames'[s] # <<>> => frames'[s][1].type # "attached"
  BY <1>s, <1>3, <1>4, ChainTail DEF f
<1>7. Base(s)' = f.upto /\ ~Answered(s)' /\ From(s)' = f.upto /\ Process(s)' = f.epoch
  <2>1. Base(s)' = f.upto
    BY <1>3 DEF Base
  <2>2. ~Answered(s)'
    BY <1>6 DEF Answered
  <2>3. Len(startupEvents'[s]) = 0
    BY <1>e, <1>5
  <2>4. From(s)' = Base(s)' + Len(startupEvents'[s]) /\ Process(s)' = snapshot'[s].epoch
    BY <2>2 DEF From, Process
  <2>5. QED BY <1>f, <1>3, <2>1, <2>2, <2>3, <2>4
<1>8. Lifecycle(s)'
  BY <1>s, <1>e, <1>3, <1>6 DEF Lifecycle
<1>9. Asking(s)'
  BY <1>t, <1>s, <1>e, <1>3 DEF ServerInv, Asking
<1>10. Served(s)'
  BY <1>t, <1>e, <1>3, <1>4, <1>6, <1>7 DEF ServerInv, Served
<1>11. Replaying(s)'
  <2>1. Steady(pendingReplay'[s], f.upto - Len(pendingReplay'[s]), f.epoch)
    <3>1. CASE pendingReplay'[s] = <<>>
      BY <3>1 DEF Steady
    <3>2. CASE pendingReplay'[s] = f.replay
      BY <1>4, <3>2 DEF Replies
    <3>3. QED BY <1>3, <3>1, <3>2
  <2>2. ASSUME lastSequence'[s] # NoSeq
        PROVE  /\ lastSequence'[s] <= f.upto
               /\ pendingReplay'[s] # <<>> => lastSequence'[s] = f.upto - Len(pendingReplay'[s])
    <3>1. CASE c.epoch = f.epoch /\ ~f.gap
      BY <1>3, <1>4, <3>1 DEF Replies
    <3>2. CASE ~(c.epoch = f.epoch /\ ~f.gap)
      <4>1. f.upto = 0 /\ lastSequence'[s] = 0
        <5>1. lastSequence'[s] = IF f.upto = 0 THEN 0 ELSE NoSeq
          BY <1>3, <3>2
        <5>2. QED BY <2>2, <5>1
      <4>2. f.replay = <<>>
        BY <1>4, <4>1 DEF Replies
      <4>3. QED BY <1>3, <4>1, <4>2
    <3>3. QED BY <3>1, <3>2
  <2>3. ASSUME lastSequence'[s] = NoSeq
        PROVE  /\ f.upto > 0 /\ dispatched'[s] = <<>>
               /\ pendingReplay'[s] # <<>> => discontinuities'[s] # {}
    <3>1. ~(c.epoch = f.epoch /\ ~f.gap) /\ f.upto # 0
      <4>1. c.epoch = f.epoch /\ ~f.gap => lastSequence'[s] = c.seq
        BY <1>3
      <4>2. ~(c.epoch = f.epoch /\ ~f.gap) /\ f.upto = 0 => lastSequence'[s] = 0
        BY <1>3
      <4>3. QED BY <1>f, <2>3, <4>1, <4>2 DEF NoSeq
    <3>2. pendingReplay'[s] # <<>> => f.gap
      <4>1. c.epoch # f.epoch /\ ~f.gap => f.replay = <<>>
        BY <1>4 DEF Replies
      <4>2. pendingReplay'[s] # <<>> => f.replay # <<>>
        BY <1>3
      <4>3. QED BY <3>1, <4>1, <4>2
    <3>3. QED BY <1>f, <1>e, <1>g, <1>5, <3>1, <3>2
  <2>4. QED BY <1>3, <2>1, <2>2, <2>3 DEF Replaying
<1>12. Flows(s)'
  <2>1. Steady(startupEvents[s], Base(s), snapshot[s].epoch)'
    <3>1. Len(startupEvents'[s]) = 0
      BY <1>e, <1>5
    <3>2. QED BY <3>1 DEF Steady
  <2>2. QED BY <1>6, <1>7, <2>1 DEF Flows
<1>13. Honest(s)'
  <2>1. discontinuities'[s] \cap {"envelope", "duplicate", "missing"} = {}
    BY <1>d
  <2>2. ASSUME discontinuities'[s] = {}, lastSequence'[s] # NoSeq
        PROVE  lastSequence'[s] = c.seq
    <3>1. ~f.gap
      BY <1>g, <2>2
    <3>2. CASE c.epoch = f.epoch
      BY <1>3, <3>1, <3>2
    <3>3. CASE c.epoch # f.epoch
      BY <1>3, <1>4, <2>2, <3>1, <3>3 DEF Replies, NoCursor
    <3>4. QED BY <3>2, <3>3
  <2>3. dispatched'[s] = <<>> /\ cursor'[s] = c
    BY <1>e, <1>5 DEF c
  <2>4. Len(dispatched'[s]) = 0
    BY <2>3
  <2>5. QED BY <1>f, <2>1, <2>2, <2>3, <2>4 DEF Honest
<1>14. Active(s)'
  <2>1. ASSUME \A i \in 1..Len(frames'[s]) : frames'[s][i].type # "fenced", NEW i \in 1..Len(frames[s])
        PROVE  frames[s][i].type # "fenced"
    <3>t. /\ Len(frames'[s]) = Len(frames[s]) - 1 /\ Len(frames[s]) \in Nat
          /\ \A j \in 1..(Len(frames[s]) - 1) : frames'[s][j] = frames[s][j + 1]
      <4>1. /\ Len(Tail(frames[s])) = Len(frames[s]) - 1 /\ Len(frames[s]) \in Nat
            /\ \A j \in 1..(Len(frames[s]) - 1) : Tail(frames[s])[j] = frames[s][j + 1]
        BY <1>s, TailAt
      <4>2. QED BY <1>3, <4>1
    <3>1. CASE i = 1
      BY <1>1, <3>1 DEF f
    <3>2. CASE i # 1
      <4>1. i - 1 \in 1..(Len(frames[s]) - 1) /\ (i - 1) + 1 = i
        BY <3>2, <3>t
      <4>2. QED BY <2>1, <3>t, <4>1
    <3>3. QED BY <3>1, <3>2
  <2>2. QED BY <1>t, <1>s, <1>e, <2>1 DEF ServerInv, Active
<1>15. QED BY <1>8, <1>9, <1>10, <1>11, <1>12, <1>13, <1>14 DEF ServerInv

\* A live event is buffered during the startup, and dispatched after it.
LEMMA ReadEventKeeps ==
  ASSUME StreamInv, NEW s \in Servers, ReadEvent(s)
  PROVE  ServerInv(s)'
<1> DEFINE f == frames[s][1]
           e == f.event
<1>t. /\ frames[s] \in Seq(HostFrame) /\ startupEvents \in [Servers -> Seq(Event)]
      /\ lastSequence \in [Servers -> Nat \cup {NoSeq}] /\ TypeOK /\ ServerInv(s)
      /\ snapshot \in [Servers -> [epoch : Nat, latest : Nat]]
  BY DEF StreamInv, RingInv, TypeOK
<1>1. /\ frames[s] # <<>> /\ connected[s] /\ ~Draining(s) /\ Head(frames[s]).type = "event"
      /\ frames'[s] = Tail(frames[s])
      /\ UNCHANGED <<epoch, sequence, controller, clients, requests, phase, connected, cursor, snapshot,
                     pendingReplay>>
  BY <1>t DEF ReadEvent, Reads, Consume, hostVars, TypeOK
<1>2. /\ Head(frames[s]) = f /\ f \in HostFrame
      /\ phase[s] \in {"starting", "live"}
      /\ Continues(f, Base(s) + Len(startupEvents[s]), snapshot[s].epoch)
  BY <1>t, <1>1, ReadNext
<1>3. /\ e \in Event /\ e.epoch = snapshot[s].epoch /\ e.seq = f.upto /\ f.upto \in Nat
      /\ f.upto = Base(s) + Len(startupEvents[s]) + 1
  BY <1>1, <1>2 DEF Continues, Advance, HostFrame
<1>4. Steady(startupEvents[s], Base(s), snapshot[s].epoch) /\ Base(s) \in Nat
  BY <1>t, <1>2 DEF ServerInv, Flows, Lifecycle, Base
<1>r. \/ phase[s] = "starting" /\ startupEvents' = [startupEvents EXCEPT ![s] = Append(@, e)] /\ UNCHANGED readVars
      \/ phase[s] = "live" /\ Dispatch(s, e) /\ UNCHANGED startupEvents
  BY <1>2 DEF ReadEvent
<1> HIDE DEF f, e
<1>5. CASE phase[s] = "starting" /\ startupEvents' = [startupEvents EXCEPT ![s] = Append(@, e)] /\ UNCHANGED readVars
  <2>1. UNCHANGED <<lastSequence, discontinuities, dispatched>> /\ startupEvents'[s] = Append(startupEvents[s], e)
    BY <1>t, <1>5 DEF readVars
  <2>2. Base(s)' = Base(s)
    BY <1>1, <1>5 DEF Base
  <2>3. Steady(Append(startupEvents[s], e), Base(s), snapshot[s].epoch)
    BY <1>t, <1>3, <1>4, SteadyAppend
  <2>4. Len(startupEvents'[s]) = Len(startupEvents[s]) + 1 /\ Len(startupEvents[s]) \in Nat
    BY <1>t, <1>3, <2>1, AppendAt
  <2>5. Base(s)' + Len(startupEvents'[s]) = f.upto
    BY <1>3, <1>4, <2>2, <2>4
  <2>6. Replaying(s)' /\ Honest(s)'
    BY <1>t, <1>1, <2>1 DEF ServerInv, Replaying, Honest
  <2>7. Steady(startupEvents[s], Base(s), snapshot[s].epoch)'
    BY <1>1, <2>1, <2>2, <2>3
  <2>8. QED BY <1>t, <1>1, <1>5, <2>5, <2>6, <2>7, TakenKeeps DEF f
<1>6. CASE phase[s] = "live" /\ Dispatch(s, e) /\ UNCHANGED startupEvents
  <2>1. startupEvents[s] = <<>> /\ Base(s) = lastSequence[s] /\ lastSequence[s] # NoSeq
    BY <1>1, <1>6, <1>t DEF Draining, Base, ServerInv, Lifecycle
  <2>2. e.seq = lastSequence[s] + 1
    BY <1>3, <1>4, <2>1
  <2>3. lastSequence'[s] = e.seq /\ e.seq \in Nat /\ Honest(s)'
    BY <1>t, <1>1, <1>3, <1>6, <2>1, <2>2, DispatchIsHonest DEF ServerInv
  <2>4. Base(s)' = f.upto /\ startupEvents'[s] = <<>>
    BY <1>1, <1>3, <1>6, <2>1, <2>3 DEF Base
  <2>5. Base(s)' + Len(startupEvents'[s]) = f.upto
    BY <1>3, <2>4
  <2>6. Steady(startupEvents[s], Base(s), snapshot[s].epoch)'
    BY <2>4 DEF Steady
  <2>7. Replaying(s)' /\ lastSequence'[s] # NoSeq
    BY <1>1, <1>6, <2>3 DEF Replaying, NoSeq
  <2>8. QED BY <1>t, <1>1, <2>3, <2>5, <2>6, <2>7, TakenKeeps DEF f
<1>7. QED BY <1>r, <1>5, <1>6

\* The answers to requests are taken without moving on.
LEMMA ReadAnswerKeeps ==
  ASSUME StreamInv, NEW s \in Servers, ReadHandoff(s) \/ ReadRemoved(s)
  PROVE  ServerInv(s)'
<1>t. /\ frames[s] \in Seq(HostFrame) /\ startupEvents \in [Servers -> Seq(Event)] /\ ServerInv(s)
      /\ lastSequence \in [Servers -> Nat \cup {NoSeq}] /\ snapshot \in [Servers -> [epoch : Nat, latest : Nat]]
      /\ frames \in [Servers -> Seq(HostFrame)]
  BY DEF StreamInv, RingInv, TypeOK
<1>1. /\ frames[s] # <<>> /\ connected[s] /\ Head(frames[s]).type \in {"handoff", "removed"}
      /\ frames'[s] = Tail(frames[s])
      /\ UNCHANGED <<epoch, sequence, controller, clients, requests, phase, connected, cursor, snapshot,
                     pendingReplay, startupEvents, lastSequence, discontinuities, dispatched>>
  BY <1>t DEF ReadHandoff, ReadRemoved, Reads, Consume, hostVars, startVars, readVars
<1>2. /\ Head(frames[s]) = frames[s][1] /\ phase[s] \in {"starting", "live"}
      /\ Continues(frames[s][1], Base(s) + Len(startupEvents[s]), snapshot[s].epoch)
  BY <1>t, <1>1, ReadNext
<1>3. Base(s)' = Base(s) /\ Base(s) \in Nat /\ Len(startupEvents[s]) \in Nat
  <2>1. Base(s)' = Base(s)
    BY <1>1 DEF Base
  <2>2. Base(s) \in Nat
    BY <1>t, <1>2 DEF Base, ServerInv, Lifecycle
  <2>3. startupEvents[s] \in Seq(Event)
    BY <1>t
  <2>4. QED BY <2>1, <2>2, <2>3
<1>4. Base(s)' + Len(startupEvents'[s]) = frames[s][1].upto
  BY <1>1, <1>2, <1>3 DEF Continues, Advance
<1>5. Steady(startupEvents[s], Base(s), snapshot[s].epoch)'
  BY <1>t, <1>1, <1>3 DEF ServerInv, Flows
<1>6. Replaying(s)' /\ Honest(s)' /\ (phase[s] = "live" => lastSequence'[s] # NoSeq)
  BY <1>t, <1>1 DEF ServerInv, Replaying, Honest, Lifecycle
<1>7. QED BY <1>t, <1>1, <1>4, <1>5, <1>6, TakenKeeps

\* Nothing on the socket changes: the stream is dispatched further, or the
\* startup ends, where the stream starts to be counted by what is dispatched.
LEMMA StartupKeepsSocket ==
  ASSUME NEW s \in Servers, ServerInv(s), phase[s] \in {"starting", "live"}, phase'[s] \in {phase[s], "live"},
         UNCHANGED <<epoch, sequence, controller, clients, requests, connected>>, frames'[s] = frames[s],
         snapshot'[s] = snapshot[s],
         phase'[s] # "starting" => pendingReplay'[s] = <<>>,
         Base(s)' + Len(startupEvents'[s]) = Base(s) + Len(startupEvents[s]),
         Steady(startupEvents[s], Base(s), snapshot[s].epoch)',
         phase'[s] = "live" => lastSequence'[s] # NoSeq,
         Replaying(s)', Honest(s)'
  PROVE  ServerInv(s)'
<1>1. ~Answered(s) /\ ~Answered(s)'
  BY DEF ServerInv, Lifecycle, Answered
<1>2. From(s)' = From(s) /\ Process(s)' = Process(s)
  BY <1>1 DEF From, Process
<1>3. Lifecycle(s)'
  BY DEF ServerInv, Lifecycle
<1>4. Asking(s)'
  BY DEF ServerInv, Asking
<1>5. Served(s)'
  BY <1>2 DEF ServerInv, Served
<1>6. Flows(s)'
  BY <1>1, <1>2 DEF ServerInv, Flows
<1>7. Active(s)'
  BY DEF ServerInv, Active
<1>8. QED BY <1>3, <1>4, <1>5, <1>6, <1>7 DEF ServerInv

LEMMA ReplayNextKeeps ==
  ASSUME StreamInv, NEW s \in Servers, ReplayNext(s)
  PROVE  ServerInv(s)'
<1> DEFINE es == pendingReplay[s]
           e  == Head(pendingReplay[s])
           from == snapshot[s].latest - Len(es)
<1>t. /\ pendingReplay \in [Servers -> Seq(Event)] /\ snapshot \in [Servers -> [epoch : Nat, latest : Nat]]
      /\ lastSequence \in [Servers -> Nat \cup {NoSeq}] /\ TypeOK /\ ServerInv(s)
  BY DEF StreamInv, RingInv, TypeOK
<1>1. /\ phase[s] = "starting" /\ es # <<>> /\ Dispatch(s, e) /\ pendingReplay'[s] = Tail(es)
      /\ UNCHANGED <<epoch, sequence, controller, clients, requests, frames, phase, connected, cursor, snapshot,
                     startupEvents>>
  BY <1>t DEF ReplayNext, hostVars, socketVars
<1>2. es \in Seq(Event) /\ snapshot[s].latest \in Nat
  BY <1>t
<1>3. e = es[1] /\ e \in Event /\ Len(Tail(es)) = Len(es) - 1 /\ Len(es) \in Nat \ {0} /\ from \in Int
  BY <1>1, <1>2, TailAt
<1>4. /\ Steady(es, from, snapshot[s].epoch)
      /\ \/ lastSequence[s] = NoSeq /\ discontinuities[s] # {}
         \/ lastSequence[s] # NoSeq /\ lastSequence[s] = from
  BY <1>t, <1>1 DEF ServerInv, Replaying
<1>5. e.seq = from + 1 /\ e.epoch = snapshot[s].epoch /\ Steady(Tail(es), from + 1, snapshot[s].epoch)
  <2> HIDE DEF es, from
  <2>1. QED BY <1>1, <1>2, <1>3, <1>4, SteadyTail DEF es
<1>6. lastSequence'[s] = e.seq /\ e.seq \in Nat /\ Honest(s)'
  <2> HIDE DEF e, es, from
  <2>1. e.seq = from + 1
    BY <1>5
  <2>2. \/ lastSequence[s] = NoSeq /\ discontinuities[s] # {}
        \/ lastSequence[s] # NoSeq /\ e.seq = lastSequence[s] + 1
    BY <1>4, <2>1
  <2>3. QED BY <1>t, <1>1, <1>3, <1>5, <2>2, DispatchIsHonest DEF ServerInv
<1>7. from + 1 = snapshot[s].latest - Len(Tail(es))
  BY <1>2, <1>3
<1>8. Replaying(s)'
  <2> HIDE DEF e, es, from
  <2>1. lastSequence'[s] = snapshot[s].latest - Len(Tail(es)) /\ lastSequence'[s] # NoSeq
    BY <1>5, <1>6, <1>7 DEF NoSeq
  <2>2. lastSequence'[s] <= snapshot[s].latest
    BY <1>2, <1>3, <2>1
  <2>3. Steady(Tail(es), snapshot[s].latest - Len(Tail(es)), snapshot[s].epoch)
    BY <1>5, <1>7
  <2>4. QED BY <1>1, <2>1, <2>2, <2>3 DEF Replaying
<1> HIDE DEF e, es, from
<1>9. Base(s)' = Base(s) /\ Base(s) + Len(startupEvents[s]) = Base(s) + Len(startupEvents[s])
  BY <1>1 DEF Base
<1>10. Steady(startupEvents[s], Base(s), snapshot[s].epoch)'
  BY <1>t, <1>1, <1>9 DEF ServerInv, Flows
<1>11. QED BY <1>t, <1>1, <1>6, <1>8, <1>9, <1>10, StartupKeepsSocket

LEMMA FinishReplayKeeps ==
  ASSUME StreamInv, NEW s \in Servers, FinishReplay(s)
  PROVE  ServerInv(s)'
<1>t. /\ snapshot \in [Servers -> [epoch : Nat, latest : Nat]] /\ phase[s] = "starting"
      /\ lastSequence \in [Servers -> Nat \cup {NoSeq}] /\ ServerInv(s)
  BY DEF StreamInv, RingInv, TypeOK, FinishReplay
<1>1. /\ pendingReplay[s] = <<>> /\ phase'[s] = "live" /\ lastSequence'[s] = snapshot[s].latest
      /\ UNCHANGED <<epoch, sequence, controller, clients, requests, frames, connected, cursor, snapshot,
                     pendingReplay, startupEvents, dispatched>>
  BY <1>t DEF FinishReplay, ResumeAt, hostVars, socketVars, startVars, StreamInv, RingInv, TypeOK
<1>2. discontinuities'[s] = IF ShortReplay(s) THEN discontinuities[s] \cup {"short replay"} ELSE discontinuities[s]
  <2>1. discontinuities \in [Servers -> SUBSET
          {"replay gap", "envelope", "duplicate", "missing", "unknown tab", "short replay"}]
    BY DEF StreamInv, RingInv, TypeOK
  <2>2. QED BY <2>1 DEF FinishReplay
<1>3. snapshot[s].latest \in Nat /\ lastSequence'[s] # NoSeq
  BY <1>t, <1>1 DEF NoSeq
<1>4. Base(s) = snapshot[s].latest /\ Base(s)' = snapshot[s].latest
  BY <1>t, <1>1 DEF Base
<1>5. Steady(startupEvents[s], Base(s), snapshot[s].epoch)'
  BY <1>t, <1>1, <1>4 DEF ServerInv, Flows
<1>6. Honest(s)'
  <2>1. discontinuities'[s] \cap {"envelope", "duplicate", "missing"} = {}
    BY <1>t, <1>2 DEF ServerInv, Honest
  <2>2. ASSUME discontinuities'[s] = {}
        PROVE  discontinuities[s] = {} /\ ~ShortReplay(s)
    BY <1>2, <2>2
  <2>3. ASSUME ~ShortReplay(s)
        PROVE  lastSequence[s] # NoSeq /\ lastSequence'[s] = lastSequence[s]
    <3>1. lastSequence[s] = NoSeq => snapshot[s].latest > 0
      BY <1>t DEF ServerInv, Replaying
    <3>2. QED BY <1>1, <2>3, <3>1 DEF ShortReplay
  <2>4. ASSUME discontinuities'[s] = {}
        PROVE  /\ lastSequence'[s] = cursor[s].seq + Len(dispatched[s])
               /\ \A i \in 1..Len(dispatched[s]) : dispatched[s][i] = cursor[s].seq + i
    BY <1>t, <2>2, <2>3, <2>4 DEF ServerInv, Honest
  <2>5. QED BY <1>1, <2>1, <2>4 DEF Honest
<1>7. Replaying(s)'
  BY <1>1 DEF Replaying
<1>8. Base(s)' + Len(startupEvents'[s]) = Base(s) + Len(startupEvents[s])
  BY <1>1, <1>4
<1>9. QED BY <1>t, <1>1, <1>3, <1>5, <1>6, <1>7, <1>8, StartupKeepsSocket

LEMMA DrainNextKeeps ==
  ASSUME StreamInv, NEW s \in Servers, DrainNext(s)
  PROVE  ServerInv(s)'
<1> DEFINE es == startupEvents[s]
           e  == Head(startupEvents[s])
           from == lastSequence[s]
<1>t. /\ startupEvents \in [Servers -> Seq(Event)] /\ TypeOK /\ ServerInv(s)
      /\ lastSequence \in [Servers -> Nat \cup {NoSeq}]
  BY DEF StreamInv, RingInv, TypeOK
<1>1. /\ phase[s] = "live" /\ es # <<>> /\ Dispatch(s, e) /\ startupEvents'[s] = Tail(es)
      /\ UNCHANGED <<epoch, sequence, controller, clients, requests, frames, phase, connected, cursor, snapshot,
                     pendingReplay>>
  BY <1>t DEF DrainNext, hostVars, socketVars
<1>2. es \in Seq(Event) /\ from # NoSeq /\ from \in Nat
  BY <1>t, <1>1 DEF ServerInv, Lifecycle
<1>3. e = es[1] /\ e \in Event /\ Len(Tail(es)) = Len(es) - 1 /\ Len(es) \in Nat \ {0}
  BY <1>1, <1>2, TailAt
<1>4. Steady(es, from, snapshot[s].epoch)
  BY <1>t, <1>1 DEF ServerInv, Flows, Base
<1>5. e.seq = from + 1 /\ e.epoch = snapshot[s].epoch /\ Steady(Tail(es), from + 1, snapshot[s].epoch)
  <2> HIDE DEF es, from
  <2>1. QED BY <1>1, <1>2, <1>3, <1>4, SteadyTail DEF es
<1>6. lastSequence'[s] = e.seq /\ e.seq \in Nat /\ Honest(s)'
  <2> HIDE DEF e
  <2>1. QED BY <1>t, <1>1, <1>2, <1>3, <1>5, DispatchIsHonest DEF ServerInv
<1>7. Replaying(s)' /\ lastSequence'[s] # NoSeq
  BY <1>1, <1>6 DEF Replaying, NoSeq
<1>8. Base(s) = from /\ Base(s)' = from + 1
  BY <1>1, <1>5, <1>6 DEF Base
<1>9. Base(s)' + Len(startupEvents'[s]) = Base(s) + Len(startupEvents[s])
  <2>1. Len(startupEvents'[s]) = Len(es) - 1 /\ Len(startupEvents[s]) = Len(es)
    BY <1>1, <1>3
  <2>2. (from + 1) + (Len(es) - 1) = from + Len(es)
    BY <1>2, <1>3
  <2> HIDE DEF es, from
  <2>3. Base(s)' + Len(startupEvents'[s]) = (from + 1) + (Len(es) - 1)
    BY <1>8, <2>1
  <2>4. Base(s) + Len(startupEvents[s]) = from + Len(es)
    BY <1>8, <2>1
  <2>5. QED BY <2>2, <2>3, <2>4
<1>10. Steady(startupEvents[s], Base(s), snapshot[s].epoch)'
  BY <1>1, <1>5, <1>8
<1>11. pendingReplay[s] = <<>>
  BY <1>t, <1>1 DEF ServerInv, Lifecycle
<1> HIDE DEF e, es, from
<1>12. QED BY <1>t, <1>1, <1>6, <1>7, <1>9, <1>10, <1>11, StartupKeepsSocket

\* A socket is lost, or the process: nothing more is read.
LEMMA ClientFailsKeeps ==
  ASSUME StreamInv, NEW s \in Servers, ClientFails(s), connected[s]
  PROVE  ServerInv(s)'
<1>t. /\ connected \in [Servers -> BOOLEAN] /\ frames \in [Servers -> Seq(HostFrame)] /\ ServerInv(s)
      /\ phase \in [Servers -> {"new", "attaching", "starting", "live", "gone"}]
  BY DEF StreamInv, RingInv, TypeOK
<1>1. /\ connected'[s] = FALSE /\ frames'[s] = <<>>
      /\ phase'[s] = IF phase[s] = "attaching" THEN "gone" ELSE phase[s]
      /\ UNCHANGED <<epoch, sequence, controller, clients, requests, cursor, snapshot, pendingReplay, startupEvents,
                     lastSequence, discontinuities, dispatched>>
  BY <1>t DEF ClientFails, hostVars, startVars, readVars
<1>2. phase[s] \in {"attaching", "starting", "live"}
  BY <1>t DEF ServerInv, Lifecycle
<1>3. Lifecycle(s)'
  BY <1>t, <1>1, <1>2 DEF ServerInv, Lifecycle
<1>4. Asking(s)'
  BY <1>t, <1>1, <1>2 DEF ServerInv, Asking
<1>5. Served(s)' /\ Active(s)'
  BY <1>1 DEF Served, Active
<1>6. Flows(s)'
  <2>1. Chain(frames[s], From(s), Process(s))' /\ ~Answered(s)'
    BY <1>1 DEF Chain, Answered
  <2>2. Steady(startupEvents[s], Base(s), snapshot[s].epoch)'
    <3>1. CASE phase[s] = "attaching"
      <4>1. startupEvents'[s] = <<>>
        BY <1>t, <1>1, <3>1 DEF ServerInv, Lifecycle
      <4>2. QED BY <4>1 DEF Steady
    <3>2. CASE phase[s] # "attaching"
      <4>1. Base(s)' = Base(s)
        BY <1>1, <3>2 DEF Base
      <4>2. QED BY <1>t, <1>1, <4>1 DEF ServerInv, Flows
    <3>3. QED BY <3>1, <3>2
  <2>3. QED BY <2>1, <2>2 DEF Flows
<1>7. Replaying(s)'
  BY <1>t, <1>1 DEF ServerInv, Replaying
<1>8. Honest(s)'
  BY <1>t, <1>1 DEF ServerInv, Honest
<1>9. QED BY <1>3, <1>4, <1>5, <1>6, <1>7, <1>8 DEF ServerInv

LEMMA ServerStopKeeps ==
  ASSUME StreamInv, NEW s \in Servers, ServerStop(s)
  PROVE  ServerInv(s)'
<1>t. /\ connected \in [Servers -> BOOLEAN] /\ frames \in [Servers -> Seq(HostFrame)] /\ ServerInv(s)
      /\ phase \in [Servers -> {"new", "attaching", "starting", "live", "gone"}]
      /\ pendingReplay \in [Servers -> Seq(Event)] /\ startupEvents \in [Servers -> Seq(Event)]
  BY DEF StreamInv, RingInv, TypeOK
<1>1. /\ connected'[s] = FALSE /\ frames'[s] = <<>> /\ phase'[s] = "gone" /\ phase[s] # "new"
      /\ pendingReplay'[s] = <<>> /\ startupEvents'[s] = <<>>
      /\ UNCHANGED <<epoch, sequence, controller, clients, requests, cursor,
                     lastSequence, discontinuities, dispatched>>
  BY <1>t DEF ServerStop, Running, hostVars, readVars
<1>3. Lifecycle(s)'
  BY <1>1 DEF Lifecycle
<1>4. Asking(s)'
  BY <1>t, <1>1 DEF ServerInv, Asking
<1>5. Served(s)' /\ Active(s)' /\ Replaying(s)'
  BY <1>1 DEF Served, Active, Replaying
<1>6. Flows(s)'
  BY <1>1 DEF Flows, Chain, Answered, Steady
<1>8. Honest(s)'
  BY <1>t, <1>1 DEF ServerInv, Honest
<1>9. QED BY <1>3, <1>4, <1>5, <1>6, <1>8 DEF ServerInv

\* A server starts with a cursor that no supervisor process is behind.
LEMMA ServerStartKeeps ==
  ASSUME StreamInv, NEW s \in Servers, ServerStart(s)
  PROVE  CursorsBehind' /\ ServerInv(s)'
<1>t. /\ connected \in [Servers -> BOOLEAN] /\ cursor \in [Servers -> [epoch : Nat, seq : Nat]] /\ ServerInv(s)
      /\ phase \in [Servers -> {"new", "attaching", "starting", "live", "gone"}]
      /\ requests \in [Servers -> Seq(ClientFrame)] /\ CursorsBehind
  BY DEF StreamInv, RingInv, TypeOK
<1>1. PICK c \in InheritedCursors :
        /\ cursor' = [cursor EXCEPT ![s] = c]
        /\ requests' = [requests EXCEPT ![s] = <<[type |-> "attach", cursor |-> c]>>]
  BY DEF ServerStart
<1>2. /\ phase[s] = "new" /\ phase'[s] = "attaching" /\ connected'[s] = TRUE
      /\ cursor'[s] = c /\ requests'[s] = <<[type |-> "attach", cursor |-> c]>>
      /\ UNCHANGED <<epoch, sequence, controller, frames, snapshot, pendingReplay, startupEvents,
                     lastSequence, discontinuities, dispatched, handoffs>>
  BY <1>t, <1>1 DEF ServerStart, ringVars, startVars, readVars
<1>3. c = NoCursor \/ Behind(c)
  BY <1>t DEF InheritedCursors, CursorsBehind, Behind
<1>4. CursorsBehind'
  <2>1. \A q \in Servers : cursor'[q] = NoCursor \/ Behind(cursor[q])'
    <3>1. ASSUME NEW q \in Servers PROVE cursor'[q] = NoCursor \/ Behind(cursor[q])'
      <4>1. CASE q = s
        BY <1>2, <1>3, <4>1 DEF Behind
      <4>2. CASE q # s
        <5>1. cursor'[q] = cursor[q]
          BY <1>t, <1>1, <4>2
        <5>2. QED BY <1>t, <1>2, <5>1 DEF CursorsBehind, Behind
      <4>3. QED BY <4>1, <4>2
    <3>2. QED BY <3>1
  <2>2. QED BY <1>t, <1>2, <2>1 DEF CursorsBehind, Behind, CursorOf
<1>5. frames[s] = <<>> /\ controller # s
  <2>1. ~connected[s]
    BY <1>t, <1>2 DEF ServerInv, Lifecycle
  <2>2. QED BY <1>t, <1>2, <2>1 DEF ServerInv, Lifecycle, Asking
<1>6. Lifecycle(s)'
  BY <1>t, <1>2, <1>5 DEF ServerInv, Lifecycle
<1>7. Asking(s)'
  <2>1. \A i \in 1..Len(requests'[s]) : i = 1 /\ requests'[s][1].cursor = c
    BY <1>2
  <2>2. QED BY <1>2, <1>5, <2>1 DEF Asking
<1>8. Served(s)' /\ Active(s)'
  BY <1>2, <1>5 DEF Served, Active
<1>9. Flows(s)'
  <2>1. startupEvents'[s] = <<>>
    BY <1>t, <1>2 DEF ServerInv, Lifecycle
  <2>2. QED BY <1>2, <1>5, <2>1 DEF Flows, Chain, Answered, Steady
<1>10. Replaying(s)'
  BY <1>2 DEF Replaying
<1>11. Honest(s)'
  BY <1>t, <1>2 DEF ServerInv, Honest, Lifecycle
<1>12. QED BY <1>4, <1>6, <1>7, <1>8, <1>9, <1>10, <1>11 DEF ServerInv

\* A request is written behind those that wait.
LEMMA RequestKeeps ==
  ASSUME StreamInv, NEW s \in Servers, NEW r \in ClientFrame, r.type # "attach", Request(s, r),
         UNCHANGED <<epoch, sequence, clients, controller, frames, phase, connected, cursor, startVars,
                     readVars, handoffs>>
  PROVE  CursorsBehind' /\ \A q \in Servers : ServerInv(q)'
<1>t. requests \in [Servers -> Seq(ClientFrame)]
  BY DEF StreamInv, RingInv, TypeOK
<1>1. CursorsBehind'
  BY ReadKeepsCursors
<1>2. ASSUME NEW q \in Servers PROVE ServerInv(q)'
  <2>1. Untouched(q) /\ ServerInv(q) /\ requests[q] \in Seq(ClientFrame) /\ frames'[q] = frames[q]
    BY <1>t DEF Untouched, startVars, readVars, StreamInv
  <2>2. requests'[q] = requests[q] \/ (requests'[q] = Append(requests[q], r) /\ phase[q] # "new")
    BY <1>t DEF Request
  <2>3. QED BY <2>1, <2>2, RestsKeeps
<1>3. QED BY <1>1, <1>2

LEMMA ServersKeepStream ==
  ASSUME StreamInv, NEW s \in Servers, ReadStep(s) \/ StartupStep(s) \/ ServerSteps(s), RingInv'
  PROVE  StreamInv'
<1>t. /\ sequence \in Nat /\ epoch \in Nat /\ TypeOK /\ frames \in [Servers -> Seq(HostFrame)]
  BY DEF StreamInv, RingInv, TypeOK
<1>e. UNCHANGED <<epoch, sequence, events>>
  BY <1>t, ServersKeepTypes
<1>o. ASSUME \A q \in Servers \ {s} : Untouched(q) /\ frames'[q] = frames[q] /\ requests'[q] = requests[q],
             controller' = controller, clients' \in {clients, clients \cup {s}},
             CursorsBehind', ServerInv(s)'
      PROVE  StreamInv'
  <2>1. \A q \in Servers : ServerInv(q)'
    BY <1>e, <1>o, OthersKeep
  <2>2. QED BY <1>e, <1>o, <2>1 DEF StreamInv
<1>1. CASE ReadAttached(s)
  <2>1. \A q \in Servers \ {s} : Untouched(q) /\ frames'[q] = frames[q] /\ requests'[q] = requests[q]
    <3>1. \A q \in Servers \ {s} :
            /\ snapshot'[q] = snapshot[q] /\ lastSequence'[q] = lastSequence[q]
            /\ discontinuities'[q] = discontinuities[q] /\ pendingReplay'[q] = pendingReplay[q]
      BY <1>t, <1>1, Zenon DEF ReadAttached, TypeOK
    <3>2. /\ phase' = [phase EXCEPT ![s] = "starting"] /\ frames' = [frames EXCEPT ![s] = Tail(@)]
          /\ UNCHANGED <<requests, connected, cursor, startupEvents, dispatched>>
      BY <1>1 DEF ReadAttached, Consume
    <3>3. \A q \in Servers \ {s} : phase'[q] = phase[q] /\ frames'[q] = frames[q]
      BY <1>t, <3>2 DEF TypeOK
    <3>4. QED BY <3>1, <3>2, <3>3 DEF Untouched
  <2>2. controller' = controller /\ clients' = clients
    BY <1>1 DEF ReadAttached, hostVars
  <2>3. CursorsBehind'
    BY <1>1, <1>e, ReadKeepsCursors DEF ReadAttached, Reads, Consume
  <2>4. QED BY <1>1, <1>o, <2>1, <2>2, <2>3, ReadAttachedKeeps
<1>2. CASE ReadFenced(s) \/ ServerLosesSocket(s)
  <2>0. ClientFails(s) /\ connected[s]
    BY <1>2 DEF ReadFenced, ServerLosesSocket, Reads
  <2>1. \A q \in Servers \ {s} : Untouched(q) /\ frames'[q] = frames[q] /\ requests'[q] = requests[q]
    BY <1>t, <2>0 DEF ClientFails, Untouched, hostVars, startVars, readVars
  <2>2. controller' = controller /\ clients' = clients
    BY <2>0 DEF ClientFails, hostVars
  <2>3. CursorsBehind'
    BY <1>e, <2>0, ReadKeepsCursors DEF ClientFails
  <2>4. QED BY <1>o, <2>0, <2>1, <2>2, <2>3, ClientFailsKeeps
<1>3. CASE ReadEvent(s)
  <2>0. \/ startupEvents' = [startupEvents EXCEPT ![s] = Append(@, Head(frames[s]).event)] /\ UNCHANGED readVars
        \/ Dispatch(s, Head(frames[s]).event) /\ UNCHANGED startupEvents
    BY <1>3 DEF ReadEvent
  <2>1. \A q \in Servers \ {s} : Untouched(q) /\ frames'[q] = frames[q] /\ requests'[q] = requests[q]
    <3>1. ASSUME NEW q \in Servers \ {s}
          PROVE  /\ startupEvents'[q] = startupEvents[q] /\ lastSequence'[q] = lastSequence[q]
                 /\ discontinuities'[q] = discontinuities[q] /\ dispatched'[q] = dispatched[q]
      BY <1>t, <2>0 DEF Dispatch, readVars, TypeOK
    <3>2. QED BY <1>t, <1>3, <3>1 DEF ReadEvent, Consume, Untouched, hostVars
  <2>2. controller' = controller /\ clients' = clients
    BY <1>3 DEF ReadEvent, hostVars
  <2>3. CursorsBehind'
    BY <1>3, <1>e, ReadKeepsCursors DEF ReadEvent, Reads, Consume
  <2>4. QED BY <1>3, <1>o, <2>1, <2>2, <2>3, ReadEventKeeps
<1>4. CASE ReadRemoved(s)
  <2>1. \A q \in Servers \ {s} : Untouched(q) /\ frames'[q] = frames[q] /\ requests'[q] = requests[q]
    BY <1>t, <1>4 DEF ReadRemoved, Consume, Untouched, hostVars, startVars, readVars
  <2>2. controller' = controller /\ clients' = clients
    BY <1>4 DEF ReadRemoved, hostVars
  <2>3. CursorsBehind'
    BY <1>4, <1>e, ReadKeepsCursors DEF ReadRemoved, Reads, Consume
  <2>4. QED BY <1>4, <1>o, <2>1, <2>2, <2>3, ReadAnswerKeeps
<1>5. CASE ReadHandoff(s)
  <2>1. \A q \in Servers \ {s} : Untouched(q) /\ frames'[q] = frames[q] /\ requests'[q] = requests[q]
    BY <1>t, <1>5 DEF ReadHandoff, Consume, Untouched, hostVars, startVars, readVars
  <2>2. controller' = controller /\ clients' = clients
    BY <1>5 DEF ReadHandoff, hostVars
  <2>3. CursorsBehind'
    <3> DEFINE f == frames[s][1]
               h == [epoch |-> f.epoch, seq |-> f.upto, by |-> s]
    <3>1. frames[s] # <<>> /\ frames[s] \in Seq(HostFrame) /\ frames' = [frames EXCEPT ![s] = Tail(@)]
          /\ f.type = "handoff" /\ handoffs' = handoffs \cup {h} /\ cursor' = cursor
      <4>1. frames[s] # <<>> /\ frames[s] \in Seq(HostFrame)
        BY <1>t, <1>5 DEF ReadHandoff, Reads
      <4>2. Head(frames[s]) = f
        BY <4>1, TailAt
      <4>3. QED BY <1>5, <4>1, <4>2 DEF ReadHandoff, Reads, Consume
    <3>2. Behind(CursorOf(f))
      <4>1. 1 \in 1..Len(frames[s])
        BY <3>1
      <4>2. QED BY <3>1, <4>1 DEF StreamInv, CursorsBehind
    <3>3. Behind(h)
      BY <3>2 DEF Behind, CursorOf
    <3> HIDE DEF f, h
    <3>4. \A x \in handoffs' : Behind(x)'
      BY <1>e, <3>1, <3>3 DEF StreamInv, CursorsBehind, Behind
    <3>5. ASSUME NEW q \in Servers, NEW i \in 1..Len(frames'[q]), frames'[q][i].type = "handoff"
          PROVE  Behind(CursorOf(frames[q][i]))'
      <4>1. \E j \in 1..Len(frames[q]) : frames'[q][i] = frames[q][j]
        <5>1. CASE q = s
          <6>1. frames'[q] = Tail(frames[s])
            BY <1>t, <3>1, <5>1
          <6>2. i + 1 \in 1..Len(frames[s]) /\ Tail(frames[s])[i] = frames[s][i + 1]
            <7>1. /\ Len(Tail(frames[s])) = Len(frames[s]) - 1 /\ Len(frames[s]) \in Nat
                  /\ \A j \in 1..(Len(frames[s]) - 1) : Tail(frames[s])[j] = frames[s][j + 1]
              BY <3>1, TailAt
            <7>2. QED BY <3>5, <6>1, <7>1
          <6>3. QED BY <5>1, <6>1, <6>2
        <5>2. CASE q # s
          BY <1>t, <3>1, <3>5, <5>2
        <5>3. QED BY <5>1, <5>2
      <4>2. PICK j \in 1..Len(frames[q]) : frames'[q][i] = frames[q][j]
        BY <4>1
      <4>3. Behind(CursorOf(frames[q][j]))
        BY <3>5, <4>2 DEF StreamInv, CursorsBehind
      <4>4. QED BY <1>e, <4>2, <4>3 DEF Behind, CursorOf
    <3>6. 1 <= epoch' /\ \A q \in Servers : cursor'[q] = NoCursor \/ Behind(cursor[q])'
      BY <1>e, <3>1 DEF StreamInv, CursorsBehind, Behind
    <3>7. QED BY <3>4, <3>5, <3>6 DEF CursorsBehind
  <2>4. QED BY <1>5, <1>o, <2>1, <2>2, <2>3, ReadAnswerKeeps
<1>6. CASE ReplayNext(s)
  <2>1. \A q \in Servers \ {s} : Untouched(q) /\ frames'[q] = frames[q] /\ requests'[q] = requests[q]
    BY <1>t, <1>6 DEF ReplayNext, Dispatch, Untouched, hostVars, socketVars, TypeOK
  <2>2. UNCHANGED <<controller, clients, frames, handoffs, cursor>>
    BY <1>6 DEF ReplayNext, hostVars, socketVars
  <2>3. CursorsBehind'
    BY <1>e, <2>2, ReadKeepsCursors
  <2>4. QED BY <1>6, <1>o, <2>1, <2>2, <2>3, ReplayNextKeeps
<1>7. CASE FinishReplay(s)
  <2>1. \A q \in Servers \ {s} : Untouched(q) /\ frames'[q] = frames[q] /\ requests'[q] = requests[q]
    BY <1>t, <1>7 DEF FinishReplay, Untouched, hostVars, socketVars, startVars, TypeOK
  <2>2. UNCHANGED <<controller, clients, frames, handoffs, cursor>>
    BY <1>7 DEF FinishReplay, hostVars, socketVars
  <2>3. CursorsBehind'
    BY <1>e, <2>2, ReadKeepsCursors
  <2>4. QED BY <1>7, <1>o, <2>1, <2>2, <2>3, FinishReplayKeeps
<1>8. CASE DrainNext(s)
  <2>1. \A q \in Servers \ {s} : Untouched(q) /\ frames'[q] = frames[q] /\ requests'[q] = requests[q]
    BY <1>t, <1>8 DEF DrainNext, Dispatch, Untouched, hostVars, socketVars, TypeOK
  <2>2. UNCHANGED <<controller, clients, frames, handoffs, cursor>>
    BY <1>8 DEF DrainNext, hostVars, socketVars
  <2>3. CursorsBehind'
    BY <1>e, <2>2, ReadKeepsCursors
  <2>4. QED BY <1>8, <1>o, <2>1, <2>2, <2>3, DrainNextKeeps
<1>9. CASE ServerStart(s)
  <2>1. \A q \in Servers \ {s} : Untouched(q) /\ frames'[q] = frames[q] /\ requests'[q] = requests[q]
    BY <1>t, <1>9 DEF ServerStart, Untouched, startVars, readVars, TypeOK
  <2>2. controller' = controller /\ clients' = clients \cup {s}
    BY <1>9 DEF ServerStart
  <2>3. QED BY <1>9, <1>o, <2>1, <2>2, ServerStartKeeps
<1>10. CASE ServerStop(s)
  <2>1. \A q \in Servers \ {s} : Untouched(q) /\ frames'[q] = frames[q] /\ requests'[q] = requests[q]
    BY <1>t, <1>10 DEF ServerStop, Untouched, hostVars, readVars, TypeOK
  <2>2. controller' = controller /\ clients' = clients
    BY <1>10 DEF ServerStop, hostVars
  <2>3. CursorsBehind'
    BY <1>10, <1>e, ReadKeepsCursors DEF ServerStop
  <2>4. QED BY <1>10, <1>o, <2>1, <2>2, <2>3, ServerStopKeeps
<1>11. CASE ServerPrepareHandoff(s)
  <2> DEFINE r == [type |-> "prepare_handoff"]
  <2>1. r \in ClientFrame /\ r.type # "attach" /\ Request(s, r)
    BY <1>11 DEF ServerPrepareHandoff, ClientFrame
  <2>2. UNCHANGED <<epoch, sequence, clients, controller, frames, phase, connected, cursor, startVars,
                     readVars, handoffs>>
    BY <1>11 DEF ServerPrepareHandoff, hostVars, serverVars, startVars, readVars
  <2> HIDE DEF r
  <2>3. CursorsBehind' /\ \A q \in Servers : ServerInv(q)'
    BY <2>1, <2>2, RequestKeeps
  <2>4. QED BY <1>e, <2>3 DEF StreamInv
<1>12. QED
  BY <1>1, <1>2, <1>3, <1>4, <1>5, <1>6, <1>7, <1>8, <1>9, <1>10, <1>11
  DEF ReadStep, StartupStep, ServerSteps

LEMMA TabsKeepStream ==
  ASSUME StreamInv, NEW s \in Servers, NEW t \in Tabs, ServerCreateTab(s, t) \/ ServerCloseTab(s, t), RingInv'
  PROVE  StreamInv'
<1>1. PICK type \in {"create", "close"} : Request(s, [type |-> type, tab |-> t])
  BY DEF ServerCreateTab, ServerCloseTab
<1> DEFINE r == [type |-> type, tab |-> t]
<1>2. r \in ClientFrame /\ r.type # "attach" /\ Request(s, r)
  BY <1>1 DEF ClientFrame
<1>3. UNCHANGED <<epoch, sequence, events, clients, controller, frames, phase, connected, cursor, startVars,
                  readVars, handoffs>>
  BY DEF ServerCreateTab, ServerCloseTab, hostVars, ringVars, serverVars, startVars, readVars
<1> HIDE DEF r
<1>4. CursorsBehind' /\ \A q \in Servers : ServerInv(q)'
  BY <1>2, <1>3, RequestKeeps
<1>5. QED BY <1>3, <1>4 DEF StreamInv

LEMMA InitStream == Init => StreamInv
<1> SUFFICES ASSUME Init PROVE StreamInv
  OBVIOUS
<1>1. RingInv
  BY InitRingInv
<1>2. Len(events) <= sequence
  BY DEF Init
<1>3. CursorsBehind
  BY DEF Init, CursorsBehind
<1>4. ASSUME NEW s \in Servers PROVE ServerInv(s)
  <2>1. /\ phase[s] = "new" /\ connected[s] = FALSE /\ startupEvents[s] = <<>> /\ pendingReplay[s] = <<>>
        /\ frames[s] = <<>> /\ requests[s] = <<>> /\ lastSequence[s] = NoSeq /\ discontinuities[s] = {}
        /\ dispatched[s] = <<>> /\ clients = {} /\ controller = Nobody
    BY DEF Init
  <2>2. Lifecycle(s) /\ Asking(s) /\ Served(s) /\ Active(s)
    BY <2>1 DEF Lifecycle, Asking, Served, Active
  <2>3. Replaying(s) /\ Honest(s)
    BY <2>1 DEF Replaying, Honest
  <2>4. Flows(s)
    BY <2>1 DEF Flows, Chain, Answered, Steady
  <2>5. QED BY <2>2, <2>3, <2>4 DEF ServerInv
<1>5. QED BY <1>1, <1>2, <1>3, <1>4 DEF StreamInv

LEMMA StepStream == StreamInv /\ [Next]_vars => StreamInv'
<1> SUFFICES ASSUME StreamInv, [Next]_vars PROVE StreamInv'
  OBVIOUS
<1>0. RingInv'
  BY StepRingInv DEF StreamInv
<1>1. CASE HostExit
  BY <1>0, <1>1, HostExitKeepsStream
<1>2. ASSUME NEW t \in Tabs, NEW b \in Sizes, HostEmit(t, b) PROVE StreamInv'
  BY <1>0, <1>2, HostEmitKeepsStream
<1>3. ASSUME UNCHANGED <<epoch, sequence, events, clients, controller, socketVars, serverVars>>
      PROVE  StreamInv'
  <2>1. CursorsBehind'
    <3>1. /\ CursorsBehind /\ TypeOK /\ sequence \in Nat /\ sequence' = sequence /\ epoch' = epoch
          /\ frames' = frames /\ UNCHANGED <<handoffs, cursor>>
      BY <1>3 DEF StreamInv, RingInv, TypeOK, socketVars, serverVars
    <3>2. QED BY <3>1, BehindKeeps
  <2>2. ASSUME NEW q \in Servers PROVE ServerInv(q)'
    <3>1. Untouched(q) /\ ServerInv(q) /\ requests[q] \in Seq(ClientFrame)
      BY <1>3 DEF Untouched, serverVars, StreamInv, RingInv, TypeOK
    <3>2. QED BY <1>3, <3>1, RestsKeeps DEF socketVars
  <2>3. QED BY <1>0, <1>3, <2>1, <2>2 DEF StreamInv
<1>4. ASSUME NEW t \in Tabs, HostOutputEnds(t) PROVE StreamInv'
  BY <1>3, <1>4 DEF HostOutputEnds, ringVars
<1>5. CASE UNCHANGED vars
  BY <1>3, <1>5 DEF vars, hostVars
<1>6. ASSUME NEW s \in Servers, HostStep(s) PROVE StreamInv'
  BY <1>6, HostKeepsStream
<1>7. ASSUME NEW s \in Servers, ReadStep(s) \/ StartupStep(s) \/ ServerSteps(s) PROVE StreamInv'
  BY <1>0, <1>7, ServersKeepStream
<1>8. ASSUME NEW s \in Servers, NEW t \in Tabs, ServerCreateTab(s, t) \/ ServerCloseTab(s, t) PROVE StreamInv'
  BY <1>0, <1>8, TabsKeepStream
<1>9. QED
  BY <1>1, <1>2, <1>4, <1>5, <1>6, <1>7, <1>8 DEF Next, ServerSteps

LEMMA StreamAlways == Spec => []StreamInv
BY InitStream, StepStream, PTL DEF Spec

\* A server that has reported nothing has dispatched every event from its cursor
\* to its position, once each and in order (validateRpcSupervisorEvent): through
\* any number of takeovers, supervisor exits, evictions and lost sockets.
THEOREM NoLossIsSilent == Spec => []NoSilentLoss
<1>1. StreamInv => NoSilentLoss
  BY DEF StreamInv, ServerInv, Honest, NoSilentLoss
<1>2. QED BY <1>1, StreamAlways, PTL

\* The ring, the replay and the socket bring a server no event twice, out of
\* order, of another process or with a predecessor missing (attach, emit,
\* finishRpcSupervisorReplay).
THEOREM SequencesStayIntact == Spec => []SequenceIntact
<1>1. StreamInv => SequenceIntact
  BY DEF StreamInv, ServerInv, Honest, SequenceIntact
<1>2. QED BY <1>1, StreamAlways, PTL

\* A server that is attached, whose socket is whole and that has no fence ahead
\* of it is the controller, whoever else comes and goes (attach, accept's close
\* handler).
THEOREM ActiveServersControl == Spec => []ActiveServerIsController
<1>1. StreamInv => ActiveServerIsController
  <2>1. SUFFICES ASSUME StreamInv PROVE ActiveServerIsController
    OBVIOUS
  <2>2. clients \subseteq Servers
        /\ phase \in [Servers -> {"new", "attaching", "starting", "live", "gone"}]
    BY <2>1 DEF StreamInv, RingInv, TypeOK
  <2>3. \A s \in Servers : Active(s)
    BY <2>1 DEF StreamInv, ServerInv
  <2>4. QED BY <2>2, <2>3 DEF Active, ActiveServerIsController
<1>2. QED BY <1>1, StreamAlways, PTL

-----------------------------------------------------------------------------
(* The relay implements ordered delivery *)

\* Only reader r learns of a gap.
LEMMA GapAfter ==
  ASSUME NEW r \in Servers, \A q \in Servers \ {r} : discontinuities'[q] = discontinuities[q]
  PROVE  /\ discontinuities'[r] # {} =>
              [q \in Servers |-> discontinuities'[q] # {}]
                = [[q \in Servers |-> discontinuities[q] # {}] EXCEPT ![r] = TRUE]
         /\ (discontinuities'[r] # {}) = (discontinuities[r] # {}) =>
              [q \in Servers |-> discontinuities'[q] # {}] = [q \in Servers |-> discontinuities[q] # {}]
<1>1. ASSUME discontinuities'[r] # {}
      PROVE  [q \in Servers |-> discontinuities'[q] # {}]
                = [[q \in Servers |-> discontinuities[q] # {}] EXCEPT ![r] = TRUE]
  BY <1>1
<1>2. ASSUME (discontinuities'[r] # {}) = (discontinuities[r] # {})
      PROVE  [q \in Servers |-> discontinuities'[q] # {}] = [q \in Servers |-> discontinuities[q] # {}]
  BY <1>2
<1>3. QED BY <1>1, <1>2

LEMMA DispatchRefines ==
  ASSUME TypeOK, NEW s \in Servers, NEW e \in Event, Dispatch(s, e), e.epoch = snapshot[s].epoch,
         \/ lastSequence[s] = NoSeq /\ discontinuities[s] # {}
         \/ lastSequence[s] # NoSeq /\ e.seq = lastSequence[s] + 1
  PROVE  Delivery!Next
<1>t. /\ e.seq \in Nat /\ lastSequence \in [Servers -> Nat \cup {NoSeq}] /\ dispatched \in [Servers -> Seq(Nat)]
  BY DEF TypeOK, Event
<1>1. /\ lastSequence' = [lastSequence EXCEPT ![s] = e.seq]
      /\ IF e.tab \in tabs[s]
         THEN discontinuities' = discontinuities /\ dispatched' = [dispatched EXCEPT ![s] = Append(@, e.seq)]
         ELSE /\ discontinuities' = [discontinuities EXCEPT ![s] = @ \cup {"unknown tab"}]
              /\ dispatched' = dispatched
  BY DispatchNext
<1>2. lastSequence'[s] = e.seq /\ lastSequence' = [lastSequence EXCEPT ![s] = lastSequence'[s]]
  BY <1>t, <1>1
<1>3. CASE e.tab \in tabs[s] /\ lastSequence[s] # NoSeq
  <2>1. Delivery!Deliver(s)
    BY <1>1, <1>3 DEF Delivery!Deliver, Delivery!Unopened, NoSeq
  <2>2. QED BY <2>1 DEF Delivery!Next
<1>4. CASE e.tab \in tabs[s] /\ lastSequence[s] = NoSeq
  <2>1. discontinuities' = discontinuities /\ discontinuities'[s] # {}
    BY <1>1, <1>4
  <2>2. [q \in Servers |-> discontinuities'[q] # {}]
          = [[q \in Servers |-> discontinuities[q] # {}] EXCEPT ![s] = TRUE]
    BY <2>1, GapAfter
  <2>3. lastSequence'[s] > lastSequence[s] /\ lastSequence'[s] >= lastSequence[s]
    BY <1>t, <1>2, <1>4 DEF NoSeq
  <2>4. dispatched' = [dispatched EXCEPT ![s] = Append(@, lastSequence'[s])]
    BY <1>1, <1>2, <1>4
  <2>5. Delivery!Skip(s)
    BY <1>2, <2>2, <2>3, <2>4 DEF Delivery!Skip
  <2>6. QED BY <2>5 DEF Delivery!Next
<1>5. CASE e.tab \notin tabs[s]
  <2>0. discontinuities \in [Servers -> SUBSET
          {"replay gap", "envelope", "duplicate", "missing", "unknown tab", "short replay"}]
    BY DEF TypeOK
  <2>1. discontinuities' = [discontinuities EXCEPT ![s] = @ \cup {"unknown tab"}] /\ dispatched' = dispatched
    BY <1>1, <1>5
  <2>g. discontinuities'[s] # {} /\ \A q \in Servers \ {s} : discontinuities'[q] = discontinuities[q]
    BY <2>0, <2>1
  <2>2. [q \in Servers |-> discontinuities'[q] # {}]
          = [[q \in Servers |-> discontinuities[q] # {}] EXCEPT ![s] = TRUE]
    BY <2>g, GapAfter
  <2>3. lastSequence'[s] >= lastSequence[s]
    BY <1>t, <1>2 DEF NoSeq
  <2>5. Delivery!Skip(s)
    BY <1>2, <2>1, <2>2, <2>3 DEF Delivery!Skip
  <2>6. QED BY <2>5 DEF Delivery!Next
<1>6. QED BY <1>3, <1>4, <1>5

\* Every event that is dispatched is the next one, or comes where a gap is known.
LEMMA DispatchedInOrder ==
  ASSUME StreamInv, NEW s \in Servers,
         ReplayNext(s) \/ DrainNext(s) \/ (ReadEvent(s) /\ ~UNCHANGED readVars)
  PROVE  Delivery!Next
<1>t. /\ pendingReplay \in [Servers -> Seq(Event)] /\ snapshot \in [Servers -> [epoch : Nat, latest : Nat]]
      /\ startupEvents \in [Servers -> Seq(Event)] /\ frames \in [Servers -> Seq(HostFrame)]
      /\ lastSequence \in [Servers -> Nat \cup {NoSeq}] /\ TypeOK /\ ServerInv(s)
  BY DEF StreamInv, RingInv, TypeOK
<1>1. CASE ReplayNext(s)
  <2> DEFINE es == pendingReplay[s]
             from == snapshot[s].latest - Len(es)
  <2>1. phase[s] = "starting" /\ es # <<>> /\ Dispatch(s, Head(es)) /\ es \in Seq(Event) /\ from \in Int
    BY <1>t, <1>1 DEF ReplayNext
  <2>2. Head(es) = es[1] /\ es[1] \in Event
    BY <2>1, TailAt
  <2>3. /\ Steady(es, from, snapshot[s].epoch)
        /\ \/ lastSequence[s] = NoSeq /\ discontinuities[s] # {}
           \/ lastSequence[s] # NoSeq /\ lastSequence[s] = from
    BY <1>t, <2>1 DEF ServerInv, Replaying
  <2> HIDE DEF es, from
  <2>4. es[1].seq = from + 1 /\ es[1].epoch = snapshot[s].epoch
    BY <2>1, <2>3, SteadyTail
  <2>5. QED BY <1>t, <2>1, <2>2, <2>3, <2>4, DispatchRefines
<1>2. CASE DrainNext(s)
  <2> DEFINE es == startupEvents[s]
             from == lastSequence[s]
  <2>1. phase[s] = "live" /\ es # <<>> /\ Dispatch(s, Head(es)) /\ es \in Seq(Event)
    BY <1>t, <1>2 DEF DrainNext
  <2>2. Head(es) = es[1] /\ es[1] \in Event /\ from # NoSeq /\ from \in Int
    BY <1>t, <2>1, TailAt DEF ServerInv, Lifecycle
  <2>3. Steady(es, from, snapshot[s].epoch)
    BY <1>t, <2>1 DEF ServerInv, Flows, Base
  <2>4. es[1].seq = from + 1 /\ es[1].epoch = snapshot[s].epoch
    <3> HIDE DEF es, from
    <3>1. QED BY <2>1, <2>2, <2>3, SteadyTail
  <2> HIDE DEF es
  <2>5. QED BY <1>t, <2>1, <2>2, <2>4, DispatchRefines
<1>3. CASE ReadEvent(s) /\ ~UNCHANGED readVars
  <2> DEFINE f == frames[s][1]
             e == f.event
  <2>1. /\ frames[s] # <<>> /\ connected[s] /\ ~Draining(s) /\ Head(frames[s]).type = "event"
        /\ frames'[s] = Tail(frames[s]) /\ frames[s] \in Seq(HostFrame)
    BY <1>t, <1>3 DEF ReadEvent, Reads, Consume
  <2>2. /\ Head(frames[s]) = f /\ f \in HostFrame
        /\ Continues(f, Base(s) + Len(startupEvents[s]), snapshot[s].epoch)
    BY <1>t, <2>1, ReadNext
  <2>3. phase[s] = "live" /\ Dispatch(s, e)
    BY <1>3, <2>2 DEF ReadEvent
  <2>4. /\ startupEvents[s] = <<>> /\ Base(s) = lastSequence[s] /\ lastSequence[s] # NoSeq
        /\ lastSequence[s] \in Nat /\ Len(startupEvents[s]) = 0
    BY <1>t, <2>1, <2>3 DEF Draining, Base, ServerInv, Lifecycle
  <2>5. e \in Event /\ e.epoch = snapshot[s].epoch /\ e.seq = f.upto /\ f.upto \in Nat
        /\ f.upto = Base(s) + Len(startupEvents[s]) + 1
    BY <2>1, <2>2 DEF Continues, Advance, HostFrame
  <2> HIDE DEF f, e
  <2>6. e.seq = lastSequence[s] + 1
    BY <2>4, <2>5
  <2>7. QED BY <1>t, <2>3, <2>4, <2>5, <2>6, DispatchRefines
<1>4. QED BY <1>1, <1>2, <1>3

\* Where the startup begins and ends: the reader opens, or knows of a gap.
LEMMA StartupRefines ==
  ASSUME StreamInv, NEW s \in Servers, ReadAttached(s) \/ FinishReplay(s)
  PROVE  Delivery!Next \/ UNCHANGED Delivery!vars
<1>t. /\ lastSequence \in [Servers -> Nat \cup {NoSeq}] /\ dispatched \in [Servers -> Seq(Nat)]
      /\ snapshot \in [Servers -> [epoch : Nat, latest : Nat]] /\ frames[s] \in Seq(HostFrame)
      /\ cursor \in [Servers -> [epoch : Nat, seq : Nat]] /\ ServerInv(s)
  BY DEF StreamInv, RingInv, TypeOK
<1>d. discontinuities \in [Servers -> SUBSET
        {"replay gap", "envelope", "duplicate", "missing", "unknown tab", "short replay"}]
  BY DEF StreamInv, RingInv, TypeOK
<1> DEFINE gap  == [q \in Servers |-> discontinuities[q] # {}]
           gap2 == [q \in Servers |-> discontinuities'[q] # {}]
<1>o. \A q \in Servers \ {s} : discontinuities'[q] = discontinuities[q]
  BY <1>d DEF ReadAttached, FinishReplay
<1>g. /\ discontinuities'[s] # {} => gap2 = [gap EXCEPT ![s] = TRUE]
      /\ (discontinuities'[s] # {}) = (discontinuities[s] # {}) => gap2 = gap
  BY <1>o, GapAfter
<1>1. CASE ReadAttached(s)
  <2> DEFINE f == Head(frames[s])
  <2>1. f \in HostFrame /\ f.type = "attached" /\ frames[s] # <<>> /\ f = frames[s][1]
    <3>1. Reads(s, "attached")
      BY <1>1 DEF ReadAttached
    <3>2. QED BY <1>t, <3>1, TailAt DEF Reads
  <2>2. f.upto \in Nat /\ f.gap \in BOOLEAN /\ cursor[s].seq \in Nat
    BY <1>t, <2>1 DEF HostFrame
  <2>3. lastSequence[s] = NoSeq /\ dispatched[s] = <<>> /\ discontinuities[s] = {}
    BY <1>t, <2>1 DEF ServerInv, Lifecycle
  <2>4. /\ lastSequence' = [lastSequence EXCEPT ![s] =
              IF cursor[s].epoch = f.epoch /\ ~f.gap THEN cursor[s].seq
              ELSE IF f.upto = 0 THEN 0 ELSE NoSeq]
        /\ dispatched' = dispatched
    BY <1>1 DEF ReadAttached
  <2>5. discontinuities' = [discontinuities EXCEPT ![s] = IF f.gap THEN {"replay gap"} ELSE {}]
    BY <1>1 DEF ReadAttached
  <2> HIDE DEF f
  <2>6. discontinuities'[s] # {} <=> f.gap
    BY <1>d, <2>2, <2>5
  <2>7. /\ lastSequence'[s] \in Nat \cup {NoSeq}
        /\ lastSequence' = [lastSequence EXCEPT ![s] = lastSequence'[s]]
    BY <1>t, <2>2, <2>4
  <2>8. gap2 \in {gap, [gap EXCEPT ![s] = TRUE]}
    BY <1>g, <2>2, <2>3, <2>6
  <2>9. CASE lastSequence'[s] # NoSeq
    <3>1. Delivery!Open(s)
      BY <2>3, <2>4, <2>7, <2>8, <2>9 DEF Delivery!Open, Delivery!Unopened, NoSeq
    <3>2. QED BY <3>1 DEF Delivery!Next
  <2>10. CASE lastSequence'[s] = NoSeq /\ f.gap
    <3>1. lastSequence'[s] >= lastSequence[s]
      BY <2>3, <2>10 DEF NoSeq
    <3>2. gap2 = [gap EXCEPT ![s] = TRUE]
      BY <1>g, <2>6, <2>10
    <3>3. Delivery!Skip(s)
      BY <2>4, <2>7, <3>1, <3>2 DEF Delivery!Skip
    <3>4. QED BY <3>3 DEF Delivery!Next
  <2>11. CASE lastSequence'[s] = NoSeq /\ ~f.gap
    <3>1. lastSequence' = lastSequence
      BY <1>t, <2>3, <2>7, <2>11
    <3>2. gap2 = gap
      BY <1>g, <2>3, <2>6, <2>11
    <3>3. QED BY <2>4, <3>1, <3>2 DEF Delivery!vars
  <2>12. QED BY <2>2, <2>9, <2>10, <2>11
<1>2. CASE FinishReplay(s)
  <2>1. /\ phase[s] = "starting" /\ lastSequence' = [lastSequence EXCEPT ![s] = snapshot[s].latest]
        /\ dispatched' = dispatched
    BY <1>2 DEF FinishReplay, ResumeAt
  <2>2. discontinuities' = [discontinuities EXCEPT ![s] = IF ShortReplay(s) THEN @ \cup {"short replay"} ELSE @]
    BY <1>2 DEF FinishReplay
  <2>3. /\ lastSequence[s] # NoSeq => lastSequence[s] <= snapshot[s].latest
        /\ lastSequence[s] = NoSeq => snapshot[s].latest > 0
    BY <1>t, <2>1 DEF ServerInv, Replaying
  <2>4. CASE ShortReplay(s)
    <3>1. discontinuities'[s] # {}
      BY <1>d, <2>2, <2>4
    <3>2. lastSequence'[s] >= lastSequence[s] /\ lastSequence' = [lastSequence EXCEPT ![s] = lastSequence'[s]]
      BY <1>t, <2>1, <2>3 DEF NoSeq
    <3>3. Delivery!Skip(s)
      BY <1>g, <2>1, <3>1, <3>2 DEF Delivery!Skip
    <3>4. QED BY <3>3 DEF Delivery!Next
  <2>5. CASE ~ShortReplay(s)
    <3>1. lastSequence[s] = snapshot[s].latest
      BY <2>3, <2>5 DEF ShortReplay
    <3>2. lastSequence' = lastSequence
      BY <1>t, <2>1, <3>1
    <3>3. gap2 = gap
      <4>1. discontinuities' = discontinuities
        BY <1>d, <2>2, <2>5
      <4>2. QED BY <4>1
    <3>4. QED BY <2>1, <3>2, <3>3 DEF Delivery!vars
  <2>6. QED BY <2>4, <2>5
<1>3. QED BY <1>1, <1>2

\* A step that dispatches nothing leaves the readers alone.
LEMMA QuietRefines ==
  ASSUME UNCHANGED readVars
  PROVE  UNCHANGED Delivery!vars
BY DEF readVars, Delivery!vars

LEMMA StepDelivers ==
  ASSUME StreamInv, [Next]_vars
  PROVE  Delivery!Next \/ UNCHANGED Delivery!vars
<1>1. CASE UNCHANGED vars
  BY <1>1, QuietRefines DEF vars, serverVars, readVars
<1>2. CASE HostExit
  BY <1>2, QuietRefines DEF HostExit, serverVars, readVars
<1>3. ASSUME NEW t \in Tabs, HostOutputEnds(t) \/ \E b \in Sizes : HostEmit(t, b)
      PROVE  UNCHANGED Delivery!vars
  BY <1>3, QuietRefines DEF HostOutputEnds, HostEmit, serverVars, readVars
<1>4. ASSUME NEW s \in Servers, HostStep(s)
      PROVE  UNCHANGED Delivery!vars
  <2>1. UNCHANGED readVars
    BY <1>4 DEF HostStep, HostAttach, HostAttachTimeout, HostRefuse, HostCreate, HostCreateFails, HostClose,
                HostPrepareHandoff, HostSocketClose, serverVars, readVars
  <2>2. QED BY <2>1, QuietRefines
<1>5. ASSUME NEW s \in Servers, ReadStep(s) \/ StartupStep(s)
      PROVE  Delivery!Next \/ UNCHANGED Delivery!vars
  <2>1. CASE ReadAttached(s) \/ FinishReplay(s)
    BY <2>1, StartupRefines
  <2>2. CASE ReplayNext(s) \/ DrainNext(s) \/ (ReadEvent(s) /\ ~UNCHANGED readVars)
    BY <2>2, DispatchedInOrder
  <2>3. CASE ReadFenced(s) \/ ReadHandoff(s) \/ ReadRemoved(s)
    BY <2>3, QuietRefines DEF ReadFenced, ClientFails, ReadHandoff, ReadRemoved
  <2>4. CASE UNCHANGED readVars
    BY <2>4, QuietRefines
  <2>5. QED BY <1>5, <2>1, <2>2, <2>3, <2>4 DEF ReadStep, StartupStep
<1>6. ASSUME NEW s \in Servers,
             ServerSteps(s) \/ \E t \in Tabs : ServerCreateTab(s, t) \/ ServerCloseTab(s, t)
      PROVE  UNCHANGED Delivery!vars
  <2>1. UNCHANGED readVars
    BY <1>6 DEF ServerSteps, ServerStart, ServerStop, ServerLosesSocket, ClientFails, ServerPrepareHandoff,
                ServerCreateTab, ServerCloseTab, serverVars, readVars
  <2>2. QED BY <2>1, QuietRefines
<1>7. QED BY <1>1, <1>2, <1>3, <1>4, <1>5, <1>6 DEF Next, ServerSteps

\* The relay implements OrderedDelivery: every step of the supervisor, of the
\* sockets and of the servers gives one reader its next event, takes it forward
\* over a gap that it knows of, or leaves the readers alone.
THEOREM RelayDeliversInOrder == Spec => ImplementsOrderedDelivery
<1>1. Init => Delivery!Init
  BY DEF Init, Delivery!Init, Delivery!Unopened, NoSeq
<1>2. StreamInv /\ [Next]_vars => [Delivery!Next]_(Delivery!vars)
  BY StepDelivers
<1>3. QED BY <1>1, <1>2, StreamAlways, PTL DEF Spec, ImplementsOrderedDelivery, Delivery!Spec
=============================================================================
