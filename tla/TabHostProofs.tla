--------------------------- MODULE TabHostProofs ---------------------------
(***************************************************************************)
(* Theorems about TabHost, for any requests, tabs, limits and number of    *)
(* updates: the operations of a queue take turns, an update never installs *)
(* while a mutation is under way, what is pending can be answered, a child *)
(* loses its tab in two ways only, and writes reach children in order.     *)
(***************************************************************************)
EXTENDS TabHost, FiniteSetTheorems, TLAPS

\* Whether a request at stage st stands in a queue, and whether it is at its head.
In(r, st)  == Kind[r] # "create" /\ st \in {"queued"} \cup HoldStages
Top(r, st) == Kind[r] # "create" /\ st \in HoldStages

\* A request that has entered its queue stands there, at the head if it is under
\* way; and nothing else stands there, or twice.
QueueInv ==
  /\ \A r \in Requests : In(r, stage[r]) =>
       /\ place[r] \in Requests
       /\ \E i \in 1..Len(queue[place[r]]) : queue[place[r]][i] = r /\ (Top(r, stage[r]) => i = 1)
  /\ \A o \in Requests : \A i \in 1..Len(queue[o]) :
       /\ queue[o][i] \in Requests /\ place[queue[o][i]] = o
       /\ In(queue[o][i], stage[queue[o][i]])
  /\ \A o \in Requests : \A i, j \in 1..Len(queue[o]) : queue[o][i] = queue[o][j] => i = j

\* Only a create is checked outside of a queue, and it never enters one.
KindInv ==
  \A r \in Requests :
    /\ Kind[r] = "create" => stage[r] \notin {"queued", "admitted", "stopping", "flushing", "awaiting"}
    /\ Kind[r] # "create" => stage[r] # "checking"

QInv == TypeOK /\ QueueInv /\ KindInv

-----------------------------------------------------------------------------
(* How a step may change the queues *)

\* No queue changes, and no request enters or leaves a turn.
LEMMA SameQueues ==
  ASSUME QInv, UNCHANGED <<place, queue>>,
         \A r \in Requests : /\ In(r, stage'[r]) <=> In(r, stage[r])
                             /\ Top(r, stage'[r]) => Top(r, stage[r])
  PROVE  QueueInv'
  BY DEF QInv, QueueInv

\* The request at the head of its queue begins its turn.
LEMMA TurnBegins ==
  ASSUME QInv, NEW r \in Requests, IsNext(r), Kind[r] # "create", UNCHANGED <<place, queue>>,
         stage' = [stage EXCEPT ![r] = "admitted"]
  PROVE  QueueInv'
  <1>1. place[r] \in Requests /\ queue[place[r]] \in Seq(Requests) /\ Len(queue[place[r]]) >= 1
    BY DEF QInv, QueueInv, In, IsNext, TypeOK
  <1>2. queue[place[r]][1] = r
    BY <1>1 DEF IsNext
  <1>3. stage[r] = "queued" /\ stage' = [stage EXCEPT ![r] = "admitted"] /\ stage \in [Requests -> Stages]
    BY DEF IsNext, QInv, TypeOK
  <1>. QED BY <1>1, <1>2, <1>3 DEF QInv, QueueInv, In, Top, HoldStages

\* A request enters the queue of a tab object.
LEMMA TurnIsTaken ==
  ASSUME QInv, NEW r \in Requests, NEW o \in Requests, stage[r] = "new", Kind[r] # "create",
         stage' = [stage EXCEPT ![r] = "queued"], place' = [place EXCEPT ![r] = o],
         queue' = [queue EXCEPT ![o] = Append(@, r)]
  PROVE  QueueInv'
  <1>. DEFINE n == Len(queue[o])
  <1>1. /\ queue \in [Requests -> Seq(Requests)] /\ stage \in [Requests -> Stages]
        /\ place \in [Requests -> Requests \cup {None}]
    BY DEF QInv, TypeOK
  <1>2. n \in Nat /\ Len(queue'[o]) = n + 1 /\ queue'[o][n + 1] = r
        /\ \A i \in 1..n : queue'[o][i] = queue[o][i]
    BY <1>1
  <1>3. \A q \in Requests : q # o => queue'[q] = queue[q]
    BY <1>1
  <1>4. \A q \in Requests : q # r => place'[q] = place[q] /\ stage'[q] = stage[q]
    BY <1>1
  <1>5. place'[r] = o /\ stage'[r] = "queued" /\ ~In(r, stage[r]) /\ In(r, "queued") /\ ~Top(r, "queued")
    BY <1>1 DEF In, Top, HoldStages
  <1>6. \A q \in Requests : \A i \in 1..Len(queue[q]) : queue[q][i] # r
    BY <1>5 DEF QInv, QueueInv
  <1>7. \A q \in Requests : In(q, stage'[q]) =>
          /\ place'[q] \in Requests
          /\ \E i \in 1..Len(queue'[place'[q]]) : queue'[place'[q]][i] = q /\ (Top(q, stage'[q]) => i = 1)
    <2>. SUFFICES ASSUME NEW q \in Requests, In(q, stage'[q])
                  PROVE  /\ place'[q] \in Requests
                         /\ \E i \in 1..Len(queue'[place'[q]]) :
                              queue'[place'[q]][i] = q /\ (Top(q, stage'[q]) => i = 1)
      OBVIOUS
    <2>1. CASE q = r
      BY <2>1, <1>2, <1>5
    <2>2. CASE q # r
      <3>1. PICK i \in 1..Len(queue[place[q]]) : queue[place[q]][i] = q /\ (Top(q, stage[q]) => i = 1)
        BY <2>2, <1>4 DEF QInv, QueueInv
      <3>2. place[q] \in Requests
        BY <2>2, <1>4 DEF QInv, QueueInv
      <3>3. i \in 1..Len(queue'[place[q]]) /\ queue'[place[q]][i] = q
        BY <3>1, <3>2, <1>2, <1>3
      <3>. QED BY <3>1, <3>2, <3>3, <2>2, <1>4
    <2>. QED BY <2>1, <2>2
  <1>8. \A p \in Requests : \A i \in 1..Len(queue'[p]) :
          /\ queue'[p][i] \in Requests /\ place'[queue'[p][i]] = p
          /\ In(queue'[p][i], stage'[queue'[p][i]])
    <2>. SUFFICES ASSUME NEW p \in Requests, NEW i \in 1..Len(queue'[p])
                  PROVE  /\ queue'[p][i] \in Requests /\ place'[queue'[p][i]] = p
                         /\ In(queue'[p][i], stage'[queue'[p][i]])
      OBVIOUS
    <2>1. CASE p = o /\ i = n + 1
      BY <2>1, <1>2, <1>5
    <2>2. CASE ~(p = o /\ i = n + 1)
      <3>1. i \in 1..Len(queue[p]) /\ queue'[p][i] = queue[p][i]
        BY <2>2, <1>2, <1>3
      <3>2. queue[p][i] \in Requests /\ place[queue[p][i]] = p /\ In(queue[p][i], stage[queue[p][i]])
        BY <3>1 DEF QInv, QueueInv
      <3>. QED BY <3>1, <3>2, <1>4, <1>6
    <2>. QED BY <2>1, <2>2
  <1>9. \A p \in Requests : \A i, j \in 1..Len(queue'[p]) : queue'[p][i] = queue'[p][j] => i = j
    <2>. SUFFICES ASSUME NEW p \in Requests, NEW i \in 1..Len(queue'[p]), NEW j \in 1..Len(queue'[p]),
                         queue'[p][i] = queue'[p][j]
                  PROVE  i = j
      OBVIOUS
    <2>1. CASE p # o
      BY <2>1, <1>3 DEF QInv, QueueInv
    <2>2. CASE p = o
      <3>1. \A k, l \in 1..n : queue[o][k] = queue[o][l] => k = l
        BY DEF QInv, QueueInv
      <3>2. \A k \in 1..n : queue[o][k] # r
        BY <1>6
      <3>. HIDE DEF n
      <3>. QED BY <3>1, <3>2, <2>2, <1>2
    <2>. QED BY <2>1, <2>2
  <1>. QED BY <1>7, <1>8, <1>9 DEF QueueInv

\* The request at the head of its queue leaves it.
LEMMA TurnEnds ==
  ASSUME QInv, NEW r \in Requests, NEW st \in {"awaiting", "failed", "done"},
         Top(r, stage[r]) \/ (IsNext(r) /\ Kind[r] # "create"),
         Leave(r, st), UNCHANGED place
  PROVE  QueueInv'
  <1>. DEFINE o == place[r]
  <1>. DEFINE n == Len(queue[o])
  <1>1. /\ queue \in [Requests -> Seq(Requests)] /\ stage \in [Requests -> Stages]
        /\ Kind[r] # "create" /\ In(r, stage[r])
    BY DEF QInv, TypeOK, In, Top, IsNext
  <1>2. o \in Requests /\ n \in Nat /\ n >= 1
    BY <1>1 DEF QInv, QueueInv
  <1>3. queue[o][1] = r
    BY <1>1, <1>2 DEF QInv, QueueInv, IsNext
  <1>. DEFINE once == \A p \in Requests : \A k, l \in 1..Len(queue[p]) : queue[p][k] = queue[p][l] => k = l
  <1>o. once
    BY DEF QInv, QueueInv
  <1>h. \A k \in 1..n : queue[o][k] = r => k = 1
    BY <1>o, <1>2, <1>3
  <1>4. Len(queue'[o]) = n - 1 /\ \A i \in 1..(n - 1) : queue'[o][i] = queue[o][i + 1]
    BY <1>1, <1>2 DEF Leave
  <1>5. \A p \in Requests : p # o => queue'[p] = queue[p]
    BY <1>1 DEF Leave
  <1>6. /\ \A q \in Requests : q # r => stage'[q] = stage[q]
        /\ stage'[r] = st /\ ~In(r, st)
    BY <1>1 DEF Leave, In, HoldStages
  <1>7. \A p \in Requests : \A i \in 1..Len(queue'[p]) :
          \E k \in 1..Len(queue[p]) : queue'[p][i] = queue[p][k] /\ (p = o => k = i + 1) /\ (p # o => k = i)
    <2>. TAKE p \in Requests
    <2>. TAKE i \in 1..Len(queue'[p])
    <2>1. CASE p = o
      BY <2>1, <1>2, <1>4
    <2>2. CASE p # o
      BY <2>2, <1>5
    <2>. QED BY <2>1, <2>2
  <1>8. \A p \in Requests : \A i \in 1..Len(queue'[p]) : queue'[p][i] # r
    <2>. SUFFICES ASSUME NEW p \in Requests, NEW i \in 1..Len(queue'[p]), queue'[p][i] = r PROVE FALSE
      OBVIOUS
    <2>1. PICK k \in 1..Len(queue[p]) : r = queue[p][k] /\ (p = o => k = i + 1) /\ (p # o => k = i)
      BY <1>7
    <2>2. p = o
      BY <2>1 DEF QInv, QueueInv
    <2>3. k = 1
      BY <2>1, <2>2, <1>h
    <2>. QED BY <2>1, <2>2, <2>3
  <1>9. \A q \in Requests : In(q, stage'[q]) =>
          /\ place'[q] \in Requests
          /\ \E i \in 1..Len(queue'[place'[q]]) : queue'[place'[q]][i] = q /\ (Top(q, stage'[q]) => i = 1)
    <2>. SUFFICES ASSUME NEW q \in Requests, In(q, stage'[q])
                  PROVE  /\ place[q] \in Requests
                         /\ \E i \in 1..Len(queue'[place[q]]) :
                              queue'[place[q]][i] = q /\ (Top(q, stage'[q]) => i = 1)
      OBVIOUS
    <2>1. q # r /\ stage'[q] = stage[q] /\ In(q, stage[q])
      BY <1>6
    <2>2. place[q] \in Requests
      BY <2>1 DEF QInv, QueueInv
    <2>3. PICK i \in 1..Len(queue[place[q]]) : queue[place[q]][i] = q /\ (Top(q, stage[q]) => i = 1)
      BY <2>1 DEF QInv, QueueInv
    <2>4. CASE place[q] # o
      BY <2>1, <2>2, <2>3, <2>4, <1>5
    <2>5. CASE place[q] = o
      <3>1. i # 1
        BY <2>1, <2>3, <2>5, <1>3
      <3>2. i \in 2..n /\ queue[o][i] = q
        BY <3>1, <2>3, <2>5
      <3>3. i - 1 \in 1..(n - 1) /\ (i - 1) + 1 = i
        BY <3>2, <1>2
      <3>4. i - 1 \in 1..Len(queue'[o]) /\ queue'[o][i - 1] = q
        BY <3>2, <3>3, <1>4
      <3>. QED BY <3>1, <3>4, <2>1, <2>2, <2>3, <2>5
    <2>. QED BY <2>4, <2>5
  <1>10. \A p \in Requests : \A i \in 1..Len(queue'[p]) :
           /\ queue'[p][i] \in Requests /\ place'[queue'[p][i]] = p
           /\ In(queue'[p][i], stage'[queue'[p][i]])
    <2>. SUFFICES ASSUME NEW p \in Requests, NEW i \in 1..Len(queue'[p])
                  PROVE  /\ queue'[p][i] \in Requests /\ place[queue'[p][i]] = p
                         /\ In(queue'[p][i], stage'[queue'[p][i]])
      OBVIOUS
    <2>1. PICK k \in 1..Len(queue[p]) : queue'[p][i] = queue[p][k]
      BY <1>7
    <2>. QED BY <2>1, <1>6, <1>8 DEF QInv, QueueInv
  <1>11. \A p \in Requests : \A i, j \in 1..Len(queue'[p]) : queue'[p][i] = queue'[p][j] => i = j
    <2>. SUFFICES ASSUME NEW p \in Requests, NEW i \in 1..Len(queue'[p]), NEW j \in 1..Len(queue'[p]),
                         queue'[p][i] = queue'[p][j]
                  PROVE  i = j
      OBVIOUS
    <2>1. PICK k \in 1..Len(queue[p]) : queue'[p][i] = queue[p][k] /\ (p = o => k = i + 1) /\ (p # o => k = i)
      BY <1>7
    <2>2. PICK l \in 1..Len(queue[p]) : queue'[p][j] = queue[p][l] /\ (p = o => l = j + 1) /\ (p # o => l = j)
      BY <1>7
    <2>3. k = l
      BY <2>1, <2>2, <1>o
    <2>. QED BY <2>1, <2>2, <2>3
  <1>. QED BY <1>9, <1>10, <1>11 DEF QueueInv

\* A create has no place in a queue to leave.
LEMMA CreateLeaves ==
  ASSUME QInv, NEW r \in Requests, NEW st \in {"failed", "done"}, Kind[r] = "create",
         Leave(r, st), UNCHANGED place
  PROVE  QueueInv'
  <1>1. queue' = queue
    <2>1. queue \in [Requests -> Seq(Requests)]
      BY DEF QInv, TypeOK
    <2>. QED BY <2>1 DEF Leave
  <1>2. \A q \in Requests : (In(q, stage'[q]) <=> In(q, stage[q])) /\ (Top(q, stage'[q]) => Top(q, stage[q]))
    BY DEF Leave, In, Top, QInv, TypeOK
  <1>. QED BY <1>1, <1>2, SameQueues

LEMMA LeaveTyped ==
  ASSUME QInv, NEW r \in Requests, NEW st \in {"awaiting", "failed", "done"}, Leave(r, st),
         Kind[r] = "create" \/ In(r, stage[r])
  PROVE  stage' \in [Requests -> Stages] /\ queue' \in [Requests -> Seq(Requests)]
  <1>1. st \in Stages
    BY DEF Stages, Settled
  <1>2. stage' \in [Requests -> Stages]
    BY <1>1 DEF Leave, QInv, TypeOK
  <1>3. queue \in [Requests -> Seq(Requests)]
    BY DEF QInv, TypeOK
  <1>4. CASE Kind[r] = "create"
    BY <1>2, <1>3, <1>4 DEF Leave
  <1>5. CASE Kind[r] # "create"
    <2>1. place[r] \in Requests /\ Len(queue[place[r]]) >= 1
      BY <1>3, <1>5 DEF QInv, QueueInv
    <2>2. Tail(queue[place[r]]) \in Seq(Requests)
      BY <1>3, <2>1
    <2>. QED BY <1>2, <1>3, <1>5, <2>2 DEF Leave
  <1>. QED BY <1>4, <1>5

LEMMA RejectTyped ==
  ASSUME TypeOK, NEW o, NEW r, NEW st \in Stages
  PROVE  /\ RejectPending(o, r, st) \in [Requests -> Stages]
         /\ \A q \in Requests :
              q # r => RejectPending(o, r, st)[q] = stage[q]
                       \/ (stage[q] = "awaiting" /\ RejectPending(o, r, st)[q] = "failed")
         /\ (r \in Requests => RejectPending(o, r, st)[r] = st)
  <1>1. stage \in [Requests -> Stages] /\ "failed" \in Stages
    BY DEF TypeOK, Stages, Settled
  <1>2. \A q \in Requests : RejectPending(o, r, st)[q] =
          IF q = r THEN st ELSE IF q \in Pending(o) THEN "failed" ELSE stage[q]
    BY DEF RejectPending
  <1>3. \A q \in Pending(o) : stage[q] = "awaiting"
    BY DEF Pending
  <1>4. RejectPending(o, r, st) \in [Requests -> Stages]
    BY <1>1 DEF RejectPending
  <1>5. \A q \in Requests :
          q # r => RejectPending(o, r, st)[q] = stage[q]
                   \/ (stage[q] = "awaiting" /\ RejectPending(o, r, st)[q] = "failed")
    BY <1>2, <1>3
  <1>6. r \in Requests => RejectPending(o, r, st)[r] = st
    BY <1>2
  <1>. QED BY <1>4, <1>5, <1>6

\* Rejecting pending commands changes no queue.
LEMMA RejectKeepsQueues ==
  ASSUME QInv, NEW o, UNCHANGED <<place, queue>>, stage' = RejectPending(o, None, "failed")
  PROVE  QueueInv' /\ stage' \in [Requests -> Stages]
  <1>1. None \notin Requests
    BY RequestAssumption
  <1>2. "failed" \in Stages /\ TypeOK
    BY DEF Stages, Settled, QInv
  <1>3. /\ stage' \in [Requests -> Stages]
        /\ \A q \in Requests : stage'[q] = stage[q] \/ (stage[q] = "awaiting" /\ stage'[q] = "failed")
    BY <1>1, <1>2, RejectTyped
  <1>4. \A q \in Requests : (In(q, stage'[q]) <=> In(q, stage[q])) /\ (Top(q, stage'[q]) => Top(q, stage[q]))
    BY <1>3 DEF In, Top, HoldStages
  <1>. QED BY <1>3, <1>4, SameQueues

\* One request that is not in a queue, or is under way and stays so, moves on.
LEMMA MovesOn ==
  ASSUME QInv, NEW r \in Requests, NEW st \in Stages, UNCHANGED <<place, queue>>,
         stage' = [stage EXCEPT ![r] = st],
         \/ ~In(r, stage[r]) /\ ~In(r, st)
         \/ Top(r, stage[r]) /\ Top(r, st)
  PROVE  QueueInv' /\ stage' \in [Requests -> Stages]
  <1>1. stage \in [Requests -> Stages]
    BY DEF QInv, TypeOK
  <1>2. \A q \in Requests : (In(q, stage'[q]) <=> In(q, stage[q])) /\ (Top(q, stage'[q]) => Top(q, stage[q]))
    BY <1>1 DEF In, Top
  <1>. QED BY <1>1, <1>2, SameQueues

-----------------------------------------------------------------------------
(* The steps *)

LEMMA SubmitKeeps ==
  ASSUME QInv, NEW r \in Requests, Submit(r)
  PROVE  QInv'
  <1>1. at' \in [Requests -> Nat]
    <2>1. IsFiniteSet({q \in Requests : stage[q] # "new"})
      BY RequestAssumption, FS_Subset
    <2>2. Cardinality({q \in Requests : stage[q] # "new"}) \in Nat
      BY <2>1, FS_CardinalityType
    <2>. QED BY <2>2 DEF Submit, QInv, TypeOK
  <1>2. stage[r] = "new" /\ TabOf[r] \in Tabs /\ stage \in [Requests -> Stages] /\ ~In(r, "new")
        /\ tabs \in [Tabs -> Requests \cup {None}] /\ queue \in [Requests -> Seq(Requests)]
    BY RequestAssumption DEF Submit, QInv, TypeOK, In, HoldStages
  <1>3. CASE Refused(r) /\ Fail(r) /\ UNCHANGED <<place, target, tabVars>>
    <2>1. "failed" \in Stages /\ ~In(r, "failed")
      BY DEF Stages, Settled, In, HoldStages
    <2>2. QueueInv' /\ stage' \in [Requests -> Stages]
      BY <1>2, <1>3, <2>1, MovesOn DEF Fail, tabVars
    <2>3. KindInv'
      BY <1>2, <1>3 DEF QInv, KindInv, Fail
    <2>. QED BY <1>1, <1>3, <2>2, <2>3 DEF Submit, QInv, TypeOK, tabVars, procVars, hostVars, updateVars
  <1>4. CASE ~Refused(r) /\ Kind[r] = "create"
    <2>1. "checking" \in Stages /\ ~In(r, "checking")
      BY DEF Stages, Creating, In, HoldStages
    <2>2. /\ stage' = [stage EXCEPT ![r] = "checking"] /\ queue' = queue /\ child' = child
          /\ place' = [place EXCEPT ![r] = r] /\ target' = [target EXCEPT ![r] = r]
          /\ tabs' = [tabs EXCEPT ![TabOf[r]] = r] /\ working' = [working EXCEPT ![r] = TRUE]
      BY <1>4 DEF Submit
    <2>3. \A q \in Requests : In(q, stage'[q]) => In(q, stage[q]) /\ q # r /\ stage'[q] = stage[q] /\ place'[q] = place[q]
      BY <1>2, <1>4, <2>1, <2>2 DEF QInv, TypeOK, In
    <2>4. \A q \in Requests : In(q, stage[q]) => stage'[q] = stage[q] /\ place'[q] = place[q]
      BY <1>2, <1>4, <2>1, <2>2 DEF QInv, TypeOK, In
    <2>5. QueueInv'
      BY <2>2, <2>3, <2>4 DEF QInv, QueueInv
    <2>6. stage' \in [Requests -> Stages]
      BY <1>2, <2>1, <2>2
    <2>7. KindInv'
      BY <1>2, <1>4, <2>2 DEF QInv, KindInv
    <2>. QED BY <1>1, <1>2, <2>2, <2>5, <2>6, <2>7 DEF Submit, QInv, TypeOK, procVars, hostVars, updateVars
  <1>5. CASE ~Refused(r) /\ Kind[r] # "create"
    <2>. DEFINE o == tabs[TabOf[r]]
    <2>1. o \in Requests
      BY <1>2, <1>5 DEF Refused
    <2>2. /\ stage' = [stage EXCEPT ![r] = "queued"] /\ place' = [place EXCEPT ![r] = o]
          /\ target' = [target EXCEPT ![r] = o] /\ queue' = [queue EXCEPT ![o] = Append(@, r)]
          /\ UNCHANGED <<tabs, child, working>>
      BY <1>5 DEF Submit
    <2>. HIDE DEF o
    <2>3. QueueInv'
      BY <1>2, <1>5, <2>1, <2>2, TurnIsTaken
    <2>4. queue' \in [Requests -> Seq(Requests)]
      <3>1. Append(queue[o], r) \in Seq(Requests)
        BY <1>2, <2>1
      <3>. QED BY <1>2, <2>1, <2>2, <3>1
    <2>5. "queued" \in Stages
      BY DEF Stages
    <2>6. stage' \in [Requests -> Stages]
      BY <1>2, <2>2, <2>5
    <2>7. KindInv'
      BY <1>2, <1>5, <2>2 DEF QInv, KindInv
    <2>. QED BY <1>1, <2>1, <2>2, <2>3, <2>4, <2>6, <2>7 DEF Submit, QInv, TypeOK, procVars, hostVars, updateVars
  <1>. QED BY <1>3, <1>4, <1>5 DEF Submit

\* A request leaves its queue and the step touches no other queue.
LEMMA Leaves ==
  ASSUME QInv, NEW r \in Requests, NEW st \in {"awaiting", "failed", "done"},
         \/ Top(r, stage[r]) \/ (IsNext(r) /\ Kind[r] # "create")
         \/ Kind[r] = "create" /\ st # "awaiting",
         Leave(r, st), UNCHANGED place
  PROVE  /\ QueueInv' /\ KindInv'
         /\ stage' \in [Requests -> Stages] /\ queue' \in [Requests -> Seq(Requests)]
  <1>1. QueueInv'
    BY TurnEnds, CreateLeaves
  <1>2. Kind[r] = "create" \/ In(r, stage[r])
    BY DEF In, Top, IsNext
  <1>3. KindInv'
    BY DEF Leave, QInv, KindInv, TypeOK, Top, IsNext
  <1>. QED BY <1>1, <1>2, <1>3, LeaveTyped

\* A request moves from one stage to the next outside or inside of its turn.
LEMMA Moves ==
  ASSUME QInv, NEW r \in Requests, NEW st \in Stages, UNCHANGED <<place, queue>>,
         stage' = [stage EXCEPT ![r] = st],
         \/ Kind[r] = "create" /\ st \in {"spawning", "spawned", "persisting", "failed", "done"}
         \/ Kind[r] # "create" /\ stage[r] \in HoldStages /\ st \in HoldStages
         \/ stage[r] = "awaiting" /\ st \in Settled
  PROVE  QueueInv' /\ KindInv' /\ stage' \in [Requests -> Stages]
  <1>1. QueueInv' /\ stage' \in [Requests -> Stages]
    BY MovesOn DEF In, Top, Settled, HoldStages
  <1>2. KindInv'
    BY DEF QInv, KindInv, TypeOK, HoldStages, Settled
  <1>. QED BY <1>1, <1>2

LEMMA TurnsPassOn ==
  ASSUME QInv, NEW r \in Requests,
         \/ Admit(r) \/ AdmitCreate(r) \/ BeginWithoutTab(r) \/ Persisted(r) \/ Flushed(r)
         \/ StopTimesOut(r) \/ SpawnFails(r)
  PROVE  QInv'
  <1>. USE DEF procVars, hostVars, updateVars
  <1>1. TabOf[r] \in Tabs /\ tabs \in [Tabs -> Requests \cup {None}] /\ stage \in [Requests -> Stages]
    BY RequestAssumption DEF QInv, TypeOK
  <1>2. {"failed", "admitted", "spawning"} \subseteq Stages
    BY DEF Stages, Settled, Creating
  <1>3. stage[r] \in HoldStages /\ Kind[r] # "create" => Top(r, stage[r])
    BY DEF Top
  <1>4. CASE Admit(r)
    <2>1. Kind[r] # "create"
      BY <1>4 DEF Admit, IsNext, QInv, KindInv
    <2>2. CASE Leave(r, "failed")
      <3>1. QueueInv' /\ KindInv' /\ stage' \in [Requests -> Stages] /\ queue' \in [Requests -> Seq(Requests)]
        BY <1>4, <2>1, <2>2, Leaves DEF Admit
      <3>. QED BY <1>4, <3>1 DEF Admit, QInv, TypeOK
    <2>3. CASE stage' = [stage EXCEPT ![r] = "admitted"] /\ UNCHANGED queue
      <3>1. QueueInv'
        BY <1>4, <2>1, <2>3, TurnBegins DEF Admit
      <3>2. KindInv' /\ stage' \in [Requests -> Stages]
        BY <1>1, <1>2, <2>1, <2>3 DEF QInv, KindInv
      <3>. QED BY <1>4, <2>3, <3>1, <3>2 DEF Admit, QInv, TypeOK
    <2>. QED BY <1>4, <2>2, <2>3 DEF Admit
  <1>5. CASE AdmitCreate(r)
    <2>1. Kind[r] = "create"
      BY <1>5 DEF AdmitCreate, QInv, KindInv
    <2>2. PICK st \in {"failed", "spawning"} : stage' = [stage EXCEPT ![r] = st]
      BY <1>5 DEF AdmitCreate, Fail
    <2>3. QueueInv' /\ KindInv' /\ stage' \in [Requests -> Stages]
      BY <1>2, <1>5, <2>1, <2>2, Moves DEF AdmitCreate
    <2>4. tabs' \in [Tabs -> Requests \cup {None}]
      BY <1>1, <1>5 DEF AdmitCreate
    <2>. QED BY <1>5, <2>3, <2>4 DEF AdmitCreate, QInv, TypeOK
  <1>6. CASE BeginWithoutTab(r)
    <2>1. Top(r, stage[r])
      BY <1>6 DEF BeginWithoutTab, NoTab, QInv, KindInv, Top, HoldStages
    <2>2. QueueInv' /\ KindInv' /\ stage' \in [Requests -> Stages] /\ queue' \in [Requests -> Seq(Requests)]
      BY <1>6, <2>1, Leaves DEF BeginWithoutTab
    <2>. QED BY <1>6, <2>2 DEF BeginWithoutTab, QInv, TypeOK
  <1>7. CASE Persisted(r)
    <2>1. PICK st \in {"failed", "done"} : Leave(r, st)
      BY <1>7 DEF Persisted, Settled
    <2>2. Top(r, stage[r]) \/ Kind[r] = "create"
      BY <1>7 DEF Persisted, Top, HoldStages
    <2>3. QueueInv' /\ KindInv' /\ stage' \in [Requests -> Stages] /\ queue' \in [Requests -> Seq(Requests)]
      BY <1>7, <2>1, <2>2, Leaves DEF Persisted
    <2>. QED BY <1>7, <2>3 DEF Persisted, QInv, TypeOK
  <1>8. CASE Flushed(r)
    <2>1. PICK st \in {"failed", "done"} : Leave(r, st)
      BY <1>8 DEF Flushed, Settled
    <2>2. Top(r, stage[r]) \/ Kind[r] = "create"
      BY <1>8 DEF Flushed, Top, HoldStages
    <2>3. QueueInv' /\ KindInv' /\ stage' \in [Requests -> Stages] /\ queue' \in [Requests -> Seq(Requests)]
      BY <1>8, <2>1, <2>2, Leaves DEF Flushed
    <2>. QED BY <1>8, <2>3 DEF Flushed, QInv, TypeOK
  <1>9. CASE StopTimesOut(r)
    <2>1. Top(r, stage[r]) \/ Kind[r] = "create"
      BY <1>9 DEF StopTimesOut, Top, HoldStages
    <2>2. QueueInv' /\ KindInv' /\ stage' \in [Requests -> Stages] /\ queue' \in [Requests -> Seq(Requests)]
      BY <1>9, <2>1, Leaves DEF StopTimesOut
    <2>. QED BY <1>9, <2>2 DEF StopTimesOut, QInv, TypeOK
  <1>10. CASE SpawnFails(r)
    <2>1. Top(r, stage[r]) \/ Kind[r] = "create"
      BY <1>10 DEF SpawnFails, Top, HoldStages
    <2>2. QueueInv' /\ KindInv' /\ stage' \in [Requests -> Stages] /\ queue' \in [Requests -> Seq(Requests)]
      BY <1>10, <2>1, Leaves DEF SpawnFails
    <2>3. tabs' \in [Tabs -> Requests \cup {None}]
      BY <1>1, <1>10 DEF SpawnFails
    <2>. QED BY <1>10, <2>2, <2>3 DEF SpawnFails, QInv, TypeOK
  <1>. QED BY <1>4, <1>5, <1>6, <1>7, <1>8, <1>9, <1>10

LEMMA OperationsBegin ==
  ASSUME QInv, NEW r \in Requests, NEW o \in Requests,
         \/ BeginCommand(r, o) \/ BeginUpdate(r, o) \/ BeginRestartRefused(r, o) \/ BeginStop(r, o)
  PROVE  QInv'
  <1>. USE DEF procVars, hostVars, updateVars
  <1>1. TabOf[r] \in Tabs /\ tabs \in [Tabs -> Requests \cup {None}] /\ child \in [Requests -> Requests \cup {None}]
        /\ written \in [Requests -> Seq(Requests)] /\ target \in [Requests -> Requests \cup {None}]
    BY RequestAssumption DEF QInv, TypeOK
  <1>2. {"flushing", "persisting", "stopping", "spawning"} \subseteq Stages \cap HoldStages
    BY DEF Stages, Settled, Creating, HoldStages
  <1>3. stage[r] = "admitted" /\ Kind[r] # "create" /\ stage[r] \in HoldStages /\ Top(r, stage[r])
    BY DEF BeginCommand, BeginUpdate, BeginRestartRefused, BeginStop, Turn, QInv, KindInv, Top, HoldStages
  <1>4. target' \in [Requests -> Requests \cup {None}]
    BY <1>1 DEF BeginCommand, BeginUpdate, BeginRestartRefused, BeginStop, Turn
  <1>5. CASE BeginCommand(r, o)
    <2>1. written' \in [Requests -> Seq(Requests)]
      <3>1. CASE Running(o)
        <4>1. child[o] \in Requests
          BY <1>1, <3>1 DEF Running
        <4>2. Append(written[child[o]], r) \in Seq(Requests)
          BY <1>1, <4>1
        <4>. QED BY <1>1, <1>5, <4>1, <4>2 DEF BeginCommand
      <3>2. CASE ~Running(o)
        BY <1>1, <1>5, <3>2 DEF BeginCommand
      <3>. QED BY <3>1, <3>2
    <2>2. CASE \E st \in {"awaiting", "failed"} : Leave(r, st)
      <3>1. PICK st \in {"awaiting", "failed"} : Leave(r, st)
        BY <2>2
      <3>2. QueueInv' /\ KindInv' /\ stage' \in [Requests -> Stages] /\ queue' \in [Requests -> Seq(Requests)]
        BY <1>3, <1>5, <3>1, Leaves DEF BeginCommand
      <3>. QED BY <1>4, <1>5, <2>1, <3>2 DEF BeginCommand, QInv, TypeOK
    <2>3. CASE stage' = [stage EXCEPT ![r] = "flushing"] /\ UNCHANGED queue
      <3>1. QueueInv' /\ KindInv' /\ stage' \in [Requests -> Stages]
        BY <1>2, <1>3, <1>5, <2>3, Moves DEF BeginCommand
      <3>. QED BY <1>4, <1>5, <2>1, <2>3, <3>1 DEF BeginCommand, QInv, TypeOK
    <2>. QED BY <1>5, <2>2, <2>3 DEF BeginCommand
  <1>6. CASE BeginUpdate(r, o)
    <2>1. QueueInv' /\ KindInv' /\ stage' \in [Requests -> Stages]
      BY <1>2, <1>3, <1>6, Moves DEF BeginUpdate, tabVars
    <2>. QED BY <1>4, <1>6, <2>1 DEF BeginUpdate, QInv, TypeOK, tabVars
  <1>7. CASE BeginRestartRefused(r, o)
    <2>1. QueueInv' /\ KindInv' /\ stage' \in [Requests -> Stages] /\ queue' \in [Requests -> Seq(Requests)]
      BY <1>3, <1>7, Leaves DEF BeginRestartRefused
    <2>. QED BY <1>4, <1>7, <2>1 DEF BeginRestartRefused, QInv, TypeOK
  <1>8. CASE BeginStop(r, o)
    <2>1. PICK st \in {"persisting", "spawning", "stopping"} : stage' = [stage EXCEPT ![r] = st]
      BY <1>8 DEF BeginStop, AfterStop
    <2>2. QueueInv' /\ KindInv' /\ stage' \in [Requests -> Stages]
      BY <1>2, <1>3, <1>8, <2>1, Moves DEF BeginStop
    <2>3. tabs' \in [Tabs -> Requests \cup {None}]
      BY <1>1, <1>8 DEF BeginStop, ClosedTabs
    <2>4. overtaken' \subseteq Requests
      BY <1>8 DEF BeginStop, QInv, TypeOK
    <2>. QED BY <1>4, <1>8, <2>2, <2>3, <2>4 DEF BeginStop, QInv, TypeOK
  <1>. QED BY <1>5, <1>6, <1>7, <1>8

LEMMA OperationsGoOn ==
  ASSUME QInv, NEW r \in Requests,
         \/ StopDone(r) \/ Spawn(r) \/ Commit(r) \/ CommandTimesOut(r) \/ Answer(r)
  PROVE  QInv'
  <1>. USE DEF procVars, hostVars, updateVars, tabVars
  <1>1. TabOf[r] \in Tabs /\ tabs \in [Tabs -> Requests \cup {None}] /\ stage \in [Requests -> Stages]
        /\ child \in [Requests -> Requests \cup {None}]
        /\ proc \in [Requests -> {"none", "running", "exited"}]
    BY RequestAssumption DEF QInv, TypeOK
  <1>2. {"spawned", "persisting", "spawning"} \subseteq Stages \cap HoldStages /\ Settled \subseteq Stages
    BY DEF Stages, Settled, Creating, HoldStages
  <1>3. CASE StopDone(r)
    <2>1. stage[r] = "stopping" /\ Kind[r] # "create" /\ AfterStop(r) \in {"persisting", "spawning"}
      BY <1>3 DEF StopDone, AfterStop, QInv, KindInv
    <2>2. AfterStop(r) \in Stages /\ TypeOK
      BY <1>2, <2>1 DEF QInv
    <2>3. /\ stage' \in [Requests -> Stages] /\ stage'[r] = AfterStop(r)
          /\ \A q \in Requests : q # r =>
               stage'[q] = stage[q] \/ (stage[q] = "awaiting" /\ stage'[q] = "failed")
      BY <1>3, <2>2, RejectTyped DEF StopDone
    <2>4. \A q \in Requests : (In(q, stage'[q]) <=> In(q, stage[q])) /\ (Top(q, stage'[q]) => Top(q, stage[q]))
      BY <2>1, <2>3 DEF In, Top, HoldStages
    <2>5. QueueInv'
      BY <1>3, <2>4, SameQueues DEF StopDone
    <2>6. KindInv'
      BY <2>1, <2>3 DEF QInv, KindInv
    <2>7. tabs' \in [Tabs -> Requests \cup {None}]
      BY <1>1, <1>3 DEF StopDone, ClosedTabs
    <2>. QED BY <1>3, <2>3, <2>5, <2>6, <2>7 DEF StopDone, QInv, TypeOK
  <1>4. CASE Spawn(r)
    <2>1. stage[r] = "spawning" /\ stage[r] \in HoldStages
      BY <1>4 DEF Spawn, HoldStages
    <2>2. QueueInv' /\ KindInv' /\ stage' \in [Requests -> Stages]
      BY <1>2, <1>4, <2>1, Moves DEF Spawn
    <2>3. proc' \in [Requests -> {"none", "running", "exited"}]
      BY <1>1, <1>4 DEF Spawn
    <2>. QED BY <1>4, <2>2, <2>3 DEF Spawn, QInv, TypeOK
  <1>5. CASE Commit(r)
    <2>1. stage[r] = "spawned" /\ stage[r] \in HoldStages
      BY <1>5 DEF Commit, HoldStages
    <2>2. QueueInv' /\ KindInv' /\ stage' \in [Requests -> Stages]
      BY <1>2, <1>5, <2>1, Moves DEF Commit
    <2>3. child' \in [Requests -> Requests \cup {None}]
      BY <1>1, <1>5 DEF Commit
    <2>. QED BY <1>5, <2>2, <2>3 DEF Commit, QInv, TypeOK
  <1>6. CASE CommandTimesOut(r) \/ Answer(r)
    <2>1. PICK st \in Settled : stage[r] = "awaiting" /\ stage' = [stage EXCEPT ![r] = st]
      BY <1>6 DEF CommandTimesOut, Answer, Fail, Settled
    <2>2. UNCHANGED <<place, target, at, tabVars, procVars, hostVars, updateVars>>
      BY <1>6 DEF CommandTimesOut, Answer
    <2>3. QueueInv' /\ KindInv' /\ stage' \in [Requests -> Stages]
      BY <1>2, <2>1, <2>2, Moves
    <2>. QED BY <2>2, <2>3 DEF QInv, TypeOK
  <1>. QED BY <1>3, <1>4, <1>5, <1>6

LEMMA PerformKeeps ==
  ASSUME QInv, NEW r \in Requests, Perform(r)
  PROVE  QInv'
  BY TurnsPassOn, OperationsBegin, OperationsGoOn DEF Perform, Found

LEMMA WorldKeeps ==
  ASSUME QInv,
         \/ \E r \in Requests : ChildExit(r) \/ StdinError(r) \/ ShutdownStops(r)
         \/ \E o \in Requests, b \in BOOLEAN : HearWorking(o, b)
         \/ ShutdownStarts \/ ShutdownStopFails \/ ShutdownBlocked \/ ShutdownCompletes \/ HostExits
         \/ FenceTaken \/ UpdateGoesOn \/ AckReadsFence \/ AckAnswers
  PROVE  QInv'
  <1>. USE DEF procVars, hostVars, updateVars, tabVars, reqVars
  <1>1. proc \in [Requests -> {"none", "running", "exited"}] /\ tabs \in [Tabs -> Requests \cup {None}]
        /\ working \in [Requests -> BOOLEAN] /\ stops \subseteq Requests
        /\ fence \in 0..MaxFences /\ sawFence \in 0..MaxFences /\ acked \in 0..MaxFences /\ MaxFences \in Nat
    BY RequestAssumption DEF QInv, TypeOK
  <1>2. ASSUME UNCHANGED reqVars, UNCHANGED queue
        PROVE  QueueInv' /\ KindInv' /\ stage' \in [Requests -> Stages] /\ queue' \in [Requests -> Seq(Requests)]
    <2>1. stage' = stage /\ place' = place /\ queue' = queue
      BY <1>2
    <2>2. QueueInv'
      BY <2>1, SameQueues
    <2>. QED BY <2>1, <2>2 DEF QInv, KindInv, TypeOK
  <1>3. ASSUME NEW o, UNCHANGED <<place, queue>>, stage' = RejectPending(o, None, "failed")
        PROVE  QueueInv' /\ KindInv' /\ stage' \in [Requests -> Stages] /\ queue' \in [Requests -> Seq(Requests)]
    <2>1. None \notin Requests /\ "failed" \in Stages /\ TypeOK
      BY RequestAssumption DEF Stages, Settled, QInv
    <2>2. \A q \in Requests : stage'[q] = stage[q] \/ (stage[q] = "awaiting" /\ stage'[q] = "failed")
      BY <1>3, <2>1, RejectTyped
    <2>3. KindInv'
      BY <2>2 DEF QInv, KindInv
    <2>. QED BY <1>3, <2>3, RejectKeepsQueues DEF QInv, TypeOK
  <1>4. ASSUME NEW p \in Requests, ChildExit(p) PROVE QInv'
    <2>1. QueueInv' /\ KindInv' /\ stage' \in [Requests -> Stages] /\ queue' \in [Requests -> Seq(Requests)]
      <3>1. CASE Up /\ child[target[p]] = p
        BY <1>3, <1>4, <3>1 DEF ChildExit
      <3>2. CASE ~(Up /\ child[target[p]] = p)
        BY <1>2, <1>4, <3>2 DEF ChildExit
      <3>. QED BY <3>1, <3>2
    <2>2. proc' \in [Requests -> {"none", "running", "exited"}]
      BY <1>1, <1>4 DEF ChildExit
    <2>. QED BY <1>4, <2>1, <2>2 DEF ChildExit, QInv, TypeOK
  <1>5. ASSUME NEW o \in Requests, StdinError(o) PROVE QInv'
    <2>1. QueueInv' /\ KindInv' /\ stage' \in [Requests -> Stages] /\ queue' \in [Requests -> Seq(Requests)]
      BY <1>3, <1>5 DEF StdinError
    <2>. QED BY <1>5, <2>1 DEF StdinError, QInv, TypeOK
  <1>6. ASSUME NEW o \in Requests, ShutdownStops(o) PROVE QInv'
    <2>1. QueueInv' /\ KindInv' /\ stage' \in [Requests -> Stages] /\ queue' \in [Requests -> Seq(Requests)]
      BY <1>3, <1>6 DEF ShutdownStops
    <2>2. stops' \subseteq Requests
      BY <1>1, <1>6 DEF ShutdownStops
    <2>. QED BY <1>6, <2>1, <2>2 DEF ShutdownStops, QInv, TypeOK
  <1>7. ASSUME NEW o \in Requests, NEW b \in BOOLEAN, HearWorking(o, b) PROVE QInv'
    <2>1. QueueInv' /\ KindInv' /\ stage' \in [Requests -> Stages] /\ queue' \in [Requests -> Seq(Requests)]
      BY <1>2, <1>7 DEF HearWorking
    <2>2. working' \in [Requests -> BOOLEAN]
      BY <1>1, <1>7 DEF HearWorking
    <2>. QED BY <1>7, <2>1, <2>2 DEF HearWorking, QInv, TypeOK
  <1>8. CASE ShutdownStarts \/ ShutdownStopFails \/ ShutdownBlocked \/ ShutdownCompletes \/ HostExits
    <2>1. UNCHANGED reqVars /\ UNCHANGED queue
      BY <1>8 DEF ShutdownStarts, ShutdownStopFails, ShutdownBlocked, ShutdownCompletes, HostExits
    <2>2. QueueInv' /\ KindInv' /\ stage' \in [Requests -> Stages] /\ queue' \in [Requests -> Seq(Requests)]
      BY <1>2, <2>1
    <2>3. tabs' \in [Tabs -> Requests \cup {None}] /\ stops' \subseteq Requests
      BY <1>1, <1>8 DEF ShutdownStarts, ShutdownStopFails, ShutdownBlocked, ShutdownCompletes, HostExits, Managed
    <2>. QED BY <1>8, <2>1, <2>2, <2>3
             DEF ShutdownStarts, ShutdownStopFails, ShutdownBlocked, ShutdownCompletes, HostExits, Stopping, QInv, TypeOK
  <1>9. CASE FenceTaken \/ UpdateGoesOn \/ AckReadsFence \/ AckAnswers
    <2>1. UNCHANGED <<reqVars, tabVars, procVars, hostVars>>
      BY <1>9 DEF FenceTaken, UpdateGoesOn, AckReadsFence, AckAnswers
    <2>2. QueueInv' /\ KindInv' /\ stage' \in [Requests -> Stages] /\ queue' \in [Requests -> Seq(Requests)]
      BY <1>2, <2>1
    <2>3. fence' \in 0..MaxFences /\ sawFence' \in 0..MaxFences /\ acked' \in 0..MaxFences
          /\ update' \in {"none", "fenced", "installing", "restarting"}
      BY <1>1, <1>9 DEF FenceTaken, UpdateGoesOn, AckReadsFence, AckAnswers, QInv, TypeOK
    <2>. QED BY <2>1, <2>2, <2>3 DEF QInv, TypeOK
  <1>. QED BY <1>4, <1>5, <1>6, <1>7, <1>8, <1>9

-----------------------------------------------------------------------------
LEMMA QInvInit == Init => QInv
  <1>. SUFFICES ASSUME Init PROVE QInv
    OBVIOUS
  <1>1. stage = [r \in Requests |-> "new"] /\ queue = [o \in Requests |-> <<>>] /\ "new" \in Stages
    BY DEF Init, Idling, Stages
  <1>2. \A r \in Requests : ~In(r, "new")
    BY DEF In, HoldStages
  <1>3. TypeOK
    BY <1>1, RequestAssumption DEF Init, Idling, TypeOK
  <1>4. QueueInv /\ KindInv
    BY <1>1, <1>2 DEF QueueInv, KindInv
  <1>. QED BY <1>3, <1>4 DEF QInv

LEMMA QInvNext == QInv /\ [Next]_vars => QInv'
  <1>. SUFFICES ASSUME QInv, [Next]_vars PROVE QInv'
    OBVIOUS
  <1>1. CASE Next
    BY <1>1, SubmitKeeps, PerformKeeps, WorldKeeps DEF Next, Shutdown
  <1>2. CASE UNCHANGED vars
    BY <1>2 DEF vars, reqVars, tabVars, procVars, hostVars, updateVars, QInv, TypeOK, Stopping, QueueInv, KindInv
  <1>. QED BY <1>1, <1>2

\* Two requests under way in one queue would both be at its head.
LEMMA TurnsFollow == QInv => TypeOK /\ TurnsAreTaken
  <1>. SUFFICES ASSUME QInv, NEW r \in Requests, NEW q \in Requests, Holds(r), Holds(q), place[r] = place[q]
                PROVE  r = q
    BY DEF QInv, TurnsAreTaken
  <1>1. Top(r, stage[r]) /\ Top(q, stage[q]) /\ In(r, stage[r]) /\ In(q, stage[q])
    BY DEF Holds, Top, In
  <1>2. queue[place[r]][1] = r /\ queue[place[q]][1] = q
    BY <1>1 DEF QInv, QueueInv
  <1>. QED BY <1>2

\* The operations of a queue take turns: with any number of requests and tabs,
\* at most one request per tab object is between its turn and its end
\* (queueTabMutation and queueTabCommand).
THEOREM TurnsTaken == Spec => [](TypeOK /\ TurnsAreTaken)
  <1>1. Spec => []QInv
    BY QInvInit, QInvNext, PTL DEF Spec
  <1>. QED BY <1>1, TurnsFollow, PTL

-----------------------------------------------------------------------------
(* An update never installs while a mutation is under way. *)

\* What an update that is not yet over relies on: the host's last idle answer is
\* for a fence that was taken, and once it is for this one, the host stays quiet.
QuietInv ==
  /\ sawFence <= fence /\ acked <= fence
  /\ update # "none" => fence >= 1
  /\ update = "fenced" /\ acked = fence => Quiet
  /\ QuietWhileInstalling

Calm(r, st) ==
  \/ ReadOnly(r)
  \/ st \in {"new", "queued", "checking"} \cup Settled
  \/ Kind[r] = "replace_update" /\ st = "admitted"

\* No step of a request breaks the quiet while the fence is up.
LEMMA QuietStaysQuiet ==
  ASSUME TypeOK, Quiet, update \in {"fenced", "installing"}, NEW r \in Requests, Submit(r) \/ Perform(r)
  PROVE  Quiet'
  <1>1. stage \in [Requests -> Stages] /\ Fenced /\ update # "restarting"
    BY DEF TypeOK, Fenced
  <1>2. \A q \in Requests : Calm(q, stage[q])
    BY DEF Quiet, Calm
  <1>3. \A st \in Settled : Calm(r, st)
    BY DEF Calm
  <1>4. SUFFICES \A q \in Requests : Calm(q, stage'[q])
    BY DEF Quiet, Calm, ReadOnly
  <1>5. SUFFICES \/ \E st : Calm(r, st) /\ stage' = [stage EXCEPT ![r] = st]
                 \/ ReadOnly(r) /\ \A q \in Requests : q # r => stage'[q] = stage[q] \/ stage'[q] = "failed"
    BY <1>1, <1>2 DEF Calm, Settled
  <1>6. CASE Submit(r)
    BY <1>6 DEF Submit, Fail, Calm, Settled
  <1>7. CASE Admit(r)
    BY <1>1, <1>7 DEF Admit, Leave, Exempt, ReadOnly, Calm, Settled
  <1>8. CASE AdmitCreate(r)
    BY <1>1, <1>8 DEF AdmitCreate, Fail, Calm, Settled
  <1>9. CASE BeginWithoutTab(r)
    BY <1>9 DEF BeginWithoutTab, Leave, Calm, Settled
  <1>10. ASSUME NEW o \in Requests, BeginCommand(r, o) PROVE ReadOnly(r)
    BY <1>2, <1>10 DEF BeginCommand, Turn, Calm, Settled
  <1>11. ASSUME NEW o \in Requests, BeginUpdate(r, o) PROVE FALSE
    BY <1>2, <1>11 DEF BeginUpdate, Turn, Calm, Settled, ReadOnly
  <1>12. ASSUME NEW o \in Requests, BeginStop(r, o) PROVE FALSE
    BY <1>1, <1>2, <1>12 DEF BeginStop, Turn, MayRestart, Calm, Settled, ReadOnly
  <1>13. CASE \E o \in Requests : BeginCommand(r, o)
    BY <1>1, <1>10, <1>13 DEF BeginCommand, Leave
  <1>14. CASE \E o \in Requests : BeginRestartRefused(r, o)
    BY <1>14 DEF BeginRestartRefused, Leave, Calm, Settled
  <1>15. CASE StopDone(r)
    <2>1. ReadOnly(r)
      BY <1>2, <1>15 DEF StopDone, Calm, Settled
    <2>. QED BY <1>15, <2>1 DEF StopDone, RejectPending
  <1>16. CASE StopTimesOut(r) \/ SpawnFails(r) \/ Persisted(r) \/ Flushed(r) \/ CommandTimesOut(r) \/ Answer(r)
    BY <1>3, <1>16 DEF StopTimesOut, SpawnFails, Persisted, Flushed, CommandTimesOut, Answer, Leave, Fail, Settled
  <1>17. CASE Spawn(r) \/ Commit(r)
    BY <1>1, <1>2, <1>17 DEF Spawn, Commit, Calm, Settled
  <1>. QED BY <1>6, <1>7, <1>8, <1>9, <1>11, <1>12, <1>13, <1>14, <1>15, <1>16, <1>17 DEF Perform, Found

LEMMA WorldStaysQuiet ==
  ASSUME TypeOK, Quiet,
         \/ UNCHANGED stage
         \/ \E p \in Requests : ChildExit(p) \/ StdinError(p) \/ ShutdownStops(p)
  PROVE  Quiet'
  <1>1. CASE UNCHANGED stage
    BY <1>1 DEF Quiet, ReadOnly
  <1>2. CASE \E p \in Requests : ChildExit(p) \/ StdinError(p) \/ ShutdownStops(p)
    <2>1. \A q \in Requests : stage'[q] = stage[q] \/ stage'[q] = "failed"
      BY <1>2, RequestAssumption DEF ChildExit, StdinError, ShutdownStops, RejectPending
    <2>. QED BY <2>1 DEF Quiet, ReadOnly, Settled
  <1>. QED BY <1>1, <1>2

LEMMA QuietInvNext == TypeOK /\ QuietInv /\ [Next]_vars => QuietInv'
  <1>. SUFFICES ASSUME TypeOK, QuietInv, [Next]_vars PROVE QuietInv'
    OBVIOUS
  <1>1. fence \in Nat /\ sawFence \in Nat /\ acked \in Nat
    BY RequestAssumption DEF TypeOK
  <1>2. ASSUME UNCHANGED updateVars, Quiet /\ update \in {"fenced", "installing"} => Quiet'
        PROVE  QuietInv'
    BY <1>2 DEF updateVars, QuietInv, QuietWhileInstalling
  <1>3. CASE \E r \in Requests : Submit(r) \/ Perform(r)
    <2>1. PICK r \in Requests : Submit(r) \/ Perform(r)
      BY <1>3
    <2>2. UNCHANGED updateVars
      BY <2>1 DEF Submit, Perform, Found, Admit, AdmitCreate, BeginWithoutTab, BeginCommand, BeginUpdate,
                  BeginRestartRefused, BeginStop, StopDone, StopTimesOut, Spawn, SpawnFails, Commit,
                  Persisted, Flushed, CommandTimesOut, Answer
    <2>. QED BY <1>2, <2>1, <2>2, QuietStaysQuiet
  <1>4. CASE \/ \E p \in Requests : ChildExit(p) \/ StdinError(p) \/ ShutdownStops(p)
             \/ \E o \in Requests, b \in BOOLEAN : HearWorking(o, b)
             \/ ShutdownStarts \/ ShutdownStopFails \/ ShutdownBlocked \/ ShutdownCompletes \/ HostExits
    <2>1. UNCHANGED updateVars
      BY <1>4 DEF ChildExit, StdinError, ShutdownStops, HearWorking, ShutdownStarts, ShutdownStopFails, ShutdownBlocked,
                  ShutdownCompletes, HostExits
    <2>2. \/ UNCHANGED stage
          \/ \E p \in Requests : ChildExit(p) \/ StdinError(p) \/ ShutdownStops(p)
      BY <1>4 DEF HearWorking, ShutdownStarts, ShutdownStopFails, ShutdownBlocked, ShutdownCompletes, HostExits, reqVars
    <2>. QED BY <1>2, <2>1, <2>2, WorldStaysQuiet
  <1>5. CASE FenceTaken
    BY <1>1, <1>5 DEF FenceTaken, QuietInv, QuietWhileInstalling
  <1>6. CASE UpdateGoesOn
    <2>1. UNCHANGED stage
      BY <1>6 DEF UpdateGoesOn, reqVars
    <2>2. Quiet => Quiet'
      BY <2>1, WorldStaysQuiet
    <2>. QED BY <1>6, <2>2 DEF UpdateGoesOn, QuietInv, QuietWhileInstalling
  <1>7. CASE AckReadsFence
    <2>1. Quiet => Quiet'
      BY <1>7, WorldStaysQuiet DEF AckReadsFence, reqVars
    <2>. QED BY <1>1, <1>7, <2>1 DEF AckReadsFence, QuietInv, QuietWhileInstalling
  <1>8. CASE AckAnswers
    <2>1. Quiet => Quiet'
      BY <1>8, WorldStaysQuiet DEF AckAnswers, reqVars
    <2>2. Idle => Quiet
      BY DEF Idle, Quiet, Unsettled, Settled
    <2>. QED BY <1>1, <1>8, <2>1, <2>2 DEF AckAnswers, QuietInv, QuietWhileInstalling
  <1>9. CASE UNCHANGED vars
    BY <1>2, <1>9, WorldStaysQuiet DEF vars, reqVars
  <1>. QED BY <1>3, <1>4, <1>5, <1>6, <1>7, <1>8, <1>9 DEF Next, Shutdown

\* While an update installs, no mutation is under way in the host, however many
\* requests, tabs and updates there are: the admission of each operation and the
\* acknowledgement of the fence together leave no gap (assertEffectAdmission,
\* the acknowledgement loop).
THEOREM UpdateMeetsNoMutation == Spec => []QuietWhileInstalling
  <1>1. Init => QuietInv
    BY RequestAssumption DEF Init, Idling, QuietInv, QuietWhileInstalling
  <1>2. QuietInv => QuietWhileInstalling
    BY DEF QuietInv
  <1>. QED BY <1>1, <1>2, TurnsTaken, QuietInvNext, PTL DEF Spec
-----------------------------------------------------------------------------
(* A child follows its tab, a pending command its child, and the writes to a
   child the order of the requests. *)

Late == closing \in {"exiting", "exited"}
Spawners == {"create", "replace", "replace_update"}
Messages == {"command", "read", "write"}

\* The object of a tab id is a create for that id.
TabsInv ==
  \A t \in Tabs : tabs[t] # None =>
    Kind[tabs[t]] = "create" /\ TabOf[tabs[t]] = t /\ target[tabs[t]] = tabs[t] /\ stage[tabs[t]] # "new"

\* What a request works on, and where it stands, is an object of its own tab id.
TargetInv ==
  \A r \in Requests :
    /\ stage[r] = "new" => target[r] = None /\ place[r] = None
    /\ stage[r] \notin {"new", "failed"} => target[r] # None
    /\ target[r] # None =>
         /\ Kind[target[r]] = "create" /\ TabOf[target[r]] = TabOf[r] /\ stage[target[r]] # "new"
         /\ Kind[r] = "create" => target[r] = r

\* Who stops, spawns and writes.
StagesInv ==
  \A r \in Requests :
    /\ stage[r] \in {"spawning", "spawned"} => Kind[r] \in Spawners
    /\ stage[r] = "stopping" => Kind[r] \in {"replace", "replace_update", "close"}
    /\ stage[r] \in {"flushing", "awaiting"} => Kind[r] \in Messages

\* A process was made by the request it is named after, and a child is committed
\* to the object that request works on.
ChildInv ==
  /\ \A p \in Requests :
       /\ proc[p] # "none" =>
            stage[p] \in {"spawned", "persisting"} \cup Settled /\ target[p] # None /\ Kind[p] \in Spawners
       /\ stage[p] = "spawned" => proc[p] # "none"
  /\ \A o \in Requests : child[o] # None =>
       /\ target[child[o]] = o /\ proc[child[o]] # "none"
       /\ stage[child[o]] \in {"persisting"} \cup Settled

ShapeInv == TabsInv /\ TargetInv /\ StagesInv /\ ChildInv

\* Unless a close or replace of the tab id has not waited for its turn: who stops
\* or spawns holds the queue of the object it works on, whose create is over;
InTurn(r) ==
  Kind[r] # "create" /\ (stage[r] \in {"stopping", "spawning", "spawned"} \/ proc[r] # "none")
  => target[r] = place[r] /\ stage[target[r]] \notin Creating

\* a replacement is made when the old child is gone, and a create makes the first;
Replacing(r) == Kind[r] # "create" /\ stage[r] \in {"spawning", "spawned"} => ~Running(target[r])
Born(r) == Kind[r] = "create" /\ stage[r] \in Creating => child[r] = None

\* the tab stays until that is over;
Kept(r) == stage[r] \in {"stopping"} \cup Creating /\ ~Late => tabs[TabOf[r]] = target[r]

\* a process that runs is the child of a tab; and a pending command's child runs.
NotStray(p) ==
  proc[p] = "running" /\ stage[p] # "spawned" /\ ~Late =>
    child[target[p]] = p /\ tabs[TabOf[p]] = target[p]
WrittenTo(p, r) == \E i \in DOMAIN written[p] : written[p][i] = r
Answerable(r) ==
  stage[r] = "awaiting" /\ Up => Running(target[r]) /\ WrittenTo(child[target[r]], r)

Sound ==
  \A r \in Requests : ~Spoiled(TabOf[r]) =>
    InTurn(r) /\ Replacing(r) /\ Born(r) /\ Kept(r) /\ NotStray(r) /\ Answerable(r)

\* Requests are numbered as they arrive, stand in a queue in that order, and are
\* served in it.
Arrived == Cardinality({q \in Requests : stage[q] # "new"})
Served(r) == Kind[r] # "create" /\ place[r] # None /\ stage[r] \notin {"new", "queued"}
Sorted(o) == \A i, j \in 1..Len(queue[o]) : i < j => at[queue[o][i]] < at[queue[o][j]]
OrderInv ==
  /\ \A r \in Requests : stage[r] # "new" => at[r] <= Arrived
  /\ \A o \in Requests : Sorted(o)
  /\ \A r, q \in Requests :
       Served(r) /\ In(q, stage[q]) /\ place[r] = place[q] /\ r # q => at[r] < at[q]

\* What has been written was written by a message that is past its turn, to a
\* child of the object it works on.
WrittenInv ==
  \A p \in Requests : \A i \in 1..Len(written[p]) :
    LET r == written[p][i]
    IN  /\ stage[r] \in {"flushing", "awaiting"} \cup Settled /\ Kind[r] \in Messages
        /\ target[r] = target[p] /\ proc[p] # "none" /\ place[r] # None

\* The child of an object is not from before a replacement of it that succeeded.
Latest ==
  \A q \in Requests :
    Kind[q] \in {"replace", "replace_update"} /\ proc[q] # "none" /\ stage[q] # "spawned" /\ ~Spoiled(TabOf[q])
    => child[target[q]] # None /\ at[child[target[q]]] >= at[q]

TabInv == QInv /\ ShapeInv /\ Sound /\ OrderInv /\ WrittenInv /\ Latest /\ WritesInOrder

-----------------------------------------------------------------------------
(* What a step does to what the invariant is about *)

\* A request of which nothing is heard is at most rejected.
Rests(q) == stage'[q] = stage[q] \/ (stage[q] = "awaiting" /\ stage'[q] = "failed")

\* The stages that follow each other.
Onward(r, st) ==
  \/ stage[r] = "queued" /\ st \in {"admitted", "failed"}
  \/ stage[r] = "checking" /\ Kind[r] = "create" /\ st \in {"spawning", "failed"}
  \/ /\ stage[r] = "admitted" /\ Kind[r] # "create"
     /\ \/ st \in {"failed", "persisting"}
        \/ st \in {"awaiting", "flushing"} /\ Kind[r] \in Messages
        \/ st = "stopping" /\ Kind[r] \in {"replace", "replace_update", "close"}
        \/ st = "spawning" /\ Kind[r] \in Spawners
  \/ stage[r] = "stopping" /\ (st \in {"failed", "persisting"} \/ (st = "spawning" /\ Kind[r] \in Spawners))
  \/ stage[r] = "spawning" /\ st \in {"spawned", "failed"}
  \/ stage[r] = "spawned" /\ st = "persisting"
  \/ stage[r] \in {"persisting", "flushing", "awaiting"} /\ st \in Settled

\* A step of request r moves it on, and at most finds the tab it works on again.
Moved(r) ==
  /\ UNCHANGED <<place, at, closing>>
  /\ Onward(r, stage'[r])
  /\ \A q \in Requests : q # r => Rests(q) /\ target'[q] = target[q]
  /\ \/ target'[r] = target[r]
     \/ /\ stage[r] = "admitted" /\ Kind[r] # "create"
        /\ tabs[TabOf[r]] # None /\ target'[r] = tabs[TabOf[r]]

LEMMA OthersRest ==
  ASSUME QInv, NEW r \in Requests, NEW st, stage' = [stage EXCEPT ![r] = st]
  PROVE  stage'[r] = st /\ \A q \in Requests : q # r => Rests(q)
  BY DEF QInv, TypeOK, Rests

LEMMA PerformMoves ==
  ASSUME QInv, ShapeInv, NEW r \in Requests, Perform(r)
  PROVE  Moved(r)
  <1>. USE DEF reqVars, procVars, hostVars, updateVars, tabVars
  <1>1. TypeOK /\ KindInv
    BY DEF QInv
  <1>2. target \in [Requests -> Requests \cup {None}]
    BY <1>1 DEF TypeOK
  <1>3. ASSUME UNCHANGED <<place, target, at, closing>>,
               \E st : stage' = [stage EXCEPT ![r] = st] /\ Onward(r, st)
        PROVE  Moved(r)
    BY <1>3, OthersRest DEF Moved
  <1>4. ASSUME UNCHANGED <<place, at, closing>>, NEW o \in Requests, NEW kinds, Turn(r, o, kinds),
               \E st : stage' = [stage EXCEPT ![r] = st] /\ Onward(r, st)
        PROVE  Moved(r)
    <2>1. Kind[r] # "create"
      BY <1>1, <1>4 DEF Turn, KindInv
    <2>2. target'[r] = o /\ \A q \in Requests : q # r => target'[q] = target[q]
      BY <1>2, <1>4 DEF Turn
    <2>. QED BY <1>4, <2>1, <2>2, OthersRest DEF Moved, Turn
  <1>5. CASE Admit(r)
    BY <1>3, <1>5 DEF Admit, IsNext, Leave, Onward
  <1>6. CASE AdmitCreate(r)
    BY <1>1, <1>3, <1>6 DEF AdmitCreate, Fail, Onward, KindInv
  <1>7. CASE BeginWithoutTab(r)
    BY <1>1, <1>3, <1>7 DEF BeginWithoutTab, NoTab, Leave, Onward, KindInv
  <1>8. ASSUME NEW o \in Requests, BeginCommand(r, o) PROVE Moved(r)
    <2>1. Turn(r, o, {"command", "read", "write"}) /\ stage[r] = "admitted" /\ Kind[r] \in Messages
          /\ Kind[r] # "create" /\ UNCHANGED <<place, at, closing>>
      BY <1>1, <1>8 DEF BeginCommand, Turn, Messages, KindInv
    <2>2. \E st \in {"flushing", "awaiting", "failed"} : stage' = [stage EXCEPT ![r] = st]
      BY <1>8 DEF BeginCommand, Leave
    <2>. QED BY <1>4, <2>1, <2>2 DEF Onward
  <1>9. ASSUME NEW o \in Requests, BeginUpdate(r, o) PROVE Moved(r)
    BY <1>1, <1>4, <1>9 DEF BeginUpdate, Turn, Onward, KindInv
  <1>10. ASSUME NEW o \in Requests, BeginRestartRefused(r, o) PROVE Moved(r)
    BY <1>1, <1>4, <1>10 DEF BeginRestartRefused, Turn, Leave, Onward, KindInv
  <1>11. ASSUME NEW o \in Requests, BeginStop(r, o) PROVE Moved(r)
    <2>1. Turn(r, o, {"replace", "replace_update", "close"}) /\ stage[r] = "admitted"
          /\ Kind[r] \in {"replace", "replace_update", "close"} /\ UNCHANGED <<place, at, closing>>
      BY <1>11 DEF BeginStop, Turn
    <2>2. \E st : stage' = [stage EXCEPT ![r] = st] /\ st \in {AfterStop(r), "stopping"}
      BY <1>11 DEF BeginStop
    <2>. QED BY <1>4, <2>1, <2>2 DEF Onward, AfterStop, Spawners
  <1>12. CASE StopDone(r)
    <2>1. stage[r] = "stopping" /\ Kind[r] \in {"replace", "replace_update", "close"}
      BY <1>12 DEF StopDone, ShapeInv, StagesInv
    <2>2. AfterStop(r) \in Stages /\ Onward(r, AfterStop(r))
      BY <2>1 DEF AfterStop, Onward, Spawners, Stages, Creating
    <2>3. stage'[r] = AfterStop(r) /\ \A q \in Requests : q # r => Rests(q)
      BY <1>1, <1>12, <2>2, RejectTyped DEF StopDone, Rests
    <2>. QED BY <1>12, <2>2, <2>3 DEF Moved, StopDone
  <1>13. CASE StopTimesOut(r)
    BY <1>3, <1>13 DEF StopTimesOut, Leave, Onward
  <1>14. CASE Spawn(r)
    BY <1>3, <1>14 DEF Spawn, Onward
  <1>15. CASE SpawnFails(r)
    BY <1>3, <1>15 DEF SpawnFails, Leave, Onward
  <1>16. CASE Commit(r)
    BY <1>3, <1>16 DEF Commit, Onward
  <1>17. CASE Persisted(r)
    BY <1>3, <1>17 DEF Persisted, Leave, Onward
  <1>18. CASE Flushed(r)
    BY <1>3, <1>18 DEF Flushed, Leave, Onward
  <1>19. CASE CommandTimesOut(r)
    BY <1>3, <1>19 DEF CommandTimesOut, Fail, Onward, Settled
  <1>20. CASE Answer(r)
    BY <1>3, <1>20 DEF Answer, Onward, Settled
  <1>. QED BY <1>5, <1>6, <1>7, <1>8, <1>9, <1>10, <1>11, <1>12, <1>13, <1>14, <1>15, <1>16, <1>17,
              <1>18, <1>19, <1>20 DEF Perform, Found

\* What else it changes, few steps change.
LEMMA PerformTouches ==
  ASSUME QInv, NEW r \in Requests, Perform(r)
  PROVE  /\ child' = child \/ Commit(r)
         /\ proc' = proc \/ Spawn(r)
         /\ written' = written \/ \E o \in Requests : BeginCommand(r, o) /\ Running(o)
         /\ overtaken' = overtaken \/ \E o \in Requests : BeginStop(r, o)
         /\ \/ tabs' = tabs
            \/ tabs' = [tabs EXCEPT ![TabOf[r]] = None]
               /\ \/ AdmitCreate(r) /\ stage'[r] = "failed"
                  \/ SpawnFails(r) /\ Kind[r] = "create"
                  \/ StopDone(r) /\ Kind[r] = "close"
                  \/ \E o \in Requests : BeginStop(r, o) /\ Kind[r] = "close" /\ child[o] = None
  <1>. USE DEF reqVars, procVars, hostVars, updateVars, tabVars
  <1>1. CASE Admit(r) \/ BeginWithoutTab(r) \/ StopTimesOut(r) \/ Spawn(r) \/ Commit(r) \/ Persisted(r)
             \/ Flushed(r) \/ CommandTimesOut(r) \/ Answer(r)
    BY <1>1 DEF Admit, BeginWithoutTab, StopTimesOut, Spawn, Commit, Persisted, Flushed, CommandTimesOut, Answer
  <1>2. CASE AdmitCreate(r)
    BY <1>2 DEF AdmitCreate, Fail, QInv, TypeOK
  <1>3. CASE SpawnFails(r)
    BY <1>3 DEF SpawnFails
  <1>4. CASE StopDone(r)
    BY <1>4 DEF StopDone, ClosedTabs
  <1>5. CASE \E o \in Requests : BeginCommand(r, o)
    BY <1>5 DEF BeginCommand
  <1>6. CASE \E o \in Requests : BeginUpdate(r, o) \/ BeginRestartRefused(r, o)
    BY <1>6 DEF BeginUpdate, BeginRestartRefused
  <1>7. CASE \E o \in Requests : BeginStop(r, o)
    BY <1>7 DEF BeginStop, ClosedTabs
  <1>. QED BY <1>1, <1>2, <1>3, <1>4, <1>5, <1>6, <1>7 DEF Perform, Found

\* The steps that are no request's.
World ==
  \/ \E p \in Requests : ChildExit(p) \/ StdinError(p) \/ ShutdownStops(p)
  \/ \E o \in Requests, b \in BOOLEAN : HearWorking(o, b)
  \/ ShutdownStarts \/ ShutdownStopFails \/ ShutdownBlocked \/ ShutdownCompletes \/ HostExits
  \/ FenceTaken \/ UpdateGoesOn \/ AckReadsFence \/ AckAnswers

LEMMA WorldTouches ==
  ASSUME QInv, World \/ UNCHANGED vars
  PROVE  /\ UNCHANGED <<place, target, at, queue, child, written, overtaken>>
         /\ \A q \in Requests : Rests(q)
         /\ proc' = proc \/ \E p \in Requests : ChildExit(p)
         /\ (Up' => Up) /\ (Late => Late')
         /\ tabs' = tabs \/ (Late' /\ tabs' = [t \in Tabs |-> None])
  <1>. USE DEF reqVars, procVars, hostVars, updateVars, tabVars, Up, Late
  <1>1. TypeOK /\ "failed" \in Stages /\ None \notin Requests
    BY RequestAssumption DEF QInv, Stages, Settled
  <1>2. ASSUME NEW o, stage' = RejectPending(o, None, "failed") PROVE \A q \in Requests : Rests(q)
    BY <1>1, <1>2, RejectTyped DEF Rests
  <1>3. CASE \E p \in Requests : ChildExit(p)
    BY <1>2, <1>3 DEF ChildExit, Rests
  <1>4. CASE \E p \in Requests : StdinError(p)
    BY <1>2, <1>4 DEF StdinError
  <1>5. CASE \E p \in Requests : ShutdownStops(p)
    BY <1>2, <1>5 DEF ShutdownStops
  <1>6. CASE \E o \in Requests, b \in BOOLEAN : HearWorking(o, b)
    BY <1>6 DEF HearWorking, Rests
  <1>7. CASE ShutdownStarts \/ ShutdownStopFails \/ ShutdownBlocked \/ ShutdownCompletes \/ HostExits
    BY <1>7 DEF ShutdownStarts, ShutdownStopFails, ShutdownBlocked, ShutdownCompletes, HostExits, Rests, Stopping
  <1>8. CASE FenceTaken \/ UpdateGoesOn \/ AckReadsFence \/ AckAnswers \/ UNCHANGED vars
    BY <1>8 DEF FenceTaken, UpdateGoesOn, AckReadsFence, AckAnswers, vars, Rests
  <1>. QED BY <1>3, <1>4, <1>5, <1>6, <1>7, <1>8 DEF World

LEMMA SubmitTouches ==
  ASSUME QInv, ShapeInv, NEW r \in Requests, Submit(r)
  PROVE  /\ UNCHANGED <<child, proc, written, overtaken, closing>>
         /\ stage[r] = "new" /\ target[r] = None /\ place[r] = None /\ at'[r] = Arrived + 1
         /\ \A q \in Requests : q # r =>
              stage'[q] = stage[q] /\ target'[q] = target[q] /\ place'[q] = place[q] /\ at'[q] = at[q]
         /\ \/ /\ stage'[r] = "failed" /\ target'[r] = None /\ place'[r] = None
               /\ UNCHANGED <<tabs, queue>>
            \/ /\ Kind[r] = "create" /\ tabs[TabOf[r]] = None
               /\ stage'[r] = "checking" /\ target'[r] = r /\ place'[r] = r
               /\ tabs' = [tabs EXCEPT ![TabOf[r]] = r] /\ queue' = queue
            \/ /\ Kind[r] # "create" /\ tabs[TabOf[r]] # None /\ stage'[r] = "queued"
               /\ target'[r] = tabs[TabOf[r]] /\ place'[r] = tabs[TabOf[r]] /\ tabs' = tabs
               /\ queue' = [queue EXCEPT ![tabs[TabOf[r]]] = Append(@, r)]
  <1>. USE DEF procVars, hostVars, updateVars, tabVars
  <1>1. stage \in [Requests -> Stages] /\ target \in [Requests -> Requests \cup {None}]
        /\ place \in [Requests -> Requests \cup {None}] /\ at \in [Requests -> Nat]
    BY DEF QInv, TypeOK
  <1>2. stage[r] = "new" /\ target[r] = None /\ place[r] = None
    BY DEF Submit, ShapeInv, TargetInv
  <1>3. at'[r] = Arrived + 1 /\ \A q \in Requests : q # r => at'[q] = at[q]
    BY <1>1 DEF Submit, Arrived
  <1>4. CASE Refused(r) /\ Fail(r) /\ UNCHANGED <<place, target, tabVars>>
    BY <1>1, <1>2, <1>3, <1>4 DEF Submit, Fail
  <1>5. CASE ~Refused(r) /\ Kind[r] = "create"
    BY <1>1, <1>2, <1>3, <1>5 DEF Submit, Refused
  <1>6. CASE ~Refused(r) /\ Kind[r] # "create"
    BY <1>1, <1>2, <1>3, <1>6 DEF Submit, Refused
  <1>. QED BY <1>4, <1>5, <1>6 DEF Submit

-----------------------------------------------------------------------------
(* The shape of requests, tab objects and children *)

LEMMA SubmitShape ==
  ASSUME QInv, ShapeInv, NEW r \in Requests, Submit(r)
  PROVE  ShapeInv'
  <1>1. TypeOK /\ TabOf[r] \in Tabs /\ tabs \in [Tabs -> Requests \cup {None}] /\ None \notin Requests
    BY RequestAssumption DEF QInv, TypeOK
  <1>2. \A t \in Tabs : tabs'[t] = tabs[t]
          \/ (t = TabOf[r] /\ tabs'[t] = r /\ Kind[r] = "create" /\ stage'[r] = "checking" /\ target'[r] = r)
    BY <1>1, SubmitTouches
  <1>3. TabsInv'
    <2>. SUFFICES ASSUME NEW t \in Tabs, tabs'[t] # None
                  PROVE  Kind[tabs'[t]] = "create" /\ TabOf[tabs'[t]] = t
                         /\ target'[tabs'[t]] = tabs'[t] /\ stage'[tabs'[t]] # "new"
      BY DEF TabsInv
    <2>1. CASE tabs'[t] = tabs[t]
      <3>1. tabs[t] \in Requests /\ tabs[t] # r
        BY <1>1, <2>1, SubmitTouches DEF ShapeInv, TabsInv
      <3>. QED BY <2>1, <3>1, SubmitTouches DEF ShapeInv, TabsInv
    <2>. QED BY <1>2, <2>1
  <1>4. \A q \in Requests : target[q] # None => target[q] \in Requests /\ target[q] # r
    BY <1>1, SubmitTouches DEF ShapeInv, TargetInv, TypeOK
  <1>5. TargetInv'
    <2>. SUFFICES ASSUME NEW q \in Requests
                  PROVE  /\ stage'[q] = "new" => target'[q] = None /\ place'[q] = None
                         /\ stage'[q] \notin {"new", "failed"} => target'[q] # None
                         /\ target'[q] # None =>
                              /\ Kind[target'[q]] = "create" /\ TabOf[target'[q]] = TabOf[q]
                              /\ stage'[target'[q]] # "new"
                              /\ Kind[q] = "create" => target'[q] = q
      BY DEF TargetInv
    <2>1. CASE q # r
      BY <2>1, <1>4, SubmitTouches DEF ShapeInv, TargetInv
    <2>2. CASE q = r /\ stage'[r] # "queued"
      BY <2>2, <1>1, SubmitTouches
    <2>3. CASE q = r /\ stage'[r] = "queued"
      <3>1. Kind[r] # "create" /\ tabs[TabOf[r]] # None /\ target'[r] = tabs[TabOf[r]]
        BY <2>3, SubmitTouches
      <3>2. tabs[TabOf[r]] \in Requests /\ tabs[TabOf[r]] # r
        BY <1>1, <3>1 DEF ShapeInv, TabsInv
      <3>3. stage'[tabs[TabOf[r]]] # "new"
        BY <1>1, <3>1, <3>2, SubmitTouches DEF ShapeInv, TabsInv
      <3>. QED BY <1>1, <2>3, <3>1, <3>2, <3>3 DEF ShapeInv, TabsInv
    <2>. QED BY <2>1, <2>2, <2>3
  <1>6. StagesInv'
    BY SubmitTouches DEF ShapeInv, StagesInv
  <1>7. ChildInv'
    <2>1. proc[r] = "none" /\ proc' = proc /\ child' = child /\ stage'[r] # "spawned"
      BY SubmitTouches DEF ShapeInv, ChildInv, Settled
    <2>2. \A o \in Requests : child[o] # None => child[o] \in Requests /\ child[o] # r
      BY <1>1, <2>1 DEF ShapeInv, ChildInv, TypeOK
    <2>. QED BY <2>1, <2>2, SubmitTouches DEF ShapeInv, ChildInv
  <1>. QED BY <1>3, <1>5, <1>6, <1>7 DEF ShapeInv

LEMMA PerformShape ==
  ASSUME QInv, ShapeInv, NEW r \in Requests, Perform(r)
  PROVE  ShapeInv'
  <1>1. TypeOK /\ KindInv /\ TabOf[r] \in Tabs /\ tabs \in [Tabs -> Requests \cup {None}] /\ None \notin Requests
    BY RequestAssumption DEF QInv, TypeOK
  <1>m. Moved(r)
    BY PerformMoves
  <1>2. \A t \in Tabs : tabs'[t] \in {tabs[t], None}
    BY <1>1, PerformTouches
  <1>3. \A q \in Requests : stage[q] # "new" => stage'[q] # "new"
    BY <1>m DEF Moved, Rests, Onward, Settled
  <1>4. \A q \in Requests : target'[q] = target[q] \/ (q = r /\ Kind[q] # "create")
    BY <1>m DEF Moved
  <1>5. TabsInv'
    <2>. SUFFICES ASSUME NEW t \in Tabs, tabs'[t] # None
                  PROVE  Kind[tabs'[t]] = "create" /\ TabOf[tabs'[t]] = t
                         /\ target'[tabs'[t]] = tabs'[t] /\ stage'[tabs'[t]] # "new"
      BY DEF TabsInv
    <2>1. tabs'[t] = tabs[t] /\ tabs[t] \in Requests
      BY <1>1, <1>2
    <2>. QED BY <2>1, <1>3, <1>4 DEF ShapeInv, TabsInv
  <1>6. stage[r] # "new" /\ stage'[r] # "new" /\ (stage[r] = "failed" => stage'[r] = "failed")
    BY <1>m DEF Moved, Onward, Settled
  <1>7. TargetInv'
    <2>. SUFFICES ASSUME NEW q \in Requests
                  PROVE  /\ stage'[q] = "new" => target'[q] = None /\ place'[q] = None
                         /\ stage'[q] \notin {"new", "failed"} => target'[q] # None
                         /\ target'[q] # None =>
                              /\ Kind[target'[q]] = "create" /\ TabOf[target'[q]] = TabOf[q]
                              /\ stage'[target'[q]] # "new"
                              /\ Kind[q] = "create" => target'[q] = q
      BY DEF TargetInv
    <2>1. /\ stage'[q] = "new" => stage[q] = "new" /\ place'[q] = place[q]
          /\ stage'[q] \notin {"new", "failed"} => stage[q] \notin {"new", "failed"}
      BY <1>m, <1>3, <1>6 DEF Moved, Rests
    <2>2. CASE target'[q] = target[q]
      <3>1. target[q] # None => target[q] \in Requests
        BY <1>1 DEF TypeOK
      <3>. QED BY <2>1, <2>2, <3>1, <1>3 DEF ShapeInv, TargetInv
    <2>3. CASE target'[q] # target[q]
      <3>1. q = r /\ Kind[r] # "create" /\ tabs[TabOf[r]] # None /\ target'[r] = tabs[TabOf[r]]
        BY <2>3, <1>m DEF Moved
      <3>2. tabs[TabOf[r]] \in Requests
        BY <1>1, <3>1
      <3>. QED BY <1>1, <1>3, <1>6, <3>1, <3>2 DEF ShapeInv, TabsInv
    <2>. QED BY <2>2, <2>3
  <1>8. StagesInv'
    <2>1. \A q \in Requests : q # r => stage'[q] \in {stage[q], "failed"}
      BY <1>m DEF Moved, Rests
    <2>2. stage'[r] \in {"spawning", "spawned"} => Kind[r] \in Spawners
      BY <1>m DEF Moved, Onward, Settled, ShapeInv, StagesInv, Spawners
    <2>3. stage'[r] = "stopping" => Kind[r] \in {"replace", "replace_update", "close"}
      BY <1>m DEF Moved, Onward, Settled
    <2>4. stage'[r] \in {"flushing", "awaiting"} => Kind[r] \in Messages
      BY <1>m DEF Moved, Onward, Settled
    <2>. QED BY <2>1, <2>2, <2>3, <2>4 DEF ShapeInv, StagesInv
  <1>9. ChildInv'
    <2>1. \A q \in Requests : stage[q] \in {"persisting"} \cup Settled => stage'[q] \in {"persisting"} \cup Settled
      BY <1>m DEF Moved, Rests, Onward, Settled
    <2>2. \A q \in Requests : stage[q] = "spawned" => stage'[q] \in {"spawned", "persisting"}
      BY <1>m DEF Moved, Rests, Onward, Settled
    <2>3. \A q \in Requests : proc'[q] = proc[q] \/ (q = r /\ Spawn(r) /\ stage[r] = "spawning" /\ proc'[r] = "running"
                                                     /\ stage'[r] = "spawned")
      BY <1>1, PerformTouches DEF Spawn, TypeOK
    <2>4. stage'[r] = "spawned" => proc'[r] # "none"
      <3>. SUFFICES ASSUME stage'[r] = "spawned" PROVE Spawn(r)
        BY <1>1 DEF Spawn, TypeOK
      <3>1. stage[r] = "spawning"
        BY <1>m DEF Moved, Onward, Settled
      <3>. QED BY <3>1, <1>1 DEF Perform, Found, Admit, IsNext, AdmitCreate, BeginWithoutTab, NoTab, BeginCommand,
             BeginUpdate, BeginRestartRefused, BeginStop, Turn, StopDone, StopTimesOut, SpawnFails, Leave, Commit,
             Persisted, Flushed, CommandTimesOut, Answer, TypeOK
    <2>5. \A p \in Requests :
            /\ proc'[p] # "none" =>
                 stage'[p] \in {"spawned", "persisting"} \cup Settled /\ target'[p] # None /\ Kind[p] \in Spawners
            /\ stage'[p] = "spawned" => proc'[p] # "none"
      <3>. TAKE p \in Requests
      <3>1. target[p] # None => target'[p] # None
        BY <1>m DEF Moved
      <3>2. proc'[p] # "none" =>
              stage'[p] \in {"spawned", "persisting"} \cup Settled /\ target'[p] # None /\ Kind[p] \in Spawners
        <4>1. CASE proc'[p] = proc[p]
          BY <4>1, <3>1, <2>1, <2>2 DEF ShapeInv, ChildInv
        <4>2. CASE proc'[p] # proc[p]
          BY <4>2, <3>1, <2>3 DEF ShapeInv, StagesInv, TargetInv
        <4>. QED BY <4>1, <4>2
      <3>3. stage'[p] = "spawned" => proc'[p] # "none"
        <4>1. CASE p = r
          BY <4>1, <2>4
        <4>2. CASE p # r
          BY <4>2, <2>3, <1>m DEF Moved, Rests, ShapeInv, ChildInv
        <4>. QED BY <4>1, <4>2
      <3>. QED BY <3>2, <3>3
    <2>6. \A o \in Requests : child'[o] = child[o] \/
            (child'[o] = r /\ target[r] = o /\ target'[r] = o /\ stage[r] = "spawned" /\ stage'[r] = "persisting")
      BY <1>1, PerformTouches DEF Commit, TypeOK
    <2>7. \A o \in Requests : child'[o] # None =>
             /\ target'[child'[o]] = o /\ proc'[child'[o]] # "none"
             /\ stage'[child'[o]] \in {"persisting"} \cup Settled
      <3>. SUFFICES ASSUME NEW o \in Requests, child'[o] # None
                    PROVE  /\ target'[child'[o]] = o /\ proc'[child'[o]] # "none"
                           /\ stage'[child'[o]] \in {"persisting"} \cup Settled
        OBVIOUS
      <3>1. CASE child'[o] = child[o]
        <4>. DEFINE p == child[o]
        <4>1. p \in Requests /\ target[p] = o /\ proc[p] # "none" /\ stage[p] \in {"persisting"} \cup Settled
          BY <1>1, <3>1 DEF ShapeInv, ChildInv, TypeOK
        <4>2. target'[p] = target[p]
          BY <4>1, <1>m DEF Moved, Settled
        <4>. QED BY <3>1, <4>1, <4>2, <2>1, <2>3
      <3>2. CASE child'[o] # child[o]
        <4>1. proc[r] # "none" /\ proc'[r] # "none"
          BY <3>2, <2>6, <2>3 DEF ShapeInv, ChildInv
        <4>. QED BY <3>2, <4>1, <2>6
      <3>. QED BY <3>1, <3>2
    <2>. QED BY <2>5, <2>7 DEF ChildInv
  <1>. QED BY <1>5, <1>7, <1>8, <1>9 DEF ShapeInv

LEMMA WorldShape ==
  ASSUME QInv, ShapeInv, World \/ UNCHANGED vars
  PROVE  ShapeInv'
  <1>1. TypeOK /\ None \notin Requests
    BY RequestAssumption DEF QInv
  <1>2. /\ UNCHANGED <<place, target, child>>
        /\ \A q \in Requests : Rests(q)
        /\ \A t \in Tabs : tabs'[t] \in {tabs[t], None}
    BY WorldTouches
  <1>3. \A q \in Requests : proc'[q] = proc[q] \/ (proc[q] # "none" /\ proc'[q] = "exited")
    BY <1>1, WorldTouches DEF ChildExit, TypeOK
  <1>4. \A q \in Requests : stage'[q] \in {stage[q], "failed"} /\ (stage'[q] # stage[q] => stage[q] = "awaiting")
    BY <1>2 DEF Rests
  <1>5. TabsInv'
    <2>1. \A t \in Tabs : tabs'[t] # None => tabs'[t] = tabs[t] /\ tabs[t] \in Requests
      BY <1>1, <1>2 DEF TypeOK
    <2>. QED BY <2>1, <1>2, <1>4 DEF ShapeInv, TabsInv
  <1>6. TargetInv'
    <2>1. \A q \in Requests : target[q] # None => target[q] \in Requests
      BY <1>1 DEF TypeOK
    <2>. QED BY <2>1, <1>2, <1>4 DEF ShapeInv, TargetInv
  <1>7. StagesInv'
    BY <1>4 DEF ShapeInv, StagesInv
  <1>8. ChildInv'
    <2>1. \A o \in Requests : child[o] # None => child[o] \in Requests
      BY <1>1 DEF TypeOK
    <2>. QED BY <2>1, <1>2, <1>3, <1>4 DEF ShapeInv, ChildInv, Settled
  <1>. QED BY <1>5, <1>6, <1>7, <1>8 DEF ShapeInv

-----------------------------------------------------------------------------
(* Who has the tab to himself *)

\* The stage before and after tells the step.
LEMMA Acts ==
  ASSUME QInv, NEW r \in Requests, Perform(r)
  PROVE  /\ stage[r] = "spawned" => Commit(r)
         /\ stage[r] = "admitted" /\ stage'[r] \in {"stopping", "spawning"} => \E o \in Requests : BeginStop(r, o)
         /\ stage[r] = "stopping" /\ stage'[r] = "spawning" => StopDone(r)
         /\ stage'[r] = "awaiting" => \E o \in Requests : BeginCommand(r, o)
  <1>1. stage \in [Requests -> Stages]
    BY DEF QInv, TypeOK
  <1>2. CASE \/ Admit(r) \/ AdmitCreate(r) \/ BeginWithoutTab(r)
             \/ \E o \in Requests : BeginUpdate(r, o) \/ BeginRestartRefused(r, o)
    BY <1>1, <1>2 DEF Admit, IsNext, AdmitCreate, Fail, BeginWithoutTab, NoTab, BeginUpdate, BeginRestartRefused,
                      Turn, Leave
  <1>3. CASE \E o \in Requests : BeginCommand(r, o) \/ BeginStop(r, o)
    BY <1>1, <1>3 DEF BeginCommand, BeginStop, Turn, Leave, AfterStop
  <1>4. CASE \/ StopTimesOut(r) \/ Spawn(r) \/ SpawnFails(r) \/ Commit(r) \/ Persisted(r)
             \/ Flushed(r) \/ CommandTimesOut(r) \/ Answer(r)
    BY <1>1, <1>4 DEF StopTimesOut, Spawn, SpawnFails, Commit, Persisted, Flushed, CommandTimesOut, Answer,
                      Leave, Fail, Settled
  <1>5. CASE StopDone(r)
    <2>1. r \notin Pending(target[r]) /\ stage'[r] = AfterStop(r)
      BY <1>1, <1>5 DEF StopDone, RejectPending, Pending
    <2>. QED BY <1>5, <2>1 DEF StopDone, AfterStop
  <1>. QED BY <1>2, <1>3, <1>4, <1>5 DEF Perform, Found

Busy(r) == stage[r] \in {"stopping"} \cup Creating

\* One request at a time stops or makes the child of a tab object.
LEMMA Alone ==
  ASSUME QInv, ShapeInv, Sound, NEW r \in Requests, NEW q \in Requests,
         Busy(r), Busy(q), target[r] = target[q], ~Spoiled(TabOf[r])
  PROVE  r = q
  <1>1. /\ target[r] # None /\ TabOf[q] = TabOf[r] /\ ~Spoiled(TabOf[q])
        /\ Kind[r] = "create" => target[r] = r
        /\ Kind[q] = "create" => target[q] = q
    BY DEF ShapeInv, TargetInv, Busy, Creating
  <1>2. \A x \in {r, q} : /\ Kind[x] = "create" => stage[x] \in Creating
                          /\ Kind[x] # "create" => stage[x] \in {"stopping", "spawning", "spawned"} /\ Holds(x)
    BY DEF Busy, Creating, QInv, KindInv, Holds, HoldStages
  <1>3. \A x \in {r, q} : InTurn(x)
    BY <1>1 DEF Sound
  <1>4. CASE Kind[r] # "create" /\ Kind[q] # "create"
    <2>1. place[r] = place[q]
      BY <1>2, <1>3, <1>4 DEF InTurn
    <2>. QED BY <2>1, <1>2, <1>4, TurnsFollow DEF TurnsAreTaken
  <1>5. CASE Kind[r] = "create" \/ Kind[q] = "create"
    BY <1>1, <1>2, <1>3, <1>5 DEF InTurn
  <1>. QED BY <1>4, <1>5

\* While a tab object has a running child, no other is made for it.
LEMMA NoSecondChild ==
  ASSUME QInv, ShapeInv, Sound, NEW r \in Requests, stage[r] = "spawned", ~Spoiled(TabOf[r])
  PROVE  ~Running(target[r])
  <1>1. Kind[r] = "create" => target[r] = r
    BY DEF ShapeInv, TargetInv
  <1>. QED BY <1>1 DEF Sound, Replacing, Born, Running, Creating

\* What has been overtaken stays so.
LEMMA StaysSpoiled ==
  ASSUME QInv, ShapeInv, [Next]_vars, NEW t, Spoiled(t)
  PROVE  Spoiled(t)'
  <1>1. SUFFICES overtaken \subseteq overtaken'
    BY DEF Spoiled
  <1>2. CASE \E r \in Requests : Submit(r)
    BY <1>2, SubmitTouches
  <1>3. CASE \E r \in Requests : Perform(r)
    BY <1>3, PerformTouches DEF BeginStop
  <1>4. CASE World \/ UNCHANGED vars
    BY <1>4, WorldTouches
  <1>. QED BY <1>2, <1>3, <1>4 DEF Next, World, Shutdown

\* A child changes only where a request commits one, and runs on.
LEMMA ChildrenRunOn ==
  ASSUME QInv, ShapeInv, NEW r \in Requests, Perform(r), NEW o \in Requests
  PROVE  /\ child'[o] = child[o] \/ (Commit(r) /\ target[r] = o)
         /\ Running(o)' => Running(o) \/ (Commit(r) /\ target[r] = o)
         /\ Running(o) /\ child'[o] = child[o] => Running(o)'
  <1>1. child \in [Requests -> Requests \cup {None}] /\ proc \in [Requests -> {"none", "running", "exited"}]
    BY DEF QInv, TypeOK
  <1>2. child'[o] = child[o] \/ (Commit(r) /\ target[r] = o)
    BY <1>1, PerformTouches DEF Commit
  <1>3. \A p \in Requests : proc'[p] = proc[p] \/ (p = r /\ stage[r] = "spawning" /\ proc'[p] = "running")
    BY <1>1, PerformTouches DEF Spawn
  <1>4. child[o] # None => child[o] \in Requests /\ stage[child[o]] # "spawning"
    BY <1>1 DEF ShapeInv, ChildInv, Settled
  <1>. QED BY <1>2, <1>3, <1>4 DEF Running

-----------------------------------------------------------------------------
(* A child follows its tab, and a pending command its child *)

LEMMA SubmitSound ==
  ASSUME QInv, ShapeInv, Sound, NEW r \in Requests, Submit(r)
  PROVE  Sound'
  <1>. SUFFICES ASSUME NEW q \in Requests, ~Spoiled(TabOf[q])'
                PROVE  (InTurn(q) /\ Replacing(q) /\ Born(q) /\ Kept(q) /\ NotStray(q) /\ Answerable(q))'
    BY DEF Sound
  <1>1. TypeOK /\ None \notin Requests /\ TabOf[r] \in Tabs /\ TabOf[q] \in Tabs
        /\ tabs \in [Tabs -> Requests \cup {None}]
    BY RequestAssumption DEF QInv, TypeOK
  <1>2. ~Spoiled(TabOf[q]) /\ InTurn(q) /\ Replacing(q) /\ Born(q) /\ Kept(q) /\ NotStray(q) /\ Answerable(q)
    BY SubmitTouches DEF Sound, Spoiled
  <1>3. proc[r] = "none" /\ child[r] = None
    <2>1. proc[r] = "none"
      BY SubmitTouches DEF ShapeInv, ChildInv, Settled
    <2>2. child[r] # None => target[child[r]] = r /\ child[r] \in Requests
      BY <1>1 DEF ShapeInv, ChildInv, TypeOK
    <2>. QED BY <1>1, <2>1, <2>2, SubmitTouches DEF ShapeInv, TargetInv
  <1>4. target[q] # None => target[q] \in Requests /\ target[q] # r
    BY <1>1, SubmitTouches DEF ShapeInv, TargetInv, TypeOK
  <1>5. CASE q = r
    <2>1. Up' = Up /\ child'[r] = None /\ proc'[r] = "none" /\ Running(r)' = FALSE
      BY <1>3, SubmitTouches DEF Up, Running
    <2>2. stage'[r] \in {"failed", "checking", "queued"}
      BY SubmitTouches
    <2>3. stage'[r] = "checking" => tabs'[TabOf[r]] = target'[r]
      BY <1>1, SubmitTouches
    <2>4. stage'[r] \in Creating => Kind[r] = "create" /\ stage'[r] = "checking"
      BY <2>2, SubmitTouches DEF Creating
    <2>. QED BY <1>5, <2>1, <2>2, <2>3, <2>4 DEF InTurn, Replacing, Born, Kept, NotStray, Answerable
  <1>6. CASE q # r
    <2>1. /\ stage'[q] = stage[q] /\ target'[q] = target[q] /\ place'[q] = place[q]
          /\ child' = child /\ proc' = proc /\ written' = written /\ closing' = closing
      BY <1>6, SubmitTouches
    <2>2. target[q] # None => stage'[target[q]] = stage[target[q]]
      BY <1>4, SubmitTouches
    <2>3. stage[q] \notin {"new", "failed"} \/ proc[q] # "none" => target[q] # None
      BY DEF ShapeInv, TargetInv, ChildInv
    <2>4. tabs[TabOf[q]] # None => tabs'[TabOf[q]] = tabs[TabOf[q]]
      BY <1>1, SubmitTouches
    <2>5. (Running(target[q]))' = Running(target[q]) /\ Up' = Up /\ Late' = Late
      BY <2>1 DEF Running, Up, Late
    <2>6. InTurn(q)' /\ Replacing(q)' /\ Born(q)'
      BY <1>2, <2>1, <2>2, <2>3, <2>5 DEF InTurn, Replacing, Born
    <2>7. Kept(q)' /\ NotStray(q)'
      BY <1>2, <2>1, <2>3, <2>4, <2>5 DEF Kept, NotStray, Creating
    <2>8. Answerable(q)'
      BY <1>2, <2>1, <2>5 DEF Answerable, WrittenTo, Running
    <2>. QED BY <2>6, <2>7, <2>8
  <1>. QED BY <1>5, <1>6

\* What has been written to a child stays written.
LEMMA WritesStay ==
  ASSUME QInv, NEW r \in Requests, Perform(r), NEW p \in Requests, NEW q, WrittenTo(p, q)
  PROVE  WrittenTo(p, q)'
  <1>1. written \in [Requests -> Seq(Requests)]
    BY DEF QInv, TypeOK
  <1>2. CASE written'[p] = written[p]
    BY <1>2 DEF WrittenTo
  <1>3. CASE written'[p] = Append(written[p], r)
    <2>1. PICK i \in DOMAIN written[p] : written[p][i] = q
      BY DEF WrittenTo
    <2>2. i \in DOMAIN written'[p] /\ written'[p][i] = q
      BY <1>1, <1>3, <2>1
    <2>. QED BY <2>2 DEF WrittenTo
  <1>4. ASSUME NEW o \in Requests, BeginCommand(r, o)
        PROVE  written'[p] = written[p] \/ written'[p] = Append(written[p], r)
    <2>1. written' = written \/ written' = [written EXCEPT ![child[o]] = Append(@, r)]
      BY <1>4 DEF BeginCommand
    <2>2. CASE child[o] = p
      BY <1>1, <2>1, <2>2
    <2>3. CASE child[o] # p
      BY <1>1, <2>1, <2>3
    <2>. QED BY <2>2, <2>3
  <1>5. written' = written \/ \E o \in Requests : BeginCommand(r, o)
    BY PerformTouches
  <1>6. written'[p] = written[p] \/ written'[p] = Append(written[p], r)
    BY <1>4, <1>5
  <1>. QED BY <1>2, <1>3, <1>6

LEMMA PerformSound ==
  ASSUME QInv, ShapeInv, Sound, NEW r \in Requests, Perform(r)
  PROVE  Sound'
  <1>. SUFFICES ASSUME NEW q \in Requests, ~Spoiled(TabOf[q])'
                PROVE  (InTurn(q) /\ Replacing(q) /\ Born(q) /\ Kept(q) /\ NotStray(q) /\ Answerable(q))'
    BY DEF Sound
  <1>1. TypeOK /\ KindInv /\ None \notin Requests /\ TabOf[r] \in Tabs /\ TabOf[q] \in Tabs
    BY RequestAssumption DEF QInv
  <1>2. ~Spoiled(TabOf[q])
    BY StaysSpoiled DEF Next
  <1>3. InTurn(q) /\ Replacing(q) /\ Born(q) /\ Kept(q) /\ NotStray(q) /\ Answerable(q)
    BY <1>2 DEF Sound
  <1>m. Moved(r)
    BY PerformMoves
  <1>s. target[q] # None /\ target[r] = target[q] => TabOf[r] = TabOf[q] /\ ~Spoiled(TabOf[r])
    BY <1>2 DEF ShapeInv, TargetInv
  <1>4. target[q] # None => target[q] \in Requests /\ Kind[target[q]] = "create"
    BY <1>1 DEF ShapeInv, TargetInv, TypeOK
  <1>5. stage[q] # "admitted" => target'[q] = target[q]
    BY <1>m DEF Moved
  \* A create that has been made is made only once.
  <1>6. \A c \in Requests : Kind[c] = "create" /\ stage'[c] \in Creating => stage[c] \in Creating
    BY <1>1, <1>m DEF Moved, Rests, Onward, KindInv, Creating, Settled
  <1>7. \A o \in Requests : BeginStop(r, o) /\ TabOf[r] = TabOf[q] =>
          /\ o = tabs[TabOf[r]] /\ target'[r] = o /\ stage[o] \notin Creating /\ place[r] = o
          /\ stage[r] = "admitted" /\ Kind[r] \in {"replace", "replace_update", "close"}
    <2>. SUFFICES ASSUME NEW o \in Requests, BeginStop(r, o), TabOf[r] = TabOf[q]
                  PROVE  /\ o = tabs[TabOf[r]] /\ target'[r] = o /\ stage[o] \notin Creating /\ place[r] = o
                         /\ stage[r] = "admitted" /\ Kind[r] \in {"replace", "replace_update", "close"}
      OBVIOUS
    <2>1. o = tabs[TabOf[r]] /\ target'[r] = o /\ stage[r] = "admitted"
          /\ Kind[r] \in {"replace", "replace_update", "close"}
      BY <1>1 DEF BeginStop, Turn, TypeOK
    <2>2. TabOf[o] = TabOf[q]
      BY <1>1, <2>1 DEF ShapeInv, TabsInv
    <2>3. o \notin overtaken'
      BY <2>2 DEF Spoiled
    <2>. QED BY <2>1, <2>3 DEF BeginStop
  <1>8. stage[q] \notin {"new", "failed"} \/ proc[q] # "none" => target[q] # None
    BY DEF ShapeInv, TargetInv, ChildInv
  <1>9. \A p \in Requests : proc'[p] = proc[p] \/ (p = r /\ stage[r] = "spawning" /\ stage'[r] = "spawned")
    BY <1>1, PerformTouches DEF Spawn, TypeOK
  <1>10. proc[q] # "none" => stage[q] \in {"spawned", "persisting"} \cup Settled
    BY DEF ShapeInv, ChildInv
  <1>11. Late' = Late /\ Up' = Up
    BY <1>m DEF Moved, Late, Up
  <1>12. InTurn(q)'
    <2>. SUFFICES ASSUME Kind[q] # "create",
                         stage'[q] \in {"stopping", "spawning", "spawned"} \/ proc'[q] # "none"
                  PROVE  target'[q] = place'[q] /\ stage'[target'[q]] \notin Creating
      BY DEF InTurn
    <2>1. CASE stage[q] \in {"stopping", "spawning", "spawned"} \/ proc[q] # "none"
      <3>1. target[q] = place[q] /\ stage[target[q]] \notin Creating
        BY <2>1, <1>3 DEF InTurn
      <3>2. target'[q] = target[q] /\ place'[q] = place[q] /\ target[q] \in Requests /\ Kind[target[q]] = "create"
        BY <2>1, <1>4, <1>5, <1>8, <1>10, <1>m DEF Moved, Settled
      <3>. QED BY <3>1, <3>2, <1>6
    <2>2. CASE ~(stage[q] \in {"stopping", "spawning", "spawned"} \/ proc[q] # "none")
      <3>1. q = r /\ stage[r] = "admitted" /\ stage'[r] \in {"stopping", "spawning"}
        BY <2>2, <1>1, <1>9, <1>m DEF Moved, Rests, Onward, Settled, KindInv
      <3>2. PICK o \in Requests : BeginStop(r, o)
        BY <3>1, Acts
      <3>3. o = tabs[TabOf[r]] /\ target'[r] = o /\ stage[o] \notin Creating /\ place[r] = o
        BY <3>1, <3>2, <1>7
      <3>4. Kind[o] = "create"
        BY <1>1, <3>3 DEF ShapeInv, TabsInv
      <3>. QED BY <3>1, <3>3, <3>4, <1>6, <1>m DEF Moved
    <2>. QED BY <2>1, <2>2
  \* No child is committed to what another stops or spawns for.
  <1>13. Busy(q) /\ q # r /\ Commit(r) => target[r] # target[q]
    <2>1. Busy(q) => target[q] # None
      BY <1>8 DEF Busy, Creating
    <2>2. Commit(r) => Busy(r)
      BY DEF Commit, Busy, Creating
    <2>. QED BY <2>1, <2>2, <1>2, <1>s, Alone
  <1>14. Replacing(q)'
    <2>. SUFFICES ASSUME Kind[q] # "create", stage'[q] \in {"spawning", "spawned"},
                         NEW o, target'[q] = o
                  PROVE  ~Running(o)'
      BY DEF Replacing, Running
    <2>1. CASE stage[q] \in {"spawning", "spawned"}
      <3>1. q # r \/ ~Commit(r)
        BY <1>1 DEF Commit, TypeOK
      <3>2. ~Running(target[q]) /\ target[q] = o /\ o \in Requests /\ Busy(q)
        <4>1. target[q] # None /\ stage[q] # "admitted" /\ Busy(q)
          BY <2>1, <1>8 DEF Busy, Creating
        <4>2. ~Running(target[q])
          BY <2>1, <1>3 DEF Replacing
        <4>. QED BY <4>1, <4>2, <1>4, <1>5
      <3>. QED BY <3>1, <3>2, <1>13, ChildrenRunOn
    <2>2. CASE stage[q] \notin {"spawning", "spawned"}
      <3>1. q = r /\ stage'[r] = "spawning" /\ stage[r] \in {"admitted", "stopping"}
        BY <2>2, <1>1, <1>m DEF Moved, Rests, Onward, Settled, KindInv
      <3>2. ~Commit(r)
        BY <3>1 DEF Commit
      <3>3. CASE stage[r] = "stopping"
        <4>1. StopDone(r) /\ target[r] # None /\ target'[r] = target[r]
          BY <3>1, <3>3, <1>5, <1>8, Acts
        <4>2. ~Running(o) /\ o \in Requests
          BY <3>1, <4>1, <1>4 DEF StopDone
        <4>. QED BY <3>1, <3>2, <4>1, <4>2, ChildrenRunOn
      <3>4. CASE stage[r] = "admitted"
        <4>1. PICK x \in Requests : BeginStop(r, x)
          BY <3>1, <3>4, Acts
        <4>2. child[x] = None
          BY <1>1, <3>1, <4>1 DEF BeginStop, TypeOK
        <4>3. o = x /\ ~Running(x)
          BY <3>1, <4>1, <4>2, <1>7 DEF Running
        <4>. QED BY <3>1, <3>2, <4>3, ChildrenRunOn
      <3>. QED BY <3>1, <3>3, <3>4
    <2>. QED BY <2>1, <2>2
  <1>15. Born(q)'
    <2>. SUFFICES ASSUME Kind[q] = "create", stage'[q] \in Creating
                  PROVE  child'[q] = None
      BY DEF Born
    <2>1. stage[q] \in Creating /\ child[q] = None /\ Busy(q)
      BY <1>3, <1>6 DEF Born, Busy
    <2>2. target[q] = q
      BY <2>1, <1>8 DEF ShapeInv, TargetInv, Creating
    <2>3. q # r \/ ~Commit(r)
      BY <1>1 DEF Commit, TypeOK, Creating
    <2>. QED BY <2>1, <2>2, <2>3, <1>13, ChildrenRunOn
  \* Whoever takes the tab away has it to himself.
  <1>16. tabs'[TabOf[q]] = tabs[TabOf[q]] \/
           /\ TabOf[r] = TabOf[q] /\ ~Busy(r)' /\ stage'[r] # "spawned"
           /\ \/ Busy(r) /\ (AdmitCreate(r) \/ SpawnFails(r) \/ StopDone(r))
                 /\ (Kind[r] = "create" => stage[r] \in Creating) /\ (Kind[r] # "create" => StopDone(r))
              \/ \E o \in Requests : BeginStop(r, o) /\ child[o] = None
    <2>1. CASE tabs' = tabs
      BY <2>1
    <2>2. CASE AdmitCreate(r) /\ stage'[r] = "failed" /\ tabs' = [tabs EXCEPT ![TabOf[r]] = None]
      BY <2>2, <1>1 DEF AdmitCreate, Busy, Creating, TypeOK, KindInv
    <2>3. CASE SpawnFails(r) /\ Kind[r] = "create" /\ tabs' = [tabs EXCEPT ![TabOf[r]] = None]
      BY <2>3, <1>1 DEF SpawnFails, Leave, Busy, Creating, TypeOK
    <2>4. CASE StopDone(r) /\ Kind[r] = "close" /\ tabs' = [tabs EXCEPT ![TabOf[r]] = None]
      <3>1. stage[r] = "stopping"
        BY <2>4 DEF StopDone
      <3>2. stage'[r] \notin {"stopping", "spawning", "spawned", "checking"}
        <4>1. stage'[r] = "persisting"
          BY <1>1, <2>4 DEF StopDone, RejectPending, AfterStop
        <4>. QED BY <4>1
      <3>. QED BY <2>4, <3>1, <3>2, <1>1 DEF Busy, Creating, TypeOK
    <2>5. CASE \E o \in Requests : /\ BeginStop(r, o) /\ Kind[r] = "close" /\ child[o] = None
                                   /\ tabs' = [tabs EXCEPT ![TabOf[r]] = None]
      <3>1. stage'[r] = "persisting"
        BY <1>1, <2>5 DEF BeginStop, AfterStop, TypeOK
      <3>. QED BY <2>5, <3>1, <1>1 DEF Busy, Creating, TypeOK
    <2>. QED BY <2>1, <2>2, <2>3, <2>4, <2>5, PerformTouches
  <1>17. TabOf[r] = TabOf[q] /\ Busy(r) /\ ~Late => tabs[TabOf[q]] = target[r] /\ Replacing(r) /\ Born(r)
    BY <1>2 DEF Sound, Kept, Busy
  <1>18. Kept(q)'
    <2>. SUFFICES ASSUME stage'[q] \in {"stopping"} \cup Creating, ~Late
                  PROVE  tabs'[TabOf[q]] = target'[q]
      BY <1>11 DEF Kept
    <2>1. CASE Busy(q) /\ tabs'[TabOf[q]] = tabs[TabOf[q]]
      BY <2>1, <1>3, <1>5 DEF Kept, Busy, Creating
    <2>2. CASE Busy(q) /\ tabs'[TabOf[q]] # tabs[TabOf[q]]
      <3>1. q # r
        BY <2>2, <1>16 DEF Busy
      <3>2. tabs[TabOf[q]] = target[q] /\ target[q] # None
        BY <2>2, <1>3, <1>8 DEF Kept, Busy, Creating
      <3>3. ~Busy(r)
        BY <2>2, <3>1, <3>2, <1>2, <1>16, <1>17, Alone
      <3>4. PICK o \in Requests : BeginStop(r, o) /\ TabOf[r] = TabOf[q]
        BY <2>2, <3>3, <1>16
      <3>5. o = target[q] /\ stage[o] \notin Creating /\ place[r] = o /\ stage[r] = "admitted" /\ Kind[r] # "create"
        BY <3>2, <3>4, <1>7
      <3>6. Kind[q] # "create"
        BY <2>2, <3>2, <3>5, <1>1 DEF ShapeInv, TargetInv, Busy, KindInv
      <3>7. Holds(q) /\ Holds(r) /\ place[q] = place[r]
        BY <2>2, <3>5, <3>6, <1>1, <1>3 DEF Busy, Creating, Holds, HoldStages, InTurn, KindInv
      <3>. QED BY <3>1, <3>7, TurnsFollow DEF TurnsAreTaken
    <2>3. CASE ~Busy(q)
      <3>1. q = r /\ stage[r] = "admitted" /\ stage'[r] \in {"stopping", "spawning"} /\ Busy(r)'
        BY <2>3, <1>m DEF Moved, Rests, Onward, Settled, Creating, Busy
      <3>2. PICK o \in Requests : BeginStop(r, o)
        BY <3>1, Acts
      <3>. QED BY <3>1, <3>2, <1>7, <1>16
    <2>. QED BY <2>1, <2>2, <2>3
  <1>19. stage[r] = "spawned" /\ TabOf[r] = TabOf[q] => ~Running(target[r])
    BY <1>2, NoSecondChild
  <1>20. NotStray(q)'
    <2>. SUFFICES ASSUME proc'[q] = "running", stage'[q] # "spawned", ~Late
                  PROVE  child'[target'[q]] = q /\ tabs'[TabOf[q]] = target'[q]
      BY <1>11 DEF NotStray
    <2>1. proc[q] = "running"
      BY <1>9
    <2>2. target[q] \in Requests /\ target'[q] = target[q]
      BY <2>1, <1>4, <1>5, <1>8, <1>10 DEF Settled
    <2>3. CASE stage[q] = "spawned"
      <3>1. q = r /\ Commit(r)
        BY <2>3, <1>m, Acts DEF Moved, Rests
      <3>2. child'[target[r]] = r /\ tabs' = tabs
        BY <1>1, <2>2, <3>1 DEF Commit, TypeOK
      <3>3. tabs[TabOf[q]] = target[q]
        BY <2>3, <1>3 DEF Kept, Creating
      <3>. QED BY <2>2, <3>1, <3>2, <3>3
    <2>4. CASE stage[q] # "spawned"
      <3>1. child[target[q]] = q /\ tabs[TabOf[q]] = target[q] /\ Running(target[q])
        BY <1>1, <2>1, <2>4, <1>3 DEF NotStray, Running
      <3>2. ~(Commit(r) /\ target[r] = target[q])
        BY <2>2, <3>1, <1>1, <1>s, <1>19 DEF Commit
      <3>3. child'[target[q]] = q
        BY <2>2, <3>1, <3>2, ChildrenRunOn
      <3>4. tabs'[TabOf[q]] = tabs[TabOf[q]]
        <4>. SUFFICES ASSUME tabs'[TabOf[q]] # tabs[TabOf[q]] PROVE FALSE
          OBVIOUS
        <4>1. CASE Busy(r)
          <5>1. target[r] = target[q] /\ Born(r) /\ TabOf[r] = TabOf[q]
            BY <4>1, <3>1, <1>16, <1>17
          <5>2. Kind[r] = "create" => stage[r] \in Creating /\ target[r] = r
            BY <4>1, <5>1, <2>2, <1>1, <1>16 DEF ShapeInv, TargetInv, BeginStop, Turn, KindInv
          <5>3. Kind[r] = "create" => ~Running(target[r])
            BY <5>1, <5>2 DEF Born, Running
          <5>4. Kind[r] # "create" => StopDone(r)
            BY <4>1, <1>16 DEF BeginStop, Turn, Busy, Creating
          <5>. QED BY <3>1, <5>1, <5>3, <5>4 DEF StopDone
        <4>2. CASE ~Busy(r)
          <5>1. PICK o \in Requests : BeginStop(r, o) /\ child[o] = None /\ TabOf[r] = TabOf[q]
            BY <4>2, <1>16
          <5>2. o = target[q]
            BY <5>1, <3>1, <1>7
          <5>. QED BY <5>1, <5>2, <3>1, <1>1
        <4>. QED BY <4>1, <4>2
      <3>. QED BY <2>2, <3>1, <3>3, <3>4
    <2>. QED BY <2>3, <2>4
  <1>21. Answerable(q)'
    <2>. SUFFICES ASSUME stage'[q] = "awaiting", Up, NEW o, target'[q] = o, NEW c, child'[o] = c
                  PROVE  Running(o)' /\ WrittenTo(c, q)'
      BY <1>11 DEF Answerable, WrittenTo, Running
    <2>1. CASE stage[q] = "awaiting"
      <3>1. o = target[q] /\ o \in Requests /\ Running(o) /\ WrittenTo(child[o], q)
        <4>1. target[q] # None /\ stage[q] # "admitted"
          BY <2>1, <1>8
        <4>. QED BY <2>1, <4>1, <1>3, <1>4, <1>5 DEF Answerable
      <3>2. ~(Commit(r) /\ target[r] = o)
        BY <3>1, <1>1, <1>s, <1>19 DEF Commit
      <3>3. Running(o)' /\ child'[o] = child[o]
        BY <3>1, <3>2, ChildrenRunOn
      <3>4. child[o] \in Requests
        BY <3>1, <1>1 DEF Running, TypeOK
      <3>. QED BY <3>1, <3>3, <3>4, WritesStay
    <2>2. CASE stage[q] # "awaiting"
      <3>1. q = r
        BY <2>2, <1>m DEF Moved, Rests
      <3>2. PICK x \in Requests : BeginCommand(r, x)
        BY <3>1, Acts
      <3>3. Running(x) /\ o = x /\ written' = [written EXCEPT ![child[x]] = Append(@, r)]
            /\ child' = child /\ proc' = proc
        BY <3>1, <3>2, <1>1 DEF BeginCommand, Turn, Leave, TypeOK
      <3>4. child[x] \in Requests /\ written[child[x]] \in Seq(Requests)
        BY <3>3, <1>1 DEF Running, TypeOK
      <3>5. /\ written'[child[x]] = Append(written[child[x]], r)
        BY <3>3, <3>4, <1>1 DEF TypeOK
      <3>6. Len(written[child[x]]) + 1 \in DOMAIN written'[child[x]]
            /\ written'[child[x]][Len(written[child[x]]) + 1] = r
        BY <3>4, <3>5
      <3>7. WrittenTo(c, q)'
        BY <3>1, <3>3, <3>6 DEF WrittenTo
      <3>8. Running(o)'
        BY <3>3 DEF Running
      <3>. QED BY <3>7, <3>8
    <2>. QED BY <2>1, <2>2
  <1>. QED BY <1>12, <1>14, <1>15, <1>18, <1>20, <1>21

LEMMA WorldSound ==
  ASSUME QInv, ShapeInv, Sound, World \/ UNCHANGED vars
  PROVE  Sound'
  <1>. SUFFICES ASSUME NEW q \in Requests, ~Spoiled(TabOf[q])'
                PROVE  (InTurn(q) /\ Replacing(q) /\ Born(q) /\ Kept(q) /\ NotStray(q) /\ Answerable(q))'
    BY DEF Sound
  <1>1. TypeOK /\ None \notin Requests
    BY RequestAssumption DEF QInv
  <1>2. InTurn(q) /\ Replacing(q) /\ Born(q) /\ Kept(q) /\ NotStray(q) /\ Answerable(q)
    BY WorldTouches DEF Sound, Spoiled
  <1>3. /\ UNCHANGED <<place, target, child, written>>
        /\ stage'[q] \in {stage[q], "failed"}
        /\ (Up' => Up) /\ (Late => Late') /\ (tabs' = tabs \/ Late')
    BY WorldTouches DEF Rests
  <1>4. \A p \in Requests : /\ proc'[p] = proc[p] \/ (proc[p] = "running" /\ proc'[p] = "exited")
    BY <1>1, WorldTouches DEF ChildExit, TypeOK
  <1>5. \A o : Running(o)' => Running(o)
    <2>. SUFFICES ASSUME NEW o, Running(o)' PROVE Running(o)
      OBVIOUS
    <2>1. child[o] # None /\ proc'[child[o]] = "running"
      BY <1>3 DEF Running
    <2>2. CASE proc' = proc
      BY <2>1, <2>2 DEF Running
    <2>3. CASE \E p \in Requests : ChildExit(p)
      BY <2>1, <2>3, <1>1 DEF Running, ChildExit, TypeOK
    <2>. QED BY <2>2, <2>3, WorldTouches
  <1>6. target[q] # None => target[q] \in Requests /\ stage'[target[q]] \in {stage[target[q]], "failed"}
    BY <1>1, WorldTouches DEF Rests, TypeOK
  <1>7. stage[q] \notin {"new", "failed"} \/ proc[q] # "none" => target[q] # None
    BY DEF ShapeInv, TargetInv, ChildInv
  <1>8. InTurn(q)'
    BY <1>2, <1>3, <1>4, <1>6, <1>7 DEF InTurn, Creating
  <1>9. Replacing(q)'
    <2>1. Running(target[q])' => Running(target[q])
      BY <1>3, <1>5 DEF Running
    <2>. QED BY <2>1, <1>2, <1>3 DEF Replacing
  <1>10. Born(q)' /\ Kept(q)'
    BY <1>2, <1>3 DEF Born, Kept, Creating
  <1>11. NotStray(q)'
    <2>1. stage[q] = "spawned" => stage'[q] = "spawned"
      BY WorldTouches DEF Rests
    <2>2. proc'[q] = "running" => proc[q] = "running"
      BY <1>4
    <2>. QED BY <2>1, <2>2, <1>2, <1>3 DEF NotStray
  <1>12. Answerable(q)'
    <2>. SUFFICES ASSUME stage'[q] = "awaiting", Up', NEW o, target'[q] = o, NEW c, child'[o] = c
                  PROVE  Running(o)' /\ WrittenTo(c, q)'
      BY <1>3 DEF Answerable, WrittenTo, Running
    <2>1. stage[q] = "awaiting" /\ target[q] = o /\ child[o] = c /\ Running(o) /\ WrittenTo(c, q) /\ o \in Requests
      BY <1>2, <1>3, <1>6, <1>7 DEF Answerable
    <2>2. proc'[c] = proc[c]
      <3>1. ASSUME NEW p \in Requests, ChildExit(p), p = c PROVE FALSE
        <4>1. target[p] = o /\ child[target[p]] = p /\ Up
          BY <2>1, <3>1, <1>3 DEF ShapeInv, ChildInv, Running
        <4>2. q \in Pending(target[p])
          BY <2>1, <4>1 DEF Pending
        <4>3. stage'[q] = "failed"
          BY <1>1, <3>1, <4>1, <4>2 DEF ChildExit, RejectPending
        <4>. QED BY <4>3
      <3>2. ASSUME NEW p \in Requests, ChildExit(p) PROVE proc'[c] = proc[c]
        <4>1. c \in Requests /\ p # c
          BY <2>1, <3>1, <3>2, <1>1 DEF Running, TypeOK
        <4>. QED BY <3>2, <4>1, <1>1 DEF ChildExit, TypeOK
      <3>. QED BY <3>2, WorldTouches
    <2>3. Running(o)'
      BY <2>1, <2>2, <1>3 DEF Running
    <2>4. WrittenTo(c, q)'
      BY <2>1, <1>3 DEF WrittenTo
    <2>. QED BY <2>3, <2>4
  <1>. QED BY <1>8, <1>9, <1>10, <1>11, <1>12

-----------------------------------------------------------------------------
(* Requests are served in the order in which they arrive *)

LEMMA ArrivedIsFinite == IsFiniteSet({q \in Requests : stage[q] # "new"}) /\ Arrived \in Nat
  <1>1. IsFiniteSet({q \in Requests : stage[q] # "new"})
    BY RequestAssumption, FS_Subset
  <1>. QED BY <1>1, FS_CardinalityType DEF Arrived

LEMMA SubmitOrder ==
  ASSUME QInv, ShapeInv, OrderInv, NEW r \in Requests, Submit(r)
  PROVE  OrderInv'
  <1>1. TypeOK /\ QueueInv /\ None \notin Requests /\ at \in [Requests -> Nat] /\ queue \in [Requests -> Seq(Requests)]
    BY RequestAssumption DEF QInv, TypeOK
  <1>2. Arrived' = Arrived + 1 /\ Arrived \in Nat
    <2>. DEFINE A == {q \in Requests : stage[q] # "new"}
    <2>. DEFINE B == {q \in Requests : stage'[q] # "new"}
    <2>1. B = A \cup {r} /\ r \notin A
      BY SubmitTouches
    <2>2. IsFiniteSet(A) /\ Cardinality(A) \in Nat /\ Arrived = Cardinality(A) /\ Arrived' = Cardinality(B)
      BY ArrivedIsFinite DEF Arrived
    <2>. HIDE DEF A, B
    <2>3. Cardinality(A \cup {r}) = Cardinality(A) + 1
      BY <2>1, <2>2, FS_AddElement
    <2>. QED BY <2>1, <2>2, <2>3
  <1>3. at'[r] = Arrived + 1 /\ stage[r] = "new"
        /\ \A q \in Requests : q # r => stage'[q] = stage[q] /\ place'[q] = place[q] /\ at'[q] = at[q]
    BY SubmitTouches
  <1>4. \A q \in Requests : stage[q] # "new" => at[q] < at'[r] /\ at[q] <= Arrived
    BY <1>1, <1>2, <1>3 DEF OrderInv
  <1>5. \A q \in Requests : stage'[q] # "new" => at'[q] <= Arrived'
    <2>. TAKE q \in Requests
    <2>1. CASE q = r
      BY <2>1, <1>2, <1>3
    <2>2. CASE q # r
      <3>1. at'[q] = at[q] /\ at[q] \in Nat /\ (stage'[q] # "new" => at[q] <= Arrived)
        BY <2>2, <1>1, <1>3, <1>4
      <3>. QED BY <3>1, <1>2
    <2>. QED BY <2>1, <2>2
  <1>6. \A o \in Requests : \A i \in 1..Len(queue[o]) :
          queue[o][i] \in Requests /\ stage[queue[o][i]] # "new" /\ queue[o][i] # r
    <2>1. \A q : In(q, stage[q]) => stage[q] # "new"
      BY DEF In, HoldStages
    <2>. QED BY <2>1, <1>1, <1>3 DEF QueueInv
  <1>7. \A o \in Requests : Sorted(o)'
    <2>. SUFFICES ASSUME NEW o \in Requests, NEW i \in 1..Len(queue'[o]), NEW j \in 1..Len(queue'[o]), i < j
                  PROVE  at'[queue'[o][i]] < at'[queue'[o][j]]
      BY DEF Sorted
    <2>1. CASE queue'[o] = queue[o]
      BY <2>1, <1>3, <1>6 DEF OrderInv, Sorted
    <2>2. CASE queue'[o] # queue[o]
      <3>1. queue'[o] = Append(queue[o], r)
        <4>1. queue' = [queue EXCEPT ![tabs[TabOf[r]]] = Append(@, r)]
          BY <2>2, SubmitTouches
        <4>2. queue'[o] = IF o = tabs[TabOf[r]] THEN Append(queue[o], r) ELSE queue[o]
          BY <4>1, <1>1
        <4>. QED BY <2>2, <4>2
      <3>2. Len(queue'[o]) = Len(queue[o]) + 1 /\ Len(queue[o]) \in Nat
            /\ queue'[o][Len(queue[o]) + 1] = r
            /\ \A k \in 1..Len(queue[o]) : queue'[o][k] = queue[o][k]
        BY <3>1, <1>1
      <3>3. i \in 1..Len(queue[o]) /\ queue'[o][i] = queue[o][i]
        BY <3>2
      <3>4. CASE j = Len(queue[o]) + 1
        BY <3>2, <3>3, <3>4, <1>3, <1>4, <1>6
      <3>5. CASE j # Len(queue[o]) + 1
        <4>1. j \in 1..Len(queue[o]) /\ queue'[o][j] = queue[o][j]
          BY <3>2, <3>5
        <4>. QED BY <3>3, <4>1, <1>3, <1>6 DEF OrderInv, Sorted
      <3>. QED BY <3>4, <3>5
    <2>. QED BY <2>1, <2>2
  <1>8. \A x, q \in Requests :
          Served(x)' /\ In(q, stage'[q]) /\ place'[x] = place'[q] /\ x # q => at'[x] < at'[q]
    <2>. SUFFICES ASSUME NEW x \in Requests, NEW q \in Requests, Served(x)', In(q, stage'[q]),
                         place'[x] = place'[q], x # q
                  PROVE  at'[x] < at'[q]
      OBVIOUS
    <2>1. x # r
      BY SubmitTouches DEF Served
    <2>2. Served(x) /\ at'[x] = at[x] /\ stage[x] # "new"
      BY <2>1, <1>3 DEF Served
    <2>3. CASE q = r
      BY <2>2, <2>3, <1>4
    <2>4. CASE q # r
      BY <2>1, <2>2, <2>4, <1>3 DEF OrderInv
    <2>. QED BY <2>3, <2>4
  <1>. QED BY <1>5, <1>7, <1>8 DEF OrderInv

\* A queue only loses its first.
LEMMA QueuesShorten ==
  ASSUME QInv, ShapeInv, NEW r \in Requests, Perform(r), NEW o \in Requests
  PROVE  queue'[o] = queue[o] \/ (Len(queue[o]) >= 1 /\ queue'[o] = Tail(queue[o]))
  <1>1. queue \in [Requests -> Seq(Requests)] /\ QueueInv /\ KindInv
    BY DEF QInv, TypeOK
  <1>2. ASSUME NEW st, Leave(r, st), stage[r] # "awaiting"
        PROVE  queue'[o] = queue[o] \/ (Len(queue[o]) >= 1 /\ queue'[o] = Tail(queue[o]))
    <2>1. CASE Kind[r] = "create"
      BY <2>1, <1>1, <1>2 DEF Leave
    <2>2. CASE Kind[r] # "create"
      <3>1. In(r, stage[r])
        BY <2>2, <1>1, <1>2, PerformMoves DEF Moved, Onward, In, HoldStages, KindInv
      <3>2. place[r] \in Requests /\ Len(queue[place[r]]) >= 1
        BY <3>1, <1>1 DEF QueueInv
      <3>. QED BY <2>2, <3>2, <1>1, <1>2 DEF Leave
    <2>. QED BY <2>1, <2>2
  <1>3. UNCHANGED queue \/ (stage[r] # "awaiting" /\ \E st : Leave(r, st))
    BY DEF Perform, Found, Admit, IsNext, AdmitCreate, BeginWithoutTab, NoTab, BeginCommand, BeginUpdate,
           BeginRestartRefused, BeginStop, Turn, StopDone, StopTimesOut, Spawn, SpawnFails, Commit,
           Persisted, Flushed, CommandTimesOut, Answer, tabVars
  <1>. QED BY <1>2, <1>3

LEMMA PerformOrder ==
  ASSUME QInv, ShapeInv, OrderInv, NEW r \in Requests, Perform(r)
  PROVE  OrderInv'
  <1>1. TypeOK /\ QueueInv /\ KindInv /\ at \in [Requests -> Nat] /\ queue \in [Requests -> Seq(Requests)]
    BY DEF QInv, TypeOK
  <1>2. Moved(r) /\ place' = place /\ at' = at
    BY PerformMoves DEF Moved
  <1>3. \A q \in Requests : stage'[q] # "new" <=> stage[q] # "new"
    BY <1>2 DEF Moved, Rests, Onward, Settled
  <1>4. Arrived' = Arrived
    BY <1>3 DEF Arrived
  <1>5. \A o \in Requests : Sorted(o)'
    <2>. SUFFICES ASSUME NEW o \in Requests, NEW i \in 1..Len(queue'[o]), NEW j \in 1..Len(queue'[o]), i < j
                  PROVE  at[queue'[o][i]] < at[queue'[o][j]]
      BY <1>2 DEF Sorted
    <2>1. CASE queue'[o] = queue[o]
      BY <2>1 DEF OrderInv, Sorted
    <2>2. CASE Len(queue[o]) >= 1 /\ queue'[o] = Tail(queue[o])
      <3>1. Len(queue[o]) \in Nat /\ Len(queue'[o]) = Len(queue[o]) - 1
            /\ \A k \in 1..Len(queue'[o]) : queue'[o][k] = queue[o][k + 1]
        BY <2>2, <1>1
      <3>2. i + 1 \in 1..Len(queue[o]) /\ j + 1 \in 1..Len(queue[o]) /\ i + 1 < j + 1
        BY <3>1
      <3>. QED BY <3>1, <3>2 DEF OrderInv, Sorted
    <2>. QED BY <2>1, <2>2, QueuesShorten
  <1>6. \A q \in Requests : In(q, stage'[q]) => In(q, stage[q])
    BY <1>1, <1>2 DEF Moved, Rests, Onward, In, HoldStages, KindInv, Settled
  <1>7. ASSUME NEW x \in Requests, Served(x)', ~Served(x) PROVE x = r /\ Head(queue[place[r]]) = r /\ In(r, stage[r])
    <2>1. x = r /\ stage[r] = "queued" /\ Kind[r] # "create"
      BY <1>2, <1>7 DEF Moved, Rests, Onward, Served
    <2>2. Admit(r)
      BY <2>1 DEF Perform, Found, AdmitCreate, BeginWithoutTab, NoTab, BeginCommand, BeginUpdate,
           BeginRestartRefused, BeginStop, Turn, StopDone, StopTimesOut, Spawn, SpawnFails, Commit,
           Persisted, Flushed, CommandTimesOut, Answer
    <2>. QED BY <2>1, <2>2 DEF Admit, IsNext, In
  <1>8. \A x, q \in Requests :
          Served(x)' /\ In(q, stage'[q]) /\ place'[x] = place'[q] /\ x # q => at'[x] < at'[q]
    <2>. SUFFICES ASSUME NEW x \in Requests, NEW q \in Requests, Served(x)', In(q, stage[q]),
                         place[x] = place[q], x # q
                  PROVE  at[x] < at[q]
      BY <1>2, <1>6
    <2>1. CASE Served(x)
      BY <2>1 DEF OrderInv
    <2>2. CASE ~Served(x)
      <3>1. x = r /\ Head(queue[place[r]]) = r
        BY <2>2, <1>7
      <3>2. PICK i \in 1..Len(queue[place[q]]) : queue[place[q]][i] = q
        BY <1>1 DEF QueueInv
      <3>3. place[q] \in Requests /\ queue[place[q]][1] = x /\ i # 1 /\ Len(queue[place[q]]) \in Nat
        <4>1. place[q] \in Requests
          BY <1>1 DEF QueueInv
        <4>2. queue[place[q]] \in Seq(Requests) /\ Len(queue[place[q]]) \in Nat
          BY <4>1, <1>1
        <4>3. queue[place[q]][1] = x
          BY <3>1, <4>2
        <4>. QED BY <4>1, <4>2, <4>3, <3>2
      <3>4. 1 \in 1..Len(queue[place[q]]) /\ 1 < i
        BY <3>2, <3>3
      <3>. QED BY <3>2, <3>3, <3>4 DEF OrderInv, Sorted
    <2>. QED BY <2>1, <2>2
  <1>. QED BY <1>2, <1>3, <1>4, <1>5, <1>8 DEF OrderInv

LEMMA WorldOrder ==
  ASSUME QInv, OrderInv, World \/ UNCHANGED vars
  PROVE  OrderInv'
  <1>1. UNCHANGED <<place, at, queue>> /\ \A q \in Requests : Rests(q)
    BY WorldTouches
  <1>2. \A q \in Requests : /\ stage'[q] # "new" <=> stage[q] # "new"
                            /\ Served(q)' => Served(q)
                            /\ In(q, stage'[q]) => In(q, stage[q])
    BY <1>1 DEF Rests, Served, In, HoldStages
  <1>3. Arrived' = Arrived
    BY <1>2 DEF Arrived
  <1>. QED BY <1>1, <1>2, <1>3 DEF OrderInv, Sorted

-----------------------------------------------------------------------------
(* What is written to a child is written in that order *)

\* A write is a message whose turn it is, to the child of the object it works on.
LEMMA Writing ==
  ASSUME QInv, ShapeInv, NEW r \in Requests, Perform(r), NEW p \in Requests, written'[p] # written[p]
  PROVE  /\ written'[p] = Append(written[p], r) /\ written[p] \in Seq(Requests)
         /\ target'[r] # None /\ child[target'[r]] = p /\ target'[r] \in Requests
         /\ stage[r] = "admitted" /\ stage'[r] \in {"flushing", "awaiting"}
         /\ Kind[r] \in Messages /\ place[r] \in Requests /\ proc[p] # "none" /\ target[p] = target'[r]
  <1>1. TypeOK /\ QueueInv /\ KindInv /\ None \notin Requests
    BY RequestAssumption DEF QInv
  <1>2. written \in [Requests -> Seq(Requests)] /\ stage \in [Requests -> Stages]
        /\ target \in [Requests -> Requests \cup {None}]
    BY <1>1 DEF TypeOK
  <1>3. PICK o \in Requests : BeginCommand(r, o) /\ Running(o)
    BY PerformTouches
  <1>4. /\ written' = [written EXCEPT ![child[o]] = Append(@, r)] /\ stage[r] = "admitted"
        /\ Kind[r] \in Messages /\ target'[r] = o /\ stage'[r] \in {"flushing", "awaiting"}
    BY <1>2, <1>3 DEF BeginCommand, Turn, Leave, Messages
  <1>5. p = child[o] /\ written'[p] = Append(written[p], r)
    BY <1>2, <1>4
  <1>6. place[r] \in Requests
    BY <1>1, <1>4 DEF QueueInv, KindInv, In, HoldStages
  <1>7. proc[p] # "none" /\ target[p] = o
    BY <1>3, <1>5, <1>1 DEF ShapeInv, ChildInv
  <1>. QED BY <1>1, <1>2, <1>4, <1>5, <1>6, <1>7

\* What stands in what has been written.
LEMMA WrittenIs ==
  ASSUME QInv, ShapeInv, NEW r \in Requests, Perform(r), NEW p \in Requests, NEW i \in 1..Len(written'[p])
  PROVE  \/ i \in 1..Len(written[p]) /\ written'[p][i] = written[p][i]
         \/ /\ i = Len(written[p]) + 1 /\ written'[p][i] = r /\ written'[p] # written[p]
            /\ \A j \in 1..(i - 1) : j \in 1..Len(written[p]) /\ written'[p][j] = written[p][j]
  <1>1. CASE written'[p] = written[p]
    BY <1>1
  <1>2. CASE written'[p] # written[p]
    <2>1. written'[p] = Append(written[p], r) /\ written[p] \in Seq(Requests)
      BY <1>2, Writing
    <2>2. Len(written[p]) \in Nat /\ Len(written'[p]) = Len(written[p]) + 1
          /\ written'[p][Len(written[p]) + 1] = r
          /\ \A j \in 1..Len(written[p]) : written'[p][j] = written[p][j]
      BY <2>1
    <2>3. CASE i = Len(written[p]) + 1
      BY <2>2, <2>3, <1>2
    <2>4. CASE i # Len(written[p]) + 1
      BY <2>2, <2>4
    <2>. QED BY <2>3, <2>4
  <1>. QED BY <1>1, <1>2

\* A message that has been written, and a process that was made, stay where they are.
LEMMA PastStays ==
  ASSUME QInv, ShapeInv, NEW r \in Requests, Perform(r), NEW q \in Requests,
         stage[q] \in {"flushing", "awaiting", "spawned", "persisting"} \cup Settled
  PROVE  /\ target'[q] = target[q] /\ place'[q] = place[q] /\ at'[q] = at[q]
         /\ stage[q] \in {"flushing", "awaiting"} \cup Settled => stage'[q] \in {"flushing", "awaiting"} \cup Settled
  <1>1. Moved(r)
    BY PerformMoves
  <1>2. stage[q] # "admitted"
    BY DEF Settled
  <1>3. target'[q] = target[q] /\ place'[q] = place[q] /\ at'[q] = at[q]
    BY <1>1, <1>2 DEF Moved
  <1>4. stage[q] \in {"flushing", "awaiting"} \cup Settled => stage'[q] \in {"flushing", "awaiting"} \cup Settled
    BY <1>1 DEF Moved, Rests, Onward, Settled
  <1>. QED BY <1>3, <1>4

LEMMA PerformWritten ==
  ASSUME QInv, ShapeInv, WrittenInv, NEW r \in Requests, Perform(r)
  PROVE  WrittenInv'
  <1>1. TypeOK /\ None \notin Requests
    BY RequestAssumption DEF QInv
  <1>2. \A p \in Requests : proc[p] # "none" => proc'[p] # "none" /\ target'[p] = target[p]
    <2>. SUFFICES ASSUME NEW p \in Requests, proc[p] # "none" PROVE proc'[p] # "none" /\ target'[p] = target[p]
      OBVIOUS
    <2>1. proc'[p] # "none"
      <3>1. CASE proc' = proc
        BY <3>1
      <3>2. CASE Spawn(r)
        BY <3>2, <1>1 DEF Spawn, TypeOK
      <3>. QED BY <3>1, <3>2, PerformTouches
    <2>2. stage[p] \in {"spawned", "persisting"} \cup Settled
      BY DEF ShapeInv, ChildInv
    <2>. QED BY <2>1, <2>2, PastStays
  <1>. SUFFICES ASSUME NEW p \in Requests, NEW i \in 1..Len(written'[p]), NEW x, x = written'[p][i]
                PROVE  /\ stage'[x] \in {"flushing", "awaiting"} \cup Settled /\ Kind[x] \in Messages
                       /\ target'[x] = target'[p] /\ proc'[p] # "none" /\ place'[x] # None
    BY DEF WrittenInv
  <1>3. CASE i \in 1..Len(written[p]) /\ x = written[p][i]
    <2>1. x \in Requests
      BY <1>1, <1>3 DEF TypeOK
    <2>2. stage[x] \in {"flushing", "awaiting"} \cup Settled /\ Kind[x] \in Messages
          /\ target[x] = target[p] /\ proc[p] # "none" /\ place[x] # None
      BY <1>3 DEF WrittenInv
    <2>. QED BY <2>1, <2>2, <1>2, PastStays
  <1>4. CASE x = r /\ written'[p] # written[p]
    <2>1. place' = place
      BY PerformMoves DEF Moved
    <2>. QED BY <2>1, <1>1, <1>2, <1>4, Writing
  <1>. QED BY <1>3, <1>4, WrittenIs

LEMMA SubmitWritten ==
  ASSUME QInv, ShapeInv, WrittenInv, NEW r \in Requests, Submit(r)
  PROVE  WrittenInv'
  <1>1. proc[r] = "none" /\ written' = written /\ proc' = proc
    BY SubmitTouches DEF ShapeInv, ChildInv, Settled
  <1>. SUFFICES ASSUME NEW p \in Requests, NEW i \in 1..Len(written[p]), NEW x, x = written[p][i]
                PROVE  /\ stage'[x] \in {"flushing", "awaiting"} \cup Settled /\ Kind[x] \in Messages
                       /\ target'[x] = target'[p] /\ proc'[p] # "none" /\ place'[x] # None
    BY <1>1 DEF WrittenInv
  <1>2. x \in Requests
    BY DEF QInv, TypeOK
  <1>3. stage[x] \in {"flushing", "awaiting"} \cup Settled /\ Kind[x] \in Messages
        /\ target[x] = target[p] /\ proc[p] # "none" /\ place[x] # None
    BY DEF WrittenInv
  <1>4. x # r /\ p # r
    BY <1>1, <1>3, SubmitTouches DEF Settled
  <1>. QED BY <1>1, <1>2, <1>3, <1>4, SubmitTouches

LEMMA WorldWritten ==
  ASSUME QInv, WrittenInv, World \/ UNCHANGED vars
  PROVE  WrittenInv'
  <1>1. /\ UNCHANGED <<place, target, written>> /\ \A q \in Requests : stage'[q] \in {stage[q], "failed"}
    BY WorldTouches DEF Rests
  <1>2. \A p \in Requests : proc[p] # "none" => proc'[p] # "none"
    BY WorldTouches DEF ChildExit, QInv, TypeOK
  <1>3. \A p \in Requests : \A i \in 1..Len(written[p]) : written[p][i] \in Requests
    BY DEF QInv, TypeOK
  <1>. QED BY <1>1, <1>2, <1>3 DEF WrittenInv, Settled

-----------------------------------------------------------------------------
(* A child is not from before a replacement that succeeded *)

LEMMA ServedFirst ==
  ASSUME QInv, OrderInv, NEW r \in Requests, NEW q \in Requests, Served(r), Holds(q), place[r] = place[q], r # q
  PROVE  at[r] < at[q]
  <1>1. In(q, stage[q])
    BY DEF Holds, In
  <1>. QED BY <1>1 DEF OrderInv

\* A process that was made for a replacement had its turn.
LEMMA ReplacementServed ==
  ASSUME QInv, ShapeInv, Sound, NEW q \in Requests, Kind[q] # "create", proc[q] # "none", ~Spoiled(TabOf[q])
  PROVE  /\ target[q] \in Requests /\ target[q] = place[q] /\ stage[target[q]] \notin Creating /\ Served(q)
         /\ stage[q] \in {"spawned", "persisting"} \cup Settled
  <1>1. stage[q] \in {"spawned", "persisting"} \cup Settled /\ target[q] # None
    BY DEF ShapeInv, ChildInv
  <1>2. target[q] = place[q] /\ stage[target[q]] \notin Creating
    BY DEF Sound, InTurn
  <1>3. target[q] \in Requests
    BY <1>1 DEF QInv, TypeOK
  <1>. QED BY <1>1, <1>2, <1>3, RequestAssumption DEF Served, Settled

LEMMA PerformLatest ==
  ASSUME QInv, ShapeInv, Sound, OrderInv, Latest, NEW r \in Requests, Perform(r)
  PROVE  Latest'
  <1>1. TypeOK /\ None \notin Requests /\ at \in [Requests -> Nat]
    BY RequestAssumption DEF QInv, TypeOK
  <1>m. Moved(r) /\ at' = at
    BY PerformMoves DEF Moved
  <1>. SUFFICES ASSUME NEW q \in Requests, Kind[q] \in {"replace", "replace_update"}, proc'[q] # "none",
                       stage'[q] # "spawned", ~Spoiled(TabOf[q])', NEW o, o = target'[q]
                PROVE  child'[o] # None /\ at[child'[o]] >= at[q]
    BY <1>m DEF Latest
  <1>2. Kind[q] # "create" /\ ~Spoiled(TabOf[q])
    BY StaysSpoiled DEF Next
  <1>3. proc[q] # "none"
    <2>1. CASE proc' = proc
      BY <2>1
    <2>2. CASE Spawn(r)
      <3>1. stage'[r] = "spawned"
        BY <1>1, <2>2 DEF Spawn, TypeOK
      <3>2. q # r
        BY <3>1
      <3>. QED BY <2>2, <3>2, <1>1 DEF Spawn, TypeOK
    <2>. QED BY <2>1, <2>2, PerformTouches
  <1>4. target[q] \in Requests /\ target[q] = place[q] /\ stage[target[q]] \notin Creating /\ Served(q)
        /\ stage[q] \in {"spawned", "persisting"} \cup Settled
    BY <1>2, <1>3, ReplacementServed
  <1>5. o = target[q] /\ o \in Requests
    BY <1>4, PastStays
  <1>6. CASE Commit(r) /\ target[r] = o
    <2>1. child'[o] = r /\ stage[r] = "spawned"
      BY <1>1, <1>5, <1>6 DEF Commit, TypeOK
    <2>2. TabOf[r] = TabOf[q] /\ ~Spoiled(TabOf[r]) /\ (Kind[r] = "create" => target[r] = r)
      BY <1>1, <1>2, <1>5, <1>6 DEF ShapeInv, TargetInv
    <2>3. Kind[r] # "create"
      BY <2>1, <2>2, <1>4, <1>5, <1>6 DEF Creating
    <2>4. place[r] = o /\ Holds(r)
      BY <2>1, <2>2, <2>3, <1>6 DEF Sound, InTurn, Holds, HoldStages
    <2>5. r = q \/ at[q] < at[r]
      BY <2>4, <1>4, <1>5, ServedFirst
    <2>6. at[r] \in Nat /\ at[q] \in Nat
      BY <1>1
    <2>. QED BY <2>1, <2>5, <2>6, <1>1
  <1>7. CASE ~(Commit(r) /\ target[r] = o)
    <2>1. child'[o] = child[o]
      BY <1>5, <1>7, ChildrenRunOn
    <2>2. stage[q] # "spawned"
      <3>. SUFFICES ASSUME stage[q] = "spawned" PROVE FALSE
        OBVIOUS
      <3>1. q = r
        BY <1>m DEF Moved, Rests
      <3>. QED BY <3>1, <1>5, <1>7, Acts
    <2>. QED BY <2>1, <2>2, <1>2, <1>3, <1>5 DEF Latest
  <1>. QED BY <1>6, <1>7

LEMMA SubmitLatest ==
  ASSUME QInv, ShapeInv, Latest, NEW r \in Requests, Submit(r)
  PROVE  Latest'
  <1>1. child \in [Requests -> Requests \cup {None}] /\ target \in [Requests -> Requests \cup {None}]
    BY DEF QInv, TypeOK
  <1>2. proc[r] = "none" /\ proc' = proc /\ child' = child /\ overtaken' = overtaken
    BY SubmitTouches DEF ShapeInv, ChildInv, Settled
  <1>. SUFFICES ASSUME NEW q \in Requests, Kind[q] \in {"replace", "replace_update"}, proc[q] # "none",
                       stage'[q] # "spawned", ~Spoiled(TabOf[q])
                PROVE  child[target'[q]] # None /\ at'[child[target'[q]]] >= at'[q]
    BY <1>2 DEF Latest, Spoiled
  <1>3. stage'[q] = stage[q] /\ target'[q] = target[q] /\ at'[q] = at[q]
    BY <1>2, SubmitTouches
  <1>4. child[target[q]] # None /\ at[child[target[q]]] >= at[q]
    BY <1>3 DEF Latest
  <1>5. target[q] \in Requests
    BY <1>1 DEF ShapeInv, ChildInv
  <1>6. child[target[q]] \in Requests /\ child[target[q]] # r
    BY <1>1, <1>2, <1>4, <1>5 DEF ShapeInv, ChildInv
  <1>7. at'[child[target[q]]] = at[child[target[q]]]
    BY <1>6, SubmitTouches
  <1>. QED BY <1>3, <1>4, <1>7

LEMMA WorldLatest ==
  ASSUME QInv, Latest, World \/ UNCHANGED vars
  PROVE  Latest'
  <1>1. /\ UNCHANGED <<target, at, child, overtaken>>
        /\ \A q \in Requests : stage'[q] \in {stage[q], "failed"} /\ (stage[q] = "spawned" => stage'[q] = "spawned")
    BY WorldTouches DEF Rests
  <1>2. \A p \in Requests : proc'[p] # "none" => proc[p] # "none"
    BY WorldTouches DEF ChildExit, QInv, TypeOK
  <1>. QED BY <1>1, <1>2 DEF Latest, Spoiled

-----------------------------------------------------------------------------
LEMMA PerformWrites ==
  ASSUME TabInv, NEW r \in Requests, Perform(r)
  PROVE  WritesInOrder'
  <1>1. QInv /\ ShapeInv /\ Sound /\ OrderInv /\ WrittenInv /\ Latest /\ WritesInOrder
        /\ TypeOK /\ None \notin Requests /\ at \in [Requests -> Nat]
    BY RequestAssumption DEF TabInv, QInv, TypeOK
  <1>m. Moved(r) /\ at' = at /\ place' = place
    BY <1>1, PerformMoves DEF Moved
  <1>. SUFFICES ASSUME NEW p \in Requests, NEW i \in 1..Len(written'[p]), NEW x, x = written'[p][i]
                PROVE  /\ \A j \in 1..(i - 1) :
                            place[written'[p][j]] = place[x] => at[written'[p][j]] < at[x]
                       /\ \A q \in Requests :
                            /\ target'[q] = target'[x] /\ place[x] = target'[x] /\ at[q] < at[x]
                            /\ Kind[q] \in {"replace", "replace_update"} /\ proc'[q] # "none"
                            /\ ~Spoiled(TabOf[x])'
                            => at[p] >= at[q]
    BY <1>m DEF WritesInOrder
  \* A replacement that has not made its process by now has not had its turn.
  <1>2. ASSUME NEW q \in Requests, proc[q] = "none", proc'[q] # "none"
        PROVE  q = r /\ Spawn(r) /\ stage[r] = "spawning"
    <2>1. Spawn(r)
      BY <1>1, <1>2, PerformTouches
    <2>. QED BY <2>1, <1>1, <1>2 DEF Spawn, TypeOK
  <1>3. CASE i \in 1..Len(written[p]) /\ x = written[p][i]
    <2>1. x \in Requests /\ Len(written[p]) \in Nat
      <3>1. written[p] \in Seq(Requests)
        BY <1>1 DEF TypeOK
      <3>. QED BY <3>1, <1>3
    <2>2. stage[x] \in {"flushing", "awaiting"} \cup Settled /\ Kind[x] \in Messages /\ place[x] # None
      BY <1>1, <1>3 DEF WrittenInv
    <2>3. target'[x] = target[x] /\ Served(x)
      BY <2>1, <2>2, <1>1, PastStays DEF Served, Messages, Settled
    <2>4. \A j \in 1..(i - 1) : written'[p][j] = written[p][j]
      <3>. TAKE j \in 1..(i - 1)
      <3>1. j \in 1..Len(written[p])
        BY <1>3, <2>1
      <3>2. CASE written'[p] = written[p]
        BY <3>2
      <3>3. CASE written'[p] = Append(written[p], r)
        BY <3>1, <3>3, <1>1 DEF TypeOK
      <3>. QED BY <3>2, <3>3, <1>1, Writing
    <2>5. \A j \in 1..(i - 1) : place[written'[p][j]] = place[x] => at[written'[p][j]] < at[x]
      BY <2>4, <1>1, <1>3 DEF WritesInOrder
    <2>6. ASSUME NEW q \in Requests, target'[q] = target'[x], place[x] = target'[x], at[q] < at[x],
                 Kind[q] \in {"replace", "replace_update"}, proc'[q] # "none", ~Spoiled(TabOf[x])'
          PROVE  at[p] >= at[q]
      <3>1. ~Spoiled(TabOf[x])
        BY <2>6, <1>1, StaysSpoiled DEF Next
      <3>2. CASE proc[q] # "none"
        <4>1. target'[q] = target[q]
          BY <3>2, <1>1, PastStays DEF ShapeInv, ChildInv
        <4>. QED BY <4>1, <3>1, <3>2, <2>3, <2>6, <1>1, <1>3 DEF WritesInOrder
      <3>3. CASE proc[q] = "none"
        <4>1. q = r /\ stage[r] = "spawning" /\ target'[q] = target[q]
          BY <3>3, <2>6, <1>2 DEF Spawn
        <4>2. TabOf[q] = TabOf[x] /\ ~Spoiled(TabOf[q])
          <5>1. target[x] # None
            BY <2>1, <2>2, <2>6, <2>3
          <5>2. target[q] = target[x]
            BY <4>1, <2>3, <2>6
          <5>. QED BY <5>1, <5>2, <2>1, <3>1, <1>1 DEF ShapeInv, TargetInv
        <4>3. place[q] = place[x] /\ Holds(q)
          BY <4>1, <4>2, <2>3, <2>6, <1>1 DEF Sound, InTurn, Holds, HoldStages
        <4>4. at[x] < at[q]
          BY <4>1, <4>3, <2>1, <2>2, <2>3, <1>1, ServedFirst DEF Settled
        <4>5. at[x] \in Nat /\ at[q] \in Nat
          BY <2>1, <1>1
        <4>. QED BY <4>4, <4>5, <2>6
      <3>. QED BY <3>2, <3>3
    <2>. QED BY <2>5, <2>6
  <1>4. CASE /\ i = Len(written[p]) + 1 /\ x = r /\ written'[p] # written[p]
             /\ \A j \in 1..(i - 1) : j \in 1..Len(written[p]) /\ written'[p][j] = written[p][j]
    <2>. DEFINE o == target'[r]
    <2>1. /\ o \in Requests /\ child[o] = p /\ stage[r] = "admitted" /\ Kind[r] \in Messages
          /\ place[r] \in Requests /\ Holds(r)
      BY <1>1, <1>4, Writing DEF Holds, HoldStages, Messages
    <2>2. ASSUME NEW j \in 1..(i - 1), place[written'[p][j]] = place[x] PROVE at[written'[p][j]] < at[x]
      <3>. DEFINE y == written[p][j]
      <3>1. written'[p][j] = y /\ j \in 1..Len(written[p])
        BY <1>4
      <3>2. stage[y] \in {"flushing", "awaiting"} \cup Settled /\ Kind[y] \in Messages /\ place[y] # None
        BY <3>1, <1>1 DEF WrittenInv
      <3>3. y \in Requests
        BY <3>1, <1>1 DEF TypeOK
      <3>4. Served(y) /\ y # r
        BY <2>1, <3>2 DEF Served, Messages, Settled
      <3>. HIDE DEF y
      <3>. QED BY <3>1, <3>3, <3>4, <2>1, <2>2, <1>1, <1>4, ServedFirst
    <2>3. ASSUME NEW q \in Requests, target'[q] = target'[x], place[x] = target'[x], at[q] < at[x],
                 Kind[q] \in {"replace", "replace_update"}, proc'[q] # "none", ~Spoiled(TabOf[x])'
          PROVE  at[p] >= at[q]
      <3>1. ~Spoiled(TabOf[r])
        BY <2>3, <1>1, <1>4, StaysSpoiled DEF Next
      <3>2. proc[q] # "none"
        BY <2>1, <2>3, <1>2
      <3>3. target[q] = o
        BY <3>2, <2>3, <1>1, <1>4, PastStays DEF ShapeInv, ChildInv
      <3>4. TabOf[q] = TabOf[r]
        <4>1. TabOf[q] = TabOf[o]
          BY <2>1, <3>3, <1>1 DEF ShapeInv, TargetInv
        <4>2. TabOf[o] = TabOf[r]
          <5>1. ShapeInv'
            BY <1>1, PerformShape
          <5>. QED BY <5>1, <2>1, <1>1 DEF ShapeInv, TargetInv
        <4>. QED BY <4>1, <4>2
      <3>5. target[q] = place[q] /\ Kind[q] # "create"
        BY <3>1, <3>2, <3>4, <2>3, <1>1, ReplacementServed
      <3>6. stage[q] # "spawned"
        <4>. SUFFICES ASSUME stage[q] = "spawned" PROVE FALSE
          OBVIOUS
        <4>1. Holds(q) /\ place[q] = place[r] /\ q # r
          BY <3>3, <3>5, <2>1, <2>3, <1>4 DEF Holds, HoldStages
        <4>. QED BY <4>1, <2>1, <1>1, TurnsFollow DEF TurnsAreTaken
      <3>. QED BY <3>1, <3>2, <3>3, <3>4, <3>6, <2>1, <2>3, <1>1 DEF Latest
    <2>. QED BY <2>2, <2>3
  <1>. QED BY <1>1, <1>3, <1>4, WrittenIs

LEMMA SubmitWrites ==
  ASSUME TabInv, NEW r \in Requests, Submit(r)
  PROVE  WritesInOrder'
  <1>1. QInv /\ ShapeInv /\ WrittenInv /\ WritesInOrder /\ TypeOK /\ None \notin Requests
    BY RequestAssumption DEF TabInv, QInv
  <1>2. proc[r] = "none" /\ written' = written /\ proc' = proc /\ overtaken' = overtaken /\ stage[r] = "new"
    BY <1>1, SubmitTouches DEF ShapeInv, ChildInv, Settled
  <1>3. \A q \in Requests : q # r => target'[q] = target[q] /\ place'[q] = place[q] /\ at'[q] = at[q]
    BY <1>1, SubmitTouches
  <1>4. \A p \in Requests : \A i \in 1..Len(written[p]) :
          written[p][i] \in Requests /\ written[p][i] # r /\ p # r
    <2>. TAKE p \in Requests
    <2>. TAKE i \in 1..Len(written[p])
    <2>1. written[p][i] \in Requests
      BY <1>1 DEF TypeOK
    <2>2. stage[written[p][i]] # "new" /\ proc[p] # "none"
      BY <1>1 DEF WrittenInv, Settled
    <2>. QED BY <2>1, <2>2, <1>2
  <1>. SUFFICES ASSUME NEW p \in Requests, NEW i \in 1..Len(written[p]), NEW x, x = written[p][i]
                PROVE  /\ \A j \in 1..(i - 1) :
                            place'[written[p][j]] = place'[x] => at'[written[p][j]] < at'[x]
                       /\ \A q \in Requests :
                            /\ target'[q] = target'[x] /\ place'[x] = target'[x] /\ at'[q] < at'[x]
                            /\ Kind[q] \in {"replace", "replace_update"} /\ proc[q] # "none"
                            /\ ~Spoiled(TabOf[x])
                            => at'[p] >= at'[q]
    BY <1>2 DEF WritesInOrder, Spoiled
  <1>5. \A j \in 1..(i - 1) : j \in 1..Len(written[p])
    BY <1>1 DEF TypeOK
  <1>6. \A q \in Requests : proc[q] # "none" => q # r
    BY <1>2
  <1>7. x \in Requests /\ x # r /\ p # r
    BY <1>4
  <1>8. \A j \in 1..(i - 1) : place'[written[p][j]] = place'[x] => at'[written[p][j]] < at'[x]
    BY <1>1, <1>3, <1>4, <1>5, <1>7 DEF WritesInOrder
  <1>. QED BY <1>1, <1>3, <1>6, <1>7, <1>8 DEF WritesInOrder

LEMMA WorldWrites ==
  ASSUME QInv, WritesInOrder, World \/ UNCHANGED vars
  PROVE  WritesInOrder'
  <1>1. UNCHANGED <<place, target, at, written, overtaken>>
    BY WorldTouches
  <1>2. \A p \in Requests : proc'[p] # "none" => proc[p] # "none"
    BY WorldTouches DEF ChildExit, QInv, TypeOK
  <1>. QED BY <1>1, <1>2 DEF WritesInOrder, Spoiled

-----------------------------------------------------------------------------
LEMMA TabInvInit == Init => TabInv
  <1>. SUFFICES ASSUME Init PROVE TabInv
    OBVIOUS
  <1>1. QInv
    BY QInvInit
  <1>2. /\ stage = [r \in Requests |-> "new"] /\ place = [r \in Requests |-> None] /\ target = [r \in Requests |-> None]
        /\ tabs = [t \in Tabs |-> None] /\ queue = [o \in Requests |-> <<>>] /\ child = [o \in Requests |-> None]
        /\ proc = [p \in Requests |-> "none"] /\ written = [p \in Requests |-> <<>>]
    BY DEF Init, Idling
  <1>3. ShapeInv
    BY <1>2 DEF ShapeInv, TabsInv, TargetInv, StagesInv, ChildInv
  <1>4. Sound
    BY <1>2 DEF Sound, InTurn, Replacing, Born, Kept, NotStray, Answerable, Creating
  <1>5. OrderInv
    BY <1>2 DEF OrderInv, Served, Sorted, In, HoldStages
  <1>6. WrittenInv /\ Latest /\ WritesInOrder
    BY <1>2 DEF WrittenInv, Latest, WritesInOrder
  <1>. QED BY <1>1, <1>3, <1>4, <1>5, <1>6 DEF TabInv

LEMMA TabInvNext == TabInv /\ [Next]_vars => TabInv'
  <1>. SUFFICES ASSUME TabInv, [Next]_vars PROVE TabInv'
    OBVIOUS
  <1>1. QInv /\ ShapeInv /\ Sound /\ OrderInv /\ WrittenInv /\ Latest /\ WritesInOrder
    BY DEF TabInv
  <1>2. QInv'
    BY <1>1, QInvNext
  <1>3. CASE \E r \in Requests : Submit(r)
    <2>1. PICK r \in Requests : Submit(r)
      BY <1>3
    <2>. QED BY <1>1, <1>2, <2>1, SubmitShape, SubmitSound, SubmitOrder, SubmitWritten, SubmitLatest, SubmitWrites
             DEF TabInv
  <1>4. CASE \E r \in Requests : Perform(r)
    <2>1. PICK r \in Requests : Perform(r)
      BY <1>4
    <2>. QED BY <1>1, <1>2, <2>1, PerformShape, PerformSound, PerformOrder, PerformWritten, PerformLatest,
                PerformWrites DEF TabInv
  <1>5. CASE World \/ UNCHANGED vars
    BY <1>1, <1>2, <1>5, WorldShape, WorldSound, WorldOrder, WorldWritten, WorldLatest, WorldWrites DEF TabInv
  <1>. QED BY <1>3, <1>4, <1>5 DEF Next, World, Shutdown

LEMMA TabInvHolds == Spec => []TabInv
  BY TabInvInit, TabInvNext, PTL DEF Spec

\* A pending command can always be answered: its tab's child runs and has been
\* sent it, or the command has been rejected; for any requests and tabs, except on
\* a tab id for which a close or replace has not waited (commitChild, rejectPending).
THEOREM PendingCanBeAnswered == Spec => []PendingIsAnswerable
  <1>1. TabInv => PendingIsAnswerable
    BY DEF TabInv, Sound, Answerable, WrittenTo, PendingIsAnswerable
  <1>. QED BY <1>1, TabInvHolds, PTL

\* A child that runs is the child of a tab that the host has, whatever requests,
\* exits and failures there were; the two ways out are the ones the property
\* names (create, queueTabMutation, stopChild, shutdown).
THEOREM NoOtherStray == Spec => []NoOtherStrayChild
  <1>1. TabInv => NoOtherStrayChild
    BY DEF TabInv, Sound, NotStray, Late, NoOtherStrayChild
  <1>. QED BY <1>1, TabInvHolds, PTL

\* What waited in one queue is written in the order of its arrival, and nothing is
\* written to a child from before a replacement that was asked for earlier and has
\* succeeded (queueTabMutation, queueTabCommand).
THEOREM WritesStayInOrder == Spec => []WritesInOrder
  <1>1. TabInv => WritesInOrder
    BY DEF TabInv
  <1>. QED BY <1>1, TabInvHolds, PTL
=============================================================================
