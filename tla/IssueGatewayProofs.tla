------------------------- MODULE IssueGatewayProofs -------------------------
(***************************************************************************)
(* At most one issue is filed for a submission, and its row tells of it,   *)
(* for any number of requests and deliveries.  The argument does not rest  *)
(* on the leases, which lapse, but on the mutation barrier alone: of the   *)
(* deliveries of one row at most one has raised it and goes on towards the *)
(* POST, and the row is marked as long as a POST may have been performed.  *)
(* And the active slots cover what is under way, whichever requests die.   *)
(***************************************************************************)
EXTENDS IssueGateway, FiniteSetTheorems, TLAPS

Early   == {"lookup", "prefilter", "digest", "bucket", "global", "create"}
Posting == {"post", "note", "clear"}
Steps   == Posting \cup {"idle", "read", "take", "moderate", "record", "search",
                         "reconcile", "barrier", "settle"}
Aims    == Ended \cup {"retry", "keep", "limited", None}

RowTypes ==
  /\ status \in [Requests -> Statuses] /\ mutation \in [Requests -> Mutations]
  /\ at \in [Requests -> Early \cup {"back", "done"}]
  /\ issues \in [Requests -> Nat] /\ late \in [Requests -> Nat]

WorkerTypes ==
  /\ pc \in [Workers -> Steps] /\ job \in [Workers -> Requests \cup {None}]
  /\ aim \in [Workers -> Aims]
  /\ \A w \in Workers : pc[w] # "idle" => job[w] \in Requests

Nowhere(r) == issues[r] = 0 /\ late[r] = 0

\* A row without a mark has no issue, one that is created has one, and a request
\* that has not yet made its row has neither.
RowInv(r) ==
  /\ issues[r] + late[r] <= 1
  /\ mutation[r] = "none" => Nowhere(r)
  /\ status[r] = "created" => issues[r] = 1 /\ mutation[r] = "confirmed"
  /\ status[r] = "rejected_prefilter" => mutation[r] = "none"
  /\ at[r] \in Early => status[r] = "absent" /\ mutation[r] = "none"

\* Behind the barrier a delivery is alone with its row, and until GitHub has
\* performed its POST there is no issue.
WorkerInv(w) ==
  /\ pc[w] \in Posting =>
       /\ mutation[job[w]] # "none"
       /\ \A x \in Workers : pc[x] \in Posting /\ job[x] = job[w] => x = w
  /\ pc[w] = "clear" => aim[w] = "limited"
  /\ pc[w] = "post" \/ (pc[w] \in Posting /\ aim[w] = "limited") => Nowhere(job[w])
  /\ pc[w] \in {"note", "settle"} /\ aim[w] = "created" => issues[job[w]] > 0

BarrierInv ==
  /\ RowTypes /\ WorkerTypes
  /\ \A r \in Requests : RowInv(r)
  /\ \A w \in Workers : WorkerInv(w)

LEMMA BarrierInit == Init => BarrierInv
  BY GatewayAssumption DEF Init, BarrierInv, RowTypes, WorkerTypes, RowInv, WorkerInv, Nowhere, Statuses,
     Mutations, Early, Posting, Steps, Aims, Ended, Final, Live

-----------------------------------------------------------------------------
(* The steps that keep the barrier and the issues as they are *)

\* Rows may change their status, as long as no row gets one that tells of an issue
\* or of none, and requests go on, as long as none returns to before its row.
RowsMove ==
  /\ status' \in [Requests -> Statuses] /\ at' \in [Requests -> Early \cup {"back", "done"}]
  /\ \A r \in Requests :
       /\ status'[r] # status[r] => status'[r] \notin {"created", "rejected_prefilter"}
       /\ at'[r] \in Early => at[r] \in Early /\ status'[r] = status[r]
  /\ UNCHANGED <<mutation, issues, late>>

\* Delivery w moves to a place that is not behind the barrier.
WorkerMoves(w) ==
  /\ pc' \in [Workers -> Steps] /\ job' \in [Workers -> Requests \cup {None}]
  /\ aim' \in [Workers -> Aims]
  /\ \A x \in Workers \ {w} : pc'[x] = pc[x] /\ job'[x] = job[x] /\ aim'[x] = aim[x]
  /\ pc'[w] \notin Posting
  /\ pc'[w] # "idle" => job'[w] \in Requests
  /\ pc'[w] = "settle" /\ aim'[w] = "created" => issues[job'[w]] > 0

LEMMA RowsMoveKeeps ==
  ASSUME BarrierInv, RowsMove
  PROVE  RowTypes' /\ \A r \in Requests : RowInv(r)'
  BY DEF BarrierInv, RowsMove, RowTypes, RowInv, Nowhere

LEMMA WorkersRestKeeps ==
  ASSUME BarrierInv, UNCHANGED <<mutation, issues, late, pc, job, aim>>
  PROVE  WorkerTypes' /\ \A w \in Workers : WorkerInv(w)'
  BY DEF BarrierInv, WorkerTypes, WorkerInv, Nowhere

LEMMA WorkerMovesKeeps ==
  ASSUME BarrierInv, UNCHANGED <<mutation, issues, late>>, NEW w \in Workers, WorkerMoves(w)
  PROVE  WorkerTypes' /\ \A x \in Workers : WorkerInv(x)'
  <1>1. WorkerTypes'
    BY DEF BarrierInv, WorkerTypes, WorkerMoves
  <1>2. WorkerInv(w)'
    BY DEF WorkerMoves, WorkerInv, Posting
  <1>3. ASSUME NEW x \in Workers, x # w PROVE WorkerInv(x)'
    BY <1>3 DEF BarrierInv, WorkerMoves, WorkerInv, Nowhere, Posting
  <1>. QED BY <1>1, <1>2, <1>3

LEMMA RowsAlone ==
  ASSUME BarrierInv, RowsMove, UNCHANGED <<pc, job, aim>>
  PROVE  BarrierInv'
  BY RowsMoveKeeps, WorkersRestKeeps DEF BarrierInv, RowsMove

LEMMA RowsAndWorker ==
  ASSUME BarrierInv, RowsMove, NEW w \in Workers, WorkerMoves(w)
  PROVE  BarrierInv'
  BY RowsMoveKeeps, WorkerMovesKeeps DEF BarrierInv, RowsMove

-----------------------------------------------------------------------------
(* The requests, the queues and the time *)

\* Where a status changes under Update, the rest follows from what it is given.
LEMMA UpdateMoves ==
  ASSUME NEW new, Update(new)
  PROVE  status' = new
  BY DEF Update

LEMMA IntakeKeeps ==
  ASSUME BarrierInv, NEW r \in Requests, Intake(r)
  PROVE  BarrierInv'
  <1>. USE DEF BarrierInv, RowTypes, RowsMove, Go, Early, store, queues, clock, consumer, github
  <1>1. CASE Lookup(r)
    BY <1>1, RowsAlone DEF Lookup
  <1>2. CASE RejectPrefilter(r)
    <2>1. UNCHANGED <<mutation, issues, late, pc, job, aim>> /\ mutation[r] = "none"
      BY <1>2 DEF RejectPrefilter, RowInv
    <2>2. RowTypes' /\ \A q \in Requests : RowInv(q)'
      BY <1>2, <2>1 DEF RejectPrefilter, RowInv, Nowhere, Statuses
    <2>. QED BY <2>1, <2>2, WorkersRestKeeps
  <1>3. CASE ReserveDigest(r)
    BY <1>3, RowsAlone DEF ReserveDigest
  <1>4. CASE CountBucket(r)
    BY <1>4, RowsAlone DEF CountBucket, CountSlot
  <1>5. CASE CountGlobal(r)
    BY <1>5, RowsAlone DEF CountGlobal, CountSlot
  <1>6. CASE Refuse(r)
    BY <1>6, RowsAlone DEF Refuse
  <1>7. CASE GivenBack(r) \/ \E scope \in Scopes : GiveBack(r, scope)
    BY <1>7, RowsAlone DEF GivenBack, GiveBack
  <1>8. CASE Create(r)
    <2>1. RowsMove
      BY <1>8 DEF Create, Statuses, Live
    <2>. QED BY <1>8, <2>1, RowsAlone DEF Create
  <1>9. CASE RequestDies(r)
    BY <1>9, RowsAlone DEF RequestDies
  <1>. QED
    BY <1>1, <1>2, <1>3, <1>4, <1>5, <1>6, <1>7, <1>8, <1>9 DEF Intake

LEMMA EnqueueKeeps ==
  ASSUME BarrierInv, NEW s \in Senders, NEW r \in Requests, Enqueue(s, r)
  PROVE  BarrierInv'
  <1>. USE DEF BarrierInv, RowTypes, RowsMove, store, queues, clock, consumer, github
  <1>1. CASE Send(s, r)
    BY <1>1, RowsAlone DEF Send
  <1>2. CASE MarkQueued(s, r)
    <2>1. RowsMove
      BY <1>2 DEF MarkQueued, RowInv, Statuses, Live
    <2>. QED BY <1>2, <2>1, RowsAlone DEF MarkQueued
  <1>3. CASE MarkUnavailable(s, r)
    <2>1. RowsMove
      BY <1>3 DEF MarkUnavailable, Update, RowInv, Statuses, Ended, Final
    <2>. QED BY <1>3, <2>1, RowsAlone DEF MarkUnavailable
  <1>4. CASE SenderDies(s, r)
    BY <1>4, RowsAlone DEF SenderDies
  <1>. QED BY <1>1, <1>2, <1>3, <1>4 DEF Enqueue

\* What is no longer wanted ends as unavailable or goes; none of it is a row that a
\* request has still to make.
LEMMA ScheduledKeeps == BarrierInv /\ Scheduled => BarrierInv'
  <1>. SUFFICES ASSUME BarrierInv, Scheduled PROVE BarrierInv'
    OBVIOUS
  <1>1. PICK expired \in SUBSET {r \in Requests : Expirable(r)} : Update(Cleaned(expired))
    BY DEF Scheduled
  <1>2. status' = Cleaned(expired)
    BY <1>1, UpdateMoves
  <1>3. RowsMove
    BY <1>2 DEF Scheduled, github, RowsMove, BarrierInv, RowTypes, RowInv, Cleaned, Expirable, Stale,
       Statuses, Ended, Final
  <1>. QED BY <1>3, RowsAlone DEF Scheduled, consumer

\* Rows that MarkUnleasedUnavailable ends.
LEMMA UnleasedMoves ==
  ASSUME BarrierInv, NEW r \in Requests, MarkUnleasedUnavailable(r),
         UNCHANGED <<mutation, at, issues, late>>
  PROVE  RowsMove
  <1>1. status' = status \/ (status[r] \in Live \cup {"unknown"}
                             /\ status' = [status EXCEPT ![r] = "unavailable"])
    BY UpdateMoves DEF MarkUnleasedUnavailable
  <1>. QED BY <1>1 DEF RowsMove, BarrierInv, RowTypes, RowInv, Live, Statuses, Ended, Final

LEMMA WorldKeeps ==
  ASSUME BarrierInv, NEW r \in Requests, World(r)
  PROVE  BarrierInv'
  <1>. USE DEF store, queues, clock, intake, consumer, github
  <1>1. CASE ProcessDlq(r)
    <2>1. RowsMove
      BY <1>1, UnleasedMoves DEF ProcessDlq
    <2>. QED BY <1>1, <2>1, RowsAlone DEF ProcessDlq
  <1>2. CASE Lands(r)
    <2>. USE DEF BarrierInv
    <2>1. UNCHANGED <<status, mutation, at, pc, job, aim>>
      BY <1>2 DEF Lands
    <2>2. /\ late[r] > 0 /\ late' = [late EXCEPT ![r] = @ - 1]
          /\ issues' = issues \/ issues' = [issues EXCEPT ![r] = @ + 1]
      BY <1>2 DEF Lands
    <2>6. RowTypes'
      BY <2>1, <2>2 DEF RowTypes
    <2>7. RowInv(r)'
      BY <2>1, <2>2, <2>6 DEF RowTypes, RowInv, Nowhere
    <2>8. ASSUME NEW q \in Requests, q # r PROVE RowInv(q)'
      BY <2>1, <2>2, <2>8 DEF RowTypes, RowInv, Nowhere
    <2>3. RowTypes' /\ \A q \in Requests : RowInv(q)'
      BY <2>6, <2>7, <2>8
    <2>4. WorkerTypes'
      BY <2>1 DEF WorkerTypes
    <2>5. ASSUME NEW w \in Workers PROVE WorkerInv(w)'
      <3>1. pc[w] # "idle" => job[w] \in Requests
        BY DEF WorkerTypes
      <3>. QED BY <2>1, <2>2, <3>1 DEF WorkerInv, WorkerTypes, RowTypes, Nowhere, Posting
    <2>. QED BY <2>3, <2>4, <2>5
  <1>3. CASE Exhaust(r) \/ LeaseLapses(r) \/ GrowsOld(r) \/ GrowsQuiet(r)
    <2>1. UNCHANGED <<status, mutation, at, issues, late, pc, job, aim>>
      BY <1>3 DEF Exhaust, LeaseLapses, GrowsOld, GrowsQuiet
    <2>2. RowsMove
      BY <2>1 DEF RowsMove, BarrierInv, RowTypes
    <2>. QED BY <2>1, <2>2, RowsAlone
  <1>. QED BY <1>1, <1>2, <1>3 DEF World

-----------------------------------------------------------------------------
(* The deliveries *)

\* A delivery that ends, or goes on to a place before the barrier.
LEMMA Leaves ==
  ASSUME BarrierInv, NEW w \in Workers, Leave(w), Forget(w)
  PROVE  WorkerMoves(w)
  BY DEF Leave, Forget, Step, WorkerMoves, BarrierInv, WorkerTypes, Steps, Posting, Aims

LEMMA GoesOn ==
  ASSUME BarrierInv, NEW w \in Workers, NEW place \in Steps \ (Posting \cup {"idle"}), NEW end \in Aims,
         Step(w, place), UNCHANGED job, pc[w] # "idle",
         aim' = [aim EXCEPT ![w] = end],
         place = "settle" /\ end = "created" => issues[job[w]] > 0
  PROVE  WorkerMoves(w)
  BY DEF Step, WorkerMoves, BarrierInv, WorkerTypes, Steps, Posting, Aims

LEMMA SameRows ==
  ASSUME BarrierInv, UNCHANGED <<status, at, mutation, issues, late>>
  PROVE  RowsMove
  BY DEF RowsMove, BarrierInv, RowTypes

\* The steps that do not touch the mutation: the row is claimed, judged, searched
\* for and released.
LEMMA BeforeBarrier ==
  ASSUME BarrierInv, NEW w \in Workers,
         \/ Malformed(w) \/ ClaimReads(w) \/ ClaimTakes(w) \/ Moderate(w) \/ RecordModelAttempt(w)
         \/ Search(w) \/ Reconcile(w) \/ Release(w) \/ WorkerDies(w)
         \/ \E r \in Requests : Deliver(w, r)
  PROVE  BarrierInv'
  <1>. USE DEF store, queues, clock, intake, github
  <1>t. aim \in [Workers -> Aims] /\ pc \in [Workers -> Steps]
    BY DEF BarrierInv, WorkerTypes
  <1>1. CASE Malformed(w)
    <2>1. job[w] \in Requests
      BY <1>1 DEF Malformed, BarrierInv, WorkerTypes
    <2>2. RowsMove
      BY <1>1, <2>1, UnleasedMoves DEF Malformed
    <2>3. WorkerMoves(w)
      BY <1>1, Leaves DEF Malformed, Ack
    <2>. QED BY <2>2, <2>3, RowsAndWorker
  <1>2. CASE ClaimReads(w)
    <2>1. RowsMove
      BY <1>2, SameRows DEF ClaimReads
    <2>2. CASE Ack(w) \/ Retry(w)
      BY <2>1, <2>2, Leaves, RowsAndWorker DEF Ack, Retry
    <2>3. CASE Step(w, "take") /\ UNCHANGED <<job, aim>>
      <3>1. WorkerMoves(w)
        BY <1>2, <2>3 DEF ClaimReads, Step, WorkerMoves, BarrierInv, WorkerTypes, Steps, Posting
      <3>. QED BY <2>1, <3>1, RowsAndWorker
    <2>. QED BY <1>2, <2>2, <2>3 DEF ClaimReads
  <1>3. CASE ClaimTakes(w)
    <2>1. job[w] \in Requests /\ status[job[w]] \in Statuses
      BY <1>3 DEF ClaimTakes, BarrierInv, WorkerTypes, RowTypes
    <2>2. RowsMove
      BY <1>3, <2>1 DEF ClaimTakes, RowsMove, BarrierInv, RowTypes, RowInv, Statuses, Live
    <2>3. CASE Retry(w)
      BY <2>2, <2>3, Leaves, RowsAndWorker DEF Retry
    <2>4. CASE UNCHANGED job /\ Step(w, "reconcile") /\ UNCHANGED aim
      <3>1. WorkerMoves(w)
        BY <1>3, <2>4 DEF ClaimTakes, Step, WorkerMoves, BarrierInv, WorkerTypes, Steps, Posting
      <3>. QED BY <2>2, <3>1, RowsAndWorker
    <2>5. CASE UNCHANGED job /\ Step(w, "moderate") /\ Forget(w)
      <3>1. WorkerMoves(w)
        BY <1>3, <2>5 DEF ClaimTakes, Step, Forget, WorkerMoves, BarrierInv, WorkerTypes, Steps, Posting, Aims
      <3>. QED BY <2>2, <3>1, RowsAndWorker
    <2>. QED BY <1>3, <2>3, <2>4, <2>5 DEF ClaimTakes
  <1>4. CASE Moderate(w)
    <2>1. PICK end \in Aims, place \in {"settle", "record"} :
            /\ Aim(w, end, place) /\ pc[w] # "idle"
            /\ ~ (place = "settle" /\ end = "created")
      BY <1>4 DEF Moderate, Aims, Ended, Final
    <2>2. RowsMove
      BY <2>1, SameRows DEF Aim
    <2>3. WorkerMoves(w)
      BY <2>1, GoesOn DEF Aim, Steps, Posting
    <2>. QED BY <2>2, <2>3, RowsAndWorker
  <1>5. CASE RecordModelAttempt(w)
    <2>1. RowsMove
      BY <1>5, SameRows DEF RecordModelAttempt
    <2>2. CASE Retry(w)
      BY <2>1, <2>2, Leaves, RowsAndWorker DEF Retry
    <2>3. CASE Step(w, IF aim[w] = "created" THEN "search" ELSE "settle") /\ UNCHANGED <<job, aim>>
      <3>1. WorkerMoves(w)
        BY <1>5, <2>3 DEF RecordModelAttempt, Step, WorkerMoves, BarrierInv, WorkerTypes, Steps, Posting
      <3>. QED BY <2>1, <3>1, RowsAndWorker
    <2>. QED BY <1>5, <2>2, <2>3 DEF RecordModelAttempt
  <1>6. CASE Search(w) \/ Reconcile(w)
    <2>1. PICK end \in Aims, place \in {"settle", "barrier"} :
            /\ Aim(w, end, place) /\ pc[w] # "idle"
            /\ place = "settle" /\ end = "created" => issues[job[w]] > 0
      BY <1>6 DEF Search, Reconcile, Aims, Ended, Final
    <2>2. RowsMove
      BY <2>1, SameRows DEF Aim
    <2>3. WorkerMoves(w)
      BY <2>1, GoesOn DEF Aim, Steps, Posting
    <2>. QED BY <2>2, <2>3, RowsAndWorker
  <1>7. CASE Release(w)
    <2>1. RowsMove
      BY <1>7, SameRows DEF Release
    <2>2. Leave(w) /\ Forget(w)
      BY <1>7 DEF Release, Ack, Retry
    <2>. QED BY <2>1, <2>2, Leaves, RowsAndWorker
  <1>8. CASE WorkerDies(w)
    BY <1>8, SameRows, Leaves, RowsAndWorker DEF WorkerDies, Retry
  <1>9. ASSUME NEW r \in Requests, Deliver(w, r) PROVE BarrierInv'
    <2>1. RowsMove
      BY <1>9, SameRows DEF Deliver
    <2>2. WorkerMoves(w)
      BY <1>9 DEF Deliver, Step, WorkerMoves, BarrierInv, WorkerTypes, Steps, Posting
    <2>. QED BY <2>1, <2>2, RowsAndWorker
  <1>. QED BY <1>1, <1>2, <1>3, <1>4, <1>5, <1>6, <1>7, <1>8, <1>9

\* The barrier is raised on a row that has no mark: no other delivery of it can be
\* behind its own, and there is no issue.
LEMMA RaisesBarrier ==
  ASSUME BarrierInv, NEW w \in Workers, NEW r \in Requests, job[w] = r, MarkPostStarted(w)
  PROVE  BarrierInv'
  <1>. USE DEF BarrierInv
  <1>1. UNCHANGED <<status, at, issues, late>>
    BY DEF MarkPostStarted, WorkerTypes, intake, github
  <1>2. CASE Retry(w) /\ UNCHANGED mutation
    BY <1>1, <1>2, SameRows, Leaves, RowsAndWorker DEF Retry
  <1>3. CASE /\ Guarded(w, {"checking"}) /\ mutation[r] = "none"
             /\ mutation' = [mutation EXCEPT ![r] = "post_started"]
             /\ pc' = [pc EXCEPT ![w] = "post"] /\ UNCHANGED <<job, aim>>
    <2>1. status[r] = "checking" /\ Nowhere(r)
      BY <1>1, <1>3 DEF Guarded, RowInv
    <2>2. RowTypes'
      BY <1>1, <1>3 DEF RowTypes, Mutations
    <2>3. ASSUME NEW q \in Requests PROVE RowInv(q)'
      BY <1>1, <1>3, <2>1 DEF RowInv, Nowhere, RowTypes
    <2>4. WorkerTypes'
      BY <1>1, <1>3 DEF WorkerTypes, Steps, Posting
    <2>5. ASSUME NEW x \in Workers, pc[x] \in Posting PROVE job[x] # r
      BY <1>3, <2>5 DEF WorkerInv
    <2>6. WorkerInv(w)'
      BY <1>1, <1>3, <2>1, <2>5 DEF WorkerInv, WorkerTypes, RowTypes, Nowhere, Posting
    <2>7. ASSUME NEW x \in Workers, x # w PROVE WorkerInv(x)'
      BY <1>1, <1>3, <2>5, <2>7 DEF WorkerInv, WorkerTypes, RowTypes, Nowhere, Posting
    <2>. QED BY <2>2, <2>3, <2>4, <2>6, <2>7
  <1>. QED BY <1>2, <1>3 DEF MarkPostStarted, Step

\* The one POST of a row, while there is no issue and none is under way.
LEMMA Posts ==
  ASSUME BarrierInv, NEW w \in Workers, NEW r \in Requests, job[w] = r, Post(w)
  PROVE  BarrierInv'
  <1>. USE DEF BarrierInv
  <1>1. /\ pc[w] = "post" /\ UNCHANGED <<status, at, mutation, job>>
        /\ pc' = [pc EXCEPT ![w] = "note"]
    BY DEF Post, Step, WorkerTypes, store, intake
  <1>2. Nowhere(r) /\ mutation[r] # "none"
    BY <1>1 DEF WorkerInv, Posting
  <1>3. PICK end \in {"created", "limited", "unavailable", "unknown"} :
          /\ aim' = [aim EXCEPT ![w] = end]
          /\ \/ issues' = [issues EXCEPT ![r] = @ + 1] /\ UNCHANGED late /\ end # "limited"
             \/ UNCHANGED <<issues, late>> /\ end # "created"
             \/ late' = [late EXCEPT ![r] = @ + 1] /\ UNCHANGED issues /\ end = "unknown"
    BY DEF Post
  <1>4. RowTypes'
    BY <1>1, <1>3 DEF RowTypes
  <1>5. status[r] # "created" /\ status[r] # "rejected_prefilter" /\ at[r] \notin Early
    BY <1>1, <1>2 DEF RowInv, Nowhere
  <1>6. RowInv(r)'
    BY <1>1, <1>2, <1>3, <1>5 DEF RowInv, RowTypes, Nowhere
  <1>7. ASSUME NEW q \in Requests, q # r PROVE RowInv(q)'
    BY <1>1, <1>3, <1>7 DEF RowInv, RowTypes, Nowhere
  <1>8. WorkerTypes'
    BY <1>1, <1>3 DEF WorkerTypes, Steps, Posting, Aims, Ended, Final
  <1>9. WorkerInv(w)'
    BY <1>1, <1>2, <1>3 DEF WorkerInv, WorkerTypes, RowTypes, Nowhere, Posting
  <1>10. ASSUME NEW x \in Workers, x # w PROVE WorkerInv(x)'
    <2>1. pc'[x] = pc[x] /\ aim'[x] = aim[x] /\ job'[x] = job[x]
      BY <1>1, <1>3, <1>10 DEF WorkerTypes
    <2>2. pc[x] \in Posting => job[x] # r
      BY <1>1, <1>10 DEF WorkerInv, Posting
    <2>3. CASE pc[x] \in Posting
      BY <1>1, <1>3, <1>10, <2>1, <2>2, <2>3 DEF WorkerInv, WorkerTypes, RowTypes, Nowhere, Posting
    <2>4. CASE pc[x] \notin Posting
      <3>1. pc[x] # "idle" => issues[job[x]] \in Nat /\ issues'[job[x]] >= issues[job[x]]
        BY <1>1, <1>3 DEF WorkerTypes, RowTypes
      <3>2. pc[x] # "idle" => issues'[job[x]] \in Nat
        BY <1>4 DEF WorkerTypes, RowTypes
      <3>. QED BY <3>2, <2>1, <2>4, <3>1 DEF WorkerInv, Posting
    <2>. QED BY <2>3, <2>4
  <1>. QED BY <1>4, <1>6, <1>7, <1>8, <1>9, <1>10

LEMMA Notes ==
  ASSUME BarrierInv, NEW w \in Workers, RecordGithubRequest(w)
  PROVE  BarrierInv'
  <1>. USE DEF BarrierInv
  <1>1. pc[w] = "note" /\ job[w] \in Requests /\ UNCHANGED <<status, at, mutation, issues, late>>
    BY DEF RecordGithubRequest, WorkerTypes, store, intake, github
  <1>2. CASE Retry(w)
    BY <1>1, <1>2, SameRows, Leaves, RowsAndWorker DEF Retry
  <1>3. CASE pc' = [pc EXCEPT ![w] = IF NotPerformed(w) THEN "clear" ELSE "settle"] /\ UNCHANGED <<job, aim>>
    <2>1. RowTypes' /\ \A q \in Requests : RowInv(q)'
      BY <1>1 DEF RowTypes, RowInv, Nowhere
    <2>2. WorkerTypes'
      BY <1>1, <1>3 DEF WorkerTypes, Steps, Posting
    <2>3. ASSUME NEW x \in Workers PROVE WorkerInv(x)'
      BY <1>1, <1>3 DEF WorkerInv, WorkerTypes, Nowhere, Posting, NotPerformed
    <2>. QED BY <2>1, <2>2, <2>3
  <1>. QED BY <1>2, <1>3 DEF RecordGithubRequest, Step

\* The barrier is taken down for a POST that was not performed, by the only delivery
\* that is behind it.
LEMMA TakesBarrierDown ==
  ASSUME BarrierInv, NEW w \in Workers, NEW r \in Requests, job[w] = r, ClearPostStartedForRetry(w)
  PROVE  BarrierInv'
  <1>. USE DEF BarrierInv
  <1>1. /\ pc[w] = "clear" /\ Leave(w) /\ Forget(w)
        /\ UNCHANGED <<status, at, issues, late>>
    BY DEF ClearPostStartedForRetry, Retry, WorkerTypes, intake, github
  <1>2. CASE UNCHANGED mutation
    BY <1>1, <1>2, SameRows, Leaves, RowsAndWorker
  <1>3. CASE mutation' = [mutation EXCEPT ![r] = "none"] /\ Guarded(w, {"checking"})
    <2>1. Nowhere(r) /\ status[r] = "checking"
      BY <1>1, <1>3 DEF WorkerInv, Posting, Guarded
    <2>2. RowTypes'
      BY <1>1, <1>3 DEF RowTypes, Mutations
    <2>3. ASSUME NEW q \in Requests PROVE RowInv(q)'
      BY <1>1, <1>3, <2>1 DEF RowInv, RowTypes, Nowhere
    <2>4. WorkerMoves(w)
      BY <1>1, Leaves
    <2>5. WorkerTypes'
      BY <2>4 DEF WorkerMoves, WorkerTypes
    <2>6. WorkerInv(w)'
      BY <1>1, <2>4 DEF WorkerMoves, WorkerInv, Posting
    <2>7. ASSUME NEW x \in Workers, x # w PROVE WorkerInv(x)'
      <3>1. pc[x] \in Posting => job[x] # r
        BY <1>1, <2>7 DEF WorkerInv, Posting
      <3>. QED BY <1>1, <1>3, <2>4, <2>7, <3>1 DEF WorkerMoves, WorkerInv, WorkerTypes, RowTypes, Nowhere, Posting
    <2>. QED BY <2>2, <2>3, <2>5, <2>6, <2>7
  <1>. QED BY <1>2, <1>3 DEF ClearPostStartedForRetry

\* A row becomes created only when an issue of it was seen, and then has just that.
LEMMA Settles ==
  ASSUME BarrierInv, NEW w \in Workers, NEW r \in Requests, job[w] = r, Transition(w)
  PROVE  BarrierInv'
  <1>. USE DEF BarrierInv
  <1>1. /\ pc[w] = "settle" /\ aim[w] \in Ended /\ Leave(w) /\ Forget(w)
        /\ UNCHANGED <<at, issues, late>>
    BY DEF Transition, Ack, Retry, WorkerTypes, intake, github
  <1>2. CASE UNCHANGED <<status, mutation>>
    BY <1>1, <1>2, SameRows, Leaves, RowsAndWorker
  <1>3. CASE /\ Guarded(w, Sources(aim[w])) /\ status' = [status EXCEPT ![r] = aim[w]]
             /\ mutation' = [mutation EXCEPT ![r] = IF aim[w] = "created" THEN "confirmed"
                                                    ELSE IF aim[w] = "unknown" THEN "ambiguous" ELSE @]
    <2>1. status[r] \in {"checking", "unknown"}
      BY <1>3 DEF Guarded, Sources
    <2>2. RowTypes'
      BY <1>1, <1>3 DEF RowTypes, Mutations, Statuses
    <2>3. aim[w] = "created" => issues[r] = 1
      BY <1>1 DEF WorkerInv, RowInv, RowTypes
    <2>4. RowInv(r)'
      BY <1>1, <1>3, <2>1, <2>3 DEF RowInv, RowTypes, Nowhere, Ended, Final
    <2>5. ASSUME NEW q \in Requests, q # r PROVE RowInv(q)'
      BY <1>1, <1>3, <2>5 DEF RowInv, RowTypes, Nowhere
    <2>6. WorkerMoves(w)
      BY <1>1, Leaves
    <2>7. WorkerTypes'
      BY <2>6 DEF WorkerMoves, WorkerTypes
    <2>8. WorkerInv(w)'
      BY <1>1, <2>6 DEF WorkerMoves, WorkerInv, Posting
    <2>9. ASSUME NEW x \in Workers, x # w PROVE WorkerInv(x)'
      BY <1>1, <1>3, <2>6, <2>9 DEF WorkerMoves, WorkerInv, WorkerTypes, RowTypes, Nowhere, Posting
    <2>. QED BY <2>2, <2>4, <2>5, <2>7, <2>8, <2>9
  <1>4. Guarded(w, Sources(aim[w])) => status' = [status EXCEPT ![r] = aim[w]]
    BY UpdateMoves DEF Transition
  <1>. QED BY <1>2, <1>3, <1>4 DEF Transition

LEMMA ConsumeKeeps ==
  ASSUME BarrierInv, NEW w \in Workers, Consume(w)
  PROVE  BarrierInv'
  <1>1. CASE \/ MarkPostStarted(w) \/ Post(w) \/ ClearPostStartedForRetry(w) \/ Transition(w)
    <2>1. job[w] \in Requests
      BY <1>1 DEF MarkPostStarted, Post, ClearPostStartedForRetry, Transition, BarrierInv, WorkerTypes
    <2>. QED BY <1>1, <2>1, RaisesBarrier, Posts, TakesBarrierDown, Settles
  <1>. QED BY <1>1, BeforeBarrier, Notes DEF Consume

-----------------------------------------------------------------------------
LEMMA BarrierNext == BarrierInv /\ [Next]_vars => BarrierInv'
  <1>. SUFFICES ASSUME BarrierInv, [Next]_vars PROVE BarrierInv'
    OBVIOUS
  <1>1. ASSUME NEW r \in Requests, Intake(r) \/ World(r) PROVE BarrierInv'
    BY <1>1, IntakeKeeps, WorldKeeps
  <1>2. ASSUME NEW s \in Senders, NEW r \in Requests, Enqueue(s, r) PROVE BarrierInv'
    BY <1>2, EnqueueKeeps
  <1>3. CASE Scheduled
    BY <1>3, ScheduledKeeps
  <1>4. ASSUME NEW w \in Workers, Consume(w) \/ \E r \in Requests : Deliver(w, r) PROVE BarrierInv'
    BY <1>4, ConsumeKeeps, BeforeBarrier
  <1>5. ASSUME NEW t \in Texts, DigestExpires(t) PROVE BarrierInv'
    BY <1>5, SameRows, RowsAlone DEF DigestExpires, intake, consumer, github
  <1>6. CASE UNCHANGED vars
    BY <1>6, SameRows, RowsAlone DEF vars, store, intake, consumer, github
  <1>. QED BY <1>1, <1>2, <1>3, <1>4, <1>5, <1>6 DEF Next

LEMMA BarrierAlways == Spec => []BarrierInv
  BY BarrierInit, BarrierNext, PTL DEF Spec

\* However often a message is delivered, wherever deliveries stop and however their
\* leases lapse, at most one issue exists or is under way for a submission
\* (consumer/index.ts, markPostStarted).
THEOREM OneIssue == Spec => []AtMostOneIssue
  <1>1. BarrierInv => AtMostOneIssue
    BY DEF BarrierInv, RowInv, AtMostOneIssue
  <1>. QED BY <1>1, BarrierAlways, PTL

\* A row tells of its issue: a mark as long as there may be one, and what ended as
\* created has one (recordGithubRequest, transition).
THEOREM IssueRecorded == Spec => []IssueIsRecorded
  <1>1. BarrierInv => IssueIsRecorded
    BY DEF BarrierInv, RowTypes, RowInv, Nowhere, IssueIsRecorded
  <1>. QED BY <1>1, BarrierAlways, PTL

-----------------------------------------------------------------------------
(* Types: what the argument above does not look at *)

SetTypes ==
  /\ outbox \subseteq Requests /\ main \subseteq Requests /\ dlq \subseteq Requests
  /\ old \subseteq Requests /\ quiet \subseteq Requests /\ unlapsed \subseteq Requests
  /\ twice \subseteq Requests
MapTypes ==
  /\ lease \in [Requests -> Workers \cup {None}] /\ reserved \in [Texts -> Requests \cup {None}]
  /\ held \in [Requests -> SUBSET Scopes]
  /\ out \in [Senders -> [Requests -> {"no", "send", "mark", "fail"}]]
SlotTypes == slots \in [Scopes -> Nat]
Seen      == ({"queued", "checking", "unknown"} \X Mutations) \cup {None}
DeliveryTypes ==
  /\ view \in [Workers -> Seen]
  /\ \A w \in Workers : pc[w] = "idle" => job[w] = None

LEMMA LessIsNat == \A n, k \in Nat : Less(n, k) \in Nat
  BY DEF Less

LEMMA UpdateSlots ==
  ASSUME SlotTypes, NEW new, Update(new)
  PROVE  SlotTypes'
  <1>1. ASSUME NEW S \in SUBSET Requests PROVE Cardinality(S) \in Nat
    BY GatewayAssumption, FS_Subset, FS_CardinalityType
  <1>. DEFINE Ends(s) == {r \in Requests : /\ status[r] \in Live /\ new[r] \in Ended
                                           /\ s \in {Global, BucketOf[r]}}
  <1>2. slots' = [s \in Scopes |-> Less(slots[s], Cardinality(Ends(s)))]
    BY DEF Update
  <1>3. \A s \in Scopes : Cardinality(Ends(s)) \in Nat
    BY <1>1
  <1>. HIDE DEF Ends
  <1>. QED BY <1>2, <1>3, LessIsNat DEF SlotTypes

LEMMA SlotsStep == SlotTypes /\ [Next]_vars => SlotTypes'
  <1>. SUFFICES ASSUME SlotTypes, [Next]_vars PROVE SlotTypes'
    OBVIOUS
  <1>0. CASE UNCHANGED slots
    BY <1>0 DEF SlotTypes
  <1>1. ASSUME NEW r \in Requests, Intake(r) PROVE SlotTypes'
    <2>1. ASSUME NEW scope \in Scopes, GiveBack(r, scope) PROVE SlotTypes'
      BY <2>1, LessIsNat DEF GiveBack, CountBack, SlotTypes
    <2>2. ASSUME NEW scope \in Scopes, NEW limit, NEW next, CountSlot(r, scope, limit, next)
          PROVE  SlotTypes'
      BY <2>2 DEF CountSlot, SlotTypes
    <2>3. Global \in Scopes /\ BucketOf[r] \in Scopes
      BY DEF Scopes
    <2>. QED BY <1>0, <1>1, <2>1, <2>2, <2>3
         DEF Intake, Lookup, RejectPrefilter, ReserveDigest, CountBucket, CountGlobal, Refuse, GivenBack,
             Create, RequestDies, store
  <1>2. ASSUME NEW r \in Requests, World(r) PROVE SlotTypes'
    BY <1>0, <1>2, UpdateSlots
       DEF World, Exhaust, ProcessDlq, MarkUnleasedUnavailable, Lands, LeaseLapses, GrowsOld, GrowsQuiet, store
  <1>3. ASSUME NEW s \in Senders, NEW r \in Requests, Enqueue(s, r) PROVE SlotTypes'
    BY <1>0, <1>3, UpdateSlots DEF Enqueue, Send, MarkQueued, MarkUnavailable, SenderDies, store
  <1>4. CASE Scheduled
    BY <1>4, UpdateSlots DEF Scheduled
  <1>5. ASSUME NEW w \in Workers, Consume(w) PROVE SlotTypes'
    BY <1>0, <1>5, UpdateSlots
       DEF Consume, Malformed, MarkUnleasedUnavailable, ClaimReads, ClaimTakes, Moderate, Aim,
           RecordModelAttempt, Search, Reconcile, MarkPostStarted, Post, RecordGithubRequest,
           ClearPostStartedForRetry, Release, Transition, WorkerDies, store
  <1>6. ASSUME NEW w \in Workers, NEW r \in Requests, Deliver(w, r) PROVE SlotTypes'
    BY <1>0, <1>6 DEF Deliver, store
  <1>7. ASSUME NEW t \in Texts, DigestExpires(t) PROVE SlotTypes'
    BY <1>0, <1>7 DEF DigestExpires
  <1>. QED BY <1>0, <1>1, <1>2, <1>3, <1>4, <1>5, <1>6, <1>7 DEF Next, vars, store

LEMMA SetsStep == WorkerTypes /\ SetTypes /\ [Next]_vars => SetTypes'
  <1>. SUFFICES ASSUME WorkerTypes, SetTypes, [Next]_vars PROVE SetTypes'
    OBVIOUS
  <1>. USE DEF SetTypes, store, queues, clock, intake
  <1>1. ASSUME NEW r \in Requests, Intake(r) PROVE SetTypes'
    BY <1>1 DEF Intake, Lookup, RejectPrefilter, ReserveDigest, CountBucket, CountGlobal, CountSlot,
         Refuse, GivenBack, GiveBack, Create, RequestDies
  <1>2. ASSUME NEW r \in Requests, World(r) PROVE SetTypes'
    BY <1>2 DEF World, Exhaust, ProcessDlq, MarkUnleasedUnavailable, Update, FreeLease, Lands,
         LeaseLapses, GrowsOld, GrowsQuiet
  <1>3. ASSUME NEW s \in Senders, NEW r \in Requests, Enqueue(s, r) PROVE SetTypes'
    BY <1>3 DEF Enqueue, Send, MarkQueued, MarkUnavailable, Update, SenderDies
  <1>4. CASE Scheduled
    BY <1>4 DEF Scheduled, Update
  <1>5. ASSUME NEW w \in Workers, Consume(w) PROVE SetTypes'
    <2>. USE DEF Ack, Retry
    <2>1. CASE Malformed(w) \/ ClaimReads(w) \/ Moderate(w) \/ RecordModelAttempt(w) \/ Search(w) \/ Reconcile(w)
      BY <2>1 DEF Malformed, MarkUnleasedUnavailable, Update, FreeLease, ClaimReads, Moderate, Aim,
           RecordModelAttempt, Search, Reconcile
    <2>2. CASE ClaimTakes(w)
      BY <2>2 DEF ClaimTakes, WorkerTypes
    <2>3. CASE MarkPostStarted(w) \/ Post(w) \/ RecordGithubRequest(w) \/ ClearPostStartedForRetry(w)
      BY <2>3 DEF MarkPostStarted, Post, RecordGithubRequest, ClearPostStartedForRetry, FreeLease
    <2>4. CASE Release(w) \/ Transition(w) \/ WorkerDies(w)
      BY <2>4 DEF Release, Transition, Update, FreeLease, WorkerDies
    <2>. QED BY <1>5, <2>1, <2>2, <2>3, <2>4 DEF Consume
  <1>6. ASSUME NEW w \in Workers, NEW r \in Requests, Deliver(w, r) PROVE SetTypes'
    BY <1>6 DEF Deliver
  <1>7. ASSUME NEW t \in Texts, DigestExpires(t) PROVE SetTypes'
    BY <1>7 DEF DigestExpires
  <1>. QED BY <1>1, <1>2, <1>3, <1>4, <1>5, <1>6, <1>7 DEF Next, vars

LEMMA MapsStep == WorkerTypes /\ MapTypes /\ [Next]_vars => MapTypes'
  <1>. SUFFICES ASSUME WorkerTypes, MapTypes, [Next]_vars PROVE MapTypes'
    OBVIOUS
  <1>. USE DEF MapTypes, store, intake
  <1>0. CASE UNCHANGED <<lease, reserved, held, out>>
    BY <1>0
  <1>1. ASSUME NEW r \in Requests, Intake(r) PROVE MapTypes'
    <2>1. CASE CountBucket(r) \/ CountGlobal(r)
      BY <2>1 DEF CountBucket, CountGlobal, CountSlot, Scopes
    <2>2. CASE ReserveDigest(r)
      BY <2>2 DEF ReserveDigest, Texts
    <2>3. CASE GivenBack(r) \/ \E scope \in Scopes : GiveBack(r, scope)
      BY <2>3 DEF GivenBack, GiveBack, FreeDigest, Texts
    <2>4. CASE Create(r)
      BY <2>4 DEF Create, Senders
    <2>. QED BY <1>0, <1>1, <2>1, <2>2, <2>3, <2>4
         DEF Intake, Lookup, RejectPrefilter, Refuse, RequestDies
  <1>2. ASSUME NEW r \in Requests, World(r) PROVE MapTypes'
    BY <1>0, <1>2 DEF World, Exhaust, ProcessDlq, MarkUnleasedUnavailable, FreeLease, Lands,
         LeaseLapses, GrowsOld, GrowsQuiet
  <1>3. ASSUME NEW s \in Senders, NEW r \in Requests, Enqueue(s, r) PROVE MapTypes'
    <2>1. UNCHANGED <<lease, reserved, held>>
      BY <1>3 DEF Enqueue, Send, MarkQueued, MarkUnavailable, SenderDies
    <2>2. \E place \in {"no", "mark", "fail"} : out' = [out EXCEPT ![s][r] = place]
      BY <1>3 DEF Enqueue, Send, MarkQueued, MarkUnavailable, SenderDies
    <2>. QED BY <2>1, <2>2
  <1>4. CASE Scheduled
    BY <1>4 DEF Scheduled, Senders
  <1>5. ASSUME NEW w \in Workers, Consume(w) PROVE MapTypes'
    <2>1. CASE ClaimTakes(w)
      BY <2>1 DEF ClaimTakes
    <2>2. CASE Malformed(w) \/ ClearPostStartedForRetry(w) \/ Release(w) \/ Transition(w)
      BY <2>2 DEF Malformed, MarkUnleasedUnavailable, ClearPostStartedForRetry, Release, Transition, FreeLease
    <2>. QED BY <1>0, <1>5, <2>1, <2>2
         DEF Consume, ClaimReads, Moderate, Aim, RecordModelAttempt, Search, Reconcile, MarkPostStarted,
             Post, RecordGithubRequest, WorkerDies
  <1>6. ASSUME NEW w \in Workers, NEW r \in Requests, Deliver(w, r) PROVE MapTypes'
    BY <1>0, <1>6 DEF Deliver
  <1>7. ASSUME NEW t \in Texts, DigestExpires(t) PROVE MapTypes'
    BY <1>7 DEF DigestExpires
  <1>. QED BY <1>0, <1>1, <1>2, <1>3, <1>4, <1>5, <1>6, <1>7 DEF Next, vars

LEMMA DeliveriesStep == RowTypes /\ WorkerTypes /\ DeliveryTypes /\ [Next]_vars => DeliveryTypes'
  <1>. SUFFICES ASSUME RowTypes, WorkerTypes, DeliveryTypes, [Next]_vars PROVE DeliveryTypes'
    OBVIOUS
  <1>. USE DEF DeliveryTypes, Seen, Step
  <1>0. CASE UNCHANGED <<pc, job, view>>
    BY <1>0
  <1>1. ASSUME NEW r \in Requests, Intake(r) \/ World(r) PROVE DeliveryTypes'
    BY <1>0, <1>1 DEF Intake, Lookup, RejectPrefilter, ReserveDigest, CountBucket, CountGlobal, CountSlot,
         Refuse, GivenBack, GiveBack, Create, RequestDies, World, Exhaust, ProcessDlq, Lands, LeaseLapses, GrowsOld,
         GrowsQuiet, consumer
  <1>2. ASSUME NEW s \in Senders, NEW r \in Requests, Enqueue(s, r) PROVE DeliveryTypes'
    BY <1>0, <1>2 DEF Enqueue, Send, MarkQueued, MarkUnavailable, SenderDies, consumer
  <1>3. CASE Scheduled \/ \E t \in Texts : DigestExpires(t)
    BY <1>0, <1>3 DEF Scheduled, DigestExpires, consumer
  <1>4. ASSUME NEW w \in Workers, Consume(w) PROVE DeliveryTypes'
    <2>1. CASE Leave(w) /\ Forget(w)
      BY <2>1 DEF Leave, Forget, WorkerTypes
    <2>2. ASSUME NEW place, place # "idle", Step(w, place), UNCHANGED job,
                 view' \in {view, [view EXCEPT ![w] = None]}
          PROVE  DeliveryTypes'
      BY <2>2 DEF WorkerTypes
    <2>3. CASE ClaimReads(w)
      <3>1. CASE Ack(w) \/ Retry(w)
        BY <2>1, <3>1 DEF Ack, Retry
      <3>2. CASE status[job[w]] \in Final \cup {"absent", "rejected_prefilter", "received"} \/ Leased(job[w])
        <4>1. ~(status[job[w]] \in Final \cup {"absent", "rejected_prefilter"} /\ status[job[w]] = "received")
          BY DEF Final
        <4>2. Ack(w) \/ Retry(w)
          BY <2>3, <3>2, <4>1 DEF ClaimReads
        <4>. QED BY <3>1, <4>2
      <3>3. CASE status[job[w]] \notin Final \cup {"absent", "rejected_prefilter", "received"} /\ ~Leased(job[w])
        <4>1. /\ pc[w] = "read" /\ Step(w, "take") /\ UNCHANGED job
              /\ view' = [view EXCEPT ![w] = <<status[job[w]], mutation[job[w]]>>]
          BY <2>3, <3>3 DEF ClaimReads
        <4>2. status[job[w]] \in {"queued", "checking", "unknown"} /\ mutation[job[w]] \in Mutations
          BY <3>3, <4>1 DEF RowTypes, WorkerTypes, Statuses, Live, Ended, Final
        <4>. QED BY <4>1, <4>2 DEF WorkerTypes
      <3>. QED BY <3>1, <3>2, <3>3
    <2>4. CASE Malformed(w) \/ WorkerDies(w) \/ ClearPostStartedForRetry(w) \/ Release(w) \/ Transition(w)
      BY <2>1, <2>4 DEF Malformed, WorkerDies, ClearPostStartedForRetry, Release, Transition, Ack, Retry
    <2>5. CASE ClaimTakes(w)
      BY <2>1, <2>2, <2>5 DEF ClaimTakes, Forget, Retry
    <2>6. CASE Moderate(w) \/ Search(w) \/ Reconcile(w) \/ Post(w)
      BY <2>2, <2>6 DEF Moderate, Search, Reconcile, Post, Aim
    <2>7. CASE RecordModelAttempt(w) \/ MarkPostStarted(w) \/ RecordGithubRequest(w)
      BY <2>1, <2>2, <2>7 DEF RecordModelAttempt, MarkPostStarted, RecordGithubRequest, Retry
    <2>. QED BY <1>4, <2>3, <2>4, <2>5, <2>6, <2>7 DEF Consume
  <1>5. ASSUME NEW w \in Workers, NEW r \in Requests, Deliver(w, r) PROVE DeliveryTypes'
    BY <1>5 DEF Deliver, WorkerTypes
  <1>. QED BY <1>0, <1>1, <1>2, <1>3, <1>4, <1>5 DEF Next, vars, consumer

\* Every state of the gateway is typed; in particular no count of slots is negative.
THEOREM GatewayWellTyped == Spec => []TypeOK
  <1>. DEFINE Types == SetTypes /\ MapTypes /\ SlotTypes /\ DeliveryTypes
  <1>1. Init => BarrierInv /\ Types
    BY BarrierInit DEF Init, SetTypes, MapTypes, SlotTypes, DeliveryTypes, Seen
  <1>2. BarrierInv /\ Types /\ [Next]_vars => (BarrierInv /\ Types)'
    BY BarrierNext, SetsStep, MapsStep, SlotsStep, DeliveriesStep DEF BarrierInv
  <1>3. BarrierInv /\ Types => TypeOK
    BY GatewayAssumption DEF BarrierInv, RowTypes, WorkerTypes, SetTypes, MapTypes, SlotTypes, DeliveryTypes, Seen,
       TypeOK, Early, Steps, Posting, Aims
  <1>. QED BY <1>1, <1>2, <1>3, PTL DEF Spec

-----------------------------------------------------------------------------
(* The active slots.  A row takes over the slots that its request counted, *)
(* and the trigger counts them back when it ends: neither need know of the *)
(* other, as long as a request that may make its row has both slots.       *)

LiveIn(s)  == {r \in Requests : status[r] \in Live /\ s \in {Global, BucketOf[r]}}
Holders(s) == {r \in Requests : s \in held[r]}
Spared(s)  == {r \in twice : s \in {Global, BucketOf[r]}}
Covered(s) == Cardinality(LiveIn(s)) + Cardinality(Holders(s)) <= slots[s] + Cardinality(Spared(s))

\* What a request has counted by the time it is where it is; a create that failed
\* after its commit is behind the request for good.
CountedInv(r) ==
  /\ at[r] \in {"global", "create"} => BucketOf[r] \in held[r]
  /\ at[r] = "create" => Global \in held[r]
  /\ r \in twice => at[r] \in {"back", "done"}

\* The types it needs, of which nothing else is known.
CoverTypes == SlotTypes /\ held \in [Requests -> SUBSET Scopes] /\ twice \subseteq Requests

CoverInv ==
  /\ \A r \in Requests : CountedInv(r)
  /\ \A s \in Scopes : Covered(s)

LEMMA PartsCount ==
  ASSUME NEW S \in SUBSET Requests
  PROVE  IsFiniteSet(S) /\ Cardinality(S) \in Nat
  BY GatewayAssumption, FS_Subset, FS_CardinalityType

LEMMA FewerCount ==
  ASSUME NEW S \in SUBSET Requests, NEW T \in SUBSET S
  PROVE  Cardinality(T) <= Cardinality(S)
  BY PartsCount, FS_Subset

LEMMA OneMoreCounts ==
  ASSUME NEW S \in SUBSET Requests, NEW T \in SUBSET Requests, NEW r, T \subseteq S \cup {r}
  PROVE  Cardinality(T) <= Cardinality(S) + 1
  <1>1. IsFiniteSet(S) /\ Cardinality(S) \in Nat /\ Cardinality(T) \in Nat
    BY PartsCount
  <1>2. IsFiniteSet(S \cup {r}) /\ Cardinality(S \cup {r}) <= Cardinality(S) + 1
    BY <1>1, FS_AddElement
  <1>3. Cardinality(T) <= Cardinality(S \cup {r}) /\ Cardinality(S \cup {r}) \in Nat
    BY <1>2, FS_Subset, FS_CardinalityType
  <1>. QED BY <1>1, <1>2, <1>3

LEMMA TakenAwayCount ==
  ASSUME NEW S \in SUBSET Requests, NEW K \in SUBSET S, NEW T \in SUBSET S, T \cap K = {}
  PROVE  Cardinality(T) + Cardinality(K) <= Cardinality(S)
  <1>1. IsFiniteSet(S) /\ Cardinality(S) \in Nat /\ Cardinality(K) \in Nat /\ Cardinality(T) \in Nat
    BY PartsCount
  <1>2. S \cap K = K
    OBVIOUS
  <1>3. Cardinality(S \ K) = Cardinality(S) - Cardinality(K)
    BY <1>1, <1>2, FS_Difference
  <1>4. T \subseteq S \ K /\ S \ K \subseteq Requests
    OBVIOUS
  <1>5. Cardinality(T) <= Cardinality(S \ K)
    BY <1>4, FewerCount
  <1>. QED BY <1>1, <1>3, <1>5

LEMMA ScopesCount ==
  ASSUME twice \subseteq Requests, NEW s
  PROVE  /\ LiveIn(s) \subseteq Requests /\ Holders(s) \subseteq Requests /\ Spared(s) \subseteq Requests
         /\ Cardinality(LiveIn(s)) \in Nat /\ Cardinality(Holders(s)) \in Nat
         /\ Cardinality(Spared(s)) \in Nat
  <1>1. LiveIn(s) \subseteq Requests /\ Holders(s) \subseteq Requests /\ Spared(s) \subseteq Requests
    BY DEF LiveIn, Holders, Spared
  <1>. QED BY <1>1, PartsCount

LEMMA LessIsEnough ==
  \A n, k \in Nat : Less(n, k) \in Nat /\ Less(n, k) >= n - k
  BY DEF Less

\* No row comes to life, no request counts a slot, and no slot goes.
LEMMA NothingStarts ==
  ASSUME CoverTypes, CoverTypes', NEW s \in Scopes, Covered(s),
         LiveIn(s)' \subseteq LiveIn(s), Holders(s)' \subseteq Holders(s), Spared(s) \subseteq Spared(s)',
         slots'[s] = slots[s]
  PROVE  Covered(s)'
  <1>. DEFINE l == LiveIn(s)'  h == Holders(s)'  t == Spared(s)'
  <1>1. /\ LiveIn(s) \subseteq Requests /\ Holders(s) \subseteq Requests /\ Spared(s) \subseteq Requests
        /\ Cardinality(LiveIn(s)) \in Nat /\ Cardinality(Holders(s)) \in Nat
        /\ Cardinality(Spared(s)) \in Nat
    BY ScopesCount DEF CoverTypes
  <1>2. l \subseteq Requests /\ h \subseteq Requests /\ t \subseteq Requests
    BY DEF LiveIn, Holders, Spared, CoverTypes
  <1>3. Cardinality(l) \in Nat /\ Cardinality(h) \in Nat /\ Cardinality(t) \in Nat
    BY <1>2, PartsCount
  <1>4. /\ Cardinality(l) <= Cardinality(LiveIn(s)) /\ Cardinality(h) <= Cardinality(Holders(s))
        /\ Cardinality(Spared(s)) <= Cardinality(t)
    BY <1>1, <1>2, FewerCount
  <1>5. slots[s] \in Nat
    BY DEF CoverTypes, SlotTypes
  <1>6. Cardinality(l) + Cardinality(h) <= slots'[s] + Cardinality(t)
    <2>. HIDE DEF l, h, t
    <2>. QED BY <1>1, <1>3, <1>4, <1>5 DEF Covered
  <1>. QED BY <1>6 DEF Covered

\* Rows end, and the trigger counts each of them back once.
LEMMA RowsEnd ==
  ASSUME CoverTypes, NEW new, Update(new), UNCHANGED <<held, twice>>, NEW s \in Scopes, Covered(s),
         \A r \in Requests : new[r] \in Live => status[r] \in Live
  PROVE  Covered(s)'
  <1>. DEFINE K == {r \in Requests : /\ status[r] \in Live /\ new[r] \in Ended
                                     /\ s \in {Global, BucketOf[r]}}
              l == LiveIn(s)'
  <1>1. /\ LiveIn(s) \subseteq Requests /\ Cardinality(LiveIn(s)) \in Nat
        /\ Cardinality(Holders(s)) \in Nat /\ Cardinality(Spared(s)) \in Nat
    BY ScopesCount DEF CoverTypes
  <1>2. slots'[s] = Less(slots[s], Cardinality(K)) /\ status' = new
    BY DEF Update
  <1>3. l \subseteq LiveIn(s) /\ K \subseteq LiveIn(s)
    BY <1>2 DEF LiveIn
  <1>4. l \cap K = {}
    BY <1>2 DEF LiveIn, Live, Ended, Final
  <1>5. Holders(s)' = Holders(s) /\ Spared(s)' = Spared(s)
    BY DEF Holders, Spared
  <1>6. l \subseteq Requests /\ K \subseteq Requests
    BY <1>1, <1>3
  <1>7. slots[s] \in Nat
    BY DEF CoverTypes, SlotTypes
  <1>. HIDE DEF l, K
  <1>8. Cardinality(l) \in Nat /\ Cardinality(K) \in Nat
    BY <1>6, PartsCount
  <1>9. Cardinality(l) + Cardinality(K) <= Cardinality(LiveIn(s))
    BY <1>1, <1>3, <1>4, TakenAwayCount
  <1>10. slots'[s] \in Nat /\ slots'[s] >= slots[s] - Cardinality(K)
    BY <1>2, <1>7, <1>8, LessIsEnough
  <1>11. Cardinality(l) + Cardinality(Holders(s)) <= slots'[s] + Cardinality(Spared(s))
    BY <1>1, <1>7, <1>8, <1>9, <1>10 DEF Covered
  <1>. QED BY <1>5, <1>11 DEF Covered, l

\* A request counts a slot for itself.
LEMMA SlotIsCounted ==
  ASSUME CoverTypes, NEW r \in Requests, NEW scope \in Scopes, NEW limit, NEW next,
         CountSlot(r, scope, limit, next), NEW s \in Scopes, Covered(s)
  PROVE  Covered(s)'
  <1>1. LiveIn(s)' = LiveIn(s) /\ Spared(s)' = Spared(s)
    BY DEF CountSlot, LiveIn, Spared
  <1>2. /\ Holders(s) \subseteq Requests /\ Cardinality(LiveIn(s)) \in Nat
        /\ Cardinality(Holders(s)) \in Nat /\ Cardinality(Spared(s)) \in Nat
    BY ScopesCount DEF CoverTypes
  <1>3. slots[s] \in Nat
    BY DEF CoverTypes, SlotTypes
  <1>4. CASE UNCHANGED <<slots, held>>
    BY <1>1, <1>4 DEF Covered, Holders
  <1>5. CASE slots' = [slots EXCEPT ![scope] = @ + 1] /\ held' = [held EXCEPT ![r] = @ \cup {scope}]
    <2>. DEFINE h == Holders(s)'
    <2>1. CASE s = scope
      <3>1. h \subseteq Requests /\ h \subseteq Holders(s) \cup {r}
        BY <1>5 DEF Holders, CoverTypes
      <3>. HIDE DEF h
      <3>2. Cardinality(h) \in Nat /\ Cardinality(h) <= Cardinality(Holders(s)) + 1
        BY <1>2, <3>1, PartsCount, OneMoreCounts
      <3>3. slots'[s] = slots[s] + 1
        BY <1>5, <2>1 DEF CoverTypes, SlotTypes
      <3>4. Cardinality(LiveIn(s)) + Cardinality(h) <= slots'[s] + Cardinality(Spared(s))
        BY <1>2, <1>3, <3>2, <3>3 DEF Covered
      <3>. QED BY <1>1, <3>4 DEF Covered, h
    <2>2. CASE s # scope
      <3>1. h = Holders(s)
        BY <1>5, <2>2 DEF Holders, CoverTypes
      <3>2. slots'[s] = slots[s]
        BY <1>5, <2>2 DEF CoverTypes, SlotTypes
      <3>. QED BY <1>1, <3>1, <3>2 DEF Covered
    <2>. QED BY <2>1, <2>2
  <1>. QED BY <1>4, <1>5 DEF CountSlot

\* A request gives back a slot that it has counted.
LEMMA SlotsComeBack ==
  ASSUME CoverTypes, NEW r \in Requests, NEW scope \in Scopes, GiveBack(r, scope),
         NEW s \in Scopes, Covered(s)
  PROVE  Covered(s)'
  <1>. DEFINE h == Holders(s)'
  <1>1. LiveIn(s)' = LiveIn(s) /\ Spared(s)' = Spared(s)
    BY DEF GiveBack, LiveIn, Spared
  <1>2. /\ Holders(s) \subseteq Requests /\ Cardinality(LiveIn(s)) \in Nat
        /\ Cardinality(Holders(s)) \in Nat /\ Cardinality(Spared(s)) \in Nat
    BY ScopesCount DEF CoverTypes
  <1>3. slots[s] \in Nat
    BY DEF CoverTypes, SlotTypes
  <1>4. CASE s = scope
    <2>1. h = Holders(s) \ {r} /\ r \in Holders(s)
      BY <1>4 DEF GiveBack, CountBack, Holders, CoverTypes
    <2>2. IsFiniteSet(Holders(s))
      BY <1>2, PartsCount
    <2>3. Cardinality(Holders(s) \ {r}) = Cardinality(Holders(s)) - 1
      BY <2>1, <2>2, FS_RemoveElement
    <2>4. slots'[s] = Less(slots[s], 1)
      BY <1>4 DEF GiveBack, CountBack, CoverTypes, SlotTypes
    <2>5. slots'[s] \in Nat /\ slots'[s] >= slots[s] - 1
      BY <1>3, <2>4, LessIsEnough
    <2>. HIDE DEF h
    <2>6. Cardinality(LiveIn(s)) + Cardinality(h) <= slots'[s] + Cardinality(Spared(s))
      BY <1>2, <1>3, <2>1, <2>3, <2>5 DEF Covered
    <2>. QED BY <1>1, <2>6 DEF Covered, h
  <1>5. CASE s # scope
    <2>1. h = Holders(s)
      BY <1>5 DEF GiveBack, Holders, CoverTypes
    <2>2. slots'[s] = slots[s]
      BY <1>5 DEF GiveBack, CountBack, CoverTypes, SlotTypes
    <2>. QED BY <1>1, <2>1, <2>2 DEF Covered
  <1>. QED BY <1>4, <1>5

\* The row takes over the slots of its request, or both will give them back.
LEMMA RowTakesOver ==
  ASSUME CoverTypes, CoverTypes', NEW r \in Requests, status \in [Requests -> Statuses],
         at \in [Requests -> Early \cup {"back", "done"}],
         CountedInv(r), Create(r), NEW s \in Scopes, Covered(s)
  PROVE  Covered(s)'
  <1>. DEFINE l == LiveIn(s)'  h == Holders(s)'  t == Spared(s)'
              mine == s \in {Global, BucketOf[r]}
              Made == /\ status' = [status EXCEPT ![r] = "received"]
                      /\ \/ twice' = twice /\ held' = [held EXCEPT ![r] = {}]
                         \/ twice' = twice \cup {r} /\ held' = held
  <1>1. /\ LiveIn(s) \subseteq Requests /\ Holders(s) \subseteq Requests /\ Spared(s) \subseteq Requests
        /\ Cardinality(LiveIn(s)) \in Nat /\ Cardinality(Holders(s)) \in Nat
        /\ Cardinality(Spared(s)) \in Nat
    BY ScopesCount DEF CoverTypes
  <1>2. slots[s] \in Nat /\ slots' = slots
    BY DEF CoverTypes, SlotTypes, Create
  <1>3. l \subseteq Requests /\ h \subseteq Requests /\ t \subseteq Requests
    BY DEF LiveIn, Holders, Spared, CoverTypes
  <1>4. mine => r \in Holders(s) /\ r \notin Spared(s)
    BY DEF Create, CountedInv, Holders, Spared
  <1>5. UNCHANGED <<status, twice, held>> \/ Made
    BY DEF Create, Go
  <1>6. CASE UNCHANGED <<status, twice, held>>
    <2>1. UNCHANGED <<LiveIn(s), Holders(s), Spared(s)>>
      BY <1>6 DEF LiveIn, Holders, Spared
    <2>. QED BY <1>2, <2>1, NothingStarts
  <1>7. ASSUME status' = [status EXCEPT ![r] = "received"]
        PROVE  l \subseteq LiveIn(s) \cup {r} /\ (~mine => l \subseteq LiveIn(s))
    BY <1>7 DEF LiveIn
  <1>8. ASSUME twice' = twice \cup {r}, mine PROVE t = Spared(s) \cup {r}
    BY <1>8 DEF Spared
  <1>9. ASSUME held' = [held EXCEPT ![r] = {}] PROVE h = Holders(s) \ {r}
    BY <1>9 DEF Holders, CoverTypes
  <1>10. ASSUME twice \subseteq twice' PROVE Spared(s) \subseteq t
    BY <1>10 DEF Spared
  <1>11. held' = held => h = Holders(s)
    BY DEF Holders
  <1>12. twice' = twice => t = Spared(s)
    BY DEF Spared
  <1>13. CASE ~mine /\ Made
    <2>1. l \subseteq LiveIn(s)
      BY <1>7, <1>13
    <2>2. h \subseteq Holders(s) /\ Spared(s) \subseteq t
      BY <1>9, <1>10, <1>11, <1>13
    <2>. HIDE DEF l, h, t
    <2>. QED BY <1>2, <2>1, <2>2, NothingStarts DEF l, h, t
  <1>14. CASE mine /\ Made
    <2>1. r \in Holders(s) /\ r \notin Spared(s) /\ l \subseteq LiveIn(s) \cup {r}
      BY <1>4, <1>7, <1>14
    <2>2. \/ h = Holders(s) \ {r} /\ t = Spared(s)
          \/ h = Holders(s) /\ t = Spared(s) \cup {r}
      BY <1>8, <1>9, <1>11, <1>12, <1>14
    <2>. HIDE DEF l, h, t, mine
    <2>3. Cardinality(l) \in Nat /\ Cardinality(l) <= Cardinality(LiveIn(s)) + 1
      BY <1>1, <1>3, <2>1, PartsCount, OneMoreCounts
    <2>4. IsFiniteSet(Holders(s)) /\ IsFiniteSet(Spared(s))
      BY <1>1, PartsCount
    <2>5. /\ h = Holders(s) \ {r} => Cardinality(h) = Cardinality(Holders(s)) - 1
          /\ t = Spared(s) \cup {r} => Cardinality(t) = Cardinality(Spared(s)) + 1
      BY <2>1, <2>4, FS_RemoveElement, FS_AddElement
    <2>6. Cardinality(l) + Cardinality(h) <= slots[s] + Cardinality(t)
      BY <1>1, <1>2, <2>2, <2>3, <2>5 DEF Covered
    <2>. QED BY <1>2, <2>6 DEF Covered, l, h, t
  <1>. QED BY <1>5, <1>6, <1>13, <1>14

\* What no other action does to the slots.
SlotsRest ==
  /\ UNCHANGED <<slots, held, twice>>
  /\ \A r \in Requests : status'[r] \in Live => status[r] \in Live

LEMMA RestCovers ==
  ASSUME CoverTypes, CoverTypes', SlotsRest, NEW s \in Scopes, Covered(s)
  PROVE  Covered(s)'
  <1>1. LiveIn(s)' \subseteq LiveIn(s) /\ Holders(s)' = Holders(s) /\ Spared(s)' = Spared(s)
    BY DEF SlotsRest, LiveIn, Holders, Spared
  <1>. QED BY <1>1, NothingStarts DEF SlotsRest

\* Rows end, or nothing about the slots changes.
Ending ==
  \/ SlotsRest
  \/ /\ UNCHANGED <<held, twice>>
     /\ \E new : Update(new) /\ \A r \in Requests : new[r] \in Live => status[r] \in Live

LEMMA EndingCovers ==
  ASSUME CoverTypes, CoverTypes', Ending, NEW s \in Scopes, Covered(s)
  PROVE  Covered(s)'
  BY RestCovers, RowsEnd DEF Ending

LEMMA UnleasedEnds ==
  ASSUME RowTypes, NEW r \in Requests, MarkUnleasedUnavailable(r), UNCHANGED <<held, twice>>
  PROVE  Ending
  <1>. DEFINE new == [status EXCEPT ![r] = "unavailable"]
  <1>1. \A q \in Requests : new[q] \in Live => status[q] \in Live
    BY DEF RowTypes, Live
  <1>2. Update(new) \/ UNCHANGED <<status, slots>>
    BY DEF MarkUnleasedUnavailable
  <1>. HIDE DEF new
  <1>. QED BY <1>1, <1>2 DEF Ending, SlotsRest

LEMMA ConsumeEnds ==
  ASSUME RowTypes, WorkerTypes, NEW w \in Workers, Consume(w)
  PROVE  Ending
  <1>. DEFINE r == job[w]
  <1>0. UNCHANGED <<held, twice>>
    BY DEF Consume, Malformed, ClaimReads, ClaimTakes, Moderate, Aim, RecordModelAttempt, Search, Reconcile,
       MarkPostStarted, Post, RecordGithubRequest, ClearPostStartedForRetry, Release, Transition, WorkerDies,
       intake
  <1>1. CASE Malformed(w)
    <2>1. r \in Requests
      BY <1>1 DEF Malformed, WorkerTypes
    <2>. QED BY <1>0, <1>1, <2>1, UnleasedEnds DEF Malformed
  <1>2. CASE ClaimTakes(w)
    <2>1. UNCHANGED slots /\ r \in Requests
      BY <1>2 DEF ClaimTakes, WorkerTypes
    <2>2. \/ UNCHANGED status
          \/ status' = [status EXCEPT ![r] = IF @ = "queued" THEN "checking" ELSE @]
      BY <1>2 DEF ClaimTakes
    <2>. QED BY <1>0, <2>1, <2>2 DEF Ending, SlotsRest, RowTypes, Live
  <1>3. CASE Transition(w)
    <2>1. CASE UNCHANGED <<status, slots>>
      BY <1>0, <2>1 DEF Ending, SlotsRest
    <2>2. CASE Update([status EXCEPT ![r] = aim[w]])
      <3>1. aim[w] \notin Live
        BY <1>3 DEF Transition, Ended, Final, Live
      <3>. DEFINE new == [status EXCEPT ![r] = aim[w]]
      <3>2. \A q \in Requests : new[q] \in Live => status[q] \in Live
        BY <3>1 DEF RowTypes
      <3>3. Update(new)
        BY <2>2
      <3>. HIDE DEF new
      <3>. QED BY <1>0, <3>2, <3>3 DEF Ending
    <2>. QED BY <1>3, <2>1, <2>2 DEF Transition
  <1>4. CASE UNCHANGED <<status, slots>>
    BY <1>0, <1>4 DEF Ending, SlotsRest
  <1>. QED BY <1>1, <1>2, <1>3, <1>4
       DEF Consume, ClaimReads, Moderate, Aim, RecordModelAttempt, Search, Reconcile, MarkPostStarted, Post,
           RecordGithubRequest, ClearPostStartedForRetry, Release, WorkerDies, store

LEMMA OthersEnd ==
  ASSUME RowTypes, WorkerTypes, [Next]_vars, ~ \E r \in Requests : Intake(r)
  PROVE  Ending /\ UNCHANGED at
  <1>0. CASE UNCHANGED <<status, slots, held, twice, at>>
    BY <1>0 DEF Ending, SlotsRest
  <1>1. ASSUME NEW r \in Requests, World(r) PROVE Ending /\ UNCHANGED at
    <2>1. CASE ProcessDlq(r)
      BY <2>1, UnleasedEnds DEF ProcessDlq, intake
    <2>. QED BY <1>0, <1>1, <2>1 DEF World, Exhaust, Lands, LeaseLapses, GrowsOld, GrowsQuiet, store, intake
  <1>2. ASSUME NEW s \in Senders, NEW r \in Requests, Enqueue(s, r) PROVE Ending /\ UNCHANGED at
    <2>1. CASE MarkQueued(s, r)
      BY <2>1 DEF MarkQueued, Ending, SlotsRest, RowTypes, Live
    <2>2. CASE MarkUnavailable(s, r)
      <3>. DEFINE new == [status EXCEPT ![r] = IF @ \in {"received", "queued"} THEN "unavailable" ELSE @]
      <3>1. Update(new) /\ UNCHANGED <<held, twice, at>>
        BY <2>2 DEF MarkUnavailable
      <3>2. \A q \in Requests : new[q] \in Live => status[q] \in Live
        BY DEF RowTypes, Live
      <3>. HIDE DEF new
      <3>. QED BY <3>1, <3>2 DEF Ending
    <2>. QED BY <1>0, <1>2, <2>1, <2>2 DEF Enqueue, Send, SenderDies, store
  <1>3. CASE Scheduled
    <2>1. ASSUME NEW expired, NEW q \in Requests, Cleaned(expired)[q] \in Live PROVE status[q] \in Live
      BY <2>1 DEF Cleaned, Live
    <2>. QED BY <1>3, <2>1 DEF Scheduled, Ending
  <1>4. ASSUME NEW w \in Workers, Consume(w) PROVE Ending /\ UNCHANGED at
    <2>1. UNCHANGED at
      BY <1>4
         DEF Consume, Malformed, ClaimReads, ClaimTakes, Moderate, Aim, RecordModelAttempt, Search, Reconcile,
             MarkPostStarted, Post, RecordGithubRequest, ClearPostStartedForRetry, Release, Transition,
             WorkerDies, intake
    <2>. QED BY <1>4, <2>1, ConsumeEnds
  <1>5. ASSUME NEW w \in Workers, NEW r \in Requests, Deliver(w, r) PROVE Ending /\ UNCHANGED at
    BY <1>0, <1>5 DEF Deliver, store, intake
  <1>6. ASSUME NEW t \in Texts, DigestExpires(t) PROVE Ending /\ UNCHANGED at
    BY <1>0, <1>6 DEF DigestExpires, intake
  <1>. QED BY <1>0, <1>1, <1>2, <1>3, <1>4, <1>5, <1>6 DEF Next, vars, store, intake

LEMMA IntakeCovers ==
  ASSUME RowTypes, CoverTypes, CoverTypes', CoverInv, NEW r \in Requests, Intake(r), NEW s \in Scopes
  PROVE  Covered(s)'
  <1>0. Covered(s) /\ CountedInv(r)
    BY DEF CoverInv
  <1>1. ASSUME NEW scope \in Scopes, GiveBack(r, scope) PROVE Covered(s)'
    BY <1>0, <1>1, SlotsComeBack
  <1>2. CASE CountBucket(r)
    BY <1>0, <1>2, SlotIsCounted DEF CountBucket, Scopes
  <1>3. CASE CountGlobal(r)
    BY <1>0, <1>3, SlotIsCounted DEF CountGlobal, Scopes
  <1>4. CASE Create(r)
    BY <1>0, <1>4, RowTakesOver DEF RowTypes
  <1>5. CASE RejectPrefilter(r)
    <2>1. SlotsRest
      BY <1>5 DEF RejectPrefilter, SlotsRest, RowTypes, Live
    <2>. QED BY <1>0, <2>1, RestCovers
  <1>6. CASE Lookup(r) \/ ReserveDigest(r) \/ Refuse(r) \/ GivenBack(r) \/ RequestDies(r)
    <2>1. SlotsRest
      BY <1>6 DEF Lookup, ReserveDigest, Refuse, GivenBack, RequestDies, SlotsRest, store
    <2>. QED BY <1>0, <2>1, RestCovers
  <1>. QED BY <1>1, <1>2, <1>3, <1>4, <1>5, <1>6 DEF Intake

LEMMA IntakeCounts ==
  ASSUME RowTypes, CoverTypes, CoverInv, NEW r \in Requests, Intake(r), NEW q \in Requests
  PROVE  CountedInv(q)'
  <1>0. CountedInv(r) /\ CountedInv(q)
    BY DEF CoverInv
  <1>1. CASE q # r
    <2>1. at'[q] = at[q] /\ held'[q] = held[q] /\ (q \in twice' => q \in twice)
      BY <1>1 DEF Intake, Lookup, RejectPrefilter, ReserveDigest, CountBucket, CountGlobal, CountSlot, Refuse,
         GivenBack, GiveBack, Create, RequestDies, Go, RowTypes, CoverTypes
    <2>. QED BY <1>0, <2>1 DEF CountedInv
  <1>2. CASE q = r
    <2>. USE DEF CountedInv, RowTypes, CoverTypes, Go, Early
    <2>1. CASE CountBucket(r) \/ CountGlobal(r)
      BY <1>0, <1>2, <2>1 DEF CountBucket, CountGlobal, CountSlot
    <2>2. CASE Create(r)
      BY <1>0, <1>2, <2>2 DEF Create
    <2>3. CASE GivenBack(r) \/ \E scope \in Scopes : GiveBack(r, scope)
      BY <1>0, <1>2, <2>3 DEF GivenBack, GiveBack
    <2>4. CASE Lookup(r) \/ RejectPrefilter(r) \/ ReserveDigest(r) \/ Refuse(r) \/ RequestDies(r)
      BY <1>0, <1>2, <2>4 DEF Lookup, RejectPrefilter, ReserveDigest, Refuse, RequestDies
    <2>. QED BY <2>1, <2>2, <2>3, <2>4 DEF Intake
  <1>. QED BY <1>1, <1>2

LEMMA CoverNext ==
  RowTypes /\ WorkerTypes /\ CoverTypes /\ CoverTypes' /\ CoverInv /\ [Next]_vars => CoverInv'
  <1>. SUFFICES ASSUME RowTypes, WorkerTypes, CoverTypes, CoverTypes', CoverInv, [Next]_vars
                PROVE  CoverInv'
    OBVIOUS
  <1>1. ASSUME NEW r \in Requests, Intake(r) PROVE CoverInv'
    BY <1>1, IntakeCovers, IntakeCounts DEF CoverInv
  <1>2. CASE ~ \E r \in Requests : Intake(r)
    <2>1. Ending /\ UNCHANGED at
      BY <1>2, OthersEnd
    <2>2. \A s \in Scopes : Covered(s)'
      BY <2>1, EndingCovers DEF CoverInv
    <2>3. \A r \in Requests : CountedInv(r)'
      BY <2>1 DEF Ending, SlotsRest, CoverInv, CountedInv
    <2>. QED BY <2>2, <2>3 DEF CoverInv
  <1>. QED BY <1>1, <1>2

\* The active slots cover the submissions that are under way and what requests have
\* counted, for any number of requests and addresses and whichever of them die; only
\* a create that failed after its commit may take a slot from another
\* (intake/index.ts:162-173, 0001_initial.sql:71-80).
THEOREM SlotsCover == Spec => []SlotsCoverLive
  <1>. DEFINE Types == BarrierInv /\ SetTypes /\ MapTypes /\ SlotTypes
  <1>1. Init => Types /\ CoverInv
    <2>1. Init => Types
      BY BarrierInit DEF Init, SetTypes, MapTypes, SlotTypes
    <2>2. Init => \A r \in Requests : CountedInv(r)
      BY DEF Init, CountedInv
    <2>3. ASSUME Init, NEW s \in Scopes PROVE Covered(s)
      <3>1. LiveIn(s) = {} /\ Holders(s) = {} /\ Spared(s) = {} /\ slots[s] = 0
        BY <2>3 DEF Init, LiveIn, Holders, Spared, Live
      <3>. QED BY <3>1, FS_EmptySet DEF Covered
    <2>. QED BY <2>1, <2>2, <2>3 DEF CoverInv
  <1>2. Types /\ [Next]_vars => Types'
    BY BarrierNext, SetsStep, MapsStep, SlotsStep DEF BarrierInv
  <1>3. Types => RowTypes /\ WorkerTypes /\ CoverTypes
    BY DEF BarrierInv, CoverTypes, SetTypes, MapTypes
  <1>4. Types' => CoverTypes'
    BY DEF CoverTypes, SetTypes, MapTypes
  <1>. HIDE DEF Types
  <1>5. Types /\ CoverInv /\ [Next]_vars => (Types /\ CoverInv)'
    BY <1>2, <1>3, <1>4, CoverNext
  <1>6. CoverInv => SlotsCoverLive
    <2>. SUFFICES ASSUME NEW s \in Scopes, Covered(s)
                  PROVE  LET In(S) == {r \in S : s \in {Global, BucketOf[r]}}
                         IN Cardinality(In({r \in Requests : status[r] \in Live}))
                              + Cardinality({r \in Requests : s \in held[r]})
                            <= slots[s] + Cardinality(In(twice))
      BY DEF CoverInv, SlotsCoverLive
    <2>1. LiveIn(s) = {r \in {q \in Requests : status[q] \in Live} : s \in {Global, BucketOf[r]}}
      BY DEF LiveIn
    <2>. QED BY <2>1 DEF Covered, Holders, Spared
  <1>. QED BY <1>1, <1>5, <1>6, PTL DEF Spec
=============================================================================
