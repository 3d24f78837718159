------------------------- MODULE ScriptCallsProofs -------------------------
(***************************************************************************)
(* Theorems about ScriptCalls, for any calls, scopes, limits and usage:    *)
(* calls that run at the same time do not oversubscribe a token budget and *)
(* reserve exactly what they hold, a slot is never free beside a waiter    *)
(* that nobody has woken, a run that completes is quiet, and the record of *)
(* a finished run is final.                                                *)
(***************************************************************************)
EXTENDS ScriptCalls, FiniteSetTheorems, WellFoundedInduction, TLAPS

BudgetType ==
  /\ reserved \in [Calls -> Nat] /\ reservedTokens \in [Scopes -> Int]
  /\ measured \in [Scopes -> Int] /\ excess \in [Scopes -> Nat]

BudgetInv == BudgetType /\ NotOversubscribed

-----------------------------------------------------------------------------
(* What the operations of the controller do to a scope *)

\* A reservation takes no more than is available in each scope.
LEMMA ReserveFits ==
  ASSUME BudgetInv, NEW c \in Calls, Reserve(c)
  PROVE  BudgetInv'
  <1>1. PICK r \in 0..Want[c] :
          /\ IF ScopesOf[c] = {} THEN r = 0 ELSE Takes(c, r)
          /\ reserved' = [reserved EXCEPT ![c] = r]
          /\ reservedTokens' = [s \in Scopes |-> IF s \in ScopesOf[c] THEN reservedTokens[s] + r
                                                 ELSE reservedTokens[s]]
          /\ UNCHANGED <<measured, excess>>
    BY DEF Reserve
  <1>2. Want[c] \in Nat /\ r \in Nat /\ ScopesOf[c] \subseteq Scopes /\ Limit \in [Scopes -> Nat \ {0}]
    BY ScriptAssumption, <1>1
  <1>3. BudgetType'
    BY <1>1, <1>2 DEF BudgetInv, BudgetType
  <1>4. ASSUME NEW s \in Scopes
        PROVE  measured'[s] + reservedTokens'[s] <= Limit[s] + excess'[s]
    <2>1. /\ measured[s] \in Int /\ reservedTokens[s] \in Int /\ excess[s] \in Nat /\ Limit[s] \in Nat
          /\ measured[s] + reservedTokens[s] <= Limit[s] + excess[s]
      BY <1>2 DEF BudgetInv, BudgetType, NotOversubscribed
    <2>2. CASE s \in ScopesOf[c]
      <3>1. r <= Limit[s] - measured[s] - reservedTokens[s]
        BY <1>1, <2>2 DEF Takes, Available
      <3>. QED BY <1>1, <1>2, <2>1, <2>2, <3>1
    <2>3. CASE s \notin ScopesOf[c]
      BY <1>1, <2>1, <2>3
    <2>. QED BY <2>2, <2>3
  <1>. QED BY <1>3, <1>4 DEF BudgetInv, NotOversubscribed

\* A reservation that is removed makes room.
LEMMA ReleaseFits ==
  ASSUME BudgetInv, NEW c \in Calls, Release(c)
  PROVE  BudgetInv'
  <1>1. /\ reserved' = [reserved EXCEPT ![c] = 0]
        /\ reservedTokens' = [s \in Scopes |-> IF s \in ScopesOf[c] THEN reservedTokens[s] - reserved[c]
                                               ELSE reservedTokens[s]]
        /\ UNCHANGED <<measured, excess>>
    BY DEF Release, RemoveReservation
  <1>2. BudgetType'
    BY <1>1 DEF BudgetInv, BudgetType
  <1>3. ASSUME NEW s \in Scopes
        PROVE  measured'[s] + reservedTokens'[s] <= Limit[s] + excess'[s]
    <2>1. /\ measured[s] \in Int /\ reservedTokens[s] \in Int /\ excess[s] \in Nat /\ Limit[s] \in Nat
          /\ reserved[c] \in Nat /\ measured[s] + reservedTokens[s] <= Limit[s] + excess[s]
      BY ScriptAssumption DEF BudgetInv, BudgetType, NotOversubscribed
    <2>. QED BY <1>1, <2>1
  <1>. QED BY <1>2, <1>3 DEF BudgetInv, NotOversubscribed

\* What is charged in place of a reservation either fits into it or is excess.
LEMMA ReconcileFits ==
  ASSUME BudgetInv, NEW c \in Calls, NEW usage \in 0..MaxUsage, Reconcile(c, usage)
  PROVE  BudgetInv'
  <1>1. /\ reserved' = [reserved EXCEPT ![c] = 0]
        /\ reservedTokens' = [s \in Scopes |-> IF s \in ScopesOf[c] THEN reservedTokens[s] - reserved[c]
                                               ELSE reservedTokens[s]]
        /\ measured' = [s \in Scopes |-> IF s \in ScopesOf[c] THEN measured[s] + usage ELSE measured[s]]
        /\ excess' = [s \in Scopes |->
                        IF s \in ScopesOf[c] /\ usage > reserved[c] THEN excess[s] + (usage - reserved[c])
                        ELSE excess[s]]
    BY DEF Reconcile, RemoveReservation, Measure
  <1>2. usage \in Nat /\ reserved[c] \in Nat
    BY ScriptAssumption DEF BudgetInv, BudgetType
  <1>3. ASSUME NEW s \in Scopes
        PROVE  /\ measured'[s] \in Int /\ reservedTokens'[s] \in Int /\ excess'[s] \in Nat
               /\ measured'[s] + reservedTokens'[s] <= Limit[s] + excess'[s]
    <2>1. /\ measured[s] \in Int /\ reservedTokens[s] \in Int /\ excess[s] \in Nat /\ Limit[s] \in Nat
          /\ measured[s] + reservedTokens[s] <= Limit[s] + excess[s]
      BY ScriptAssumption DEF BudgetInv, BudgetType, NotOversubscribed
    <2>. QED BY <1>1, <1>2, <2>1
  <1>4. BudgetType'
    BY <1>1, <1>3 DEF BudgetInv, BudgetType
  <1>. QED BY <1>3, <1>4 DEF BudgetInv, NotOversubscribed

\* What a replay is charged is all excess.
LEMMA ChargeFits ==
  ASSUME BudgetInv, NEW c \in Calls, NEW usage \in 0..MaxUsage, Charge(c, usage)
  PROVE  BudgetInv'
  <1>1. /\ UNCHANGED <<reserved, reservedTokens>>
        /\ measured' = [s \in Scopes |-> IF s \in ScopesOf[c] THEN measured[s] + usage ELSE measured[s]]
        /\ excess' = [s \in Scopes |->
                        IF s \in ScopesOf[c] /\ usage > 0 THEN excess[s] + (usage - 0) ELSE excess[s]]
    BY DEF Charge, Measure
  <1>2. usage \in Nat
    BY ScriptAssumption
  <1>3. ASSUME NEW s \in Scopes
        PROVE  /\ measured'[s] \in Int /\ excess'[s] \in Nat
               /\ measured'[s] + reservedTokens'[s] <= Limit[s] + excess'[s]
    <2>1. /\ measured[s] \in Int /\ reservedTokens[s] \in Int /\ excess[s] \in Nat /\ Limit[s] \in Nat
          /\ measured[s] + reservedTokens[s] <= Limit[s] + excess[s]
      BY ScriptAssumption DEF BudgetInv, BudgetType, NotOversubscribed
    <2>. QED BY <1>1, <1>2, <2>1
  <1>4. BudgetType'
    BY <1>1, <1>3 DEF BudgetInv, BudgetType
  <1>. QED BY <1>3, <1>4 DEF BudgetInv, NotOversubscribed

LEMMA SameBudget ==
  ASSUME BudgetInv, UNCHANGED budget
  PROVE  BudgetInv'
  BY DEF BudgetInv, BudgetType, NotOversubscribed, budget

-----------------------------------------------------------------------------
(* Every step *)

LEMMA AttemptFits ==
  ASSUME BudgetInv, NEW c \in Calls, Attempt(c)
  PROVE  BudgetInv'
  BY ReserveFits, SameBudget DEF Attempt

LEMMA CallStepFits ==
  ASSUME BudgetInv, NEW c \in Calls, CallStep(c)
  PROVE  BudgetInv'
  <1>1. CASE Begin(c)
    BY <1>1, ReserveFits, ChargeFits, SameBudget DEF Begin
  <1>2. CASE SetupEnds(c)
    BY <1>2, ReleaseFits, SameBudget DEF SetupEnds
  <1>3. CASE TaskEnds(c)
    BY <1>3, ReleaseFits, ReconcileFits DEF TaskEnds
  <1>4. CASE BackoffEnds(c)
    BY <1>4, AttemptFits, SameBudget DEF BackoffEnds
  <1>5. CASE Issue(c) \/ GoesOn(c) \/ OperationEnds(c) \/ CaptureEnds(c) \/ SalvageEnds(c)
    BY <1>5, SameBudget DEF Issue, GoesOn, OperationEnds, CaptureEnds, SalvageEnds
  <1>. QED BY <1>1, <1>2, <1>3, <1>4, <1>5 DEF CallStep

LEMMA RunStepSame == RunStep \/ (\E o \in {"value", "error"} : Settles(o)) => UNCHANGED budget
  BY DEF RunStep, Settles, Yields, LimitReached, Cancel, CleanupStarts, CleanupEnds, Resolved,
         ExecutionEnds, Finalize

LEMMA BudgetStep == BudgetInv /\ [Next]_vars => BudgetInv'
  <1>. SUFFICES ASSUME BudgetInv, [Next]_vars PROVE BudgetInv'
    OBVIOUS
  <1>1. ASSUME NEW c \in Calls, CallStep(c) PROVE BudgetInv'
    BY <1>1, CallStepFits
  <1>2. CASE RunStep \/ (\E o \in {"value", "error"} : Settles(o))
    BY <1>2, RunStepSame, SameBudget
  <1>3. CASE UNCHANGED vars
    BY <1>3, SameBudget DEF vars
  <1>. QED BY <1>1, <1>2, <1>3 DEF Next

\* Measured use and reservations of a scope stay within its limit, but for what
\* attempts used beyond their reservations and replays were charged, for any
\* number of calls at the same time (token-budget.ts, reserve).
THEOREM BudgetHolds == Spec => []NotOversubscribed
  <1>1. Init => BudgetInv
    BY ScriptAssumption DEF Init, BudgetInv, BudgetType, NotOversubscribed
  <1>2. BudgetInv /\ [Next]_vars => BudgetInv'
    BY BudgetStep
  <1>3. BudgetInv => NotOversubscribed
    BY DEF BudgetInv
  <1>. QED BY <1>1, <1>2, <1>3, PTL DEF Spec

-----------------------------------------------------------------------------
(* The record of a finished run *)

\* No step of a call changes a status once the run is finished.
LEMMA CallStepFrozen ==
  ASSUME Finalized, NEW c \in Calls, CallStep(c)
  PROVE  UNCHANGED <<task, status>>
  <1>1. CASE Begin(c)
    BY <1>1 DEF Begin, run
  <1>2. CASE SetupEnds(c)
    BY <1>2 DEF SetupEnds, Fails, run
  <1>3. CASE TaskEnds(c)
    BY <1>3 DEF TaskEnds, Fails, run
  <1>4. CASE BackoffEnds(c)
    BY <1>4 DEF BackoffEnds, Attempt, Fails, run
  <1>5. CASE CaptureEnds(c)
    BY <1>5 DEF CaptureEnds, Fails, run
  <1>6. CASE SalvageEnds(c)
    BY <1>6 DEF SalvageEnds, run
  <1>7. CASE Issue(c) \/ GoesOn(c) \/ OperationEnds(c)
    BY <1>7 DEF Issue, GoesOn, OperationEnds, run, work
  <1>. QED BY <1>1, <1>2, <1>3, <1>4, <1>5, <1>6, <1>7 DEF CallStep

LEMMA RunStepFrozen ==
  ASSUME Finalized, RunStep \/ (\E o \in {"value", "error"} : Settles(o))
  PROVE  UNCHANGED <<task, status>>
  BY DEF RunStep, Settles, Yields, LimitReached, Cancel, CleanupStarts, CleanupEnds, Resolved,
         ExecutionEnds, Finalize, run, work

LEMMA StepFrozen == Finalized /\ [Next]_vars => UNCHANGED <<task, status>>
  BY CallStepFrozen, RunStepFrozen DEF Next, vars, run, work

\* The statuses of a run and of its calls no longer change when the run is
\* finished, whatever handlers still do (the checks of finalized).
THEOREM RecordIsFinal == Spec => StatusesFrozen
  <1>1. [Next]_vars => [Finalized => UNCHANGED <<task, status>>]_vars
    BY StepFrozen
  <1>. QED BY <1>1, PTL DEF Spec, StatusesFrozen

LEMMA RecordStep == FinishedRecord /\ [Next]_vars => FinishedRecord'
  <1>. SUFFICES ASSUME FinishedRecord, [Next]_vars, Finalized' PROVE \A c \in Calls : task'[c] # "running"
    BY DEF FinishedRecord
  <1>1. CASE Finalized
    BY <1>1, StepFrozen DEF FinishedRecord
  <1>2. CASE ~Finalized
    <2>1. status # status'
      BY <1>2 DEF Finalized
    <2>2. Finalize
      BY <2>1 DEF Next, vars, CallStep, RunStep, run, Issue, GoesOn, Begin, OperationEnds, SetupEnds,
             TaskEnds, BackoffEnds, CaptureEnds, SalvageEnds, Yields, LimitReached, Cancel,
             CleanupStarts, CleanupEnds, Resolved, ExecutionEnds, Settles
    <2>. QED BY <2>2 DEF Finalize
  <1>. QED BY <1>1, <1>2

\* A finished run shows no call as running (the finally of runJavaScriptWorkflow).
THEOREM NoTaskRuns == Spec => []FinishedRecord
  <1>1. Init => FinishedRecord
    BY DEF Init, FinishedRecord, Finalized
  <1>. QED BY <1>1, RecordStep, PTL DEF Spec

-----------------------------------------------------------------------------
(* Types *)

FlagTypes == turn \in BOOLEAN /\ cancelled \in BOOLEAN
CallTypes ==
  /\ op \in [Calls -> Under \cup {"new", "ended"}] /\ slots \in Int /\ line \in Seq(Calls)

\* Who has ended has a verdict, and cleanup begins after an abort.
EndTypes ==
  /\ outcome \in {"none", "value", "error"}
  /\ stop \in {"no", "failed", "cancelled"} /\ exec \in {"running", "cleanup", "ending", "ended"}
  /\ verdict \in {"none", "completed", "failed", "cancelled"}
  /\ status \in {"running", "completed", "failed", "cancelled"}
  /\ exec \in {"ending", "ended"} => verdict # "none"
  /\ exec = "cleanup" => stop # "no"

WorkTypes ==
  /\ handler \in [Calls -> {"none", "setup", "task", "backoff", "capture", "salvage", "ended"}]
  /\ attempt \in [Calls -> 0..Attempts]
  /\ task \in [Calls -> {"none", "running", "completed", "failed", "cancelled"}]
  /\ tree \in [Calls -> {"none", "made", "captured"}]

ScriptInv == FlagTypes /\ CallTypes /\ EndTypes /\ WorkTypes /\ BudgetInv

LEMMA FlagsStep == FlagTypes /\ [Next]_vars => FlagTypes'
  <1>. SUFFICES ASSUME FlagTypes, [Next]_vars PROVE FlagTypes'
    OBVIOUS
  <1>1. cancelled' \in {cancelled, TRUE} /\ turn' \in {turn, FALSE, TRUE}
    BY DEF Next, vars, CallStep, RunStep, Issue, GoesOn, Begin, OperationEnds, SetupEnds,
           TaskEnds, BackoffEnds, CaptureEnds, SalvageEnds, Yields, LimitReached, Cancel,
           CleanupStarts, CleanupEnds, Resolved, ExecutionEnds, Settles, Finalize, script, run
  <1>. QED BY <1>1 DEF FlagTypes

LEMMA AbortTypes ==
  ASSUME CallTypes, NEW reason, Aborts(reason)
  PROVE  CallTypes'
  BY DEF CallTypes, Aborts, Under

LEMMA CallsStep == CallTypes /\ [Next]_vars => CallTypes'
  <1>. SUFFICES ASSUME CallTypes, [Next]_vars PROVE CallTypes'
    OBVIOUS
  <1>0. CASE UNCHANGED calls
    BY <1>0 DEF CallTypes, calls
  <1>1. ASSUME NEW c \in Calls, Issue(c) PROVE CallTypes'
    <2>1. \E o \in {"ended", "granted", "waiting"} : op' = [op EXCEPT ![c] = o]
      BY <1>1 DEF Issue
    <2>2. slots' \in {slots, slots + 1} /\ line' \in {line, Append(line, c)}
      BY <1>1 DEF Issue
    <2>. QED BY <2>1, <2>2 DEF CallTypes, Under
  <1>2. ASSUME NEW c \in Calls, GoesOn(c) PROVE CallTypes'
    BY <1>2 DEF GoesOn, CallTypes, Under
  <1>3. ASSUME NEW c \in Calls, OperationEnds(c) PROVE CallTypes'
    <2>1. /\ slots' \in Int /\ line' \in Seq(Calls)
      BY <1>3 DEF OperationEnds, Wake, CallTypes
    <2>2. op' \in [Calls -> Under \cup {"new", "ended"}]
      BY <1>3 DEF OperationEnds, CallTypes, Under
    <2>. QED BY <2>1, <2>2 DEF CallTypes
  <1>4. ASSUME NEW c \in Calls, Begin(c) PROVE CallTypes'
    <2>1. op' = [op EXCEPT ![c] = "running"] /\ UNCHANGED <<slots, line>>
      BY <1>4 DEF Begin
    <2>. QED BY <2>1 DEF CallTypes, Under
  <1>5. CASE LimitReached \/ Cancel \/ Resolved
    BY <1>0, <1>5, AbortTypes DEF LimitReached, Cancel, Resolved
  <1>6. CASE \/ Yields \/ CleanupStarts \/ CleanupEnds \/ ExecutionEnds \/ Finalize
             \/ \E o \in {"value", "error"} : Settles(o)
    BY <1>0, <1>6 DEF Yields, CleanupStarts, CleanupEnds, ExecutionEnds, Finalize, Settles
  <1>7. ASSUME NEW c \in Calls,
               SetupEnds(c) \/ TaskEnds(c) \/ BackoffEnds(c) \/ CaptureEnds(c) \/ SalvageEnds(c)
        PROVE  CallTypes'
    BY <1>0, <1>7 DEF SetupEnds, TaskEnds, BackoffEnds, CaptureEnds, SalvageEnds
  <1>. QED BY <1>0, <1>1, <1>2, <1>3, <1>4, <1>5, <1>6, <1>7 DEF Next, CallStep, RunStep, vars

LEMMA EndStep == EndTypes /\ [Next]_vars => EndTypes'
  <1>. SUFFICES ASSUME EndTypes, [Next]_vars PROVE EndTypes'
    OBVIOUS
  <1>0. CASE UNCHANGED <<outcome, stop, exec, verdict, status>>
    BY <1>0 DEF EndTypes
  <1>1. ASSUME NEW c \in Calls, CallStep(c) PROVE EndTypes'
    BY <1>0, <1>1 DEF CallStep, Issue, GoesOn, Begin, OperationEnds, SetupEnds,
           TaskEnds, BackoffEnds, CaptureEnds, SalvageEnds, script, run
  <1>2. CASE Yields
    BY <1>0, <1>2 DEF Yields, run
  <1>3. CASE \E o \in {"value", "error"} : Settles(o)
    BY <1>3 DEF Settles, EndTypes, run
  <1>4. CASE LimitReached
    BY <1>4 DEF LimitReached, Aborts, EndTypes, run
  <1>5. CASE Cancel
    BY <1>5 DEF Cancel, Aborts, EndTypes
  <1>6. CASE CleanupStarts \/ CleanupEnds \/ ExecutionEnds
    BY <1>6 DEF CleanupStarts, CleanupEnds, ExecutionEnds, EndTypes, run
  <1>7. CASE Resolved
    BY <1>7 DEF Resolved, Thrown, Aborts, EndTypes, run
  <1>8. CASE Finalize
    BY <1>8 DEF Finalize, EndTypes, script
  <1>. QED BY <1>0, <1>1, <1>2, <1>3, <1>4, <1>5, <1>6, <1>7, <1>8 DEF Next, RunStep, vars, script, run

LEMMA WorkStep == EndTypes /\ WorkTypes /\ [Next]_vars => WorkTypes'
  <1>. SUFFICES ASSUME EndTypes, WorkTypes, [Next]_vars PROVE WorkTypes'
    OBVIOUS
  <1>. USE ScriptAssumption
  <1>0. CASE UNCHANGED work
    BY <1>0 DEF WorkTypes, work
  <1>1. ASSUME NEW c \in Calls, Begin(c) PROVE WorkTypes'
    <2>1. UNCHANGED tree /\ attempt' \in {attempt, [attempt EXCEPT ![c] = 1]}
      BY <1>1 DEF Begin
    <2>2. \E h \in {"ended", "setup", "task"} : handler' = [handler EXCEPT ![c] = h]
      BY <1>1 DEF Begin, At
    <2>3. \/ UNCHANGED task
          \/ \E t \in {"running", "completed", "failed", "cancelled"} : task' = [task EXCEPT ![c] = t]
      BY <1>1 DEF Begin, Bad
    <2>. QED BY <2>1, <2>2, <2>3 DEF WorkTypes
  <1>2. ASSUME NEW c \in Calls,
               SetupEnds(c) \/ TaskEnds(c) \/ BackoffEnds(c) \/ CaptureEnds(c) \/ SalvageEnds(c)
        PROVE  WorkTypes'
    <2>1. \E h \in {"setup", "task", "backoff", "capture", "salvage", "ended"} :
            handler' = [handler EXCEPT ![c] = h]
      BY <1>2 DEF SetupEnds, TaskEnds, BackoffEnds, CaptureEnds, SalvageEnds, Attempt, Fails, Completes, At
    <2>2. \/ UNCHANGED task
          \/ \E t \in {"completed", "failed", "cancelled"} : task' = [task EXCEPT ![c] = t]
      BY <1>2 DEF SetupEnds, TaskEnds, BackoffEnds, CaptureEnds, SalvageEnds, Attempt, Fails, Completes, Bad
    <2>3. \/ UNCHANGED tree
          \/ \E t \in {"made", "captured"} : tree' = [tree EXCEPT ![c] = t]
          \/ tree' = [tree EXCEPT ![c] = tree[c]]
      BY <1>2 DEF SetupEnds, TaskEnds, BackoffEnds, CaptureEnds, SalvageEnds
    <2>4. \/ UNCHANGED attempt
          \/ attempt[c] < Attempts /\ attempt' = [attempt EXCEPT ![c] = @ + 1]
      BY <1>2 DEF SetupEnds, TaskEnds, BackoffEnds, CaptureEnds, SalvageEnds
    <2>5. attempt' \in [Calls -> 0..Attempts]
      BY <2>4 DEF WorkTypes
    <2>6. handler' \in [Calls -> {"none", "setup", "task", "backoff", "capture", "salvage", "ended"}]
      BY <2>1 DEF WorkTypes
    <2>7. task' \in [Calls -> {"none", "running", "completed", "failed", "cancelled"}]
      BY <2>2 DEF WorkTypes
    <2>8. tree' \in [Calls -> {"none", "made", "captured"}]
      BY <2>3 DEF WorkTypes
    <2>. QED BY <2>5, <2>6, <2>7, <2>8 DEF WorkTypes
  <1>3. ASSUME NEW c \in Calls, Issue(c) \/ GoesOn(c) \/ OperationEnds(c) PROVE WorkTypes'
    BY <1>0, <1>3 DEF Issue, GoesOn, OperationEnds
  <1>4. CASE \/ Yields \/ LimitReached \/ Cancel \/ CleanupStarts \/ CleanupEnds \/ Resolved
             \/ ExecutionEnds \/ \E o \in {"value", "error"} : Settles(o)
    BY <1>0, <1>4 DEF Yields, LimitReached, Cancel, CleanupStarts, CleanupEnds, Resolved, ExecutionEnds, Settles
  <1>5. CASE Finalize
    BY <1>5 DEF Finalize, WorkTypes
  <1>. QED BY <1>0, <1>1, <1>2, <1>3, <1>4, <1>5 DEF Next, CallStep, RunStep, vars

\* Every state of a run is typed.
THEOREM ScriptWellTyped == Spec => []TypeOK
  <1>1. Init => ScriptInv
    <2>. SUFFICES ASSUME Init PROVE ScriptInv
      OBVIOUS
    <2>1. BudgetInv
      BY ScriptAssumption DEF Init, BudgetInv, BudgetType, NotOversubscribed
    <2>2. CallTypes
      BY DEF Init, CallTypes
    <2>3. FlagTypes /\ EndTypes
      BY DEF Init, FlagTypes, EndTypes
    <2>4. WorkTypes
      BY ScriptAssumption DEF Init, WorkTypes
    <2>. QED BY <2>1, <2>2, <2>3, <2>4 DEF ScriptInv
  <1>2. ScriptInv /\ [Next]_vars => ScriptInv'
    BY BudgetStep, FlagsStep, CallsStep, EndStep, WorkStep DEF ScriptInv
  <1>3. ScriptInv => TypeOK
    BY DEF ScriptInv, FlagTypes, CallTypes, EndTypes, WorkTypes, BudgetInv, BudgetType, TypeOK
  <1>. QED BY <1>1, <1>2, <1>3, PTL DEF Spec

-----------------------------------------------------------------------------
(* The semaphore *)

WokenCalls == {c \in Calls : op[c] = "woken"}

\* The line holds each call that waits once, and nobody after an abort.
LineWaits ==
  /\ \A i \in 1..Len(line) : op[line[i]] = "waiting"
  /\ \A i, j \in 1..Len(line) : line[i] = line[j] => i = j
  /\ stop # "no" => line = <<>>

LineInv == CallTypes /\ LineWaits /\ WaitsForAReason

LEMMA CallsCounted ==
  ASSUME NEW S \in SUBSET Calls
  PROVE  IsFiniteSet(S) /\ Cardinality(S) \in Nat
  BY ScriptAssumption, FS_Subset, FS_CardinalityType

\* An operation that is neither woken before nor after does not count.
LEMMA SameWoken ==
  ASSUME NEW c \in Calls, NEW o, op \in [Calls -> Under \cup {"new", "ended"}],
         op' = [op EXCEPT ![c] = o], op[c] # "woken", o # "woken"
  PROVE  WokenCalls' = WokenCalls
  BY DEF WokenCalls

\* A step that leaves the line and the operations in it alone, and does not let
\* go of a slot that is not taken by somebody who was told to go on.
LEMMA LineKept ==
  ASSUME LineInv, CallTypes', UNCHANGED line,
         \A c \in Calls : op[c] = "waiting" => op'[c] = "waiting",
         stop' # "no" => line = <<>>,
         slots' + Cardinality(WokenCalls') >= slots + Cardinality(WokenCalls)
  PROVE  LineInv'
  <1>1. line \in Seq(Calls) /\ \A i \in 1..Len(line) : line[i] \in Calls
    BY DEF LineInv, CallTypes
  <1>2. LineWaits'
    BY <1>1 DEF LineInv, LineWaits
  <1>3. /\ slots \in Int /\ slots' \in Int
        /\ Cardinality(WokenCalls) \in Nat /\ Cardinality(WokenCalls') \in Nat
    <2>1. WokenCalls \in SUBSET Calls /\ WokenCalls' \in SUBSET Calls
      BY DEF WokenCalls
    <2>. QED BY <2>1, CallsCounted DEF LineInv, CallTypes
  <1>4. line # <<>> => slots + Cardinality(WokenCalls) >= MaxConcurrency
    BY DEF LineInv, WaitsForAReason, WokenCalls
  <1>5. line # <<>> => slots' + Cardinality(WokenCalls') >= MaxConcurrency
    BY <1>3, <1>4, ScriptAssumption
  <1>6. WaitsForAReason'
    BY <1>5 DEF WaitsForAReason, WokenCalls
  <1>. QED BY <1>2, <1>6 DEF LineInv

\* What an abort does: nobody waits any longer.
LEMMA LineEmptied ==
  ASSUME LineInv, CallTypes', line' = <<>>
  PROVE  LineInv'
  <1>1. Len(<<>>) = 0
    OBVIOUS
  <1>2. LineWaits'
    BY <1>1 DEF LineWaits
  <1>. QED BY <1>2 DEF LineInv, WaitsForAReason

LEMMA LineAtIssue ==
  ASSUME LineInv, CallTypes', NEW c \in Calls, Issue(c)
  PROVE  LineInv'
  <1>1. /\ op \in [Calls -> Under \cup {"new", "ended"}] /\ slots \in Int /\ line \in Seq(Calls)
        /\ op[c] = "new" /\ stop' = stop
    BY DEF LineInv, CallTypes, Issue, script
  <1>2. stop # "no" => line = <<>>
    BY DEF LineInv, LineWaits
  <1>3. CASE op' = [op EXCEPT ![c] = "ended"] /\ UNCHANGED <<slots, line>>
    <2>1. WokenCalls' = WokenCalls
      BY <1>1, <1>3, SameWoken
    <2>2. slots' + Cardinality(WokenCalls') >= slots + Cardinality(WokenCalls)
      <3>1. WokenCalls \in SUBSET Calls
        BY DEF WokenCalls
      <3>2. Cardinality(WokenCalls) \in Nat
        BY <3>1, CallsCounted
      <3>. QED BY <1>1, <1>3, <2>1, <3>2
    <2>3. \A d \in Calls : op[d] = "waiting" => op'[d] = "waiting"
      BY <1>1, <1>3
    <2>. QED BY <1>1, <1>2, <1>3, <2>2, <2>3, LineKept
  <1>4. CASE op' = [op EXCEPT ![c] = "granted"] /\ slots' = slots + 1 /\ UNCHANGED line
    <2>1. WokenCalls' = WokenCalls
      BY <1>1, <1>4, SameWoken
    <2>2. slots' + Cardinality(WokenCalls') >= slots + Cardinality(WokenCalls)
      <3>1. WokenCalls \in SUBSET Calls
        BY DEF WokenCalls
      <3>2. Cardinality(WokenCalls) \in Nat
        BY <3>1, CallsCounted
      <3>. QED BY <1>1, <1>4, <2>1, <3>2
    <2>3. \A d \in Calls : op[d] = "waiting" => op'[d] = "waiting"
      BY <1>1, <1>4
    <2>. QED BY <1>1, <1>2, <1>4, <2>2, <2>3, LineKept
  <1>5. CASE /\ stop = "no" /\ slots >= MaxConcurrency
             /\ op' = [op EXCEPT ![c] = "waiting"] /\ line' = Append(line, c) /\ UNCHANGED slots
    <2>1. /\ Len(line) \in Nat /\ Len(line') = Len(line) + 1
          /\ \A i \in 1..Len(line) : line'[i] = line[i] /\ line[i] \in Calls
          /\ line'[Len(line) + 1] = c
      BY <1>1, <1>5
    <2>2. \A i \in 1..Len(line) : op[line[i]] = "waiting" /\ line[i] # c
      BY <1>1 DEF LineInv, LineWaits
    <2>3. \A i \in 1..Len(line') : i \in 1..Len(line) \/ i = Len(line) + 1
      BY <2>1
    <2>4. \A i \in 1..Len(line') : op'[line'[i]] = "waiting"
      BY <1>1, <1>5, <2>1, <2>2, <2>3
    <2>5. \A i, j \in 1..Len(line) : line[i] = line[j] => i = j
      BY DEF LineInv, LineWaits
    <2>6. \A i, j \in 1..Len(line') : line'[i] = line'[j] => i = j
      BY <2>1, <2>2, <2>3, <2>5
    <2>7. LineWaits'
      BY <1>1, <1>5, <2>4, <2>6 DEF LineWaits
    <2>8. WokenCalls' \in SUBSET Calls
      BY DEF WokenCalls
    <2>9. Cardinality(WokenCalls') \in Nat
      BY <2>8, CallsCounted
    <2>10. slots' + Cardinality(WokenCalls') >= MaxConcurrency
      BY <1>1, <1>5, <2>9, ScriptAssumption
    <2>. QED BY <2>7, <2>10 DEF LineInv, WaitsForAReason, WokenCalls
  <1>. QED BY <1>3, <1>4, <1>5 DEF Issue

\* Who was told to go on counts as woken, and then holds a slot.
LEMMA LineAtGoesOn ==
  ASSUME LineInv, CallTypes', NEW c \in Calls, GoesOn(c)
  PROVE  LineInv'
  <1>1. /\ op \in [Calls -> Under \cup {"new", "ended"}] /\ slots \in Int
        /\ op[c] = "woken" /\ stop' = stop /\ line' = line
    BY DEF LineInv, CallTypes, GoesOn, script
  <1>2. stop # "no" => line = <<>>
    BY DEF LineInv, LineWaits
  <1>3. CASE stop # "no"
    BY <1>1, <1>2, <1>3, LineEmptied
  <1>4. CASE stop = "no"
    <2>1. op' = [op EXCEPT ![c] = "granted"] /\ slots' = slots + 1
      BY <1>4 DEF GoesOn
    <2>2. WokenCalls' = WokenCalls \ {c} /\ c \in WokenCalls /\ WokenCalls \in SUBSET Calls
      BY <1>1, <2>1 DEF WokenCalls
    <2>3. IsFiniteSet(WokenCalls) /\ Cardinality(WokenCalls) \in Nat
      BY <2>2, CallsCounted
    <2>4. Cardinality(WokenCalls \ {c}) = Cardinality(WokenCalls) - 1
      BY <2>2, <2>3, FS_RemoveElement
    <2>5. slots' + Cardinality(WokenCalls') >= slots + Cardinality(WokenCalls)
      BY <1>1, <2>1, <2>2, <2>3, <2>4
    <2>6. \A d \in Calls : op[d] = "waiting" => op'[d] = "waiting"
      BY <1>1, <2>1
    <2>. QED BY <1>1, <1>2, <2>5, <2>6, LineKept
  <1>. QED BY <1>3, <1>4

\* Who gives a slot back tells the first of the line, if there is one.
LEMMA LineAtEnd ==
  ASSUME LineInv, CallTypes', NEW c \in Calls, OperationEnds(c)
  PROVE  LineInv'
  <1>1. /\ op \in [Calls -> Under \cup {"new", "ended"}] /\ slots \in Int /\ line \in Seq(Calls)
        /\ stop' = stop
    BY DEF LineInv, CallTypes, OperationEnds
  <1>2. /\ stop # "no" => line = <<>>
        /\ \A i \in 1..Len(line) : op[line[i]] = "waiting"
        /\ \A i, j \in 1..Len(line) : line[i] = line[j] => i = j
    BY DEF LineInv, LineWaits
  <1>w. WokenCalls \in SUBSET Calls /\ IsFiniteSet(WokenCalls) /\ Cardinality(WokenCalls) \in Nat
    <2>1. WokenCalls \in SUBSET Calls
      BY DEF WokenCalls
    <2>. QED BY <2>1, CallsCounted
  <1>3. CASE op[c] = "refused" /\ op' = [op EXCEPT ![c] = "ended"] /\ UNCHANGED <<slots, line>>
    <2>1. WokenCalls' = WokenCalls
      BY <1>1, <1>3, SameWoken
    <2>2. slots' + Cardinality(WokenCalls') >= slots + Cardinality(WokenCalls)
      BY <1>1, <1>3, <1>w, <2>1
    <2>3. \A d \in Calls : op[d] = "waiting" => op'[d] = "waiting"
      BY <1>1, <1>3
    <2>. QED BY <1>1, <1>2, <1>3, <2>2, <2>3, LineKept
  <1>4. CASE /\ op[c] = "running" /\ Wake
             /\ op' = [d \in Calls |-> IF d = c THEN "ended" ELSE IF d \in Woken THEN "woken" ELSE op[d]]
    <2>1. CASE line = <<>>
      <3>1. line' = <<>>
        BY <1>4, <2>1 DEF Wake
      <3>. QED BY <3>1, LineEmptied
    <2>2. CASE line # <<>>
      <3>1. /\ Len(line) \in Nat \ {0} /\ Head(line) = line[1] /\ line[1] \in Calls
            /\ Len(Tail(line)) = Len(line) - 1 /\ Tail(line) \in Seq(Calls)
            /\ \A i \in 1..(Len(line) - 1) : Tail(line)[i] = line[i + 1]
        BY <1>1, <2>2
      <3>2. line' = Tail(line) /\ slots' = slots - 1
        BY <1>4, <2>2 DEF Wake
      <3>3. Woken = {line[1]}
        <4>1. Len(line') # Len(line)
          <5>1. Len(line') = Len(line) - 1
            BY <3>1, <3>2
          <5>2. Len(line) \in Int
            BY <3>1
          <5>. QED BY <5>1, <5>2
        <4>. QED BY <3>1, <4>1 DEF Woken
      <3>4. op[line[1]] = "waiting" /\ line[1] # c
        BY <1>2, <1>4, <3>1
      <3>5. \A d \in Calls : op'[d] = IF d = c THEN "ended" ELSE IF d = line[1] THEN "woken" ELSE op[d]
        BY <1>4, <3>3
      <3>6. WokenCalls' = WokenCalls \cup {line[1]} /\ line[1] \notin WokenCalls
        BY <1>4, <3>1, <3>4, <3>5 DEF WokenCalls
      <3>7. Cardinality(WokenCalls') = Cardinality(WokenCalls) + 1
        BY <1>w, <3>6, FS_AddElement
      <3>8. slots + Cardinality(WokenCalls) >= MaxConcurrency
        BY <2>2 DEF LineInv, WaitsForAReason, WokenCalls
      <3>9. slots' + Cardinality(WokenCalls') >= MaxConcurrency
        BY <1>1, <1>w, <3>2, <3>7, <3>8, ScriptAssumption
      <3>10. WaitsForAReason'
        BY <3>9 DEF WaitsForAReason, WokenCalls
      <3>11. ASSUME NEW i \in 1..Len(line')
             PROVE  line'[i] = line[i + 1] /\ i + 1 \in 1..Len(line) /\ i + 1 # 1 /\ i \in Int
        BY <3>1, <3>2
      <3>12. 1 \in 1..Len(line)
        BY <3>1
      <3>13. ASSUME NEW i \in 1..Len(line') PROVE op'[line'[i]] = "waiting"
        <4>1. op[line[i + 1]] = "waiting" /\ line[i + 1] # line[1]
          BY <1>2, <3>11, <3>12
        <4>2. line[i + 1] # c /\ line[i + 1] \in Calls
          BY <1>1, <1>4, <3>11, <4>1
        <4>. QED BY <3>5, <3>11, <4>1, <4>2
      <3>14. ASSUME NEW i \in 1..Len(line'), NEW j \in 1..Len(line'), line'[i] = line'[j] PROVE i = j
        <4>1. i + 1 = j + 1
          BY <1>2, <3>11, <3>14
        <4>. QED BY <3>11, <4>1
      <3>15. stop' # "no" => line' = <<>>
        BY <1>1, <1>2, <2>2
      <3>16. LineWaits'
        BY <3>13, <3>14, <3>15 DEF LineWaits
      <3>. QED BY <3>10, <3>16 DEF LineInv
    <2>. QED BY <2>1, <2>2
  <1>. QED BY <1>3, <1>4 DEF OperationEnds

LEMMA LineStep == LineInv /\ [Next]_vars => LineInv'
  <1>. SUFFICES ASSUME LineInv, [Next]_vars PROVE LineInv'
    OBVIOUS
  <1>1. CallTypes'
    BY CallsStep DEF LineInv
  <1>2. CASE UNCHANGED <<calls, stop>>
    BY <1>2 DEF LineInv, CallTypes, LineWaits, WaitsForAReason, calls
  <1>3. ASSUME NEW c \in Calls, Begin(c) PROVE LineInv'
    <2>1. /\ op \in [Calls -> Under \cup {"new", "ended"}] /\ op[c] = "granted"
          /\ op' = [op EXCEPT ![c] = "running"] /\ UNCHANGED <<slots, line, stop>>
      BY <1>3 DEF LineInv, CallTypes, Begin, script
    <2>2. WokenCalls' = WokenCalls
      BY <2>1, SameWoken
    <2>3. WokenCalls \in SUBSET Calls
      BY DEF WokenCalls
    <2>4. slots \in Int /\ Cardinality(WokenCalls) \in Nat
      BY <2>3, CallsCounted DEF LineInv, CallTypes
    <2>5. slots' + Cardinality(WokenCalls') >= slots + Cardinality(WokenCalls)
      BY <2>1, <2>2, <2>4
    <2>6. \A d \in Calls : op[d] = "waiting" => op'[d] = "waiting"
      BY <2>1
    <2>7. stop' # "no" => line = <<>>
      BY <2>1 DEF LineInv, LineWaits
    <2>. QED BY <1>1, <2>1, <2>5, <2>6, <2>7, LineKept
  <1>4. ASSUME NEW c \in Calls,
               SetupEnds(c) \/ TaskEnds(c) \/ BackoffEnds(c) \/ CaptureEnds(c) \/ SalvageEnds(c)
        PROVE  LineInv'
    BY <1>2, <1>4 DEF SetupEnds, TaskEnds, BackoffEnds, CaptureEnds, SalvageEnds, script
  <1>5. ASSUME NEW reason, Aborts(reason) PROVE LineInv'
    BY <1>1, <1>5, LineEmptied DEF Aborts
  <1>6. CASE LimitReached \/ Cancel \/ Resolved
    BY <1>2, <1>5, <1>6 DEF LimitReached, Cancel, Resolved
  <1>7. CASE \/ Yields \/ CleanupStarts \/ CleanupEnds \/ ExecutionEnds \/ Finalize
             \/ \E o \in {"value", "error"} : Settles(o)
    BY <1>2, <1>7 DEF Yields, CleanupStarts, CleanupEnds, ExecutionEnds, Finalize, Settles, script
  <1>8. ASSUME NEW c \in Calls, Issue(c) \/ GoesOn(c) \/ OperationEnds(c) PROVE LineInv'
    BY <1>1, <1>8, LineAtIssue, LineAtGoesOn, LineAtEnd
  <1>. QED BY <1>2, <1>3, <1>4, <1>6, <1>7, <1>8 DEF Next, CallStep, RunStep, vars, script

\* A call waits only while every slot is taken, or promised to somebody who was
\* told to go on: no release is lost, in whatever order releases, wake-ups and new
\* calls come (createSemaphore).
THEOREM NobodyWaitsForNothing == Spec => []WaitsForAReason
  <1>1. Init => LineInv
    <2>. SUFFICES ASSUME Init PROVE LineInv
      OBVIOUS
    <2>1. CallTypes
      BY DEF Init, CallTypes
    <2>2. line = <<>> /\ Len(line) = 0
      BY DEF Init
    <2>. QED BY <2>1, <2>2 DEF LineInv, LineWaits, WaitsForAReason
  <1>2. LineInv => WaitsForAReason
    BY DEF LineInv
  <1>. QED BY <1>1, <1>2, LineStep, PTL DEF Spec

-----------------------------------------------------------------------------
(* The end of a run that completed *)

\* Before its handler begins a call has no record. When it has ended and nothing
\* was aborted, so has its handler. A record shows running while the handler is at
\* work, and cancelled only after an abort or the end of the run.
HandlerFollows ==
  \A c \in Calls :
    /\ op[c] \in {"new", "waiting", "woken", "granted", "refused"} =>
         handler[c] = "none" /\ task[c] = "none"
    /\ op[c] = "ended" /\ stop = "no" => handler[c] \in {"none", "ended"}
    /\ task[c] = "running" => handler[c] \notin {"none", "ended"}
    /\ stop = "no" /\ ~Finalized => task[c] # "cancelled"

RunEnds ==
  /\ Finalized => exec = "ended"
  /\ status = "completed" => verdict = "completed"
  /\ verdict = "completed" => exec \in {"ending", "ended"} /\ ~turn

\* A call that nothing can still happen to.
QuietCall(c) ==
  /\ op[c] \in {"new", "ended"} /\ handler[c] \in {"none", "ended"}
  /\ task[c] \in {"none", "completed", "failed"}

Quiet == verdict = "completed" => \A c \in Calls : QuietCall(c)

QuietInv ==
  LineInv /\ EndTypes /\ WorkTypes /\ FinishedRecord /\ HandlerFollows /\ RunEnds /\ Quiet

\* A step of one handler: its call runs, and when the handler has ended its record
\* does not show it as running.
LEMMA HandlerStep ==
  ASSUME EndTypes, WorkTypes, FinishedRecord, HandlerFollows, NEW c \in Calls,
         NEW h, NEW t, handler' = [handler EXCEPT ![c] = h], task' = [task EXCEPT ![c] = t],
         UNCHANGED <<op, stop, status>>, op[c] \notin {"new", "waiting", "woken", "granted", "refused"},
         op[c] = "ended" /\ stop = "no" => h \in {"none", "ended"},
         t = "running" => h \notin {"none", "ended"},
         stop = "no" /\ ~Finalized => t # "cancelled"
  PROVE  HandlerFollows'
  <1>. SUFFICES ASSUME NEW d \in Calls
                PROVE  /\ op[d] \in {"new", "waiting", "woken", "granted", "refused"} =>
                            handler'[d] = "none" /\ task'[d] = "none"
                       /\ op[d] = "ended" /\ stop = "no" => handler'[d] \in {"none", "ended"}
                       /\ task'[d] = "running" => handler'[d] \notin {"none", "ended"}
                       /\ stop = "no" /\ ~Finalized => task'[d] # "cancelled"
    BY DEF HandlerFollows, Finalized
  <1>1. CASE d = c
    BY <1>1 DEF WorkTypes
  <1>2. CASE d # c
    <2>1. handler'[d] = handler[d] /\ task'[d] = task[d]
      BY <1>2 DEF WorkTypes
    <2>. QED BY <2>1 DEF HandlerFollows
  <1>. QED BY <1>1, <1>2

\* What a handler that is at work leaves behind.
Leaves(c) ==
  \E h \in {"setup", "task", "backoff", "capture", "salvage", "ended"} :
    /\ handler' = [handler EXCEPT ![c] = h]
    /\ \/ task' = task /\ (h = "ended" => Finalized)
       \/ \E t \in {"completed", "failed"} : task' = [task EXCEPT ![c] = t]
       \/ stop # "no" /\ task' = [task EXCEPT ![c] = "cancelled"]

LEMMA FailsLeaves ==
  ASSUME NEW c \in Calls, Fails(c)
  PROVE  Leaves(c)
  BY DEF Fails, At, Bad, Leaves

LEMMA CompletesLeaves ==
  ASSUME NEW c \in Calls, Completes(c)
  PROVE  Leaves(c)
  BY DEF Completes, At, Leaves

LEMMA AtWorkLeaves ==
  ASSUME NEW c \in Calls,
         SetupEnds(c) \/ TaskEnds(c) \/ BackoffEnds(c) \/ CaptureEnds(c) \/ SalvageEnds(c)
  PROVE  /\ Leaves(c) /\ handler[c] \notin {"none", "ended"}
         /\ UNCHANGED <<script, calls, run>>
  <1>1. CASE SetupEnds(c)
    <2>1. Fails(c) \/ (At(c, "ended") /\ Finalized /\ UNCHANGED task) \/ (At(c, "task") /\ UNCHANGED task)
      BY <1>1 DEF SetupEnds
    <2>2. Leaves(c)
      BY <2>1, FailsLeaves DEF At, Leaves
    <2>. QED BY <1>1, <2>2 DEF SetupEnds
  <1>2. CASE TaskEnds(c)
    <2>1. \/ Fails(c) \/ Completes(c)
          \/ (At(c, "capture") /\ UNCHANGED task) \/ (At(c, "backoff") /\ UNCHANGED task)
      BY <1>2 DEF TaskEnds
    <2>2. Leaves(c)
      BY <2>1, FailsLeaves, CompletesLeaves DEF At, Leaves
    <2>. QED BY <1>2, <2>2 DEF TaskEnds
  <1>3. CASE BackoffEnds(c)
    <2>1. Fails(c) \/ (At(c, "setup") /\ UNCHANGED task) \/ (At(c, "task") /\ UNCHANGED task)
      BY <1>3 DEF BackoffEnds, Attempt
    <2>2. Leaves(c)
      BY <2>1, FailsLeaves DEF At, Leaves
    <2>. QED BY <1>3, <2>2 DEF BackoffEnds
  <1>4. CASE CaptureEnds(c)
    <2>1. Fails(c) \/ Completes(c)
      BY <1>4 DEF CaptureEnds
    <2>. QED BY <1>4, <2>1, FailsLeaves, CompletesLeaves DEF CaptureEnds
  <1>5. CASE SalvageEnds(c)
    <2>1. Leaves(c)
      BY <1>5 DEF SalvageEnds, At, Bad, Leaves
    <2>. QED BY <1>5, <2>1 DEF SalvageEnds
  <1>. QED BY <1>1, <1>2, <1>3, <1>4, <1>5

\* An operation moves on, and its handler has not begun or is not waited for.
LEMMA OperationFollows ==
  ASSUME HandlerFollows, UNCHANGED <<handler, task, stop, status>>,
         \A c \in Calls : \/ op'[c] = op[c]
                          \/ op[c] \in {"new", "waiting", "woken", "granted", "refused"}
                          \/ op'[c] = "ended" /\ (handler[c] = "ended" \/ stop # "no")
  PROVE  HandlerFollows'
  <1>. SUFFICES ASSUME NEW c \in Calls
                PROVE  /\ op'[c] \in {"new", "waiting", "woken", "granted", "refused"} =>
                            handler[c] = "none" /\ task[c] = "none"
                       /\ op'[c] = "ended" /\ stop = "no" => handler[c] \in {"none", "ended"}
                       /\ task[c] = "running" => handler[c] \notin {"none", "ended"}
                       /\ stop = "no" /\ ~Finalized => task[c] # "cancelled"
    BY DEF HandlerFollows, Finalized
  <1>. QED BY DEF HandlerFollows

LEMMA FollowsAtCall ==
  ASSUME QuietInv, NEW c \in Calls, CallStep(c)
  PROVE  HandlerFollows'
  <1>0. /\ op \in [Calls -> Under \cup {"new", "ended"}] /\ line \in Seq(Calls)
        /\ HandlerFollows /\ EndTypes /\ WorkTypes /\ FinishedRecord
    BY DEF QuietInv, LineInv, CallTypes
  <1>1. CASE Issue(c)
    <2>1. \A d \in Calls : op'[d] = op[d] \/ op[d] = "new"
      BY <1>0, <1>1 DEF Issue
    <2>. QED BY <1>0, <1>1, <2>1, OperationFollows DEF Issue, script, work, run
  <1>2. CASE GoesOn(c)
    <2>1. \A d \in Calls : op'[d] = op[d] \/ op[d] = "woken"
      BY <1>0, <1>2 DEF GoesOn
    <2>. QED BY <1>0, <1>2, <2>1, OperationFollows DEF GoesOn, script, work, run
  <1>3. CASE OperationEnds(c)
    <2>1. UNCHANGED <<handler, task, stop, status>>
      BY <1>3 DEF OperationEnds, work, run
    <2>2. CASE op[c] = "refused" /\ op' = [op EXCEPT ![c] = "ended"]
      <3>1. \A d \in Calls : op'[d] = op[d] \/ op[d] = "refused"
        BY <1>0, <2>2
      <3>. QED BY <1>0, <2>1, <3>1, OperationFollows
    <2>3. CASE /\ handler[c] = "ended" \/ stop # "no"
               /\ Wake
               /\ op' = [d \in Calls |-> IF d = c THEN "ended" ELSE IF d \in Woken THEN "woken" ELSE op[d]]
      <3>1. ASSUME NEW d \in Woken PROVE op[d] = "waiting"
        <4>1. line' # line /\ d = Head(line)
          BY <3>1 DEF Woken
        <4>2. line # <<>>
          BY <2>3, <4>1 DEF Wake
        <4>3. Head(line) = line[1] /\ 1 \in 1..Len(line)
          BY <1>0, <4>2
        <4>. QED BY <4>1, <4>3 DEF QuietInv, LineInv, LineWaits
      <3>2. \A d \in Calls : \/ op'[d] = op[d] \/ op[d] = "waiting"
                             \/ op'[d] = "ended" /\ (handler[d] = "ended" \/ stop # "no")
        BY <2>3, <3>1
      <3>. QED BY <1>0, <2>1, <3>2, OperationFollows
    <2>. QED BY <1>3, <2>2, <2>3 DEF OperationEnds
  <1>4. CASE Begin(c)
    <2>1. /\ op[c] = "granted" /\ op' = [op EXCEPT ![c] = "running"] /\ UNCHANGED <<stop, status>>
          /\ task[c] = "none"
      BY <1>0, <1>4 DEF Begin, script, run, HandlerFollows
    <2>2. \E h \in {"ended", "setup", "task"} :
            \E t \in {"none", "running", "completed", "failed", "cancelled"} :
              /\ handler' = [handler EXCEPT ![c] = h] /\ task' = [task EXCEPT ![c] = t]
              /\ t = "running" => h # "ended"
              /\ stop = "no" => t # "cancelled"
      <3>1. CASE At(c, "ended") /\ UNCHANGED task
        <4>1. task' = [task EXCEPT ![c] = "none"]
          BY <1>0, <2>1, <3>1 DEF WorkTypes
        <4>. QED BY <3>1, <4>1 DEF At
      <3>2. CASE At(c, "ended") /\ \E t \in {"completed", Bad} : task' = [task EXCEPT ![c] = t]
        BY <3>2 DEF At, Bad
      <3>3. CASE /\ task' = [task EXCEPT ![c] = "running"]
                 /\ At(c, "setup") \/ At(c, "task")
        BY <3>3 DEF At
      <3>. QED BY <1>4, <3>1, <3>2, <3>3 DEF Begin
    <2>3. PICK h \in {"ended", "setup", "task"},
               t \in {"none", "running", "completed", "failed", "cancelled"} :
              /\ handler' = [handler EXCEPT ![c] = h] /\ task' = [task EXCEPT ![c] = t]
              /\ t = "running" => h # "ended"
              /\ stop = "no" => t # "cancelled"
      BY <2>2
    <2>4. \A d \in Calls : op'[d] = IF d = c THEN "running" ELSE op[d]
      BY <1>0, <2>1
    <2>5. \A d \in Calls : /\ handler'[d] = IF d = c THEN h ELSE handler[d]
                           /\ task'[d] = IF d = c THEN t ELSE task[d]
      BY <1>0, <2>3 DEF WorkTypes
    <2>6. ASSUME NEW d \in Calls
          PROVE  /\ op'[d] \in {"new", "waiting", "woken", "granted", "refused"} =>
                      handler'[d] = "none" /\ task'[d] = "none"
                 /\ op'[d] = "ended" /\ stop = "no" => handler'[d] \in {"none", "ended"}
                 /\ task'[d] = "running" => handler'[d] \notin {"none", "ended"}
                 /\ stop = "no" /\ ~Finalized => task'[d] # "cancelled"
      <3>1. CASE d = c
        BY <2>3, <2>4, <2>5, <3>1
      <3>2. CASE d # c
        BY <1>0, <2>4, <2>5, <3>2 DEF HandlerFollows
      <3>. QED BY <3>1, <3>2
    <2>. QED BY <2>1, <2>6 DEF HandlerFollows, Finalized
  <1>5. CASE SetupEnds(c) \/ TaskEnds(c) \/ BackoffEnds(c) \/ CaptureEnds(c) \/ SalvageEnds(c)
    <2>1. /\ Leaves(c) /\ handler[c] \notin {"none", "ended"} /\ UNCHANGED <<op, stop, status>>
      BY <1>5, AtWorkLeaves DEF script, calls, run
    <2>2. /\ op[c] \notin {"new", "waiting", "woken", "granted", "refused"}
          /\ ~(op[c] = "ended" /\ stop = "no")
      BY <1>0, <2>1 DEF HandlerFollows
    <2>3. PICK h \in {"setup", "task", "backoff", "capture", "salvage", "ended"} :
            /\ handler' = [handler EXCEPT ![c] = h]
            /\ \/ task' = task /\ (h = "ended" => Finalized)
               \/ \E t \in {"completed", "failed"} : task' = [task EXCEPT ![c] = t]
               \/ stop # "no" /\ task' = [task EXCEPT ![c] = "cancelled"]
      BY <2>1 DEF Leaves
    <2>4. CASE task' = task /\ (h = "ended" => Finalized)
      <3>1. task' = [task EXCEPT ![c] = task[c]]
        BY <1>0, <2>4 DEF WorkTypes
      <3>2. task[c] = "running" => h \notin {"none", "ended"}
        BY <1>0, <2>4 DEF FinishedRecord
      <3>3. stop = "no" /\ ~Finalized => task[c] # "cancelled"
        BY <1>0 DEF HandlerFollows
      <3>. QED BY <1>0, <2>1, <2>2, <2>3, <3>1, <3>2, <3>3, HandlerStep
    <2>5. CASE \E t \in {"completed", "failed"} : task' = [task EXCEPT ![c] = t]
      <3>1. PICK t \in {"completed", "failed"} : task' = [task EXCEPT ![c] = t]
        BY <2>5
      <3>2. (t = "running" => h \notin {"none", "ended"}) /\ (stop = "no" /\ ~Finalized => t # "cancelled")
        OBVIOUS
      <3>. QED BY <1>0, <2>1, <2>2, <2>3, <3>1, <3>2, HandlerStep
    <2>6. CASE stop # "no" /\ task' = [task EXCEPT ![c] = "cancelled"]
      BY <1>0, <2>1, <2>2, <2>3, <2>6, HandlerStep
    <2>. QED BY <2>3, <2>4, <2>5, <2>6
  <1>. QED BY <1>1, <1>2, <1>3, <1>4, <1>5 DEF CallStep

LEMMA FollowsAtRun ==
  ASSUME QuietInv, RunStep \/ \E o \in {"value", "error"} : Settles(o)
  PROVE  HandlerFollows'
  <1>0. /\ op \in [Calls -> Under \cup {"new", "ended"}]
        /\ HandlerFollows /\ EndTypes /\ WorkTypes
    BY DEF QuietInv, LineInv, CallTypes
  <1>1. ASSUME NEW reason \in {"failed", "cancelled"}, Aborts(reason),
               UNCHANGED <<handler, task, status>>
        PROVE  HandlerFollows'
    <2>1. stop' # "no"
      BY <1>1 DEF Aborts
    <2>2. \A c \in Calls : op'[c] = IF op[c] = "waiting" THEN "refused" ELSE op[c]
      BY <1>0, <1>1 DEF Aborts
    <2>. QED BY <1>0, <1>1, <2>1, <2>2 DEF HandlerFollows
  <1>2. CASE UNCHANGED <<handler, task, status, op, stop>>
    BY <1>0, <1>2 DEF HandlerFollows, Finalized
  <1>3. CASE LimitReached \/ Cancel \/ Resolved
    BY <1>1, <1>2, <1>3 DEF LimitReached, Cancel, Resolved, work, run, calls
  <1>4. CASE Finalize
    <2>1. UNCHANGED <<op, stop, handler>> /\ Finalized'
      BY <1>0, <1>4 DEF Finalize, calls, script, EndTypes, Finalized
    <2>2. \A c \in Calls : task'[c] = task[c] \/ (task[c] = "running" /\ task'[c] # "running")
      BY <1>4 DEF Finalize
    <2>. QED BY <1>0, <2>1, <2>2 DEF HandlerFollows
  <1>5. CASE \/ Yields \/ CleanupStarts \/ CleanupEnds \/ ExecutionEnds
             \/ \E o \in {"value", "error"} : Settles(o)
    BY <1>2, <1>5 DEF Yields, CleanupStarts, CleanupEnds, ExecutionEnds, Settles, work, run, calls
  <1>. QED BY <1>3, <1>4, <1>5 DEF RunStep

\* The verdict is the last that the interpreter says, and the record follows it.
LEMMA RunEndsStep == QuietInv /\ [Next]_vars => RunEnds'
  <1>. SUFFICES ASSUME QuietInv, [Next]_vars PROVE RunEnds'
    OBVIOUS
  <1>0. RunEnds /\ EndTypes
    BY DEF QuietInv
  <1>1. CASE UNCHANGED <<exec, verdict, status, turn>>
    BY <1>0, <1>1 DEF RunEnds, Finalized
  <1>2. ASSUME NEW c \in Calls, CallStep(c), ~OperationEnds(c) PROVE RunEnds'
    BY <1>1, <1>2 DEF CallStep, Issue, GoesOn, Begin, SetupEnds, TaskEnds, BackoffEnds,
                      CaptureEnds, SalvageEnds, script, run
  <1>3. ASSUME NEW c \in Calls, OperationEnds(c) PROVE RunEnds'
    <2>1. op[c] \in {"refused", "running"} /\ UNCHANGED <<exec, verdict, status>>
      BY <1>3 DEF OperationEnds, run
    <2>2. verdict # "completed"
      BY <2>1 DEF QuietInv, Quiet, QuietCall
    <2>. QED BY <1>0, <2>1, <2>2 DEF RunEnds, Finalized
  <1>4. CASE \/ Yields \/ LimitReached \/ Cancel \/ CleanupStarts \/ ExecutionEnds
             \/ \E o \in {"value", "error"} : Settles(o)
    BY <1>0, <1>1, <1>4 DEF Yields, LimitReached, Cancel, CleanupStarts, ExecutionEnds, Settles,
                            RunEnds, EndTypes, Finalized, run
  <1>5. CASE CleanupEnds \/ Resolved
    BY <1>0, <1>5 DEF CleanupEnds, Resolved, Thrown, RunEnds, EndTypes, Finalized, run
  <1>6. CASE Finalize
    BY <1>0, <1>6 DEF Finalize, RunEnds, EndTypes, Finalized, script
  <1>. QED BY <1>1, <1>2, <1>3, <1>4, <1>5, <1>6 DEF Next, CallStep, RunStep, vars, script, run

LEMMA QuietStep == QuietInv /\ [Next]_vars => Quiet'
  <1>. SUFFICES ASSUME QuietInv, [Next]_vars, verdict' = "completed",
                       NEW c \in Calls
                PROVE  QuietCall(c)'
    BY DEF Quiet
  <1>0. /\ RunEnds /\ EndTypes /\ Quiet /\ HandlerFollows /\ WorkTypes
        /\ op \in [Calls -> Under \cup {"new", "ended"}]
    BY DEF QuietInv, LineInv, CallTypes
  <1>1. CASE verdict # "completed"
    <2>1. verdict' # verdict
      BY <1>1
    <2>2. CleanupEnds \/ Resolved
      BY <2>1 DEF Next, vars, CallStep, RunStep, script, Issue, GoesOn, Begin, OperationEnds, SetupEnds,
             TaskEnds, BackoffEnds, CaptureEnds, SalvageEnds, Yields, LimitReached, Cancel,
             CleanupStarts, ExecutionEnds, Finalize, Settles
    <2>3. /\ stop = "no" /\ HostOperations = {} /\ exec \in {"running", "cleanup"}
          /\ UNCHANGED <<calls, work, run>>
      BY <1>0, <2>2 DEF CleanupEnds, Resolved, Thrown, EndTypes
    <2>4. op[c] \in {"new", "ended"} /\ ~Finalized
      BY <1>0, <2>3 DEF HostOperations, RunEnds
    <2>5. handler[c] \in {"none", "ended"}
      BY <1>0, <2>3, <2>4 DEF HandlerFollows
    <2>6. task[c] \in {"none", "completed", "failed"}
      BY <1>0, <2>3, <2>4, <2>5 DEF HandlerFollows, WorkTypes
    <2>. QED BY <2>3, <2>4, <2>5, <2>6 DEF QuietCall, calls, work
  <1>2. CASE verdict = "completed"
    <2>1. \A d \in Calls : QuietCall(d)
      BY <1>0, <1>2 DEF Quiet
    <2>2. /\ ~turn /\ exec \in {"ending", "ended"}
      BY <1>0, <1>2 DEF RunEnds
    <2>3. ~\E d \in Calls : CallStep(d)
      BY <2>1, <2>2 DEF QuietCall, CallStep, Issue, GoesOn, Begin, OperationEnds, SetupEnds,
                        TaskEnds, BackoffEnds, CaptureEnds, SalvageEnds
    <2>4. op'[c] = op[c] \/ op[c] = "waiting"
      BY <1>0, <2>3 DEF Next, vars, RunStep, calls, Aborts, Yields, LimitReached, Cancel,
             CleanupStarts, CleanupEnds, Resolved, ExecutionEnds, Finalize, Settles
    <2>5. handler' = handler
      BY <2>3 DEF Next, vars, RunStep, work, Yields, LimitReached, Cancel,
             CleanupStarts, CleanupEnds, Resolved, ExecutionEnds, Finalize, Settles
    <2>6. task'[c] = task[c] \/ task[c] = "running"
      BY <2>3 DEF Next, vars, RunStep, work, Yields, LimitReached, Cancel,
             CleanupStarts, CleanupEnds, Resolved, ExecutionEnds, Finalize, Settles
    <2>. QED BY <2>1, <2>4, <2>5, <2>6 DEF QuietCall
  <1>. QED BY <1>1, <1>2

LEMMA QuietInvStep == QuietInv /\ [Next]_vars => QuietInv'
  <1>. SUFFICES ASSUME QuietInv, [Next]_vars PROVE QuietInv'
    OBVIOUS
  <1>1. LineInv' /\ EndTypes' /\ WorkTypes' /\ FinishedRecord'
    BY LineStep, EndStep, WorkStep, RecordStep DEF QuietInv
  <1>2. HandlerFollows'
    <2>1. CASE UNCHANGED vars
      BY <2>1 DEF QuietInv, HandlerFollows, Finalized, vars, script, calls, work, run
    <2>. QED BY <2>1, FollowsAtCall, FollowsAtRun DEF Next
  <1>3. RunEnds' /\ Quiet'
    BY RunEndsStep, QuietStep
  <1>. QED BY <1>1, <1>2, <1>3 DEF QuietInv

LEMMA QuietAtInit == Init => QuietInv
  <1>. SUFFICES ASSUME Init PROVE QuietInv
    OBVIOUS
  <1>1. LineInv
    <2>1. CallTypes
      BY DEF Init, CallTypes
    <2>2. line = <<>> /\ Len(line) = 0
      BY DEF Init
    <2>. QED BY <2>1, <2>2 DEF LineInv, LineWaits, WaitsForAReason, Init
  <1>2. EndTypes
    BY DEF Init, EndTypes
  <1>3. WorkTypes
    BY ScriptAssumption DEF Init, WorkTypes
  <1>4. FinishedRecord /\ HandlerFollows /\ RunEnds /\ Quiet
    BY DEF Init, FinishedRecord, Finalized, HandlerFollows, RunEnds, Quiet
  <1>. QED BY <1>1, <1>2, <1>3, <1>4 DEF QuietInv

\* A run that is reported as completed has left nothing behind: no operation under
\* way, no handler at work, no call cut off (the check of outstanding operations
\* in executeWorkflowScript).
THEOREM CompletedIsQuiet == Spec => []CompletedMeansQuiet
  <1>1. Init => QuietInv
    BY QuietAtInit
  <1>2. QuietInv => CompletedMeansQuiet
    BY DEF QuietInv, RunEnds, Quiet, QuietCall, CompletedMeansQuiet, Under
  <1>. QED BY <1>1, <1>2, QuietInvStep, PTL DEF Spec

-----------------------------------------------------------------------------
(* Sums over finite sets. MapThenSumSet folds with a recursive function: it    *)
(* has a value for every finite set, since a set for which it had none would   *)
(* have a minimal such subset, and the value does not depend on the order.     *)

\* The sum of f over S, as MapThenSumSet folds it.
SumOver(f, S) == MapThenSumSet(LAMBDA x : f[x], S)
Chosen(S) == CHOOSE x \in S : TRUE
SumsUp(f, S, g) ==
  g = [T \in SUBSET S |-> IF T = {} THEN 0 ELSE f[Chosen(T)] + g[T \ {Chosen(T)}]]

LEMMA SumIsChosen ==
  ASSUME NEW f, NEW S
  PROVE  SumOver(f, S) = (CHOOSE g : SumsUp(f, S, g))[S]
  BY DEF SumOver, MapThenSumSet, MapThenFoldSet, Chosen, SumsUp

\* A nonempty set of subsets of a finite set has one that is minimal in it.
LEMMA MinimalSubset ==
  ASSUME NEW S, IsFiniteSet(S), NEW Ts \in SUBSET SUBSET S, Ts # {}
  PROVE  \E T \in Ts : \A U \in Ts : U \subseteq T => U = T
  <1>1. IsWellFoundedOn(StrictSubsetOrdering(S), SUBSET S)
    BY FS_StrictSubsetOrderingWellFounded, FS_FiniteSubsetsOfFinite
  <1>2. PICK T \in Ts : \A U \in Ts : <<U, T>> \notin StrictSubsetOrdering(S)
    <2>. DEFINE R == StrictSubsetOrdering(S)
               W == SUBSET S
    <2>1. IsWellFoundedOn(R, W) /\ Ts \subseteq W
      BY <1>1
    <2>. HIDE DEF R, W
    <2>2. \E T \in Ts : \A U \in Ts : ~ (<<U, T>> \in R)
      BY <2>1, WFMin
    <2>. QED BY <2>2 DEF R
  <1>3. ASSUME NEW U \in Ts, U \subseteq T PROVE U = T
    BY <1>2, <1>3 DEF StrictSubsetOrdering
  <1>. QED BY <1>3

LEMMA ChosenIn ==
  ASSUME NEW S, S # {}
  PROVE  Chosen(S) \in S
  BY DEF Chosen

LEMMA SumsUpAt ==
  ASSUME NEW f, NEW S, NEW g, SumsUp(f, S, g), NEW T \in SUBSET S
  PROVE  g[T] = IF T = {} THEN 0 ELSE f[Chosen(T)] + g[T \ {Chosen(T)}]
  <1>. DEFINE h == [U \in SUBSET S |-> IF U = {} THEN 0 ELSE f[Chosen(U)] + g[U \ {Chosen(U)}]]
  <1>1. g = h
    BY DEF SumsUp
  <1>2. h[T] = IF T = {} THEN 0 ELSE f[Chosen(T)] + g[T \ {Chosen(T)}]
    OBVIOUS
  <1>. QED BY <1>1, <1>2

LEMMA SumsUpAtAll ==
  ASSUME NEW f, NEW S, NEW g, SumsUp(f, S, g)
  PROVE  g[S] = IF S = {} THEN 0 ELSE f[Chosen(S)] + g[S \ {Chosen(S)}]
  <1>1. S \in SUBSET S
    OBVIOUS
  <1>. QED BY <1>1, SumsUpAt

LEMMA SumsUpUnique ==
  ASSUME NEW f, NEW A, NEW B, IsFiniteSet(A), NEW g, NEW h, SumsUp(f, A, g), SumsUp(f, B, h),
         NEW T, T \subseteq A, T \subseteq B
  PROVE  g[T] = h[T]
  <1>. DEFINE Ts == {U \in SUBSET A : U \subseteq B /\ g[U] # h[U]}
  <1>. SUFFICES ASSUME Ts # {} PROVE FALSE
    OBVIOUS
  <1>1. PICK U \in Ts : \A V \in Ts : V \subseteq U => V = U
    <2>1. Ts \in SUBSET SUBSET A /\ Ts # {}
      OBVIOUS
    <2>. HIDE DEF Ts
    <2>. QED BY <2>1, MinimalSubset
  <1>2. U # {}
    BY SumsUpAt
  <1>3. Chosen(U) \in U
    BY <1>2, ChosenIn
  <1>. DEFINE V == U \ {Chosen(U)}
  <1>4. V \in SUBSET A /\ V \subseteq B /\ V \subseteq U /\ V # U
    BY <1>3
  <1>5. V \notin Ts
    BY <1>1, <1>4
  <1>6. g[V] = h[V]
    BY <1>4, <1>5
  <1>7. g[U] = f[Chosen(U)] + g[V] /\ h[U] = f[Chosen(U)] + h[V]
    BY <1>2, SumsUpAt
  <1>. QED BY <1>6, <1>7

\* The recursion has a solution, and it is a number for every subset.
LEMMA SumsUpExists ==
  ASSUME NEW D, NEW f \in [D -> Int], NEW S \in SUBSET D, IsFiniteSet(S)
  PROVE  \E g \in [SUBSET S -> Int] : SumsUp(f, S, g)
  <1>. DEFINE Ts == {T \in SUBSET S : ~\E g \in [SUBSET T -> Int] : SumsUp(f, T, g)}
  <1>. SUFFICES ASSUME Ts # {} PROVE FALSE
    OBVIOUS
  <1>1. PICK T \in Ts : \A U \in Ts : U \subseteq T => U = T
    <2>1. Ts \in SUBSET SUBSET S /\ Ts # {}
      OBVIOUS
    <2>. HIDE DEF Ts
    <2>. QED BY <2>1, MinimalSubset
  <1>2. ASSUME NEW U \in SUBSET T, U # T PROVE \E g \in [SUBSET U -> Int] : SumsUp(f, U, g)
    BY <1>1, <1>2
  <1>. DEFINE Of(U) == CHOOSE g \in [SUBSET U -> Int] : SumsUp(f, U, g)
              h == [U \in SUBSET T |-> IF U = {} THEN 0
                                       ELSE f[Chosen(U)] + Of(U \ {Chosen(U)})[U \ {Chosen(U)}]]
  <1>3. ASSUME NEW U \in SUBSET T, U # T
        PROVE  Of(U) \in [SUBSET U -> Int] /\ SumsUp(f, U, Of(U)) /\ IsFiniteSet(U)
    BY <1>2, <1>3, FS_Subset
  <1>. HIDE DEF Of
  <1>4. ASSUME NEW U \in SUBSET T, U # {}
        PROVE  /\ Chosen(U) \in U /\ U \ {Chosen(U)} \in SUBSET T /\ U \ {Chosen(U)} # T
               /\ f[Chosen(U)] \in Int /\ Of(U \ {Chosen(U)})[U \ {Chosen(U)}] \in Int
    <2>1. Chosen(U) \in U
      BY <1>4, ChosenIn
    <2>2. U \ {Chosen(U)} \in SUBSET T /\ U \ {Chosen(U)} # T
      BY <2>1
    <2>3. Chosen(U) \in D
      BY <2>1
    <2>4. Of(U \ {Chosen(U)}) \in [SUBSET (U \ {Chosen(U)}) -> Int]
      BY <1>3, <2>2
    <2>. QED BY <2>1, <2>2, <2>3, <2>4
  <1>5. h \in [SUBSET T -> Int]
    BY <1>4
  <1>6. ASSUME NEW U \in SUBSET T, U # {}
        PROVE  h[U \ {Chosen(U)}] = Of(U \ {Chosen(U)})[U \ {Chosen(U)}]
    <2>. DEFINE V == U \ {Chosen(U)}
                W == V \ {Chosen(V)}
    <2>1. V \in SUBSET T /\ V # T
      BY <1>4, <1>6
    <2>2. SumsUp(f, V, Of(V)) /\ IsFiniteSet(V) /\ V \in SUBSET V
      BY <1>3, <2>1
    <2>. SUFFICES h[V] = Of(V)[V]
      OBVIOUS
    <2>3. Of(V)[V] = IF V = {} THEN 0 ELSE f[Chosen(V)] + Of(V)[W]
      <3>. DEFINE G == Of(V)
      <3>1. SumsUp(f, V, G)
        BY <2>2
      <3>. HIDE DEF V, G
      <3>2. G[V] = IF V = {} THEN 0 ELSE f[Chosen(V)] + G[V \ {Chosen(V)}]
        BY <3>1, SumsUpAtAll
      <3>. QED BY <3>2 DEF G
    <2>4. CASE V = {}
      BY <2>1, <2>3, <2>4
    <2>5. CASE V # {}
      <3>1. h[V] = f[Chosen(V)] + Of(W)[W]
        BY <2>1, <2>5
      <3>2. W \in SUBSET T /\ W # T
        BY <1>4, <2>1, <2>5
      <3>3. SumsUp(f, W, Of(W)) /\ W \subseteq V /\ W \subseteq W
        BY <1>3, <3>2
      <3>. HIDE DEF V, W
      <3>4. Of(V)[W] = Of(W)[W]
        BY <2>2, <3>3, SumsUpUnique
      <3>. QED BY <2>3, <2>5, <3>1, <3>4
    <2>. QED BY <2>4, <2>5
  <1>7. SumsUp(f, T, h)
    <2>1. ASSUME NEW U \in SUBSET T
          PROVE  h[U] = IF U = {} THEN 0 ELSE f[Chosen(U)] + h[U \ {Chosen(U)}]
      BY <1>6
    <2>. QED BY <2>1 DEF SumsUp
  <1>. QED BY <1>1, <1>5, <1>7

SumIt(f, S) == CHOOSE g : SumsUp(f, S, g)

LEMMA SumIsIt ==
  ASSUME NEW D, NEW f \in [D -> Int], NEW S \in SUBSET D, IsFiniteSet(S)
  PROVE  /\ SumOver(f, S) = SumIt(f, S)[S] /\ SumOver(f, S) \in Int
         /\ SumsUp(f, S, SumIt(f, S))
  <1>1. PICK g \in [SUBSET S -> Int] : SumsUp(f, S, g)
    BY SumsUpExists
  <1>2. SumsUp(f, S, SumIt(f, S))
    BY <1>1 DEF SumIt
  <1>3. SumOver(f, S) = SumIt(f, S)[S]
    BY SumIsChosen DEF SumIt
  <1>. DEFINE h == SumIt(f, S)
  <1>4. SumsUp(f, S, h) /\ S \subseteq S /\ SumOver(f, S) = h[S]
    BY <1>2, <1>3
  <1>. HIDE DEF h
  <1>5. h[S] = g[S]
    BY <1>1, <1>4, SumsUpUnique
  <1>6. g[S] \in Int
    BY <1>1
  <1>. QED BY <1>2, <1>3, <1>4, <1>5, <1>6

\* The two equations of the sum.
LEMMA SumOfNone ==
  ASSUME NEW D, NEW f \in [D -> Int]
  PROVE  SumOver(f, {}) = 0
  <1>1. {} \in SUBSET D /\ IsFiniteSet({})
    BY FS_EmptySet
  <1>. DEFINE h == SumIt(f, {})
  <1>2. SumOver(f, {}) = h[{}] /\ SumsUp(f, {}, h)
    BY <1>1, SumIsIt
  <1>. HIDE DEF h
  <1>3. h[{}] = 0
    BY <1>2, SumsUpAtAll
  <1>. QED BY <1>2, <1>3

LEMMA SumOfChosen ==
  ASSUME NEW D, NEW f \in [D -> Int], NEW S \in SUBSET D, IsFiniteSet(S), S # {}
  PROVE  SumOver(f, S) = f[Chosen(S)] + SumOver(f, S \ {Chosen(S)})
  <1>. DEFINE R == S \ {Chosen(S)}
              g == SumIt(f, S)
              h == SumIt(f, R)
  <1>1. R \in SUBSET D /\ R \subseteq S /\ R \subseteq R /\ IsFiniteSet(R)
    BY FS_Subset
  <1>2. SumOver(f, S) = g[S] /\ SumsUp(f, S, g)
    BY SumIsIt
  <1>3. SumOver(f, R) = h[R] /\ SumsUp(f, R, h)
    <2>. HIDE DEF R
    <2>. QED BY <1>1, SumIsIt
  <1>. HIDE DEF g, h
  <1>4. g[S] = f[Chosen(S)] + g[R]
    BY <1>2, SumsUpAtAll
  <1>5. g[R] = h[R]
    <2>. HIDE DEF R
    <2>. QED BY <1>1, <1>2, <1>3, SumsUpUnique
  <1>. QED BY <1>2, <1>3, <1>4, <1>5

\* It does not matter which element is taken first.
LEMMA SumWithout ==
  ASSUME NEW D, NEW f \in [D -> Int], NEW S \in SUBSET D, IsFiniteSet(S), NEW e \in S
  PROVE  SumOver(f, S) = f[e] + SumOver(f, S \ {e})
  <1>. DEFINE Ts == {T \in SUBSET S : \E x \in T : SumOver(f, T) # f[x] + SumOver(f, T \ {x})}
  <1>. SUFFICES ASSUME Ts # {} PROVE FALSE
    OBVIOUS
  <1>1. PICK T \in Ts : \A U \in Ts : U \subseteq T => U = T
    <2>1. Ts \in SUBSET SUBSET S /\ Ts # {}
      OBVIOUS
    <2>. HIDE DEF Ts
    <2>. QED BY <2>1, MinimalSubset
  <1>2. PICK x \in T : SumOver(f, T) # f[x] + SumOver(f, T \ {x})
    OBVIOUS
  <1>. DEFINE p == Chosen(T)
              P == T \ {p}
              X == T \ {x}
              B == P \ {x}
  <1>3. T \in SUBSET D /\ IsFiniteSet(T) /\ T # {} /\ p \in T
    BY FS_Subset, ChosenIn
  <1>4. SumOver(f, T) = f[p] + SumOver(f, P)
    BY <1>3, SumOfChosen
  <1>5. p # x
    BY <1>2, <1>4
  <1>6. P \notin Ts /\ X \notin Ts
    BY <1>1, <1>3
  <1>7. SumOver(f, P) = f[x] + SumOver(f, B)
    BY <1>5, <1>6
  <1>8. X \ {p} = B /\ p \in X
    BY <1>3, <1>5
  <1>9. SumOver(f, X) = f[p] + SumOver(f, B)
    <2>1. SumOver(f, X) = f[p] + SumOver(f, X \ {p})
      BY <1>6, <1>8
    <2>. QED BY <2>1, <1>8
  <1>10. f[p] \in Int /\ f[x] \in Int /\ SumOver(f, B) \in Int
    <2>1. B \in SUBSET D /\ IsFiniteSet(B)
      BY <1>3, FS_Subset
    <2>. HIDE DEF B
    <2>. QED BY <1>3, <2>1, SumIsIt
  <1>. HIDE DEF P, X, B, p
  <1>11. SumOver(f, T) = f[x] + SumOver(f, X)
    BY <1>4, <1>7, <1>9, <1>10
  <1>. QED BY <1>2, <1>11 DEF X

\* The sum depends on the values at the elements.
LEMMA SumOfEqual ==
  ASSUME NEW D, NEW f \in [D -> Int], NEW g \in [D -> Int], NEW S \in SUBSET D, IsFiniteSet(S),
         \A x \in S : f[x] = g[x]
  PROVE  SumOver(f, S) = SumOver(g, S)
  <1>. DEFINE Ts == {T \in SUBSET S : SumOver(f, T) # SumOver(g, T)}
  <1>. SUFFICES ASSUME Ts # {} PROVE FALSE
    OBVIOUS
  <1>1. PICK T \in Ts : \A U \in Ts : U \subseteq T => U = T
    <2>1. Ts \in SUBSET SUBSET S /\ Ts # {}
      OBVIOUS
    <2>. HIDE DEF Ts
    <2>. QED BY <2>1, MinimalSubset
  <1>2. T \in SUBSET D /\ IsFiniteSet(T)
    BY FS_Subset
  <1>3. T # {}
    BY SumOfNone
  <1>4. Chosen(T) \in T
    BY <1>3, ChosenIn
  <1>5. T \ {Chosen(T)} \notin Ts
    BY <1>1, <1>4
  <1>6. SumOver(f, T \ {Chosen(T)}) = SumOver(g, T \ {Chosen(T)})
    BY <1>5
  <1>7. /\ SumOver(f, T) = f[Chosen(T)] + SumOver(f, T \ {Chosen(T)})
        /\ SumOver(g, T) = g[Chosen(T)] + SumOver(g, T \ {Chosen(T)})
    BY <1>2, <1>3, SumOfChosen
  <1>. QED BY <1>4, <1>6, <1>7

\* One value is replaced.
LEMMA SumExcept ==
  ASSUME NEW D, NEW f \in [D -> Int], NEW g \in [D -> Int], NEW S \in SUBSET D, IsFiniteSet(S),
         NEW e \in D, \A x \in D \ {e} : g[x] = f[x]
  PROVE  SumOver(g, S) = IF e \in S THEN SumOver(f, S) + (g[e] - f[e]) ELSE SumOver(f, S)
  <1>1. CASE e \notin S
    <2>1. \A x \in S : f[x] = g[x]
      BY <1>1
    <2>. QED BY <1>1, <2>1, SumOfEqual
  <1>2. CASE e \in S
    <2>. DEFINE R == S \ {e}
    <2>1. R \in SUBSET D /\ IsFiniteSet(R) /\ \A x \in R : f[x] = g[x]
      BY FS_Subset
    <2>2. SumOver(f, S) = f[e] + SumOver(f, R) /\ SumOver(g, S) = g[e] + SumOver(g, R)
      BY <1>2, SumWithout
    <2>. HIDE DEF R
    <2>3. SumOver(f, R) = SumOver(g, R) /\ SumOver(f, R) \in Int /\ f[e] \in Int /\ g[e] \in Int
      BY <2>1, SumOfEqual, SumIsIt
    <2>. QED BY <1>2, <2>2, <2>3
  <1>. QED BY <1>1, <1>2

\* Nothing adds up to nothing.
LEMMA SumOfZeros ==
  ASSUME NEW D, NEW f \in [D -> Int], NEW S \in SUBSET D, IsFiniteSet(S), \A x \in D : f[x] = 0
  PROVE  SumOver(f, S) = 0
  <1>. DEFINE Ts == {T \in SUBSET S : SumOver(f, T) # 0}
  <1>. SUFFICES ASSUME Ts # {} PROVE FALSE
    OBVIOUS
  <1>1. PICK T \in Ts : \A U \in Ts : U \subseteq T => U = T
    <2>1. Ts \in SUBSET SUBSET S /\ Ts # {}
      OBVIOUS
    <2>. HIDE DEF Ts
    <2>. QED BY <2>1, MinimalSubset
  <1>2. T \in SUBSET D /\ IsFiniteSet(T)
    BY FS_Subset
  <1>3. T # {}
    BY SumOfNone
  <1>4. Chosen(T) \in T /\ Chosen(T) \in D
    BY <1>2, <1>3, ChosenIn
  <1>5. SumOver(f, T \ {Chosen(T)}) = 0
    BY <1>1, <1>4
  <1>6. SumOver(f, T) = f[Chosen(T)] + SumOver(f, T \ {Chosen(T)})
    BY <1>2, <1>3, SumOfChosen
  <1>. QED BY <1>4, <1>5, <1>6

-----------------------------------------------------------------------------
(* What is reserved *)

CallsOf(s) == {c \in Calls : s \in ScopesOf[c]}

ScopeSums == \A s \in Scopes : reservedTokens[s] = SumOver(reserved, CallsOf(s))
HeldAtWork == \A c \in Calls : reserved[c] > 0 => handler[c] \in {"setup", "task"}

LEMMA ExactIs == ReservationsExact <=> ScopeSums /\ HeldAtWork
  BY DEF ReservationsExact, ScopeSums, HeldAtWork, CallsOf, SumOver, MapThenSumSet, MapThenFoldSet

\* The reservation of one call becomes v, in every scope that it is charged to.
Holds(c, v) ==
  /\ reserved' = [reserved EXCEPT ![c] = v]
  /\ reservedTokens' = [s \in Scopes |-> IF s \in ScopesOf[c] THEN reservedTokens[s] + (v - reserved[c])
                                         ELSE reservedTokens[s]]

LEMMA HoldsSums ==
  ASSUME BudgetType, ScopeSums, NEW c \in Calls, NEW v \in Nat, Holds(c, v)
  PROVE  ScopeSums'
  <1>1. /\ reserved \in [Calls -> Int] /\ reserved' \in [Calls -> Int]
        /\ \A d \in Calls \ {c} : reserved'[d] = reserved[d]
        /\ reserved'[c] = v /\ reserved[c] \in Int /\ v \in Int
    BY DEF BudgetType, Holds
  <1>2. ASSUME NEW s \in Scopes PROVE reservedTokens'[s] = SumOver(reserved', CallsOf(s))
    <2>1. /\ CallsOf(s) \in SUBSET Calls /\ IsFiniteSet(CallsOf(s))
          /\ c \in CallsOf(s) <=> s \in ScopesOf[c]
      BY CallsCounted DEF CallsOf
    <2>2. SumOver(reserved', CallsOf(s)) =
            IF c \in CallsOf(s) THEN SumOver(reserved, CallsOf(s)) + (reserved'[c] - reserved[c])
            ELSE SumOver(reserved, CallsOf(s))
      BY <1>1, <2>1, SumExcept
    <2>3. reservedTokens[s] = SumOver(reserved, CallsOf(s))
      BY DEF ScopeSums
    <2>. QED BY <1>1, <2>1, <2>2, <2>3 DEF Holds
  <1>3. ScopeSums' <=> \A s \in Scopes : reservedTokens'[s] = SumOver(reserved', CallsOf(s))
    BY DEF ScopeSums, SumOver, MapThenSumSet, MapThenFoldSet, CallsOf
  <1>. QED BY <1>2, <1>3

LEMMA SameSums ==
  ASSUME ScopeSums, UNCHANGED <<reserved, reservedTokens>>
  PROVE  ScopeSums'
  <1>1. ScopeSums' <=> \A s \in Scopes : reservedTokens'[s] = SumOver(reserved', CallsOf(s))
    BY DEF ScopeSums, SumOver, MapThenSumSet, MapThenFoldSet, CallsOf
  <1>2. \A s \in Scopes : reservedTokens'[s] = SumOver(reserved', CallsOf(s))
    BY DEF ScopeSums
  <1>. QED BY <1>1, <1>2

LEMMA ReserveHolds ==
  ASSUME BudgetType, NEW c \in Calls, reserved[c] = 0, Reserve(c)
  PROVE  \E v \in Nat : Holds(c, v)
  <1>1. PICK r \in 0..Want[c] :
          /\ reserved' = [reserved EXCEPT ![c] = r]
          /\ reservedTokens' = [s \in Scopes |-> IF s \in ScopesOf[c] THEN reservedTokens[s] + r
                                                 ELSE reservedTokens[s]]
    BY DEF Reserve
  <1>2. r \in Nat /\ r - reserved[c] = r
    BY ScriptAssumption
  <1>. QED BY <1>1, <1>2 DEF Holds

LEMMA RemoveHolds ==
  ASSUME BudgetType, NEW c \in Calls, RemoveReservation(c)
  PROVE  Holds(c, 0)
  <1>1. reserved[c] \in Nat /\ \A s \in Scopes : reservedTokens[s] \in Int
    BY DEF BudgetType
  <1>2. \A s \in Scopes : reservedTokens[s] + (0 - reserved[c]) = reservedTokens[s] - reserved[c]
    BY <1>1
  <1>. QED BY <1>2 DEF RemoveReservation, Holds

ExactInv == QuietInv /\ BudgetInv /\ ScopeSums /\ HeldAtWork

LEMMA FailsAt ==
  ASSUME NEW c \in Calls, Fails(c)
  PROVE  \E h \in {"ended", "salvage"} : At(c, h)
  BY DEF Fails

\* A step of a call changes at most its own reservation, and it holds one after the
\* step only while its worktree is made or its attempt runs.
LEMMA CallHolds ==
  ASSUME ExactInv, NEW c \in Calls, CallStep(c)
  PROVE  /\ UNCHANGED <<reserved, reservedTokens>> \/ \E v \in Nat : Holds(c, v)
         /\ reserved'[c] > 0 => handler'[c] \in {"setup", "task"}
         /\ \A d \in Calls \ {c} : handler'[d] = handler[d]
  <1>0. /\ BudgetType /\ HandlerFollows /\ handler \in [Calls -> {"none", "setup", "task", "backoff",
                                                                   "capture", "salvage", "ended"}]
        /\ reserved \in [Calls -> Nat]
    BY DEF ExactInv, QuietInv, WorkTypes, BudgetInv, BudgetType
  <1>1. handler[c] \notin {"setup", "task"} => reserved[c] = 0
    <2>1. reserved[c] \in Nat /\ (reserved[c] > 0 => handler[c] \in {"setup", "task"})
      BY <1>0 DEF ExactInv, HeldAtWork
    <2>. QED BY <2>1
  <1>2. ASSUME NEW h, At(c, h)
        PROVE  handler'[c] = h /\ \A d \in Calls \ {c} : handler'[d] = handler[d]
    BY <1>0, <1>2 DEF At
  <1>3. ASSUME Fails(c)
        PROVE  handler'[c] \notin {"setup", "task"} /\ \A d \in Calls \ {c} : handler'[d] = handler[d]
    BY <1>2, <1>3, FailsAt
  <1>4. ASSUME RemoveReservation(c) PROVE (\E v \in Nat : Holds(c, v)) /\ ~(reserved'[c] > 0)
    <2>1. Holds(c, 0)
      BY <1>0, <1>4, RemoveHolds
    <2>2. reserved'[c] = 0
      BY <1>0, <2>1 DEF Holds
    <2>. QED BY <2>1, <2>2
  <1>5. ASSUME UNCHANGED <<reserved, reservedTokens>>, handler[c] \notin {"setup", "task"}
        PROVE  ~(reserved'[c] > 0)
    BY <1>1, <1>5
  <1>6. CASE Begin(c)
    <2>1. handler[c] = "none"
      BY <1>0, <1>6 DEF Begin, HandlerFollows
    <2>2. CASE UNCHANGED <<reserved, reservedTokens>> /\ At(c, "ended")
      BY <1>2, <1>5, <2>1, <2>2
    <2>3. CASE Reserve(c) /\ \E h \in {"setup", "task"} : At(c, h)
      <3>1. \E v \in Nat : Holds(c, v)
        BY <1>0, <1>1, <2>1, <2>3, ReserveHolds
      <3>. QED BY <1>2, <2>3, <3>1
    <2>4. \/ UNCHANGED <<reserved, reservedTokens>> /\ At(c, "ended")
          \/ Reserve(c) /\ \E h \in {"setup", "task"} : At(c, h)
      BY <1>6 DEF Begin, budget, Charge
    <2>. QED BY <2>2, <2>3, <2>4
  <1>7. CASE SetupEnds(c)
    <2>1. CASE RemoveReservation(c) /\ (Fails(c) \/ At(c, "ended"))
      BY <1>2, <1>3, <1>4, <2>1
    <2>2. CASE UNCHANGED budget /\ At(c, "task")
      BY <1>2, <2>2 DEF budget
    <2>3. \/ RemoveReservation(c) /\ (Fails(c) \/ At(c, "ended"))
          \/ UNCHANGED budget /\ At(c, "task")
      BY <1>7 DEF SetupEnds, Release
    <2>. QED BY <2>1, <2>2, <2>3
  <1>8. CASE TaskEnds(c)
    <2>1. /\ RemoveReservation(c)
          /\ Fails(c) \/ \E h \in {"ended", "capture", "backoff"} : At(c, h)
      BY <1>8 DEF TaskEnds, Release, Reconcile, Completes
    <2>. QED BY <1>2, <1>3, <1>4, <2>1
  <1>9. CASE BackoffEnds(c)
    <2>1. handler[c] = "backoff"
      BY <1>9 DEF BackoffEnds
    <2>2. CASE Fails(c) /\ UNCHANGED budget
      BY <1>3, <1>5, <2>1, <2>2 DEF budget
    <2>3. CASE Reserve(c) /\ \E h \in {"setup", "task"} : At(c, h)
      <3>1. \E v \in Nat : Holds(c, v)
        BY <1>0, <1>1, <2>1, <2>3, ReserveHolds
      <3>. QED BY <1>2, <2>3, <3>1
    <2>4. \/ Fails(c) /\ UNCHANGED budget
          \/ Reserve(c) /\ \E h \in {"setup", "task"} : At(c, h)
      <3>1. (Fails(c) /\ UNCHANGED budget) \/ Attempt(c)
        BY <1>9 DEF BackoffEnds
      <3>2. Attempt(c) => \/ Fails(c) /\ UNCHANGED budget
                          \/ Reserve(c) /\ (At(c, "setup") \/ At(c, "task"))
        BY DEF Attempt
      <3>. QED BY <3>1, <3>2
    <2>. QED BY <2>2, <2>3, <2>4
  <1>10. CASE CaptureEnds(c) \/ SalvageEnds(c)
    <2>1. /\ handler[c] \notin {"setup", "task"} /\ UNCHANGED <<reserved, reservedTokens>>
          /\ Fails(c) \/ At(c, "ended")
      BY <1>10 DEF CaptureEnds, SalvageEnds, Completes, budget
    <2>. QED BY <1>2, <1>3, <1>5, <2>1
  <1>11. CASE Issue(c) \/ GoesOn(c) \/ OperationEnds(c)
    <2>1. UNCHANGED <<reserved, reservedTokens, handler>>
      BY <1>11 DEF Issue, GoesOn, OperationEnds, work, budget
    <2>2. reserved[c] > 0 => handler[c] \in {"setup", "task"}
      BY DEF ExactInv, HeldAtWork
    <2>. QED BY <2>1, <2>2
  <1>. QED BY <1>6, <1>7, <1>8, <1>9, <1>10, <1>11 DEF CallStep

LEMMA ExactStep == ExactInv /\ [Next]_vars => ExactInv'
  <1>. SUFFICES ASSUME ExactInv, [Next]_vars PROVE ExactInv'
    OBVIOUS
  <1>1. QuietInv' /\ BudgetInv'
    BY QuietInvStep, BudgetStep DEF ExactInv
  <1>2. ASSUME NEW c \in Calls, CallStep(c) PROVE ScopeSums' /\ HeldAtWork'
    <2>1. /\ UNCHANGED <<reserved, reservedTokens>> \/ \E v \in Nat : Holds(c, v)
          /\ reserved'[c] > 0 => handler'[c] \in {"setup", "task"}
          /\ \A d \in Calls \ {c} : handler'[d] = handler[d]
      BY <1>2, CallHolds
    <2>2. BudgetType /\ ScopeSums /\ HeldAtWork
      BY DEF ExactInv, BudgetInv
    <2>3. ScopeSums'
      BY <2>1, <2>2, HoldsSums, SameSums
    <2>4. \A d \in Calls \ {c} : reserved'[d] = reserved[d]
      BY <2>1, <2>2 DEF Holds, BudgetType
    <2>5. HeldAtWork'
      BY <2>1, <2>2, <2>4 DEF HeldAtWork
    <2>. QED BY <2>3, <2>5
  <1>3. ASSUME UNCHANGED <<reserved, reservedTokens, handler>> PROVE ScopeSums' /\ HeldAtWork'
    <2>1. ScopeSums'
      BY <1>3, SameSums DEF ExactInv
    <2>2. HeldAtWork'
      BY <1>3 DEF ExactInv, HeldAtWork
    <2>. QED BY <2>1, <2>2
  <1>4. ASSUME RunStep \/ \E o \in {"value", "error"} : Settles(o)
        PROVE  UNCHANGED <<reserved, reservedTokens, handler>>
    BY <1>4 DEF RunStep, Settles, Yields, LimitReached, Cancel, CleanupStarts, CleanupEnds,
           Resolved, ExecutionEnds, Finalize, budget, work
  <1>. QED BY <1>1, <1>2, <1>3, <1>4 DEF ExactInv, Next, vars, budget, work

\* What a scope counts as reserved is the sum of what the attempts under way hold:
\* every reservation is settled exactly once, on each of the ways in which an
\* attempt can end, and only an attempt whose worktree is made or which runs has
\* one (reserve, reconcile and release of token-budget.ts).
THEOREM ReservationsAddUp == Spec => []ReservationsExact
  <1>1. Init => ExactInv
    <2>. SUFFICES ASSUME Init PROVE ExactInv
      OBVIOUS
    <2>1. QuietInv
      BY QuietAtInit
    <2>2. BudgetInv
      BY ScriptAssumption DEF Init, BudgetInv, BudgetType, NotOversubscribed
    <2>3. reserved \in [Calls -> Int] /\ \A c \in Calls : reserved[c] = 0
      BY DEF Init
    <2>4. ASSUME NEW s \in Scopes PROVE reservedTokens[s] = SumOver(reserved, CallsOf(s))
      <3>1. CallsOf(s) \in SUBSET Calls /\ IsFiniteSet(CallsOf(s))
        BY CallsCounted DEF CallsOf
      <3>2. SumOver(reserved, CallsOf(s)) = 0
        BY <2>3, <3>1, SumOfZeros
      <3>. QED BY <3>2 DEF Init
    <2>5. HeldAtWork
      BY <2>3 DEF HeldAtWork
    <2>. QED BY <2>1, <2>2, <2>4, <2>5 DEF ExactInv, ScopeSums
  <1>2. ExactInv => ReservationsExact
    BY ExactIs DEF ExactInv
  <1>. QED BY <1>1, <1>2, ExactStep, PTL DEF Spec
=============================================================================
