---------------------------- MODULE ScriptCalls ----------------------------
(***************************************************************************)
(* One run of a JavaScript workflow: the script in its interpreter, the    *)
(* host operations its agent() calls start, the run's own limit on them,   *)
(* the handler that reserves tokens and runs the attempts of each call,    *)
(* and the end of the run (pi-extension-workflows/src/script-runtime.ts,   *)
(* script-runner.ts and token-budget.ts).                                  *)
(*                                                                         *)
(* The script runs only in its turns: when it is started and when a call   *)
(* of it has ended. Nothing else happens during a turn, and what it calls  *)
(* begins before anything that was woken before the turn goes on.          *)
(***************************************************************************)
EXTENDS Integers, FiniteSetsExt, Sequences

CONSTANTS
  Calls,            \* the agent() calls the script may come to make
  MaxConcurrency,   \* script.meta.pi.maxConcurrency
  Scopes,           \* the token budgets: of the run, and of each phase
  ScopesOf,         \* those that a call is charged to
  Limit,            \* maxTokens of a scope
  Want,             \* the call's own maxTokens, or the agent's if that is less
  MaxUsage,         \* bound: the most tokens that an attempt reports
  Attempts,         \* retry.maxAttempts
  Isolated,         \* calls that may write, and get a worktree and one attempt
  Cached            \* calls whose result the replay cache has

ASSUME ScriptAssumption ==
  /\ IsFiniteSet(Calls) /\ IsFiniteSet(Scopes)
  /\ MaxConcurrency \in Nat \ {0} /\ Attempts \in Nat \ {0} /\ MaxUsage \in Nat
  /\ ScopesOf \in [Calls -> SUBSET Scopes]
  /\ Limit \in [Scopes -> Nat \ {0}] /\ Want \in [Calls -> Nat \ {0}]
  /\ Isolated \subseteq Calls /\ Cached \subseteq Calls

VARIABLES
  \* the interpreter and its host
  turn,             \* the script is running
  outcome,          \* how its promise settled
  stop,             \* the reason with which the controller is aborted
  exec,             \* executeWorkflowScript
  verdict,          \* what it returns or throws
  \* host operations and the semaphore
  op, slots, line,
  \* the agent handler of a call, and its task record
  handler, attempt, task, tree,
  \* token budgets
  reserved,         \* the reservation each call holds
  reservedTokens, measured,
  excess,           \* history: what was charged beyond a reservation
  \* the run
  cancelled,        \* the signal of the run manager
  status

script    == <<turn, outcome, stop, exec, verdict>>
calls     == <<op, slots, line>>
work      == <<handler, attempt, task, tree>>
budget    == <<reserved, reservedTokens, measured, excess>>
run       == <<cancelled, status>>
vars      == <<script, calls, work, budget, run>>

Finalized == status # "running"
Under     == {"waiting", "woken", "granted", "running", "refused"}
HostOperations == {c \in Calls : op[c] \in Under}
Smaller(m, n) == IF m < n THEN m ELSE n

-----------------------------------------------------------------------------
(* The semaphore of the run: createSemaphore *)

HandsOver ==                        \* mutant of Wake: the waiter is not woken
  /\ slots' = slots - 1
  /\ UNCHANGED line

\* The release: the first that waits is told to go on, which it does later.
Wake ==
  /\ slots' = slots - 1
  /\ line' = IF line = <<>> THEN line ELSE Tail(line)

Woken == IF line' = line THEN {} ELSE {Head(line)}

\* A call of the script, up to its first await. Invalid requests, and those
\* beyond maxAgents, are refused.
Issue(c) ==
  /\ turn /\ op[c] = "new"
  /\ \/ op' = [op EXCEPT ![c] = "ended"] /\ UNCHANGED <<slots, line>>
     \/ /\ stop = "no" /\ slots < MaxConcurrency
        /\ op' = [op EXCEPT ![c] = "granted"] /\ slots' = slots + 1 /\ UNCHANGED line
     \/ /\ stop = "no" /\ slots >= MaxConcurrency
        /\ op' = [op EXCEPT ![c] = "waiting"] /\ line' = Append(line, c) /\ UNCHANGED slots
  /\ UNCHANGED <<script, work, budget, run>>

\* A waiter that was told to go on takes a slot, without looking for one.
GoesOn(c) ==
  /\ ~turn /\ op[c] = "woken"
  /\ IF stop = "no"
     THEN op' = [op EXCEPT ![c] = "granted"] /\ slots' = slots + 1
     ELSE op' = [op EXCEPT ![c] = "refused"] /\ UNCHANGED slots
  /\ UNCHANGED <<line, script, work, budget, run>>

\* The operation settles the script's promise, gives its slot back and lets the
\* script run. When the controller is aborted it does not wait for its handler.
OperationEnds(c) ==
  /\ ~turn
  /\ \/ op[c] = "refused" /\ op' = [op EXCEPT ![c] = "ended"] /\ UNCHANGED <<slots, line>>
     \/ /\ op[c] = "running" /\ (handler[c] = "ended" \/ stop # "no")
        /\ Wake
        /\ op' = [d \in Calls |-> IF d = c THEN "ended" ELSE IF d \in Woken THEN "woken" ELSE op[d]]
  /\ turn' = (exec # "ended")
  /\ UNCHANGED <<outcome, stop, exec, verdict, work, budget, run>>

-----------------------------------------------------------------------------
(* Token budgets: createTokenBudgetController *)

Quantum(s) ==
  LET share == Limit[s] \div (IF MaxConcurrency > 2 THEN MaxConcurrency ELSE 2)
  IN  IF share < 1 THEN 1 ELSE share

Spent(s) ==                         \* mutant of Available: reservations do not count
  Limit[s] - measured[s]

Available(s) == Limit[s] - measured[s] - reservedTokens[s]

\* What reserve takes: the least of the caps.
Takes(c, r) ==
  /\ r > 0 /\ r <= Want[c]
  /\ \A s \in ScopesOf[c] : r <= Available(s) /\ r <= Quantum(s)
  /\ \/ r = Want[c]
     \/ \E s \in ScopesOf[c] : r = Available(s) \/ r = Quantum(s)

Denied(c) == \E s \in ScopesOf[c] : Available(s) <= 0

Reserve(c) ==
  \E r \in 0..Want[c] :
    /\ IF ScopesOf[c] = {} THEN r = 0 ELSE Takes(c, r)
    /\ reserved' = [reserved EXCEPT ![c] = r]
    /\ reservedTokens' = [s \in Scopes |-> IF s \in ScopesOf[c] THEN reservedTokens[s] + r
                                           ELSE reservedTokens[s]]
    /\ UNCHANGED <<measured, excess>>

RemoveReservation(c) ==
  /\ reserved' = [reserved EXCEPT ![c] = 0]
  /\ reservedTokens' = [s \in Scopes |-> IF s \in ScopesOf[c] THEN reservedTokens[s] - reserved[c]
                                         ELSE reservedTokens[s]]

KeepsReservation(c) == UNCHANGED budget   \* mutant of Release

Release(c) == RemoveReservation(c) /\ UNCHANGED <<measured, excess>>

\* usage is charged, of which a reservation covered as much.
Measure(c, usage, covered) ==
  /\ measured' = [s \in Scopes |-> IF s \in ScopesOf[c] THEN measured[s] + usage ELSE measured[s]]
  /\ excess' = [s \in Scopes |->
                  IF s \in ScopesOf[c] /\ usage > covered THEN excess[s] + (usage - covered) ELSE excess[s]]

Reconcile(c, usage) == RemoveReservation(c) /\ Measure(c, usage, reserved[c])

Charge(c, usage) == Measure(c, usage, 0) /\ UNCHANGED <<reserved, reservedTokens>>

\* tokenBudgetExceeded, after the charge
Exceeded(c) == \E s \in ScopesOf[c] : measured'[s] > Limit[s]

-----------------------------------------------------------------------------
(* The handler of a call: agent of runJavaScriptWorkflow *)

At(c, stage) == handler' = [handler EXCEPT ![c] = stage]
Bad == IF stop # "no" THEN "cancelled" ELSE "failed"

FailsLate(c) ==                     \* mutant of Fails: without the check of finalized
  /\ At(c, "ended") /\ task' = [task EXCEPT ![c] = Bad]

\* The catch of the handler. What a worktree holds is captured first.
Fails(c) ==
  IF Finalized THEN At(c, "ended") /\ UNCHANGED task
  ELSE IF tree[c] # "none" THEN At(c, "salvage") /\ UNCHANGED task
  ELSE At(c, "ended") /\ task' = [task EXCEPT ![c] = Bad]

Completes(c) ==
  /\ At(c, "ended")
  /\ task' = [task EXCEPT ![c] = "completed"]

\* An attempt: the reservation, then the worktree, if it takes one.
Attempt(c) ==
  \/ Denied(c) /\ Fails(c) /\ UNCHANGED budget
  \/ /\ ~Denied(c) /\ Reserve(c)
     /\ At(c, IF c \in Isolated THEN "setup" ELSE "task")
     /\ UNCHANGED task

\* The handler begins. The policy or a budget may deny it, a replayed result after
\* its charge, too.
Begin(c) ==
  /\ ~turn /\ op[c] = "granted"
  /\ op' = [op EXCEPT ![c] = "running"]
  /\ \/ /\ Finalized
        /\ At(c, "ended") /\ UNCHANGED <<task, attempt, budget>>
     \/ /\ ~Finalized
        /\ attempt' = [attempt EXCEPT ![c] = 1]
        /\ \/ At(c, "ended") /\ task' = [task EXCEPT ![c] = Bad] /\ UNCHANGED budget
           \/ /\ c \in Cached
              /\ \E usage \in 0..MaxUsage : Charge(c, usage)
              /\ At(c, "ended")
              /\ \E end \in {Bad} \cup (IF Exceeded(c) THEN {} ELSE {"completed"}) :
                   task' = [task EXCEPT ![c] = end]
           \/ /\ c \notin Cached
              /\ ~Denied(c) /\ Reserve(c)
              /\ At(c, IF c \in Isolated THEN "setup" ELSE "task")
              /\ task' = [task EXCEPT ![c] = "running"]
  /\ UNCHANGED <<slots, line, script, tree, run>>

\* The worktree is there, and goes into the record before anything is checked.
SetupEnds(c) ==
  /\ ~turn /\ handler[c] = "setup"
  /\ \/ Release(c) /\ Fails(c) /\ UNCHANGED tree
     \/ /\ tree' = [tree EXCEPT ![c] = "made"] /\ UNCHANGED task
        /\ IF Finalized THEN Release(c) /\ At(c, "ended")
           ELSE UNCHANGED budget /\ At(c, "task")
  /\ UNCHANGED <<attempt, script, calls, run>>

\* The scheduler is done with the attempt. An unmeasured reservation is released;
\* otherwise what was used is charged, and the attempt may be repeated.
TaskEnds(c) ==
  /\ ~turn /\ handler[c] = "task"
  /\ \/ /\ Release(c) /\ Fails(c) /\ UNCHANGED attempt
     \/ /\ ~Finalized
        /\ \E usage \in 0..MaxUsage : Reconcile(c, usage)
        /\ \/ Fails(c) /\ UNCHANGED attempt
           \/ /\ ~Exceeded(c) /\ UNCHANGED attempt
              /\ IF tree[c] # "none" THEN At(c, "capture") /\ UNCHANGED task ELSE Completes(c)
           \/ /\ ~Exceeded(c) /\ attempt[c] < Attempts /\ c \notin Isolated
              /\ attempt' = [attempt EXCEPT ![c] = @ + 1]
              /\ At(c, "backoff") /\ UNCHANGED task
  /\ UNCHANGED <<tree, script, calls, run>>

\* The delay before the next attempt is over; an abort ends it as a failure.
BackoffEnds(c) ==
  /\ ~turn /\ handler[c] = "backoff"
  /\ \/ stop # "no" /\ Fails(c) /\ UNCHANGED budget
     \/ Attempt(c)
  /\ UNCHANGED <<attempt, tree, script, calls, run>>

\* The worktree of a call that has succeeded is captured. The budgets of the run
\* may still fail it.
CaptureEnds(c) ==
  /\ ~turn /\ handler[c] = "capture"
  /\ \/ Fails(c) /\ UNCHANGED tree
     \/ /\ tree' = [tree EXCEPT ![c] = "captured"]
        /\ \/ Fails(c)
           \/ ~Finalized /\ Completes(c)
  /\ UNCHANGED <<attempt, budget, script, calls, run>>

\* The worktree of a call that has failed is captured, as far as that is possible.
SalvageEnds(c) ==
  /\ ~turn /\ handler[c] = "salvage"
  /\ At(c, "ended")
  /\ \E t \in {"captured", tree[c]} : tree' = [tree EXCEPT ![c] = t]
  /\ task' = IF Finalized THEN task ELSE [task EXCEPT ![c] = Bad]
  /\ UNCHANGED <<attempt, budget, script, calls, run>>

-----------------------------------------------------------------------------
(* The script and the end of the run: executeWorkflowScript *)

Yields ==
  /\ turn /\ turn' = FALSE
  /\ UNCHANGED <<outcome, stop, exec, verdict, calls, work, budget, run>>

\* The promise of the script settles, whatever it has left running.
Settles(o) ==
  /\ turn /\ outcome = "none" /\ outcome' = o
  /\ UNCHANGED <<turn, stop, exec, verdict, calls, work, budget, run>>

\* The controller is aborted: all who wait at the semaphore give up.
Aborts(reason) ==
  /\ stop' = IF stop = "no" THEN reason ELSE stop
  /\ line' = <<>>
  /\ op' = [c \in Calls |-> IF op[c] = "waiting" THEN "refused" ELSE op[c]]
  /\ UNCHANGED slots

\* The timer of the run, or a limit of the interpreter during a turn.
LimitReached ==
  /\ stop = "no" /\ exec # "ended"
  /\ Aborts("failed")
  /\ UNCHANGED <<turn, outcome, exec, verdict, work, budget, run>>

\* The run manager cancels the run. Once the interpreter is gone nobody listens.
Cancel ==
  /\ ~turn /\ ~cancelled /\ ~Finalized
  /\ cancelled' = TRUE
  /\ IF exec = "ended" THEN UNCHANGED <<stop, calls>> ELSE Aborts("cancelled")
  /\ UNCHANGED <<turn, outcome, exec, verdict, work, budget, status>>

StartsOnlySettled ==                \* mutant of CleanupStarts: waits for the script
  /\ ~turn /\ exec = "running" /\ outcome # "none" /\ stop # "no"
  /\ exec' = "cleanup"
  /\ UNCHANGED <<turn, outcome, stop, verdict, calls, work, budget, run>>

\* After an abort the script has a moment, and so have the host operations; then
\* the run ends without them.
CleanupStarts ==
  /\ ~turn /\ exec = "running" /\ outcome = "none" /\ stop # "no"
  /\ exec' = "cleanup"
  /\ UNCHANGED <<turn, outcome, stop, verdict, calls, work, budget, run>>

CleanupEnds ==
  /\ ~turn /\ exec = "cleanup" /\ outcome = "none"
  /\ exec' = "ended" /\ verdict' = stop
  /\ UNCHANGED <<turn, outcome, stop, calls, work, budget, run>>

Thrown == IF stop = "no" THEN "failed" ELSE stop

TakesValue ==                       \* mutant of Resolved: outstanding operations are not looked for
  /\ ~turn /\ exec \in {"running", "cleanup"} /\ outcome # "none"
  /\ verdict' = IF outcome = "value" /\ stop = "no" THEN "completed" ELSE Thrown
  /\ exec' = IF exec = "cleanup" THEN "ended" ELSE "ending"
  /\ UNCHANGED <<turn, outcome, stop, calls, work, budget, run>>

\* The promise has settled. A script that leaves operations behind has failed, and
\* so has one that returns nothing, or what is no JSON.
Resolved ==
  /\ ~turn /\ exec \in {"running", "cleanup"}
  /\ \/ /\ outcome = "error"
        /\ verdict' = Thrown /\ UNCHANGED <<stop, calls>>
        /\ exec' = IF exec = "cleanup" THEN "ended" ELSE "ending"
     \/ /\ outcome = "value" /\ HostOperations # {}
        /\ verdict' = "failed" /\ Aborts("failed") /\ exec' = "ending"
     \/ /\ outcome = "value" /\ HostOperations = {}
        /\ verdict' \in IF stop = "no" THEN {"completed", "failed"} ELSE {stop}
        /\ exec' = "ending" /\ UNCHANGED <<stop, calls>>
  /\ UNCHANGED <<turn, outcome, work, budget, run>>

\* The host operations have ended or had their time.
ExecutionEnds ==
  /\ ~turn /\ exec = "ending" /\ exec' = "ended"
  /\ UNCHANGED <<turn, outcome, stop, verdict, calls, work, budget, run>>

\* The catch and finally of runJavaScriptWorkflow.
Finalize ==
  /\ ~turn /\ exec = "ended" /\ ~Finalized
  /\ status' = IF verdict = "completed" THEN "completed" ELSE IF cancelled THEN "cancelled" ELSE verdict
  /\ task' = [c \in Calls |-> IF task[c] # "running" THEN task[c]
                              ELSE IF status' = "cancelled" THEN "cancelled" ELSE "failed"]
  /\ UNCHANGED <<cancelled, handler, attempt, tree, script, calls, budget>>

-----------------------------------------------------------------------------
Init ==
  /\ turn = TRUE /\ outcome = "none" /\ stop = "no" /\ exec = "running" /\ verdict = "none"
  /\ op = [c \in Calls |-> "new"] /\ slots = 0 /\ line = <<>>
  /\ handler = [c \in Calls |-> "none"] /\ attempt = [c \in Calls |-> 0]
  /\ task = [c \in Calls |-> "none"] /\ tree = [c \in Calls |-> "none"]
  /\ reserved = [c \in Calls |-> 0]
  /\ reservedTokens = [s \in Scopes |-> 0] /\ measured = [s \in Scopes |-> 0]
  /\ excess = [s \in Scopes |-> 0]
  /\ cancelled = FALSE /\ status = "running"

CallStep(c) ==
  \/ Issue(c) \/ GoesOn(c) \/ Begin(c) \/ OperationEnds(c)
  \/ SetupEnds(c) \/ TaskEnds(c) \/ BackoffEnds(c) \/ CaptureEnds(c) \/ SalvageEnds(c)

RunStep ==
  \/ Yields \/ LimitReached \/ Cancel
  \/ CleanupStarts \/ CleanupEnds \/ Resolved \/ ExecutionEnds \/ Finalize

Next ==
  \/ \E c \in Calls : CallStep(c)
  \/ RunStep
  \/ \E o \in {"value", "error"} : Settles(o)

Spec == Init /\ [][Next]_vars

\* A turn ends, by the interrupt handler if need be; the timer of the run fires;
\* microtasks and timers of the end of the run run. Nothing is assumed of what
\* the handlers wait for, or of the script.
FairSpec ==
  /\ Spec
  /\ WF_vars(Yields) /\ WF_vars(LimitReached)
  /\ WF_vars(CleanupStarts) /\ WF_vars(CleanupEnds)
  /\ WF_vars(Resolved) /\ WF_vars(ExecutionEnds) /\ WF_vars(Finalize)

-----------------------------------------------------------------------------
(* Properties *)

TypeOK ==
  /\ turn \in BOOLEAN /\ outcome \in {"none", "value", "error"}
  /\ stop \in {"no", "failed", "cancelled"} /\ exec \in {"running", "cleanup", "ending", "ended"}
  /\ verdict \in {"none", "completed", "failed", "cancelled"}
  /\ op \in [Calls -> Under \cup {"new", "ended"}] /\ slots \in Int /\ line \in Seq(Calls)
  /\ handler \in [Calls -> {"none", "setup", "task", "backoff", "capture", "salvage", "ended"}]
  /\ attempt \in [Calls -> 0..Attempts]
  /\ task \in [Calls -> {"none", "running", "completed", "failed", "cancelled"}]
  /\ tree \in [Calls -> {"none", "made", "captured"}]
  /\ reserved \in [Calls -> Nat] /\ reservedTokens \in [Scopes -> Int]
  /\ measured \in [Scopes -> Int] /\ excess \in [Scopes -> Nat]
  /\ cancelled \in BOOLEAN /\ status \in {"running", "completed", "failed", "cancelled"}

\* Every reservation is settled exactly once: what a scope counts as reserved is
\* what the attempts under way hold, however they have come to end
\* (script-runner.ts, "exactly once").
ReservationsExact ==
  /\ \A s \in Scopes :
       reservedTokens[s] = MapThenSumSet(LAMBDA c : reserved[c], {c \in Calls : s \in ScopesOf[c]})
  /\ \A c \in Calls : reserved[c] > 0 => handler[c] \in {"setup", "task"}

\* Calls that run at the same time do not oversubscribe a scope: it is exceeded
\* only by what attempts used beyond their reservations, or a replay charged
\* (DEVELOPMENT.md:170).
NotOversubscribed == \A s \in Scopes : measured[s] + reservedTokens[s] <= Limit[s] + excess[s]

\* A run is reported as completed only when nothing of it can still change its
\* record, and no call of it was cut off (the check of outstanding operations).
CompletedMeansQuiet ==
  verdict = "completed" \/ status = "completed" =>
    \A c \in Calls : /\ op[c] \notin Under /\ handler[c] \in {"none", "ended"}
                     /\ task[c] \in {"none", "completed", "failed"}

\* The record of a finished run shows no call as running, and it stays as it is,
\* though handlers may go on (the finally of runJavaScriptWorkflow).
FinishedRecord == Finalized => \A c \in Calls : task[c] # "running"
StatusesFrozen == [][Finalized => UNCHANGED <<task, status>>]_vars

\* No call waits for the run's limit while a slot is free or nobody has been told
\* to take it (createSemaphore).
WaitsForAReason ==
  line # <<>> => slots + Cardinality({c \in Calls : op[c] = "woken"}) >= MaxConcurrency

\* The run ends, whatever the script and its agents do.
RunFinalizes == <>Finalized

\* tests/script-runtime.test.mjs:54: the host enforces the run's limit.
ConcurrencyBounded == Cardinality({c \in Calls : op[c] \in {"granted", "running"}}) <= MaxConcurrency

\* script-runner.ts:327-328: no late callback changes the record of a run that
\* has been returned.
NoLateMutation == [][Finalized => UNCHANGED <<task, tree, status>>]_vars
=============================================================================
