----------------------------- MODULE RunManager -----------------------------
(***************************************************************************)
(* The life of the workflow runs of one session and of what the disk says  *)
(* about them (pi-extension-workflows/src/run-manager.ts, run-storage.ts). *)
(*                                                                         *)
(* A launch stores the run before it accepts it.  The runner then changes  *)
(* the run in memory; every change is snapshotted and written by a queue   *)
(* of the run's own, one file after the other, and a write that fails is   *)
(* skipped.  The host shuts down in an orderly way or goes away at any     *)
(* moment; the next one restores what it finds.                            *)
(*                                                                         *)
(* Of a snapshot only the status is kept, and of its files only run.json:  *)
(* events, calls and usage follow it in the same item of the queue, and    *)
(* nothing here reads them.                                                *)
(***************************************************************************)
EXTENDS Integers, Sequences

CONSTANTS
  Runs,        \* run ids; each is launched once
  DiskFails,   \* whether a write may fail
  MaxQueue     \* bound: no update, pause or resume while so many writes are queued

ASSUME ManagerAssumption == DiskFails \in BOOLEAN /\ MaxQueue \in Nat

VARIABLES
  launch,   \* how far the launch of each run has come
  taken,    \* the status in the record that the launch writes
  status,   \* run.status
  aborted,  \* whether the run's controller is aborted
  exec,     \* how far its execution has come
  queue,    \* its writeQueue
  host,     \* the process
  waits,    \* the runs shutdown waits for, or the records restore has yet to look at
  owed,     \* the queued writes shutdown still waits for
  run,      \* run.json of each run
  result,   \* result.json
  final,    \* history: how the run ended in memory
  lost      \* history: the last write of run.json failed

runVars  == <<launch, taken, status, aborted, exec, queue, final>>
hostVars == <<host, waits, owed>>
diskVars == <<run, result, lost>>
vars == <<runVars, hostVars, diskVars>>

Terminal == {"completed", "failed", "cancelled"}
Statuses == {"queued", "validating", "running", "paused"} \cup Terminal
Alive    == host \in {"up", "stopping", "flushing"}
Managed(r) == launch[r] \in {"storing", "writing", "noting", "accepted"}
Active   == {r \in Runs : Managed(r) /\ status[r] \notin Terminal}

-----------------------------------------------------------------------------
\* A change of the run in memory, snapshotted for the queue.
Becomes(r, st) ==
  /\ status' = [status EXCEPT ![r] = st]
  /\ final' = [final EXCEPT ![r] = IF @ = "none" /\ st \in Terminal THEN st ELSE @]
  /\ queue' = [queue EXCEPT ![r] = Append(@, st)]

LaunchStarts(r) ==
  /\ Alive /\ launch[r] = "new"
  /\ launch' = [launch EXCEPT ![r] = "storing"]
  /\ UNCHANGED <<taken, status, aborted, exec, queue, final, hostVars, diskVars>>

\* Source and policy are stored; then the run's record is taken and written.
LaunchTakes(r) ==
  /\ Alive /\ launch[r] = "storing"
  /\ launch' = [launch EXCEPT ![r] = "writing"]
  /\ taken' = [taken EXCEPT ![r] = status[r]]
  /\ UNCHANGED <<status, aborted, exec, queue, final, hostVars, diskVars>>

LaunchRecords(r) ==
  /\ Alive /\ launch[r] = "writing"
  /\ launch' = [launch EXCEPT ![r] = "noting"]
  /\ run' = [run EXCEPT ![r] = taken[r]]
  /\ UNCHANGED <<taken, status, aborted, exec, queue, final, hostVars, result, lost>>

LaunchAccepts(r) ==
  /\ Alive /\ launch[r] = "noting"
  /\ launch' = [launch EXCEPT ![r] = "accepted"]
  /\ UNCHANGED <<taken, status, aborted, exec, queue, final, hostVars, diskVars>>

LaunchFails(r) ==
  /\ Alive /\ DiskFails
  /\ launch[r] \in {"storing", "writing", "noting"}
  /\ launch' = [launch EXCEPT ![r] = "refused"]
  /\ UNCHANGED <<taken, status, aborted, exec, queue, final, hostVars, diskVars>>

-----------------------------------------------------------------------------
(* The execution of an accepted run. A transition out of a status that shutdown
   has made final throws. *)

RunnerStarts(r) ==
  /\ Alive /\ launch[r] = "accepted" /\ exec[r] = "idle"
  /\ IF status[r] \in Terminal
     THEN exec' = [exec EXCEPT ![r] = "returned"] /\ UNCHANGED <<status, queue, final>>
     ELSE exec' = [exec EXCEPT ![r] = "started"] /\ Becomes(r, "validating")
  /\ UNCHANGED <<launch, taken, aborted, hostVars, diskVars>>

RunnerRuns(r) ==
  /\ Alive /\ exec[r] = "started" /\ status[r] \notin Terminal
  /\ exec' = [exec EXCEPT ![r] = "working"]
  /\ Becomes(r, "running")
  /\ UNCHANGED <<launch, taken, aborted, hostVars, diskVars>>

RunnerUpdates(r) ==
  /\ Alive /\ exec[r] = "working" /\ Len(queue[r]) < MaxQueue
  /\ Becomes(r, status[r])
  /\ UNCHANGED <<launch, taken, aborted, exec, hostVars, diskVars>>

AnyEnd(r, end) == end                           \* mutant of EndStatus: the status is assigned
EndStatus(r, end) == IF status[r] \in Terminal THEN status[r] ELSE end

\* The script returns, throws or is cancelled.
RunnerEnds(r, end) ==
  /\ Alive /\ exec[r] \in {"started", "working"}
  /\ end = "completed" => exec[r] = "working"
  /\ end = "failed" => ~aborted[r]
  /\ exec' = [exec EXCEPT ![r] = "returned"]
  /\ Becomes(r, EndStatus(r, end))
  /\ UNCHANGED <<launch, taken, aborted, hostVars, diskVars>>

FinishesAtOnce(r) ==                            \* mutant of Finishes: the result passes the queue
  /\ Alive /\ exec[r] = "returned"
  /\ exec' = [exec EXCEPT ![r] = "ended"]
  /\ queue' = [queue EXCEPT ![r] = Append(@, status[r])]
  /\ result' = [result EXCEPT ![r] = status[r]]
  /\ UNCHANGED <<launch, taken, status, aborted, final, hostVars, run, lost>>

\* The finally of the execution: the finished run and then its result are queued.
Finishes(r) ==
  /\ Alive /\ exec[r] = "returned"
  /\ exec' = [exec EXCEPT ![r] = "ended"]
  /\ queue' = [queue EXCEPT ![r] = Append(Append(@, status[r]), "result")]
  /\ UNCHANGED <<launch, taken, status, aborted, final, hostVars, diskVars>>

\* Everything is written: completion is resolved.
Settles(r) ==
  /\ Alive /\ exec[r] = "ended" /\ queue[r] = <<>>
  /\ exec' = [exec EXCEPT ![r] = "settled"]
  /\ UNCHANGED <<launch, taken, status, aborted, queue, final, hostVars, diskVars>>

Pause(r) ==
  /\ Alive /\ Managed(r) /\ status[r] = "running" /\ Len(queue[r]) < MaxQueue
  /\ Becomes(r, "paused")
  /\ UNCHANGED <<launch, taken, aborted, exec, hostVars, diskVars>>

Resume(r) ==
  /\ Alive /\ Managed(r) /\ status[r] = "paused" /\ Len(queue[r]) < MaxQueue
  /\ Becomes(r, "running")
  /\ UNCHANGED <<launch, taken, aborted, exec, hostVars, diskVars>>

Abort(r) ==
  /\ Alive /\ r \in Active /\ ~aborted[r]
  /\ aborted' = [aborted EXCEPT ![r] = TRUE]
  /\ UNCHANGED <<launch, taken, status, exec, queue, final, hostVars, diskVars>>

-----------------------------------------------------------------------------
(* The write queue *)

Dequeued(r) ==
  /\ queue' = [queue EXCEPT ![r] = Tail(@)]
  /\ owed' = [owed EXCEPT ![r] = IF @ = 0 THEN 0 ELSE @ - 1]

\* atomicWrite: the file is the old one or the new one. A result reads the
\* status when it is written.
WriteDone(r) ==
  /\ Alive /\ queue[r] # <<>>
  /\ IF Head(queue[r]) = "result"
     THEN /\ result' = [result EXCEPT ![r] = IF status[r] \in Terminal THEN status[r] ELSE "failed"]
          /\ UNCHANGED <<run, lost>>
     ELSE /\ run' = [run EXCEPT ![r] = Head(queue[r])]
          /\ lost' = [lost EXCEPT ![r] = FALSE]
          /\ UNCHANGED result
  /\ Dequeued(r)
  /\ UNCHANGED <<launch, taken, status, aborted, exec, final, host, waits>>

TriesAgain(r) ==                                \* mutant of WriteFails: nothing is skipped
  /\ Alive /\ DiskFails /\ queue[r] # <<>>
  /\ lost' = [lost EXCEPT ![r] = ~@]
  /\ UNCHANGED <<runVars, hostVars, run, result>>

WriteFails(r) ==
  /\ Alive /\ DiskFails /\ queue[r] # <<>>
  /\ lost' = [lost EXCEPT ![r] = @ \/ Head(queue[r]) # "result"]
  /\ Dequeued(r)
  /\ UNCHANGED <<launch, taken, status, aborted, exec, final, host, waits, run, result>>

-----------------------------------------------------------------------------
(* The host *)

\* Runs that have ended are not active, whatever their queues still hold.
ShutdownStarts ==
  /\ host = "up"
  /\ host' = IF Active = {} THEN "exited" ELSE "stopping"
  /\ waits' = Active
  /\ aborted' = [r \in Runs |-> aborted[r] \/ r \in Active]
  /\ UNCHANGED <<launch, taken, status, exec, queue, final, owed, diskVars>>

ShutdownSettles ==
  /\ host = "stopping" /\ \A r \in waits : exec[r] = "settled"
  /\ host' = "exited"
  /\ UNCHANGED <<runVars, waits, owed, diskVars>>

\* Ten seconds are longer than the writes of a launch take.
GraceIsOver == host = "stopping" /\ \A r \in waits : launch[r] \in {"accepted", "refused"}

CancelledInMemory ==                            \* mutant of ShutdownTimesOut: nothing is persisted
  /\ GraceIsOver
  /\ status' = [r \in Runs |-> IF r \in waits \cap Active THEN "cancelled" ELSE status[r]]
  /\ final' = [r \in Runs |-> IF r \in waits \cap Active THEN "cancelled" ELSE final[r]]
  /\ owed' = [r \in Runs |-> IF r \in waits THEN Len(queue[r]) ELSE 0]
  /\ host' = "flushing"
  /\ UNCHANGED <<launch, taken, aborted, exec, queue, waits, diskVars>>

\* What has not ended by then is cancelled in memory, and its record is queued.
GivenUp == {r \in waits : status[r] \notin Terminal}
ShutdownTimesOut ==
  /\ GraceIsOver
  /\ status' = [r \in Runs |-> IF r \in GivenUp THEN "cancelled" ELSE status[r]]
  /\ final' = [r \in Runs |-> IF r \in GivenUp THEN "cancelled" ELSE final[r]]
  /\ queue' = [r \in Runs |-> IF r \in GivenUp THEN Append(queue[r], "cancelled") ELSE queue[r]]
  /\ owed' = [r \in Runs |-> IF r \in waits THEN Len(queue'[r]) ELSE 0]
  /\ host' = "flushing"
  /\ UNCHANGED <<launch, taken, aborted, exec, waits, diskVars>>

ShutdownFlushes ==
  /\ host = "flushing" /\ \A r \in waits : owed[r] = 0
  /\ host' = "exited"
  /\ UNCHANGED <<runVars, waits, owed, diskVars>>

Crash ==
  /\ host \in {"up", "stopping", "flushing", "restoring"}
  /\ host' = "crashed"
  /\ UNCHANGED <<runVars, waits, owed, diskVars>>

\* The next host knows nothing but the disk.
Restart ==
  /\ host \in {"exited", "crashed"}
  /\ host' = "restoring"
  /\ waits' = {r \in Runs : run[r] # "none"}
  /\ launch' = [r \in Runs |-> IF launch[r] = "new" THEN "new" ELSE "gone"]
  /\ taken' = [r \in Runs |-> "queued"]
  /\ status' = [r \in Runs |-> "queued"]
  /\ aborted' = [r \in Runs |-> FALSE]
  /\ exec' = [r \in Runs |-> "idle"]
  /\ queue' = [r \in Runs |-> <<>>]
  /\ owed' = [r \in Runs |-> 0]
  /\ UNCHANGED <<final, diskVars>>

Interrupted == "failed"

AnyRecord(r) == TRUE                            \* mutant of Unfinished: no test
Unfinished(r) == run[r] \notin Terminal

Restore(r) ==
  /\ host = "restoring" /\ r \in waits
  /\ waits' = waits \ {r}
  /\ run' = IF Unfinished(r) THEN [run EXCEPT ![r] = Interrupted] ELSE run
  /\ UNCHANGED <<runVars, host, owed, result, lost>>

\* A write of restore fails: the session starts without the records that follow.
RestoreFails(r) ==
  /\ host = "restoring" /\ DiskFails /\ r \in waits /\ Unfinished(r)
  /\ host' = "up" /\ waits' = {}
  /\ UNCHANGED <<runVars, owed, diskVars>>

RestoreEnds ==
  /\ host = "restoring" /\ waits = {}
  /\ host' = "up"
  /\ UNCHANGED <<runVars, waits, owed, diskVars>>

-----------------------------------------------------------------------------
Init ==
  /\ launch = [r \in Runs |-> "new"] /\ taken = [r \in Runs |-> "queued"]
  /\ status = [r \in Runs |-> "queued"] /\ aborted = [r \in Runs |-> FALSE]
  /\ exec = [r \in Runs |-> "idle"] /\ queue = [r \in Runs |-> <<>>]
  /\ host = "up" /\ waits = {} /\ owed = [r \in Runs |-> 0]
  /\ run = [r \in Runs |-> "none"] /\ result = [r \in Runs |-> "none"]
  /\ final = [r \in Runs |-> "none"] /\ lost = [r \in Runs |-> FALSE]

\* What a run's own promises lead to.
Launches(r) == LaunchTakes(r) \/ LaunchRecords(r) \/ LaunchAccepts(r) \/ LaunchFails(r)
Executes(r) ==
  \/ RunnerStarts(r) \/ RunnerRuns(r) \/ Finishes(r) \/ Settles(r)
  \/ \E end \in Terminal : RunnerEnds(r, end)
Writes(r) == WriteDone(r) \/ WriteFails(r)

Next ==
  \/ \E r \in Runs :
       \/ LaunchStarts(r) \/ Launches(r) \/ Executes(r) \/ RunnerUpdates(r) \/ Writes(r)
       \/ Pause(r) \/ Resume(r) \/ Abort(r)
       \/ Restore(r) \/ RestoreFails(r)
  \/ ShutdownStarts \/ ShutdownSettles \/ ShutdownTimesOut \/ ShutdownFlushes
  \/ Crash \/ Restart \/ RestoreEnds

Spec == Init /\ [][Next]_vars

\* File operations end, and so does the execution of a run (ScriptCalls: RunFinalizes).
FairSpec == Spec /\ \A r \in Runs : WF_vars(Executes(r)) /\ WF_vars(Writes(r))
-----------------------------------------------------------------------------
(* Properties *)

TypeOK ==
  /\ launch \in [Runs -> {"new", "storing", "writing", "noting", "accepted", "refused", "gone"}]
  /\ taken \in [Runs -> Statuses] /\ status \in [Runs -> Statuses]
  /\ aborted \in [Runs -> BOOLEAN]
  /\ exec \in [Runs -> {"idle", "started", "working", "returned", "ended", "settled"}]
  /\ queue \in [Runs -> Seq(Statuses \cup {"result"})]
  /\ host \in {"up", "stopping", "flushing", "exited", "crashed", "restoring"}
  /\ waits \subseteq Runs /\ owed \in [Runs -> Nat]
  /\ run \in [Runs -> Statuses \cup {"none"}]
  /\ result \in [Runs -> Terminal \cup {"none"}]
  /\ final \in [Runs -> Terminal \cup {"none"}] /\ lost \in [Runs -> BOOLEAN]

\* Once run.json says that a run has ended it does not change any more: no older
\* snapshot is written after it, and no later host takes the run for unfinished
\* (persistUpdate, restore).
RecordIsFinal == [][\A r \in Runs : run[r] \in Terminal => run'[r] = run[r]]_vars

\* The end that run.json tells is the one the run had, or that its host went away
\* before it could be written (restore).
RecordsAreTrue ==
  \A r \in Runs :
    run[r] \in Terminal => run[r] = final[r] \/ (run[r] = "failed" /\ launch[r] = "gone")

\* A result is on the disk only after a record that agrees with it, unless the
\* writing of the record failed (launch's finally, #enqueue).
ResultFollowsRecord ==
  \A r \in Runs :
    result[r] # "none" => result[r] = final[r] /\ (run[r] = result[r] \/ lost[r])

\* An orderly shutdown leaves no record unfinished of a run that it found active,
\* unless the writing failed (shutdown).
ShutdownKeepsRecords ==
  \A r \in waits : host = "exited" => run[r] \in Terminal \/ lost[r]

\* The completion of an accepted run is resolved although writes fail, unless the
\* host goes away (launch's finally, #enqueue).
RunsSettle ==
  <>[](\A r \in Runs : launch[r] = "accepted" => exec[r] = "settled" \/ ~Alive)

\* Every accepted run persists its result (DEVELOPMENT.md), here: a run that has
\* ended when the host shuts down in an orderly way, with a disk that never fails.
EndedRunKeepsResult ==
  \A r \in Runs :
    host = "exited" /\ exec[r] \in {"returned", "ended"} => result[r] # "none"
=============================================================================
