-------------------------- MODULE RunManagerProofs --------------------------
(***************************************************************************)
(* What run.json and result.json say of a run, for any number of runs.     *)
(*                                                                         *)
(* Whatever is queued behind the end of a run agrees with that end: once   *)
(* the status in memory is final, so is every snapshot taken from then on, *)
(* and the queue keeps the order.  RunInv says this of one run, HostInv    *)
(* what restore and shutdown may rely on.                                  *)
(***************************************************************************)
EXTENDS RunManager, TLAPS

Ends == Terminal \cup {"result"}
OnlyEnds(r) == \A i \in 1..Len(queue[r]) : queue[r][i] \in Ends

\* Nothing has happened to a run before it is accepted, and nothing does after
\* its host has gone.
LaunchInv(r) ==
  /\ taken[r] = "queued"
  /\ launch[r] = "new" => run[r] = "none"
  /\ launch[r] \in {"new", "storing", "writing", "noting"} =>
       /\ status[r] = "queued" /\ exec[r] = "idle" /\ queue[r] = <<>>
       /\ final[r] = "none" /\ run[r] \in {"none", "queued"} /\ result[r] = "none"
  /\ launch[r] = "gone" => status[r] = "queued" /\ exec[r] = "idle" /\ queue[r] = <<>>

\* The end of a run in memory is final.
EndInv(r) ==
  /\ status[r] \in Terminal => final[r] = status[r]
  /\ launch[r] # "gone" /\ final[r] # "none" => status[r] = final[r]
  /\ exec[r] # "idle" => launch[r] = "accepted"
  /\ exec[r] = "idle" => status[r] \in {"queued", "cancelled"}
  /\ exec[r] \in {"returned", "ended", "settled"} => status[r] \in Terminal
  /\ exec[r] = "settled" => queue[r] = <<>>

\* What is queued behind an end, and a result behind its record.
QueueInv(r) ==
  \A i \in 1..Len(queue[r]) :
    /\ queue[r][i] \in Terminal => queue[r][i] = final[r]
    /\ queue[r][i] \in Ends =>
         status[r] \in Terminal /\ \A j \in i..Len(queue[r]) : queue[r][j] \in Ends
    /\ queue[r][i] = "result" =>
         /\ i = 1 => run[r] = final[r] \/ lost[r]
         /\ i > 1 => queue[r][i - 1] \in Terminal

DiskInv(r) ==
  /\ (run[r] \in Terminal \/ result[r] # "none") /\ launch[r] # "gone" =>
       status[r] \in Terminal /\ OnlyEnds(r)
  /\ run[r] \in Terminal => run[r] = final[r] \/ (run[r] = "failed" /\ launch[r] = "gone")
  /\ result[r] # "none" => result[r] = final[r] /\ (run[r] = result[r] \/ lost[r])

\* An end in memory is on the disk, was lost, or is among the first n queued writes.
Saved(r, n) ==
  \/ \E i \in 1..n : i <= Len(queue[r]) /\ queue[r][i] \in Terminal
  \/ (run[r] \in Terminal \/ lost[r]) /\ OnlyEnds(r)

SavedInv(r) == status[r] \in Terminal => Saved(r, Len(queue[r]))

RunInv(r) == LaunchInv(r) /\ EndInv(r) /\ QueueInv(r) /\ DiskInv(r) /\ SavedInv(r)

\* Shutdown waits for as many writes as make the end of a run known.
FlushInv(r) == status[r] \in Terminal /\ owed[r] <= Len(queue[r]) /\ Saved(r, owed[r])

HostInv ==
  /\ host = "restoring" =>
       /\ \A r \in Runs : launch[r] \in {"new", "gone"}
       /\ \A r \in waits : run[r] # "none"
  /\ host = "flushing" => \A r \in waits : FlushInv(r)
  /\ host = "exited" => \A r \in waits : run[r] \in Terminal \/ lost[r]

IInv == TypeOK /\ HostInv /\ \A r \in Runs : RunInv(r)

-----------------------------------------------------------------------------
LEMMA TypeInit == Init => TypeOK
  BY DEF Init, TypeOK, Terminal, Statuses

LEMMA TypeNext == TypeOK /\ [Next]_vars => TypeOK'
  <1>. SUFFICES ASSUME TypeOK, [Next]_vars PROVE TypeOK'
    OBVIOUS
  <1>. USE DEF TypeOK, Terminal, Statuses, runVars, hostVars, diskVars
  <1>1. ASSUME NEW r \in Runs, LaunchStarts(r) \/ Launches(r) PROVE TypeOK'
    <2>1. CASE LaunchStarts(r)
      BY <2>1 DEF LaunchStarts
    <2>2. CASE LaunchTakes(r)
      BY <2>2 DEF LaunchTakes
    <2>3. CASE LaunchRecords(r)
      BY <2>3 DEF LaunchRecords
    <2>4. CASE LaunchAccepts(r)
      BY <2>4 DEF LaunchAccepts
    <2>5. CASE LaunchFails(r)
      BY <2>5 DEF LaunchFails
    <2>. QED BY <1>1, <2>1, <2>2, <2>3, <2>4, <2>5 DEF Launches
  <1>2. ASSUME NEW r \in Runs, NEW st \in Statuses, Becomes(r, st)
        PROVE  /\ status' \in [Runs -> Statuses]
               /\ final' \in [Runs -> Terminal \cup {"none"}]
               /\ queue' \in [Runs -> Seq(Statuses \cup {"result"})]
    BY <1>2 DEF Becomes
  <1>3. ASSUME NEW r \in Runs, RunnerStarts(r) PROVE TypeOK'
    <2>1. CASE status[r] \in Terminal
      BY <1>3, <2>1 DEF RunnerStarts
    <2>2. CASE status[r] \notin Terminal
      <3>1. Becomes(r, "validating") /\ "validating" \in Statuses
        BY <1>3, <2>2 DEF RunnerStarts
      <3>. QED BY <1>2, <1>3, <2>2, <3>1 DEF RunnerStarts
    <2>. QED BY <2>1, <2>2
  <1>13. ASSUME NEW r \in Runs, RunnerRuns(r) PROVE TypeOK'
    BY <1>2, <1>13 DEF RunnerRuns
  <1>4. ASSUME NEW r \in Runs, NEW end \in Terminal, RunnerEnds(r, end) PROVE TypeOK'
    BY <1>2, <1>4 DEF RunnerEnds, EndStatus
  <1>5. ASSUME NEW r \in Runs, Finishes(r) \/ Settles(r) PROVE TypeOK'
    <2>1. CASE Finishes(r)
      <3>1. Append(Append(queue[r], status[r]), "result") \in Seq(Statuses \cup {"result"})
        OBVIOUS
      <3>. QED BY <2>1, <3>1 DEF Finishes
    <2>2. CASE Settles(r)
      BY <2>2 DEF Settles
    <2>. QED BY <1>5, <2>1, <2>2
  <1>6. ASSUME NEW r \in Runs, RunnerUpdates(r) \/ Pause(r) \/ Resume(r) \/ Abort(r) PROVE TypeOK'
    <2>1. CASE RunnerUpdates(r)
      BY <1>2, <2>1 DEF RunnerUpdates
    <2>2. CASE Pause(r)
      BY <1>2, <2>2 DEF Pause
    <2>3. CASE Resume(r)
      BY <1>2, <2>3 DEF Resume
    <2>4. CASE Abort(r)
      BY <2>4 DEF Abort
    <2>. QED BY <1>6, <2>1, <2>2, <2>3, <2>4
  <1>7. ASSUME NEW r \in Runs, Writes(r) PROVE TypeOK'
    <2>1. /\ queue[r] # <<>> /\ Head(queue[r]) \in Statuses \cup {"result"}
          /\ Tail(queue[r]) \in Seq(Statuses \cup {"result"})
      BY <1>7 DEF Writes, WriteDone, WriteFails
    <2>2. CASE WriteDone(r)
      <3>1. queue' \in [Runs -> Seq(Statuses \cup {"result"})] /\ owed' \in [Runs -> Nat]
        BY <2>1, <2>2 DEF WriteDone, Dequeued
      <3>2. CASE Head(queue[r]) = "result"
        BY <3>1, <3>2, <2>2 DEF WriteDone
      <3>3. CASE Head(queue[r]) # "result"
        BY <2>1, <3>1, <3>3, <2>2 DEF WriteDone
      <3>. QED BY <3>2, <3>3
    <2>3. CASE WriteFails(r)
      BY <2>1, <2>3 DEF WriteFails, Dequeued
    <2>. QED BY <1>7, <2>2, <2>3 DEF Writes
  <1>8. ASSUME NEW r \in Runs, Restore(r) \/ RestoreFails(r) PROVE TypeOK'
    BY <1>8 DEF Restore, RestoreFails, Interrupted
  <1>9. ASSUME ShutdownTimesOut PROVE TypeOK'
    BY <1>9 DEF ShutdownTimesOut, GraceIsOver, GivenUp
  <1>10. ASSUME ShutdownStarts \/ ShutdownSettles \/ ShutdownFlushes PROVE TypeOK'
    <2>1. CASE ShutdownStarts
      <3>1. Active \subseteq Runs
        BY DEF Active
      <3>. QED BY <2>1, <3>1 DEF ShutdownStarts
    <2>2. CASE ShutdownSettles \/ ShutdownFlushes
      BY <2>2 DEF ShutdownSettles, ShutdownFlushes
    <2>. QED BY <1>10, <2>1, <2>2
  <1>11. ASSUME Crash \/ Restart \/ RestoreEnds PROVE TypeOK'
    <2>1. CASE Crash \/ RestoreEnds
      BY <2>1 DEF Crash, RestoreEnds
    <2>2. CASE Restart
      <3>1. [r \in Runs |-> <<>>] \in [Runs -> Seq(Statuses \cup {"result"})]
        OBVIOUS
      <3>2. launch' \in [Runs -> {"new", "storing", "writing", "noting", "accepted", "refused", "gone"}]
        BY <2>2 DEF Restart
      <3>. QED BY <2>2, <3>1, <3>2 DEF Restart
    <2>. QED BY <1>11, <2>1, <2>2
  <1>12. ASSUME UNCHANGED vars PROVE TypeOK'
    BY <1>12 DEF vars
  <1>. QED
    BY <1>1, <1>3, <1>4, <1>5, <1>6, <1>7, <1>8, <1>9, <1>10, <1>11, <1>12, <1>13 DEF Next, Executes

-----------------------------------------------------------------------------
(* One run *)

\* A step that does not touch a run keeps what is known of it.
LEMMA Untouched ==
  ASSUME NEW q \in Runs,
         launch'[q] = launch[q], taken'[q] = taken[q], status'[q] = status[q],
         exec'[q] = exec[q], queue'[q] = queue[q], final'[q] = final[q],
         run'[q] = run[q], result'[q] = result[q], lost'[q] = lost[q]
  PROVE  /\ RunInv(q) => RunInv(q)'
         /\ owed'[q] = owed[q] /\ FlushInv(q) => FlushInv(q)'
  BY DEF RunInv, LaunchInv, EndInv, QueueInv, DiskInv, SavedInv, FlushInv, Saved, OnlyEnds

\* A change in memory after which the run has ended only if it had, or ends now.
LEMMA Changes ==
  ASSUME TypeOK, NEW r \in Runs, RunInv(r), NEW st \in Statuses,
         status'[r] = st, queue'[r] = Append(queue[r], st),
         final'[r] = IF final[r] = "none" /\ st \in Terminal THEN st ELSE final[r],
         launch'[r] = launch[r], taken'[r] = taken[r],
         status[r] \in Terminal => st = status[r],
         \/ /\ launch[r] = "accepted"
            /\ exec'[r] \in {"started", "working"} \/ (exec'[r] = "returned" /\ st \in Terminal)
         \/ /\ launch[r] \in {"accepted", "refused"}
            /\ exec'[r] = exec[r] /\ status[r] \notin Terminal /\ st = "cancelled",
         run'[r] = run[r], result'[r] = result[r], lost'[r] = lost[r]
  PROVE  /\ RunInv(r)'
         /\ owed'[r] = owed[r] /\ FlushInv(r) => FlushInv(r)'
  <1>. DEFINE n == Len(queue[r])
  <1>1. /\ queue[r] \in Seq(Statuses \cup {"result"}) /\ n \in Nat
        /\ queue'[r] = Append(queue[r], st) /\ status'[r] = st
        /\ final'[r] = IF final[r] = "none" /\ st \in Terminal THEN st ELSE final[r]
    BY DEF TypeOK
  <1>2. /\ Len(queue'[r]) = n + 1 /\ queue'[r][n + 1] = st
        /\ \A i \in 1..n : queue'[r][i] = queue[r][i]
    BY <1>1
  <1>3. "result" \notin Statuses /\ "none" \notin Terminal /\ Terminal \subseteq Statuses
    BY DEF Statuses, Terminal
  <1>11. "cancelled" \in Terminal
    BY DEF Terminal
  <1>4. /\ status[r] \in Terminal => final[r] = status[r] /\ final'[r] = final[r]
        /\ status[r] \notin Terminal => final[r] = "none"
    <2>1. final[r] \in Terminal \cup {"none"}
      BY DEF TypeOK
    <2>. QED BY <1>1, <1>3, <2>1 DEF RunInv, EndInv
  <1>5. LaunchInv(r)' /\ EndInv(r)'
    BY <1>1, <1>3, <1>4, <1>11 DEF RunInv, LaunchInv, EndInv
  <1>6. \A i \in 1..n : queue[r][i] \in Ends => status[r] \in Terminal
    BY DEF RunInv, QueueInv
  <1>7. OnlyEnds(r) /\ st \in Terminal => OnlyEnds(r)'
    BY <1>2 DEF OnlyEnds, Ends
  <1>8. QueueInv(r)'
    <2>. SUFFICES ASSUME NEW i \in 1..(n + 1)
         PROVE  /\ queue'[r][i] \in Terminal => queue'[r][i] = final'[r]
                /\ queue'[r][i] \in Ends =>
                     status'[r] \in Terminal /\ \A j \in i..(n + 1) : queue'[r][j] \in Ends
                /\ queue'[r][i] = "result" =>
                     /\ i = 1 => run'[r] = final'[r] \/ lost'[r]
                     /\ i > 1 => queue'[r][i - 1] \in Terminal
      BY <1>2 DEF QueueInv
    <2>1. CASE i = n + 1
      BY <2>1, <1>1, <1>2, <1>3, <1>4 DEF Ends
    <2>2. CASE i \in 1..n
      <3>1. /\ queue'[r][i] = queue[r][i]
            /\ queue[r][i] \in Terminal => queue[r][i] = final[r]
            /\ queue[r][i] \in Ends => status[r] \in Terminal /\ \A j \in i..n : queue[r][j] \in Ends
            /\ queue[r][i] = "result" =>
                 /\ i = 1 => run[r] = final[r] \/ lost[r]
                 /\ i > 1 => queue[r][i - 1] \in Terminal
        BY <1>2, <2>2 DEF RunInv, QueueInv
      <3>2. Terminal \subseteq Ends /\ "result" \in Ends
        BY DEF Ends
      <3>3. queue[r][i] \in Ends => \A j \in i..(n + 1) : queue'[r][j] \in Ends
        <4>1. SUFFICES ASSUME queue[r][i] \in Ends, NEW j \in i..(n + 1) PROVE queue'[r][j] \in Ends
          OBVIOUS
        <4>2. CASE j = n + 1
          BY <1>2, <3>1, <3>2, <4>1, <4>2
        <4>3. CASE j \in i..n
          BY <1>2, <2>2, <3>1, <4>1, <4>3
        <4>. QED BY <4>2, <4>3
      <3>4. i > 1 => queue'[r][i - 1] = queue[r][i - 1]
        BY <1>2, <2>2
      <3>. QED BY <1>1, <1>4, <3>1, <3>2, <3>3, <3>4
    <2>. QED BY <1>1, <2>1, <2>2
  <1>9. DiskInv(r)'
    <2>1. run[r] \in Terminal \/ result[r] # "none" => status[r] \in Terminal /\ OnlyEnds(r)
      BY DEF RunInv, DiskInv
    <2>. QED BY <1>1, <1>4, <1>7, <2>1 DEF RunInv, DiskInv
  <1>10. SavedInv(r)'
    <2>1. st \in Terminal => queue'[r][n + 1] \in Terminal /\ n + 1 \in 1..(n + 1)
      BY <1>1, <1>2
    <2>. QED BY <1>1, <1>2, <2>1 DEF SavedInv, Saved
  <1>12. ASSUME owed'[r] = owed[r], FlushInv(r) PROVE FlushInv(r)'
    <2>1. status[r] \in Terminal /\ st = status[r] /\ owed[r] \in Nat /\ owed[r] <= n
      BY <1>12 DEF FlushInv, TypeOK
    <2>2. CASE \E i \in 1..owed[r] : i <= n /\ queue[r][i] \in Terminal
      <3>1. PICK i \in 1..owed[r] : i <= n /\ queue[r][i] \in Terminal
        BY <2>2
      <3>2. i \in 1..n /\ queue'[r][i] \in Terminal
        BY <1>2, <2>1, <3>1
      <3>. QED BY <1>1, <1>2, <1>12, <2>1, <3>1, <3>2 DEF FlushInv, Saved
    <2>3. CASE (run[r] \in Terminal \/ lost[r]) /\ OnlyEnds(r)
      BY <1>1, <1>2, <1>7, <1>12, <2>1, <2>3 DEF FlushInv, Saved
    <2>. QED BY <1>12, <2>2, <2>3 DEF FlushInv, Saved
  <1>. QED BY <1>5, <1>8, <1>9, <1>10, <1>12 DEF RunInv

\* The first write of the queue leaves it; the disk holds what it holds then.
LEMMA Popped ==
  ASSUME TypeOK, NEW r \in Runs, RunInv(r), queue[r] # <<>>,
         queue'[r] = Tail(queue[r]), launch'[r] = launch[r], taken'[r] = taken[r],
         status'[r] = status[r], exec'[r] = exec[r], final'[r] = final[r],
         \/ /\ Head(queue[r]) = "result" /\ result'[r] = status[r]
            /\ run'[r] = run[r] /\ lost'[r] = lost[r]
         \/ /\ Head(queue[r]) \in Statuses /\ run'[r] = Head(queue[r])
            /\ result'[r] = result[r] /\ lost'[r] = FALSE
         \/ /\ run'[r] = run[r] /\ result'[r] = result[r]
            /\ lost'[r] = (lost[r] \/ Head(queue[r]) # "result"),
         owed'[r] = IF owed[r] = 0 THEN 0 ELSE owed[r] - 1
  PROVE  RunInv(r)' /\ (FlushInv(r) => FlushInv(r)')
  <1>. DEFINE n == Len(queue[r])
              h == queue[r][1]
  <1>1. /\ queue[r] \in Seq(Statuses \cup {"result"}) /\ n \in Nat /\ n > 0
        /\ h = Head(queue[r]) /\ h \in Statuses \cup {"result"}
        /\ Len(queue'[r]) = n - 1
        /\ \A i \in 1..(n - 1) : queue'[r][i] = queue[r][i + 1]
        /\ run[r] \in Statuses \cup {"none"} /\ final[r] \in Terminal \cup {"none"}
        /\ lost[r] \in BOOLEAN
    BY DEF TypeOK
  <1>2. /\ "result" \notin Statuses /\ "none" \notin Terminal /\ Terminal \subseteq Statuses
        /\ Terminal \subseteq Ends /\ "result" \in Ends /\ Ends = Terminal \cup {"result"}
    BY DEF Statuses, Terminal, Ends
  <1>3. launch[r] \in {"accepted", "refused"}
    BY <1>1 DEF RunInv, LaunchInv, TypeOK
  <1>4. LaunchInv(r)' /\ EndInv(r)'
    <2>1. exec[r] # "settled"
      BY DEF RunInv, EndInv
    <2>. QED BY <1>3, <2>1 DEF RunInv, LaunchInv, EndInv
  <1>5. /\ h \in Terminal => h = final[r]
        /\ h \in Ends => status[r] \in Terminal /\ \A j \in 1..n : queue[r][j] \in Ends
        /\ h = "result" => run[r] = final[r] \/ lost[r]
    <2>1. 1 \in 1..n
      BY <1>1
    <2>. QED BY <2>1 DEF RunInv, QueueInv
  <1>6. status[r] \in Terminal => final[r] = status[r]
    BY DEF RunInv, EndInv
  <1>7. QueueInv(r)'
    <2>. SUFFICES ASSUME NEW i \in 1..(n - 1)
         PROVE  /\ queue'[r][i] \in Terminal => queue'[r][i] = final'[r]
                /\ queue'[r][i] \in Ends =>
                     status'[r] \in Terminal /\ \A j \in i..(n - 1) : queue'[r][j] \in Ends
                /\ queue'[r][i] = "result" =>
                     /\ i = 1 => run'[r] = final'[r] \/ lost'[r]
                     /\ i > 1 => queue'[r][i - 1] \in Terminal
      BY <1>1 DEF QueueInv
    <2>1. /\ queue'[r][i] = queue[r][i + 1] /\ i + 1 \in 1..n
          /\ queue[r][i + 1] \in Terminal => queue[r][i + 1] = final[r]
          /\ queue[r][i + 1] \in Ends =>
               status[r] \in Terminal /\ \A j \in (i + 1)..n : queue[r][j] \in Ends
          /\ queue[r][i + 1] = "result" => queue[r][i] \in Terminal
      BY <1>1 DEF RunInv, QueueInv
    <2>2. queue[r][i + 1] \in Ends => \A j \in i..(n - 1) : queue'[r][j] \in Ends
      <3>1. SUFFICES ASSUME queue[r][i + 1] \in Ends, NEW j \in i..(n - 1)
                     PROVE  queue'[r][j] \in Ends
        OBVIOUS
      <3>2. queue'[r][j] = queue[r][j + 1] /\ j + 1 \in (i + 1)..n
        BY <1>1
      <3>. QED BY <2>1, <3>1, <3>2
    <2>3. i > 1 => queue'[r][i - 1] = queue[r][i]
      BY <1>1
    <2>4. i = 1 /\ h \in Terminal => run'[r] = final[r] \/ lost'[r]
      BY <1>1, <1>2, <1>5
    <2>. QED BY <2>1, <2>2, <2>3, <2>4
  <1>8. OnlyEnds(r) => OnlyEnds(r)' /\ h \in Ends
    BY <1>1 DEF OnlyEnds
  <1>9. DiskInv(r)'
    <2>1. /\ run[r] \in Terminal \/ result[r] # "none" => status[r] \in Terminal /\ OnlyEnds(r)
          /\ run[r] \in Terminal => run[r] = final[r]
          /\ result[r] # "none" => result[r] = final[r] /\ (run[r] = result[r] \/ lost[r])
      BY <1>3 DEF RunInv, DiskInv
    <2>2. h \in Ends => status[r] \in Terminal /\ OnlyEnds(r)
      BY <1>5 DEF OnlyEnds
    <2>3. CASE h = "result" /\ result'[r] = status[r] /\ run'[r] = run[r] /\ lost'[r] = lost[r]
      BY <2>1, <2>2, <2>3, <1>2, <1>3, <1>5, <1>6, <1>8 DEF DiskInv
    <2>4. CASE h \in Statuses /\ run'[r] = h /\ result'[r] = result[r] /\ lost'[r] = FALSE
      BY <2>1, <2>2, <2>4, <1>2, <1>3, <1>5, <1>6, <1>8 DEF DiskInv
    <2>5. CASE run'[r] = run[r] /\ result'[r] = result[r] /\ lost'[r] = (lost[r] \/ h # "result")
      BY <2>1, <2>5, <1>1, <1>3, <1>8 DEF DiskInv
    <2>. QED BY <1>1, <2>3, <2>4, <2>5
  <1>. DEFINE SavedNext(k) ==
                \/ \E i \in 1..k : i <= n - 1 /\ queue'[r][i] \in Terminal
                \/ (run'[r] \in Terminal \/ lost'[r]) /\ OnlyEnds(r)'
  <1>10. ASSUME NEW k \in 0..n, Saved(r, k) PROVE SavedNext(IF k = 0 THEN 0 ELSE k - 1)
    <2>1. CASE (run[r] \in Terminal \/ lost[r]) /\ OnlyEnds(r)
      <3>1. run'[r] \in Terminal \/ lost'[r]
        BY <2>1, <1>1, <1>2, <1>8
      <3>. QED BY <2>1, <3>1, <1>8
    <2>2. CASE \E i \in 1..k : i <= n /\ queue[r][i] \in Terminal
      <3>1. PICK i \in 1..k : i <= n /\ queue[r][i] \in Terminal
        BY <2>2
      <3>2. CASE i = 1
        <4>1. h \in Terminal /\ OnlyEnds(r)
          BY <1>2, <1>5, <3>1, <3>2 DEF OnlyEnds
        <4>2. run'[r] \in Terminal \/ lost'[r]
          BY <4>1, <1>1, <1>2
        <4>. QED BY <4>1, <4>2, <1>8
      <3>3. CASE i > 1
        <4>1. i - 1 \in 1..(k - 1) /\ i - 1 <= n - 1 /\ queue'[r][i - 1] = queue[r][i] /\ k # 0
          BY <1>1, <3>1, <3>3
        <4>. QED BY <1>1, <3>1, <4>1
      <3>. QED BY <3>1, <3>2, <3>3
    <2>. QED BY <2>1, <2>2, <1>10, <1>1 DEF Saved
  <1>11. SavedInv(r)'
    <2>1. n \in 0..n /\ (IF n = 0 THEN 0 ELSE n - 1) = n - 1
      BY <1>1
    <2>2. status[r] \in Terminal => Saved(r, n)
      BY DEF RunInv, SavedInv
    <2>3. status[r] \in Terminal => SavedNext(n - 1)
      BY <1>10, <2>1, <2>2
    <2>. QED BY <1>1, <2>3 DEF SavedInv, Saved
  <1>12. ASSUME FlushInv(r) PROVE FlushInv(r)'
    <2>1. owed[r] \in 0..n /\ owed'[r] = (IF owed[r] = 0 THEN 0 ELSE owed[r] - 1) /\ Saved(r, owed[r])
      BY <1>1, <1>12 DEF TypeOK, FlushInv
    <2>2. SavedNext(owed'[r])
      BY <1>10, <2>1
    <2>. QED BY <1>1, <1>12, <2>1, <2>2 DEF FlushInv, Saved
  <1>. QED BY <1>4, <1>7, <1>9, <1>11, <1>12 DEF RunInv

\* The steps of one run while its host is alive.
OwnStep(r) ==
  \/ LaunchStarts(r) \/ Launches(r) \/ Executes(r) \/ RunnerUpdates(r) \/ Writes(r)
  \/ Pause(r) \/ Resume(r) \/ Abort(r)

LEMMA LaunchSteps ==
  ASSUME TypeOK, NEW r \in Runs, RunInv(r), LaunchStarts(r) \/ Launches(r)
  PROVE  RunInv(r)' /\ (FlushInv(r) => FlushInv(r)')
  <1>1. /\ launch[r] \in {"new", "storing", "writing", "noting"}
        /\ launch'[r] \in {"storing", "writing", "noting", "accepted", "refused"}
        /\ taken'[r] \in {taken[r], status[r]}
        /\ run'[r] \in {run[r], taken[r]}
        /\ status' = status /\ exec' = exec /\ queue' = queue /\ final' = final
        /\ result' = result /\ lost' = lost /\ owed' = owed
    BY DEF TypeOK, LaunchStarts, Launches, LaunchTakes, LaunchRecords, LaunchAccepts, LaunchFails,
           runVars, hostVars, diskVars
  <1>2. /\ taken[r] = "queued" /\ status[r] = "queued" /\ exec[r] = "idle" /\ queue[r] = <<>>
        /\ final[r] = "none" /\ run[r] \in {"none", "queued"} /\ result[r] = "none"
    BY <1>1 DEF RunInv, LaunchInv
  <1>3. LaunchInv(r)' /\ EndInv(r)'
    BY <1>1, <1>2 DEF LaunchInv, EndInv, Terminal
  <1>4. QueueInv(r)' /\ SavedInv(r)' /\ DiskInv(r)'
    BY <1>1, <1>2 DEF QueueInv, SavedInv, DiskInv, Terminal
  <1>5. ~FlushInv(r)
    BY <1>2 DEF FlushInv, Terminal
  <1>. QED BY <1>3, <1>4, <1>5 DEF RunInv

\* The finished run and its result are queued behind what is there.
LEMMA FinishSteps ==
  ASSUME TypeOK, NEW r \in Runs, RunInv(r), Finishes(r)
  PROVE  RunInv(r)' /\ (FlushInv(r) => FlushInv(r)')
  <1>. DEFINE n == Len(queue[r])
              end == status[r]
  <1>1. /\ queue[r] \in Seq(Statuses \cup {"result"}) /\ n \in Nat
        /\ queue'[r] = Append(Append(queue[r], end), "result")
        /\ exec[r] = "returned" /\ exec'[r] = "ended" /\ launch' = launch /\ taken' = taken
        /\ status' = status /\ final' = final /\ run' = run /\ result' = result /\ lost' = lost
        /\ owed' = owed
    BY DEF TypeOK, Finishes, hostVars, diskVars
  <1>2. end \in Terminal /\ final[r] = end /\ launch[r] = "accepted"
    BY <1>1 DEF RunInv, EndInv
  <1>3. /\ Len(queue'[r]) = n + 2 /\ queue'[r][n + 1] = end /\ queue'[r][n + 2] = "result"
        /\ \A i \in 1..n : queue'[r][i] = queue[r][i]
    <2>1. end \in Statuses \cup {"result"}
      BY DEF TypeOK
    <2>2. /\ Append(queue[r], end) \in Seq(Statuses \cup {"result"}) /\ Len(Append(queue[r], end)) = n + 1
          /\ Append(queue[r], end)[n + 1] = end
          /\ \A i \in 1..n : Append(queue[r], end)[i] = queue[r][i]
      BY <1>1, <2>1
    <2>. HIDE DEF end
    <2>. QED BY <1>1, <2>2
  <1>4. /\ "result" \notin Terminal /\ Terminal \subseteq Ends /\ "result" \in Ends
        /\ "idle" # "ended" /\ "settled" # "ended"
    BY DEF Terminal, Ends
  <1>. HIDE DEF end
  <1>5. status[r] = end
    BY DEF end
  <1>6. LaunchInv(r)' /\ EndInv(r)'
    BY <1>1, <1>2, <1>5 DEF RunInv, LaunchInv, EndInv
  <1>7. OnlyEnds(r) => OnlyEnds(r)'
    <2>1. SUFFICES ASSUME OnlyEnds(r), NEW i \in 1..(n + 2) PROVE queue'[r][i] \in Ends
      BY <1>3 DEF OnlyEnds
    <2>2. i \in 1..n \/ i = n + 1 \/ i = n + 2
      <3>1. n \in Nat /\ i \in 1..(n + 2)
        BY <1>1, <2>1
      <3>. HIDE DEF n
      <3>. QED BY <3>1
    <2>. QED BY <1>2, <1>3, <1>4, <2>1, <2>2 DEF OnlyEnds
  <1>8. QueueInv(r)'
    <2>. SUFFICES ASSUME NEW i \in 1..(n + 2)
         PROVE  /\ queue'[r][i] \in Terminal => queue'[r][i] = final[r]
                /\ queue'[r][i] \in Ends => \A j \in i..(n + 2) : queue'[r][j] \in Ends
                /\ queue'[r][i] = "result" =>
                     /\ i = 1 => run[r] = final[r] \/ lost[r]
                     /\ i > 1 => queue'[r][i - 1] \in Terminal
      BY <1>1, <1>2, <1>3, <1>5 DEF QueueInv
    <2>1. CASE i \in 1..n
      <3>1. /\ queue'[r][i] = queue[r][i]
            /\ queue[r][i] \in Terminal => queue[r][i] = final[r]
            /\ queue[r][i] \in Ends => \A j \in i..n : queue[r][j] \in Ends
            /\ queue[r][i] = "result" =>
                 /\ i = 1 => run[r] = final[r] \/ lost[r]
                 /\ i > 1 => queue[r][i - 1] \in Terminal
        BY <1>3, <2>1 DEF RunInv, QueueInv
      <3>2. queue[r][i] \in Ends => \A j \in i..(n + 2) : queue'[r][j] \in Ends
        <4>1. SUFFICES ASSUME queue[r][i] \in Ends, NEW j \in i..(n + 2) PROVE queue'[r][j] \in Ends
          OBVIOUS
        <4>2. j \in i..n \/ j = n + 1 \/ j = n + 2
          <5>1. n \in Nat /\ i \in Nat /\ j \in i..(n + 2)
            BY <1>1, <2>1
          <5>. HIDE DEF n
          <5>. QED BY <5>1
        <4>3. j \in i..n => queue'[r][j] = queue[r][j]
          BY <1>3, <2>1
        <4>. QED BY <1>2, <1>3, <1>4, <3>1, <4>1, <4>2, <4>3
      <3>3. i > 1 => queue'[r][i - 1] = queue[r][i - 1]
        <4>1. i > 1 => i - 1 \in 1..n
          <5>1. n \in Nat /\ i \in 1..n
            BY <1>1, <2>1
          <5>. HIDE DEF n
          <5>. QED BY <5>1
        <4>. QED BY <1>3, <4>1
      <3>. QED BY <3>1, <3>2, <3>3
    <2>2. CASE i = n + 1
      <3>1. \A j \in i..(n + 2) : j = n + 1 \/ j = n + 2
        BY <1>1, <2>2
      <3>. QED BY <1>2, <1>3, <1>4, <2>2, <3>1
    <2>3. CASE i = n + 2
      <3>1. /\ \A j \in i..(n + 2) : j = n + 2
            /\ i # 1 /\ i - 1 = n + 1
        BY <1>1, <2>3
      <3>. QED BY <1>2, <1>3, <1>4, <2>3, <3>1
    <2>4. i \in 1..n \/ i = n + 1 \/ i = n + 2
      <3>1. n \in Nat /\ i \in 1..(n + 2)
        BY <1>1
      <3>. HIDE DEF n
      <3>. QED BY <3>1
    <2>. QED BY <2>1, <2>2, <2>3, <2>4
  <1>9. DiskInv(r)'
    BY <1>1, <1>2, <1>5, <1>7 DEF RunInv, DiskInv
  <1>10. SavedInv(r)'
    <2>1. n + 1 \in 1..(n + 2) /\ n + 1 <= n + 2
      BY <1>1
    <2>. QED BY <1>2, <1>3, <2>1 DEF SavedInv, Saved
  <1>11. FlushInv(r) => FlushInv(r)'
    <2>1. SUFFICES ASSUME FlushInv(r) PROVE FlushInv(r)'
      OBVIOUS
    <2>2. owed[r] \in Nat /\ owed[r] <= n /\ Saved(r, owed[r])
      BY <2>1 DEF FlushInv, TypeOK
    <2>3. CASE \E i \in 1..owed[r] : i <= n /\ queue[r][i] \in Terminal
      <3>1. PICK i \in 1..owed[r] : i <= n /\ queue[r][i] \in Terminal
        BY <2>3
      <3>2. i \in 1..n /\ i <= n + 2 /\ queue'[r][i] \in Terminal
        BY <1>1, <1>3, <2>2, <3>1
      <3>. QED BY <1>1, <1>2, <1>3, <1>5, <2>2, <3>1, <3>2 DEF FlushInv, Saved
    <2>4. CASE (run[r] \in Terminal \/ lost[r]) /\ OnlyEnds(r)
      BY <1>1, <1>2, <1>3, <1>5, <1>7, <2>2, <2>4 DEF FlushInv, Saved
    <2>. QED BY <2>2, <2>3, <2>4 DEF Saved
  <1>. QED BY <1>6, <1>8, <1>9, <1>10, <1>11 DEF RunInv

LEMMA ExecutionSteps ==
  ASSUME TypeOK, NEW r \in Runs, RunInv(r),
         Executes(r) \/ RunnerUpdates(r) \/ Pause(r) \/ Resume(r) \/ Abort(r)
  PROVE  RunInv(r)' /\ (FlushInv(r) => FlushInv(r)')
  <1>1. ASSUME NEW st \in Statuses, Becomes(r, st), status[r] \in Terminal => st = status[r],
               launch' = launch, taken' = taken, launch[r] = "accepted",
               exec'[r] \in {"started", "working"} \/ (exec'[r] = "returned" /\ st \in Terminal),
               UNCHANGED <<hostVars, diskVars>>
        PROVE  RunInv(r)' /\ (FlushInv(r) => FlushInv(r)')
    <2>1. /\ status'[r] = st /\ queue'[r] = Append(queue[r], st)
          /\ final'[r] = IF final[r] = "none" /\ st \in Terminal THEN st ELSE final[r]
          /\ launch'[r] = launch[r] /\ taken'[r] = taken[r] /\ run'[r] = run[r]
          /\ result'[r] = result[r] /\ lost'[r] = lost[r] /\ owed'[r] = owed[r]
      BY <1>1 DEF TypeOK, Becomes, hostVars, diskVars
    <2>. QED BY <1>1, <2>1, Changes
  <1>2. CASE RunnerStarts(r) /\ status[r] \in Terminal
    <2>1. /\ launch[r] = "accepted" /\ exec[r] = "idle" /\ exec'[r] = "returned"
          /\ launch' = launch /\ taken' = taken /\ status' = status /\ queue' = queue /\ final' = final
          /\ run' = run /\ result' = result /\ lost' = lost /\ owed' = owed
      BY <1>2 DEF TypeOK, RunnerStarts, hostVars, diskVars
    <2>2. LaunchInv(r)' /\ EndInv(r)'
      BY <1>2, <2>1 DEF RunInv, LaunchInv, EndInv
    <2>3. QueueInv(r)' /\ DiskInv(r)' /\ SavedInv(r)' /\ (FlushInv(r) => FlushInv(r)')
      BY <2>1 DEF RunInv, QueueInv, DiskInv, SavedInv, FlushInv, Saved, OnlyEnds
    <2>. QED BY <2>2, <2>3 DEF RunInv
  <1>3. CASE RunnerStarts(r) /\ status[r] \notin Terminal
    <2>1. "validating" \in Statuses /\ exec'[r] = "started"
      BY <1>3 DEF Statuses, RunnerStarts, TypeOK
    <2>. QED BY <1>1, <1>3, <2>1 DEF RunnerStarts
  <1>4. CASE RunnerRuns(r)
    <2>1. /\ "running" \in Statuses /\ exec'[r] = "working" /\ exec[r] = "started"
          /\ launch[r] = "accepted"
      BY <1>4 DEF Statuses, RunnerRuns, TypeOK, RunInv, EndInv
    <2>. QED BY <1>1, <1>4, <2>1 DEF RunnerRuns
  <1>5. CASE RunnerUpdates(r)
    <2>1. /\ status[r] \in Statuses /\ exec'[r] = "working" /\ launch[r] = "accepted"
      BY <1>5 DEF RunnerUpdates, TypeOK, RunInv, EndInv
    <2>. QED BY <1>1, <1>5, <2>1 DEF RunnerUpdates
  <1>6. ASSUME NEW end \in Terminal, RunnerEnds(r, end)
        PROVE  RunInv(r)' /\ (FlushInv(r) => FlushInv(r)')
    <2>1. /\ EndStatus(r, end) \in Terminal /\ Terminal \subseteq Statuses
          /\ status[r] \in Terminal => EndStatus(r, end) = status[r]
      BY DEF EndStatus, Statuses
    <2>2. exec'[r] = "returned" /\ launch[r] = "accepted"
      BY <1>6 DEF RunnerEnds, TypeOK, RunInv, EndInv
    <2>. QED BY <1>1, <1>6, <2>1, <2>2 DEF RunnerEnds
  <1>7. CASE Settles(r)
    <2>1. /\ exec[r] = "ended" /\ exec'[r] = "settled" /\ queue[r] = <<>>
          /\ launch' = launch /\ taken' = taken /\ status' = status /\ queue' = queue /\ final' = final
          /\ run' = run /\ result' = result /\ lost' = lost /\ owed' = owed
      BY <1>7 DEF TypeOK, Settles, hostVars, diskVars
    <2>2. LaunchInv(r)' /\ EndInv(r)'
      BY <2>1 DEF RunInv, LaunchInv, EndInv
    <2>3. QueueInv(r)' /\ DiskInv(r)' /\ SavedInv(r)' /\ (FlushInv(r) => FlushInv(r)')
      BY <2>1 DEF RunInv, QueueInv, DiskInv, SavedInv, FlushInv, Saved, OnlyEnds
    <2>. QED BY <2>2, <2>3 DEF RunInv
  <1>8. CASE Pause(r) \/ Resume(r)
    <2>1. PICK st \in {"paused", "running"} : Becomes(r, st)
      BY <1>8 DEF Pause, Resume
    <2>2. /\ status[r] \in {"running", "paused"} /\ exec' = exec /\ launch' = launch /\ taken' = taken
          /\ UNCHANGED <<hostVars, diskVars>>
      BY <1>8 DEF Pause, Resume
    <2>3. /\ exec[r] \in {"started", "working"} /\ launch[r] = "accepted"
          /\ status[r] \notin Terminal /\ st \in Statuses
      BY <2>2 DEF RunInv, EndInv, TypeOK, Terminal, Statuses
    <2>. QED BY <1>1, <2>1, <2>2, <2>3
  <1>9. CASE Abort(r)
    BY <1>9, Untouched DEF Abort, runVars, hostVars, diskVars
  <1>. QED BY <1>2, <1>3, <1>4, <1>5, <1>6, <1>7, <1>8, <1>9, FinishSteps DEF Executes

LEMMA WriteSteps ==
  ASSUME TypeOK, NEW r \in Runs, RunInv(r), Writes(r)
  PROVE  RunInv(r)' /\ (FlushInv(r) => FlushInv(r)')
  <1>1. /\ queue[r] # <<>> /\ queue[r] \in Seq(Statuses \cup {"result"})
        /\ queue'[r] = Tail(queue[r]) /\ owed'[r] = IF owed[r] = 0 THEN 0 ELSE owed[r] - 1
        /\ launch' = launch /\ taken' = taken /\ status' = status /\ exec' = exec /\ final' = final
    BY DEF TypeOK, Writes, WriteDone, WriteFails, Dequeued
  <1>2. Head(queue[r]) \in Statuses \cup {"result"} /\ Head(queue[r]) = queue[r][1] /\ 1 \in 1..Len(queue[r])
    BY <1>1
  <1>3. CASE WriteDone(r) /\ Head(queue[r]) = "result"
    <2>1. status[r] \in Terminal
      BY <1>2, <1>3 DEF RunInv, QueueInv, Ends
    <2>2. result'[r] = status[r] /\ run'[r] = run[r] /\ lost'[r] = lost[r]
      BY <1>3, <2>1 DEF TypeOK, WriteDone
    <2>. QED BY <1>1, <1>3, <2>2, Popped
  <1>4. CASE WriteDone(r) /\ Head(queue[r]) # "result"
    <2>1. result'[r] = result[r] /\ run'[r] = Head(queue[r]) /\ lost'[r] = FALSE
      BY <1>4 DEF TypeOK, WriteDone
    <2>. QED BY <1>1, <1>2, <1>4, <2>1, Popped
  <1>5. CASE WriteFails(r)
    <2>1. /\ result'[r] = result[r] /\ run'[r] = run[r]
          /\ lost'[r] = (lost[r] \/ Head(queue[r]) # "result")
      BY <1>5 DEF TypeOK, WriteFails
    <2>. QED BY <1>1, <2>1, Popped
  <1>. QED BY <1>3, <1>4, <1>5 DEF Writes

\* A step of one run leaves the others alone.
LEMMA OtherRuns ==
  ASSUME TypeOK, NEW r \in Runs, OwnStep(r), NEW q \in Runs, q # r, RunInv(q)
  PROVE  RunInv(q)' /\ (FlushInv(q) => FlushInv(q)')
  <1>1. /\ launch'[q] = launch[q] /\ taken'[q] = taken[q] /\ run'[q] = run[q]
        /\ result'[q] = result[q] /\ lost'[q] = lost[q] /\ owed'[q] = owed[q]
        /\ status'[q] = status[q] /\ exec'[q] = exec[q] /\ final'[q] = final[q] /\ queue'[q] = queue[q]
    <2>1. CASE LaunchStarts(r) \/ Launches(r)
      BY <2>1 DEF TypeOK, LaunchStarts, Launches, LaunchTakes, LaunchRecords, LaunchAccepts,
                  LaunchFails, hostVars, diskVars
    <2>2. CASE RunnerStarts(r)
      BY <2>2 DEF TypeOK, RunnerStarts, Becomes, hostVars, diskVars
    <2>3. CASE RunnerRuns(r) \/ RunnerUpdates(r) \/ Pause(r) \/ Resume(r) \/ Abort(r)
      BY <2>3 DEF TypeOK, RunnerRuns, RunnerUpdates, Pause, Resume, Abort, Becomes, hostVars, diskVars
    <2>4. CASE \E end \in Terminal : RunnerEnds(r, end)
      BY <2>4 DEF TypeOK, RunnerEnds, Becomes, hostVars, diskVars
    <2>5. CASE Finishes(r) \/ Settles(r)
      BY <2>5 DEF TypeOK, Finishes, Settles, hostVars, diskVars
    <2>6. CASE WriteDone(r)
      BY <2>6 DEF TypeOK, WriteDone, Dequeued
    <2>7. CASE WriteFails(r)
      BY <2>7 DEF TypeOK, WriteFails, Dequeued
    <2>. QED BY <2>1, <2>2, <2>3, <2>4, <2>5, <2>6, <2>7 DEF OwnStep, Executes, Writes
  <1>. QED BY <1>1, Untouched

LEMMA OwnSteps ==
  ASSUME IInv, NEW r \in Runs, OwnStep(r)
  PROVE  IInv'
  <1>1. /\ Alive /\ UNCHANGED <<host, waits>>
    BY DEF OwnStep, LaunchStarts, Launches, LaunchTakes, LaunchRecords, LaunchAccepts, LaunchFails,
           Executes, RunnerStarts, RunnerRuns, RunnerUpdates, RunnerEnds, Finishes, Settles,
           Writes, WriteDone, WriteFails, Pause, Resume, Abort, hostVars
  <1>2. RunInv(r)' /\ (FlushInv(r) => FlushInv(r)')
    BY LaunchSteps, ExecutionSteps, WriteSteps DEF IInv, OwnStep
  <1>3. ASSUME NEW q \in Runs PROVE RunInv(q)' /\ (FlushInv(q) => FlushInv(q)')
    BY <1>2, OtherRuns DEF IInv
  <1>4. TypeOK'
    BY TypeNext DEF IInv, Next, OwnStep
  <1>5. HostInv'
    <2>1. host' \in {"up", "stopping", "flushing"} /\ waits' = waits /\ waits \subseteq Runs /\ host' = host
      BY <1>1 DEF Alive, IInv, TypeOK
    <2>2. host = "flushing" => \A q \in waits : FlushInv(q)'
      BY <2>1, <1>3 DEF IInv, HostInv
    <2>. QED BY <2>1, <2>2 DEF HostInv
  <1>. QED BY <1>3, <1>4, <1>5 DEF IInv

-----------------------------------------------------------------------------
(* The host *)

LEMMA ShutdownSteps ==
  ASSUME IInv, ShutdownStarts \/ ShutdownSettles \/ ShutdownFlushes \/ Crash
  PROVE  IInv'
  <1>1. TypeOK'
    BY TypeNext DEF IInv, Next
  <1>2. \A q \in Runs : RunInv(q)'
    <2>1. ASSUME NEW q \in Runs PROVE RunInv(q)'
      BY Untouched DEF IInv, ShutdownStarts, ShutdownSettles, ShutdownFlushes, Crash,
                       runVars, diskVars
    <2>. QED BY <2>1
  <1>3. HostInv'
    <2>1. CASE ShutdownStarts
      BY <2>1 DEF ShutdownStarts, HostInv
    <2>2. CASE ShutdownSettles
      <3>1. /\ waits \subseteq Runs /\ waits' = waits /\ host' = "exited" /\ run' = run /\ lost' = lost
            /\ \A r \in waits : exec[r] = "settled"
        BY <2>2 DEF ShutdownSettles, IInv, TypeOK, diskVars
      <3>2. ASSUME NEW r \in waits PROVE run[r] \in Terminal \/ lost[r]
        <4>1. RunInv(r) /\ exec[r] = "settled"
          BY <3>1 DEF IInv
        <4>2. status[r] \in Terminal /\ queue[r] = <<>> /\ Saved(r, 0)
          BY <4>1 DEF RunInv, EndInv, SavedInv
        <4>. QED BY <4>2 DEF Saved
      <3>. QED BY <3>1, <3>2 DEF HostInv
    <2>3. CASE ShutdownFlushes
      <3>1. /\ waits' = waits /\ host' = "exited" /\ run' = run /\ lost' = lost
            /\ \A r \in waits : FlushInv(r) /\ owed[r] = 0
        BY <2>3 DEF ShutdownFlushes, IInv, HostInv, diskVars
      <3>2. ASSUME NEW r \in waits PROVE run[r] \in Terminal \/ lost[r]
        <4>1. Saved(r, 0)
          BY <3>1 DEF FlushInv
        <4>. QED BY <4>1 DEF Saved
      <3>. QED BY <3>1, <3>2 DEF HostInv
    <2>4. CASE Crash
      BY <2>4 DEF Crash, HostInv
    <2>. QED BY <2>1, <2>2, <2>3, <2>4
  <1>. QED BY <1>1, <1>2, <1>3 DEF IInv

LEMMA TimeOutStep ==
  ASSUME IInv, ShutdownTimesOut
  PROVE  IInv'
  <1>1. TypeOK /\ TypeOK'
    BY TypeNext DEF IInv, Next
  <1>2. /\ launch' = launch /\ taken' = taken /\ exec' = exec
        /\ run' = run /\ result' = result /\ lost' = lost /\ waits' = waits /\ host' = "flushing"
        /\ waits \subseteq Runs /\ \A q \in waits : launch[q] \in {"accepted", "refused"}
    BY <1>1 DEF ShutdownTimesOut, GraceIsOver, diskVars, TypeOK
  <1>3. ASSUME NEW q \in Runs PROVE RunInv(q)' /\ (q \in waits => FlushInv(q)')
    <2>1. CASE q \in GivenUp
      <3>1. /\ status'[q] = "cancelled" /\ queue'[q] = Append(queue[q], "cancelled")
            /\ final'[q] = "cancelled" /\ owed'[q] = Len(queue'[q]) /\ q \in waits
            /\ status[q] \notin Terminal
        BY <1>1, <2>1 DEF ShutdownTimesOut, GivenUp
      <3>2. RunInv(q) /\ "cancelled" \in Statuses /\ "cancelled" \in Terminal
        BY DEF IInv, Statuses, Terminal
      <3>3. final'[q] = IF final[q] = "none" /\ "cancelled" \in Terminal THEN "cancelled" ELSE final[q]
        <4>1. launch[q] # "gone"
          BY <1>2, <3>1
        <4>2. final[q] = "none"
          BY <1>1, <3>1, <3>2, <4>1 DEF RunInv, EndInv, TypeOK
        <4>. QED BY <3>1, <3>2, <4>2
      <3>4. RunInv(q)'
        <4>1. Len(queue'[q]) = Len(queue[q]) + 1
          BY <1>1, <3>1 DEF TypeOK
        <4>. QED BY <1>1, <1>2, <3>1, <3>2, <3>3, Changes
      <3>5. FlushInv(q)'
        BY <1>1, <3>1, <3>2, <3>4 DEF RunInv, SavedInv, FlushInv, Saved, TypeOK
      <3>. QED BY <3>4, <3>5
    <2>2. CASE q \notin GivenUp
      <3>1. /\ status'[q] = status[q] /\ queue'[q] = queue[q] /\ final'[q] = final[q]
            /\ q \in waits => owed'[q] = Len(queue'[q]) /\ status[q] \in Terminal
        BY <1>1, <2>2 DEF ShutdownTimesOut, GivenUp
      <3>2. RunInv(q)'
        BY <1>2, <3>1, Untouched DEF IInv
      <3>3. q \in waits => FlushInv(q)'
        BY <1>1, <3>1, <3>2 DEF RunInv, SavedInv, FlushInv, Saved, TypeOK
      <3>. QED BY <3>2, <3>3
    <2>. QED BY <2>1, <2>2
  <1>4. HostInv'
    BY <1>2, <1>3 DEF HostInv
  <1>. QED BY <1>1, <1>3, <1>4 DEF IInv

LEMMA RestartSteps ==
  ASSUME IInv, Restart \/ RestoreEnds \/ \E r \in Runs : Restore(r) \/ RestoreFails(r)
  PROVE  IInv'
  <1>1. TypeOK /\ TypeOK'
    BY TypeNext DEF IInv, Next
  <1>2. CASE Restart
    <2>1. ASSUME NEW q \in Runs PROVE RunInv(q)'
      <3>1. /\ launch'[q] = (IF launch[q] = "new" THEN "new" ELSE "gone") /\ taken'[q] = "queued"
            /\ status'[q] = "queued" /\ exec'[q] = "idle" /\ queue'[q] = <<>>
            /\ final' = final /\ run' = run /\ result' = result /\ lost' = lost
        BY <1>2 DEF Restart, diskVars
      <3>2. RunInv(q)
        BY DEF IInv
      <3>3. LaunchInv(q)' /\ EndInv(q)'
        BY <3>1, <3>2 DEF RunInv, LaunchInv, EndInv, Terminal
      <3>4. DiskInv(q)'
        BY <3>1, <3>2 DEF RunInv, LaunchInv, DiskInv, Terminal
      <3>5. QueueInv(q)' /\ SavedInv(q)'
        BY <3>1 DEF QueueInv, SavedInv, Terminal
      <3>. QED BY <3>3, <3>4, <3>5 DEF RunInv
    <2>2. HostInv'
      BY <1>2 DEF Restart, HostInv, diskVars
    <2>. QED BY <1>1, <2>1, <2>2 DEF IInv
  <1>3. CASE RestoreEnds
    <2>1. ASSUME NEW q \in Runs PROVE RunInv(q)'
      BY <1>3, Untouched DEF RestoreEnds, runVars, diskVars, IInv
    <2>. QED BY <1>1, <1>3, <2>1 DEF RestoreEnds, HostInv, IInv
  <1>4. ASSUME NEW r \in Runs, RestoreFails(r) PROVE IInv'
    <2>1. ASSUME NEW q \in Runs PROVE RunInv(q)'
      BY <1>4, Untouched DEF RestoreFails, runVars, diskVars, IInv
    <2>. QED BY <1>1, <1>4, <2>1 DEF RestoreFails, HostInv, IInv
  <1>5. ASSUME NEW r \in Runs, Restore(r) PROVE IInv'
    <2>1. /\ host = "restoring" /\ r \in waits /\ host' = host /\ waits' = waits \ {r}
          /\ launch' = launch /\ taken' = taken /\ status' = status /\ exec' = exec
          /\ queue' = queue /\ final' = final /\ result' = result /\ lost' = lost
          /\ run'[r] = IF run[r] \in Terminal THEN run[r] ELSE "failed"
          /\ \A q \in Runs : q # r => run'[q] = run[q]
      BY <1>1, <1>5 DEF Restore, Unfinished, Interrupted, runVars, TypeOK
    <2>2. launch[r] = "gone"
      BY <2>1 DEF IInv, HostInv, RunInv, LaunchInv
    <2>3. RunInv(r)'
      <3>1. RunInv(r) /\ "failed" \in Terminal
        BY DEF IInv, Terminal
      <3>2. LaunchInv(r)' /\ EndInv(r)'
        BY <2>1, <2>2, <3>1 DEF RunInv, LaunchInv, EndInv
      <3>3. DiskInv(r)'
        BY <2>1, <2>2, <3>1, <1>1 DEF RunInv, DiskInv, TypeOK
      <3>4. queue[r] = <<>> /\ status[r] = "queued"
        BY <2>2, <3>1 DEF RunInv, LaunchInv
      <3>5. QueueInv(r)' /\ SavedInv(r)'
        BY <2>1, <3>4 DEF QueueInv, SavedInv, Terminal
      <3>. QED BY <3>2, <3>3, <3>5 DEF RunInv
    <2>4. ASSUME NEW q \in Runs PROVE RunInv(q)'
      BY <2>1, <2>3, Untouched DEF IInv
    <2>5. HostInv'
      BY <2>1, <1>1 DEF HostInv, IInv, TypeOK
    <2>. QED BY <1>1, <2>4, <2>5 DEF IInv
  <1>. QED BY <1>2, <1>3, <1>4, <1>5

-----------------------------------------------------------------------------
LEMMA IInvInit == Init => IInv
  <1>. SUFFICES ASSUME Init PROVE IInv
    OBVIOUS
  <1>1. TypeOK
    BY TypeInit
  <1>2. ASSUME NEW r \in Runs PROVE RunInv(r)
    BY DEF Init, RunInv, LaunchInv, EndInv, QueueInv, DiskInv, SavedInv, Terminal
  <1>3. HostInv
    BY DEF Init, HostInv
  <1>. QED BY <1>1, <1>2, <1>3 DEF IInv

LEMMA IInvNext == IInv /\ [Next]_vars => IInv'
  <1>. SUFFICES ASSUME IInv, [Next]_vars PROVE IInv'
    OBVIOUS
  <1>1. CASE \E r \in Runs : OwnStep(r)
    BY <1>1, OwnSteps
  <1>2. CASE ShutdownStarts \/ ShutdownSettles \/ ShutdownFlushes \/ Crash
    BY <1>2, ShutdownSteps
  <1>3. CASE ShutdownTimesOut
    BY <1>3, TimeOutStep
  <1>4. CASE Restart \/ RestoreEnds \/ \E r \in Runs : Restore(r) \/ RestoreFails(r)
    BY <1>4, RestartSteps
  <1>5. CASE UNCHANGED vars
    <2>1. TypeOK'
      BY TypeNext DEF IInv
    <2>2. ASSUME NEW q \in Runs PROVE RunInv(q)' /\ (FlushInv(q) => FlushInv(q)')
      BY <1>5, Untouched DEF IInv, vars, runVars, hostVars, diskVars
    <2>3. HostInv'
      <3>1. waits \subseteq Runs /\ UNCHANGED <<host, waits, launch, run, lost>>
        BY <1>5 DEF IInv, TypeOK, vars, runVars, hostVars, diskVars
      <3>. QED BY <2>2, <3>1 DEF IInv, HostInv
    <2>. QED BY <2>1, <2>2, <2>3 DEF IInv
  <1>. QED BY <1>1, <1>2, <1>3, <1>4, <1>5 DEF Next, OwnStep

LEMMA AlwaysIInv == Spec => []IInv
  BY IInvInit, IInvNext, PTL DEF Spec

\* For any number of runs, the end that run.json tells is the run's own, or that of
\* a run whose host went away (RecordsAreTrue).
THEOREM RecordsTrue == Spec => []RecordsAreTrue
  <1>1. IInv => RecordsAreTrue
    BY DEF IInv, RunInv, DiskInv, RecordsAreTrue
  <1>. QED BY AlwaysIInv, <1>1, PTL

\* A result on the disk stands behind a record that agrees with it (ResultFollowsRecord).
THEOREM ResultBehindRecord == Spec => []ResultFollowsRecord
  <1>1. IInv => ResultFollowsRecord
    BY DEF IInv, RunInv, DiskInv, ResultFollowsRecord
  <1>. QED BY AlwaysIInv, <1>1, PTL

\* An orderly shutdown leaves no unfinished record of what it waited for, unless
\* its writing failed (ShutdownKeepsRecords).
THEOREM ShutdownKeeps == Spec => []ShutdownKeepsRecords
  <1>1. IInv => ShutdownKeepsRecords
    BY DEF IInv, HostInv, ShutdownKeepsRecords
  <1>. QED BY AlwaysIInv, <1>1, PTL

\* A record that says that the run has ended is never written again with another
\* status, not even by the next host (RecordIsFinal).
THEOREM RecordStays == Spec => RecordIsFinal
  <1>1. ASSUME IInv, [Next]_vars, NEW r \in Runs, run[r] \in Terminal
        PROVE  run'[r] = run[r]
    <2>1. TypeOK /\ RunInv(r)
      BY <1>1 DEF IInv
    <2>2. CASE UNCHANGED run
      BY <2>2
    <2>3. ASSUME NEW q \in Runs, LaunchRecords(q) PROVE run'[r] = run[r]
      <3>1. q # r
        BY <1>1, <2>1, <2>3 DEF RunInv, LaunchInv, LaunchRecords, Terminal
      <3>. QED BY <2>1, <2>3, <3>1 DEF LaunchRecords, TypeOK
    <2>4. ASSUME NEW q \in Runs, WriteDone(q) PROVE run'[r] = run[r]
      <3>1. CASE q = r /\ Head(queue[r]) # "result"
        <4>1. /\ queue[r] # <<>> /\ queue[r] \in Seq(Statuses \cup {"result"})
              /\ run'[r] = Head(queue[r])
          BY <2>1, <2>4, <3>1 DEF WriteDone, TypeOK
        <4>2. 1 \in 1..Len(queue[r]) /\ Head(queue[r]) = queue[r][1]
          BY <4>1
        <4>3. launch[r] # "gone"
          BY <2>1, <4>1 DEF RunInv, LaunchInv
        <4>4. OnlyEnds(r) /\ run[r] = final[r]
          BY <1>1, <2>1, <4>3 DEF RunInv, DiskInv
        <4>5. queue[r][1] \in Terminal
          BY <3>1, <4>2, <4>4 DEF OnlyEnds, Ends
        <4>. QED BY <2>1, <4>1, <4>2, <4>4, <4>5 DEF RunInv, QueueInv
      <3>2. CASE q # r \/ Head(queue[r]) = "result"
        BY <2>1, <2>4, <3>2 DEF WriteDone, TypeOK
      <3>. QED BY <3>1, <3>2
    <2>5. ASSUME NEW q \in Runs, Restore(q) PROVE run'[r] = run[r]
      BY <1>1, <2>1, <2>5 DEF Restore, Unfinished, TypeOK
    <2>6. CASE \E q \in Runs : OwnStep(q)
      BY <2>3, <2>4, <2>6
      DEF OwnStep, LaunchStarts, Launches, LaunchTakes, LaunchAccepts, LaunchFails, Executes,
          RunnerStarts, RunnerRuns, RunnerUpdates, RunnerEnds, Finishes, Settles, Writes,
          WriteFails, Pause, Resume, Abort, diskVars
    <2>7. ASSUME NEW q \in Runs, RestoreFails(q) PROVE run'[r] = run[r]
      BY <2>7 DEF RestoreFails, diskVars
    <2>8. CASE \/ ShutdownStarts \/ ShutdownSettles \/ ShutdownTimesOut \/ ShutdownFlushes
               \/ Crash \/ Restart \/ RestoreEnds \/ UNCHANGED vars
      BY <2>8 DEF ShutdownStarts, ShutdownSettles, ShutdownTimesOut, ShutdownFlushes, Crash,
                  Restart, RestoreEnds, diskVars, vars
    <2>. QED BY <1>1, <2>5, <2>6, <2>7, <2>8 DEF Next, OwnStep
  <1>2. IInv /\ [Next]_vars => [\A r \in Runs : run[r] \in Terminal => run'[r] = run[r]]_vars
    BY <1>1
  <1>. QED BY AlwaysIInv, <1>2, PTL DEF Spec, RecordIsFinal
=============================================================================
