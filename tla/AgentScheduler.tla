--------------------------- MODULE AgentScheduler ---------------------------
(***************************************************************************)
(* The scheduler that all workflow runs of a process share                 *)
(* (pi-extension-workflows/src/scheduler.ts): a bounded number of agent    *)
(* calls work at a time, the others wait in the order in which they came,  *)
(* and calls of a paused run are passed over.  A call gives up when its    *)
(* run is cancelled or its timer fires.                                    *)
(*                                                                         *)
(* A granted slot is an argument of a promise: the call goes on in a later *)
(* microtask, and by then it may have been stopped.                        *)
(***************************************************************************)
EXTENDS Integers, FiniteSets

CONSTANTS
  Calls,           \* calls of schedule
  Runs,            \* workflow runs
  RunOf,           \* the run of a call; NoRun for one that names none
  NoRun,
  MaxConcurrency

ASSUME SchedulerAssumption ==
  /\ IsFiniteSet(Calls) /\ NoRun \notin Runs
  /\ RunOf \in [Calls -> Runs \cup {NoRun}]
  /\ MaxConcurrency \in Nat \ {0}

VARIABLES
  call,       \* how far each call has come
  active,     \* #active
  waiters,    \* #waiters, and the order in which they were pushed
  place,
  pushes,
  paused,     \* #pausedRuns
  stopped,    \* the calls whose controller is aborted
  cancelled   \* the runs whose signal is aborted

schedulerVars == <<call, active, waiters, place, pushes, paused, stopped, cancelled>>

Holding == {c \in Calls : call[c] \in {"granted", "working"}}
CallsOf(r) == {c \in Calls : RunOf[c] = r}

-----------------------------------------------------------------------------
Smaller(m, n) == IF m < n THEN m ELSE n

FirstOnly(G, ws, free, ps) ==       \* mutant of Grants: the search ends at a paused waiter
  LET eligible == {c \in ws : \A d \in ws : place[d] <= place[c] => RunOf[d] \notin ps}
  IN  /\ G \subseteq eligible
      /\ Cardinality(G) = Smaller(free, Cardinality(eligible))
      /\ \A c \in G, d \in eligible \ G : place[c] < place[d]

AnyOrder(G, ws, free, ps) ==        \* mutant of Grants: not the first that came
  /\ G \subseteq {c \in ws : RunOf[c] \notin ps}
  /\ Cardinality(G) = Smaller(free, Cardinality({c \in ws : RunOf[c] \notin ps}))

\* #drain: G are those of the waiters ws that get one of the free slots: as many
\* as there are, from the front, passing over the runs in ps. None of the waiters
\* is stopped: an abort takes its waiter out of the list at once.
Grants(G, ws, free, ps) ==
  LET eligible == {c \in ws : RunOf[c] \notin ps}
  IN  /\ G \subseteq eligible
      /\ Cardinality(G) = Smaller(free, Cardinality(eligible))
      /\ \A c \in G, d \in eligible \ G : place[c] < place[d]

\* The calls G are granted a slot, over and above n slots in use.
Grant(G, ws, n) ==
  /\ waiters' = ws \ G
  /\ active' = n + Cardinality(G)

NoDrain(c, st) ==                   \* mutant of Release: the slot is not passed on
  /\ call' = [call EXCEPT ![c] = st]
  /\ active' = active - 1
  /\ UNCHANGED waiters

\* Call c ends and gives its slot back.
Release(c, st) ==
  \E G \in SUBSET waiters :
    /\ Grants(G, waiters, MaxConcurrency - (active - 1), paused)
    /\ Grant(G, waiters, active - 1)
    /\ call' = [d \in Calls |-> IF d = c THEN st ELSE IF d \in G THEN "granted" ELSE call[d]]

-----------------------------------------------------------------------------
\* schedule and #acquire, up to the first await.
Schedule(c) ==
  /\ call[c] = "new"
  /\ IF RunOf[c] \in cancelled
     THEN /\ call' = [call EXCEPT ![c] = "failed"] /\ stopped' = stopped \cup {c}
          /\ UNCHANGED <<active, waiters, place, pushes>>
     ELSE IF active < MaxConcurrency /\ RunOf[c] \notin paused
     THEN /\ call' = [call EXCEPT ![c] = "granted"] /\ active' = active + 1
          /\ UNCHANGED <<waiters, place, pushes, stopped>>
     ELSE /\ call' = [call EXCEPT ![c] = "waiting"] /\ waiters' = waiters \cup {c}
          /\ place' = [place EXCEPT ![c] = pushes] /\ pushes' = pushes + 1
          /\ UNCHANGED <<active, stopped>>
  /\ UNCHANGED <<paused, cancelled>>

LeavesWithSlot(c) ==                \* mutant of Start: throws before the try
  /\ call[c] = "granted"
  /\ call' = [call EXCEPT ![c] = IF c \in stopped THEN "failed" ELSE "working"]
  /\ UNCHANGED <<active, waiters, place, pushes, paused, stopped, cancelled>>

\* The call goes on with its slot.
Start(c) ==
  /\ call[c] = "granted"
  /\ IF c \in stopped
     THEN Release(c, "failed")
     ELSE call' = [call EXCEPT ![c] = "working"] /\ UNCHANGED <<active, waiters>>
  /\ UNCHANGED <<place, pushes, paused, stopped, cancelled>>

\* The work settles; a call that was stopped fails whatever came of it.
Finish(c) ==
  /\ call[c] = "working"
  /\ \E st \in {"done", "failed"} :
       /\ c \in stopped => st = "failed"
       /\ Release(c, st)
  /\ UNCHANGED <<place, pushes, paused, stopped, cancelled>>

\* Aborting a call takes it out of the list if it waits there.
GivesUp(c) == call[c] = "waiting"

Timeout(c) ==
  /\ call[c] \in {"waiting", "granted", "working"} /\ c \notin stopped
  /\ stopped' = stopped \cup {c}
  /\ call' = IF GivesUp(c) THEN [call EXCEPT ![c] = "failed"] ELSE call
  /\ waiters' = waiters \ {c}
  /\ UNCHANGED <<active, place, pushes, paused, cancelled>>

PauseRun(r) ==
  /\ r \notin paused
  /\ paused' = paused \cup {r}
  /\ UNCHANGED <<call, active, waiters, place, pushes, stopped, cancelled>>

JustResumes(r) ==                   \* mutant of ResumeRun: no drain
  /\ r \in paused
  /\ paused' = paused \ {r}
  /\ UNCHANGED <<call, active, waiters, place, pushes, stopped, cancelled>>

ResumeRun(r) ==
  /\ r \in paused
  /\ paused' = paused \ {r}
  /\ \E G \in SUBSET waiters :
       /\ Grants(G, waiters, MaxConcurrency - active, paused')
       /\ Grant(G, waiters, active)
       /\ call' = [c \in Calls |-> IF c \in G THEN "granted" ELSE call[c]]
  /\ UNCHANGED <<place, pushes, stopped, cancelled>>

\* The manager cancels a run. abort resumes it first, so that calls of the run
\* can be granted a slot in the same step as they are stopped; shutdown does not.
CancelRun(r, ps) ==
  /\ r \notin cancelled
  /\ cancelled' = cancelled \cup {r}
  /\ paused' = ps
  /\ \E G \in SUBSET waiters :
       /\ Grants(G, waiters, IF ps = paused THEN 0 ELSE MaxConcurrency - active, ps)
       /\ Grant(G, waiters \ CallsOf(r), active)
       /\ call' = [c \in Calls |-> IF c \in G THEN "granted"
                                   ELSE IF RunOf[c] = r /\ GivesUp(c) THEN "failed" ELSE call[c]]
  /\ stopped' = stopped \cup {c \in CallsOf(r) : call[c] \in {"waiting", "granted", "working"}}
  /\ UNCHANGED <<place, pushes>>

Abort(r)    == CancelRun(r, paused \ {r})
Shutdown(r) == CancelRun(r, paused)

-----------------------------------------------------------------------------
SchedulerInit ==
  /\ call = [c \in Calls |-> "new"]
  /\ active = 0 /\ waiters = {} /\ pushes = 0
  /\ place = [c \in Calls |-> 0]
  /\ paused = {} /\ stopped = {} /\ cancelled = {}

SchedulerNext ==
  \/ \E c \in Calls : Schedule(c) \/ Start(c) \/ Finish(c) \/ Timeout(c)
  \/ \E r \in Runs : PauseRun(r) \/ ResumeRun(r) \/ Abort(r) \/ Shutdown(r)

SchedulerSpec == SchedulerInit /\ [][SchedulerNext]_schedulerVars

\* Microtasks run, and work ends: the task runner kills what does not end by
\* itself. Nothing is assumed of timers, of pauses or of cancellations.
SchedulerFairness == \A c \in Calls : WF_schedulerVars(Start(c)) /\ WF_schedulerVars(Finish(c))

-----------------------------------------------------------------------------
(* Properties *)

SchedulerTypeOK ==
  /\ call \in [Calls -> {"new", "waiting", "granted", "working", "done", "failed"}]
  /\ active \in Nat /\ pushes \in Nat
  /\ waiters \subseteq Calls /\ place \in [Calls -> Nat]
  /\ paused \subseteq Runs /\ stopped \subseteq Calls /\ cancelled \subseteq Runs

\* Every slot in use belongs to one call that will give it back, and there are
\* never more than the limit (#active, #grant).
SlotsAccounted == active = Cardinality(Holding) /\ active <= MaxConcurrency

\* No call waits beside a free slot, unless its run is paused: no wakeup is lost
\* to a timeout, a cancellation or a pause (#drain and its callers).
NoIdleSlot == active < MaxConcurrency => \A c \in waiters : RunOf[c] \in paused

\* A call that comes to a slot has not overtaken one that could have had it
\* (#acquire, #drain).
NoOvertaking ==
  [][\A c, d \in Calls :
       /\ d \notin Holding /\ d \in Holding'
       /\ c \in waiters /\ c \in waiters' /\ RunOf[c] \notin paused'
       => d \in waiters /\ place[d] < place[c]]_schedulerVars

\* Once a run is cancelled, none of its calls starts to work, whatever it had
\* been granted (schedule).
CancelledStartsNothing ==
  [][\A c \in Calls : call[c] # "working" /\ call'[c] = "working" => RunOf[c] \notin cancelled]_schedulerVars

\* A call is not starved: it ends, unless its run is paused again and again.
NoStarvation ==
  \A c \in Calls :
    <>[](RunOf[c] \notin paused) => (call[c] # "new" ~> call[c] \in {"done", "failed"})
=============================================================================
