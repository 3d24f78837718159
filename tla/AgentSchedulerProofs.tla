------------------------ MODULE AgentSchedulerProofs ------------------------
(***************************************************************************)
(* Theorems about AgentScheduler, for any finite set of calls, any runs    *)
(* and any limit: what each run of the model checker checks about slots    *)
(* and their order, except that no call starves.                           *)
(***************************************************************************)
EXTENDS AgentScheduler, FiniteSetTheorems, TLAPS

\* The list of waiters and the states of the calls agree.
WaitersWait == waiters = {c \in Calls : call[c] = "waiting"}

\* The signal of a cancelled run has reached every call that is under way.
CancelStops ==
  \A c \in Calls : call[c] \in {"waiting", "granted", "working"} /\ RunOf[c] \in cancelled
                   => c \in stopped

Inv == SchedulerTypeOK /\ SlotsAccounted /\ NoIdleSlot /\ WaitersWait /\ CancelStops

-----------------------------------------------------------------------------
(* What a drain does, and how slots are counted *)

\* The granted calls are eligible waiters, no more than there are slots; when a
\* slot is left, only calls of paused runs still wait.
LEMMA GrantsFit ==
  ASSUME NEW ws \in SUBSET Calls, NEW free \in Nat, NEW ps, NEW G, Grants(G, ws, free, ps)
  PROVE  /\ G \subseteq ws /\ \A c \in G : RunOf[c] \notin ps
         /\ IsFiniteSet(G) /\ Cardinality(G) \in Nat /\ Cardinality(G) <= free
         /\ Cardinality(G) < free => \A c \in ws \ G : RunOf[c] \in ps
  <1>. DEFINE E == {c \in ws : RunOf[c] \notin ps}
  <1>1. G \in SUBSET E /\ Cardinality(G) = Smaller(free, Cardinality(E))
    BY DEF Grants
  <1>2. IsFiniteSet(E)
    <2>1. E \in SUBSET Calls /\ IsFiniteSet(Calls)
      BY SchedulerAssumption
    <2>. HIDE DEF E
    <2>. QED BY <2>1, FS_Subset
  <1>3. /\ IsFiniteSet(G) /\ Cardinality(G) \in Nat /\ Cardinality(E) \in Nat
        /\ Cardinality(E) = Cardinality(G) => E = G
    <2>. HIDE DEF E
    <2>. QED BY <1>1, <1>2, FS_Subset, FS_CardinalityType
  <1>4. Cardinality(G) <= free /\ (Cardinality(G) < free => Cardinality(E) = Cardinality(G))
    <2>. HIDE DEF E
    <2>. QED BY <1>1, <1>3 DEF Smaller
  <1>. QED BY <1>1, <1>3, <1>4

\* Calls that hold a slot are finitely many.
LEMMA HoldingFinite == IsFiniteSet(Holding) /\ Cardinality(Holding) \in Nat
  <1>1. Holding \in SUBSET Calls /\ IsFiniteSet(Calls)
    BY SchedulerAssumption DEF Holding
  <1>. QED BY <1>1, FS_Subset, FS_CardinalityType

\* New holders add up to the old ones.
LEMMA HoldersAdd ==
  ASSUME NEW H, IsFiniteSet(H), NEW G, IsFiniteSet(G), H \cap G = {}
  PROVE  Cardinality(H \cup G) = Cardinality(H) + Cardinality(G)
  <1>1. Cardinality(H \cap G) = 0 /\ Cardinality(H) \in Nat /\ Cardinality(G) \in Nat
    BY FS_EmptySet, FS_CardinalityType
  <1>2. Cardinality(H \cup G) = Cardinality(H) + Cardinality(G) - Cardinality(H \cap G)
    BY FS_Union
  <1>. QED BY <1>1, <1>2

\* A step that leaves every slot with its holder.
LEMMA SameHolders ==
  ASSUME SlotsAccounted, Holding' = Holding, active' = active
  PROVE  SlotsAccounted'
  BY DEF SlotsAccounted

\* A drain of the waiters ws from a state in which no slot is given back.
LEMMA DrainAdds ==
  ASSUME Inv, NEW ws \in SUBSET waiters, NEW ps, NEW G, NEW free \in Nat,
         free <= MaxConcurrency - active,
         Grants(G, ws, free, ps), active' = active + Cardinality(G),
         Holding' = Holding \cup G
  PROVE  SlotsAccounted'
  <1>1. ws \in SUBSET Calls /\ waiters \cap Holding = {}
    BY DEF Inv, SchedulerTypeOK, WaitersWait, Holding
  <1>2. G \subseteq ws /\ IsFiniteSet(G) /\ Cardinality(G) \in Nat /\ Cardinality(G) <= free
    BY <1>1, GrantsFit
  <1>3. Cardinality(Holding \cup G) = Cardinality(Holding) + Cardinality(G)
    BY <1>1, <1>2, HoldingFinite, HoldersAdd
  <1>4. active \in Nat /\ active = Cardinality(Holding) /\ MaxConcurrency \in Nat
    BY SchedulerAssumption DEF Inv, SchedulerTypeOK, SlotsAccounted
  <1>. QED BY <1>2, <1>3, <1>4 DEF SlotsAccounted

\* A holder ends: its slot goes to the waiters, and the invariant stays.
LEMMA ReleaseKeeps ==
  ASSUME Inv, NEW c \in Holding, NEW st \in {"done", "failed"}, Release(c, st),
         UNCHANGED <<place, pushes, paused, stopped, cancelled>>
  PROVE  Inv'
  <1>1. PICK G \in SUBSET waiters :
          /\ Grants(G, waiters, MaxConcurrency - (active - 1), paused)
          /\ Grant(G, waiters, active - 1)
          /\ call' = [d \in Calls |-> IF d = c THEN st ELSE IF d \in G THEN "granted" ELSE call[d]]
    BY DEF Release
  <1>. DEFINE free == MaxConcurrency - (active - 1)
  <1>2. c \in Calls /\ call[c] \in {"granted", "working"} /\ c \notin waiters
    BY DEF Holding, Inv, WaitersWait
  <1>3. active \in Nat /\ active = Cardinality(Holding) /\ active <= MaxConcurrency
        /\ MaxConcurrency \in Nat /\ Cardinality(Holding \ {c}) = active - 1
        /\ IsFiniteSet(Holding \ {c})
    BY SchedulerAssumption, HoldingFinite, FS_RemoveElement DEF Inv, SchedulerTypeOK, SlotsAccounted
  <1>4. Cardinality(Holding \ {c}) \in Nat
    BY <1>3, FS_CardinalityType
  <1>5. free \in Nat /\ waiters \in SUBSET Calls
    BY <1>3 DEF Inv, SchedulerTypeOK
  <1>6. /\ IsFiniteSet(G) /\ Cardinality(G) \in Nat /\ Cardinality(G) <= free
        /\ Cardinality(G) < free => \A d \in waiters \ G : RunOf[d] \in paused
    BY <1>1, <1>5, GrantsFit
  <1>7. waiters' = waiters \ G /\ active' = (active - 1) + Cardinality(G)
    BY <1>1 DEF Grant
  <1>8. SchedulerTypeOK'
    <2>1. active' \in Nat
      BY <1>3, <1>4, <1>6, <1>7
    <2>. QED BY <1>1, <1>2, <1>7, <2>1 DEF Inv, SchedulerTypeOK
  <1>9. SlotsAccounted'
    <2>1. Holding' = (Holding \ {c}) \cup G
      BY <1>1, <1>2, <1>5 DEF Holding
    <2>2. (Holding \ {c}) \cap G = {}
      BY <1>1 DEF Holding, Inv, WaitersWait
    <2>3. Cardinality(Holding') = (active - 1) + Cardinality(G)
      BY <1>3, <1>6, <2>1, <2>2, HoldersAdd
    <2>. QED BY <1>3, <1>6, <1>7, <2>3 DEF SlotsAccounted
  <1>10. NoIdleSlot'
    BY <1>3, <1>6, <1>7 DEF NoIdleSlot
  <1>11. WaitersWait'
    BY <1>1, <1>2, <1>7 DEF Inv, WaitersWait
  <1>12. CancelStops'
    BY <1>1, <1>2 DEF Inv, CancelStops, WaitersWait
  <1>. QED BY <1>8, <1>9, <1>10, <1>11, <1>12 DEF Inv

-----------------------------------------------------------------------------
(* The invariant is inductive *)

LEMMA InvInit == SchedulerInit => Inv
  <1>. SUFFICES ASSUME SchedulerInit PROVE Inv
    OBVIOUS
  <1>1. SchedulerTypeOK
    BY DEF SchedulerInit, SchedulerTypeOK
  <1>2. SlotsAccounted
    <2>1. Holding = {}
      BY DEF SchedulerInit, Holding
    <2>. QED BY <2>1, FS_EmptySet, SchedulerAssumption DEF SchedulerInit, SlotsAccounted
  <1>. QED BY <1>1, <1>2 DEF SchedulerInit, Inv, NoIdleSlot, WaitersWait, CancelStops

LEMMA InvSchedule ==
  ASSUME Inv, NEW c \in Calls, Schedule(c)
  PROVE  Inv'
  <1>0. call[c] = "new" /\ c \notin Holding /\ c \notin waiters /\ active \in Nat
        /\ MaxConcurrency \in Nat
    BY SchedulerAssumption DEF Schedule, Inv, SchedulerTypeOK, Holding, WaitersWait
  <1>1. CASE RunOf[c] \in cancelled
    <2>1. /\ call' = [call EXCEPT ![c] = "failed"] /\ stopped' = stopped \cup {c}
          /\ UNCHANGED <<active, waiters, place, pushes, paused, cancelled>>
      BY <1>1 DEF Schedule
    <2>2. Holding' = Holding
      BY <1>0, <2>1 DEF Holding, Inv, SchedulerTypeOK
    <2>3. SchedulerTypeOK' /\ NoIdleSlot' /\ WaitersWait' /\ CancelStops'
      BY <1>0, <2>1 DEF Inv, SchedulerTypeOK, NoIdleSlot, WaitersWait, CancelStops
    <2>. QED BY <2>1, <2>2, <2>3, SameHolders DEF Inv
  <1>2. CASE RunOf[c] \notin cancelled /\ active < MaxConcurrency /\ RunOf[c] \notin paused
    <2>1. /\ call' = [call EXCEPT ![c] = "granted"] /\ active' = active + 1
          /\ UNCHANGED <<waiters, place, pushes, stopped, paused, cancelled>>
      BY <1>2 DEF Schedule
    <2>2. Holding' = Holding \cup {c}
      BY <1>0, <2>1 DEF Holding, Inv, SchedulerTypeOK
    <2>3. Cardinality(Holding') = Cardinality(Holding) + 1
      BY <1>0, <2>2, HoldingFinite, FS_AddElement
    <2>4. SlotsAccounted'
      BY <1>0, <1>2, <2>1, <2>3 DEF Inv, SlotsAccounted
    <2>5. NoIdleSlot'
      BY <1>0, <1>2, <2>1 DEF Inv, NoIdleSlot
    <2>6. SchedulerTypeOK' /\ WaitersWait' /\ CancelStops'
      BY <1>0, <1>2, <2>1 DEF Inv, SchedulerTypeOK, WaitersWait, CancelStops
    <2>. QED BY <2>4, <2>5, <2>6 DEF Inv
  <1>3. CASE RunOf[c] \notin cancelled /\ ~(active < MaxConcurrency /\ RunOf[c] \notin paused)
    <2>1. /\ call' = [call EXCEPT ![c] = "waiting"] /\ waiters' = waiters \cup {c}
          /\ place' = [place EXCEPT ![c] = pushes] /\ pushes' = pushes + 1
          /\ UNCHANGED <<active, stopped, paused, cancelled>>
      BY <1>3 DEF Schedule
    <2>2. Holding' = Holding
      BY <1>0, <2>1 DEF Holding, Inv, SchedulerTypeOK
    <2>3. SchedulerTypeOK' /\ NoIdleSlot' /\ WaitersWait' /\ CancelStops'
      BY <1>0, <1>3, <2>1 DEF Inv, SchedulerTypeOK, NoIdleSlot, WaitersWait, CancelStops
    <2>. QED BY <2>1, <2>2, <2>3, SameHolders DEF Inv
  <1>. QED BY <1>1, <1>2, <1>3

LEMMA InvStart ==
  ASSUME Inv, NEW c \in Calls, Start(c)
  PROVE  Inv'
  <1>0. call[c] = "granted" /\ c \in Holding
    BY DEF Start, Holding
  <1>1. CASE c \in stopped
    BY <1>0, <1>1, ReleaseKeeps DEF Start
  <1>2. CASE c \notin stopped
    <2>1. call' = [call EXCEPT ![c] = "working"]
          /\ UNCHANGED <<active, waiters, place, pushes, paused, stopped, cancelled>>
      BY <1>2 DEF Start
    <2>2. Holding' = Holding
      BY <1>0, <2>1 DEF Holding, Inv, SchedulerTypeOK
    <2>3. SchedulerTypeOK' /\ NoIdleSlot' /\ WaitersWait' /\ CancelStops'
      BY <1>0, <2>1 DEF Inv, SchedulerTypeOK, NoIdleSlot, WaitersWait, CancelStops
    <2>. QED BY <2>1, <2>2, <2>3, SameHolders DEF Inv
  <1>. QED BY <1>1, <1>2

LEMMA InvFinish ==
  ASSUME Inv, NEW c \in Calls, Finish(c)
  PROVE  Inv'
  <1>1. c \in Holding
    BY DEF Finish, Holding
  <1>2. PICK st \in {"done", "failed"} : Release(c, st)
    BY DEF Finish
  <1>. QED BY <1>1, <1>2, ReleaseKeeps DEF Finish

LEMMA InvTimeout ==
  ASSUME Inv, NEW c \in Calls, Timeout(c)
  PROVE  Inv'
  <1>1. CASE GivesUp(c)
    <2>1. /\ call' = [call EXCEPT ![c] = "failed"] /\ waiters' = waiters \ {c}
          /\ stopped' = stopped \cup {c}
          /\ UNCHANGED <<active, place, pushes, paused, cancelled>>
      BY <1>1 DEF Timeout
    <2>2. Holding' = Holding
      BY <1>1, <2>1 DEF GivesUp, Holding, Inv, SchedulerTypeOK
    <2>3. SchedulerTypeOK' /\ NoIdleSlot' /\ WaitersWait' /\ CancelStops'
      BY <1>1, <2>1 DEF GivesUp, Inv, SchedulerTypeOK, NoIdleSlot, WaitersWait, CancelStops
    <2>. QED BY <2>1, <2>2, <2>3, SameHolders DEF Inv
  <1>2. CASE ~GivesUp(c)
    <2>1. /\ call' = call /\ waiters' = waiters /\ stopped' = stopped \cup {c}
          /\ UNCHANGED <<active, place, pushes, paused, cancelled>>
      BY <1>2 DEF Timeout, GivesUp, Inv, WaitersWait
    <2>2. Holding' = Holding
      BY <2>1 DEF Holding
    <2>3. SchedulerTypeOK' /\ NoIdleSlot' /\ WaitersWait' /\ CancelStops'
      BY <2>1 DEF Inv, SchedulerTypeOK, NoIdleSlot, WaitersWait, CancelStops
    <2>. QED BY <2>1, <2>2, <2>3, SameHolders DEF Inv
  <1>. QED BY <1>1, <1>2

LEMMA InvPause ==
  ASSUME Inv, NEW r \in Runs, PauseRun(r)
  PROVE  Inv'
  <1>1. Holding' = Holding /\ active' = active
    BY DEF PauseRun, Holding
  <1>2. SchedulerTypeOK' /\ NoIdleSlot' /\ WaitersWait' /\ CancelStops'
    BY DEF PauseRun, Inv, SchedulerTypeOK, NoIdleSlot, WaitersWait, CancelStops
  <1>. QED BY <1>1, <1>2, SameHolders DEF Inv

LEMMA InvResume ==
  ASSUME Inv, NEW r \in Runs, ResumeRun(r)
  PROVE  Inv'
  <1>1. PICK G \in SUBSET waiters :
          /\ Grants(G, waiters, MaxConcurrency - active, paused')
          /\ Grant(G, waiters, active)
          /\ call' = [c \in Calls |-> IF c \in G THEN "granted" ELSE call[c]]
    BY DEF ResumeRun
  <1>. DEFINE free == MaxConcurrency - active
  <1>2. free \in Nat /\ active \in Nat /\ MaxConcurrency \in Nat /\ waiters \in SUBSET Calls
    BY SchedulerAssumption DEF Inv, SchedulerTypeOK, SlotsAccounted
  <1>3. /\ IsFiniteSet(G) /\ Cardinality(G) \in Nat /\ Cardinality(G) <= free
        /\ Cardinality(G) < free => \A d \in waiters \ G : RunOf[d] \in paused'
    BY <1>1, <1>2, GrantsFit
  <1>4. waiters' = waiters \ G /\ active' = active + Cardinality(G)
    BY <1>1 DEF Grant
  <1>5. Holding' = Holding \cup G
    BY <1>1, <1>2 DEF Holding
  <1>6. SlotsAccounted'
    BY <1>1, <1>2, <1>4, <1>5, DrainAdds
  <1>7. NoIdleSlot'
    BY <1>2, <1>3, <1>4 DEF NoIdleSlot
  <1>8. SchedulerTypeOK' /\ WaitersWait' /\ CancelStops'
    <2>1. paused' = paused \ {r} /\ UNCHANGED <<place, pushes, stopped, cancelled>>
      BY DEF ResumeRun
    <2>2. active' \in Nat
      BY <1>2, <1>3, <1>4
    <2>3. SchedulerTypeOK'
      BY <1>1, <1>4, <2>1, <2>2 DEF Inv, SchedulerTypeOK
    <2>4. WaitersWait' /\ CancelStops'
      BY <1>1, <1>4, <2>1 DEF Inv, WaitersWait, CancelStops
    <2>. QED BY <2>3, <2>4
  <1>. QED BY <1>6, <1>7, <1>8 DEF Inv

LEMMA InvCancel ==
  ASSUME Inv, NEW r \in Runs, NEW ps \in SUBSET Runs, ps = paused \/ ps = paused \ {r},
         CancelRun(r, ps)
  PROVE  Inv'
  <1>. DEFINE free == IF ps = paused THEN 0 ELSE MaxConcurrency - active
              under == {"waiting", "granted", "working"}
  <1>1. PICK G \in SUBSET waiters :
          /\ Grants(G, waiters, free, ps)
          /\ Grant(G, waiters \ CallsOf(r), active)
          /\ call' = [c \in Calls |-> IF c \in G THEN "granted"
                                      ELSE IF RunOf[c] = r /\ GivesUp(c) THEN "failed" ELSE call[c]]
    BY DEF CancelRun
  <1>2. /\ free \in Nat /\ free <= MaxConcurrency - active
        /\ active \in Nat /\ MaxConcurrency \in Nat /\ waiters \in SUBSET Calls
    BY SchedulerAssumption DEF Inv, SchedulerTypeOK, SlotsAccounted
  <1>3. /\ IsFiniteSet(G) /\ Cardinality(G) \in Nat /\ Cardinality(G) <= free
        /\ Cardinality(G) < free => \A d \in waiters \ G : RunOf[d] \in ps
    <2>. HIDE DEF free
    <2>. QED BY <1>1, <1>2, GrantsFit
  <1>4. waiters' = (waiters \ CallsOf(r)) \ G /\ active' = active + Cardinality(G)
    BY <1>1 DEF Grant
  <1>5. /\ cancelled' = cancelled \cup {r} /\ paused' = ps /\ UNCHANGED <<place, pushes>>
        /\ stopped' = stopped \cup {c \in CallsOf(r) : call[c] \in under}
    BY DEF CancelRun
  <1>6. SlotsAccounted'
    <2>1. Holding' = Holding \cup G
      BY <1>1, <1>2 DEF Holding, GivesUp
    <2>. HIDE DEF free
    <2>. QED BY <1>1, <1>2, <1>4, <2>1, DrainAdds
  <1>7. NoIdleSlot'
    <2>1. CASE ps = paused
      <3>1. active' = active
        BY <1>2, <1>3, <1>4, <2>1
      <3>. QED BY <1>4, <1>5, <2>1, <3>1 DEF Inv, NoIdleSlot
    <2>2. CASE ps # paused
      BY <1>2, <1>3, <1>4, <1>5, <2>2 DEF NoIdleSlot
    <2>. QED BY <2>1, <2>2
  <1>8. SchedulerTypeOK'
    <2>1. active' \in Nat
      BY <1>2, <1>3, <1>4
    <2>. QED BY <1>1, <1>4, <1>5, <2>1 DEF Inv, SchedulerTypeOK, CallsOf
  <1>9. WaitersWait'
    BY <1>1, <1>4 DEF Inv, WaitersWait, CallsOf, GivesUp
  <1>10. CancelStops'
    <2>1. \A c \in Calls : call'[c] \in under => call[c] \in under
      BY <1>1 DEF Inv, WaitersWait
    <2>. QED BY <1>5, <2>1 DEF Inv, CancelStops, CallsOf
  <1>. QED BY <1>6, <1>7, <1>8, <1>9, <1>10 DEF Inv

LEMMA InvStep == Inv /\ [SchedulerNext]_schedulerVars => Inv'
  <1>. SUFFICES ASSUME Inv, [SchedulerNext]_schedulerVars PROVE Inv'
    OBVIOUS
  <1>1. ASSUME NEW c \in Calls, Schedule(c) \/ Start(c) \/ Finish(c) \/ Timeout(c) PROVE Inv'
    BY <1>1, InvSchedule, InvStart, InvFinish, InvTimeout
  <1>2. ASSUME NEW r \in Runs, PauseRun(r) \/ ResumeRun(r) PROVE Inv'
    BY <1>2, InvPause, InvResume
  <1>3. ASSUME NEW r \in Runs, Abort(r) \/ Shutdown(r) PROVE Inv'
    <2>1. paused \in SUBSET Runs /\ paused \ {r} \in SUBSET Runs
      BY DEF Inv, SchedulerTypeOK
    <2>. QED BY <1>3, <2>1, InvCancel DEF Abort, Shutdown
  <1>4. CASE UNCHANGED schedulerVars
    <2>1. Holding' = Holding
      BY <1>4 DEF schedulerVars, Holding
    <2>. QED BY <1>4, <2>1, SameHolders DEF schedulerVars, Inv, SchedulerTypeOK, NoIdleSlot, WaitersWait, CancelStops
  <1>. QED BY <1>1, <1>2, <1>3, <1>4 DEF SchedulerNext

LEMMA InvAlways == SchedulerSpec => []Inv
  BY InvInit, InvStep, PTL DEF SchedulerSpec

-----------------------------------------------------------------------------
(* The theorems *)

\* Every slot in use belongs to one call, which will give it back, and there are
\* never more than the limit (#active, #grant).
THEOREM SlotsBounded == SchedulerSpec => [](SchedulerTypeOK /\ SlotsAccounted)
  <1>1. Inv => SchedulerTypeOK /\ SlotsAccounted
    BY DEF Inv
  <1>. QED BY <1>1, InvAlways, PTL

\* No call waits beside a free slot unless its run is paused (#drain).
THEOREM NoSlotIdle == SchedulerSpec => []NoIdleSlot
  <1>1. Inv => NoIdleSlot
    BY DEF Inv
  <1>. QED BY <1>1, InvAlways, PTL

\* Calls come to slots in the order in which they began to wait (#acquire, #drain).
THEOREM OrderKept == SchedulerSpec => NoOvertaking
  <1>. DEFINE A == \A c, d \in Calls :
                     /\ d \notin Holding /\ d \in Holding'
                     /\ c \in waiters /\ c \in waiters' /\ RunOf[c] \notin paused'
                     => d \in waiters /\ place[d] < place[c]
  <1>1. Inv /\ [SchedulerNext]_schedulerVars => [A]_schedulerVars
    <2>. SUFFICES ASSUME Inv, SchedulerNext, NEW c \in Calls, NEW d \in Calls,
                         d \notin Holding, d \in Holding',
                         c \in waiters, c \in waiters', RunOf[c] \notin paused'
                  PROVE  d \in waiters /\ place[d] < place[c]
      BY DEF schedulerVars
    <2>0. call[d] \notin {"granted", "working"} /\ call'[d] \in {"granted", "working"}
      BY DEF Holding
    <2>1. ASSUME NEW x \in Calls, Schedule(x) PROVE FALSE
      <3>1. d = x /\ call' = [call EXCEPT ![x] = "granted"] /\ active < MaxConcurrency /\ paused' = paused
        BY <2>0, <2>1 DEF Schedule, Inv, SchedulerTypeOK
      <3>. QED BY <3>1 DEF Inv, NoIdleSlot
    <2>2. ASSUME NEW x \in Holding, NEW st \in {"done", "failed"}, Release(x, st), paused' = paused
          PROVE  d \in waiters /\ place[d] < place[c]
      <3>1. PICK G \in SUBSET waiters :
              /\ Grants(G, waiters, MaxConcurrency - (active - 1), paused)
              /\ waiters' = waiters \ G
              /\ call' = [e \in Calls |-> IF e = x THEN st ELSE IF e \in G THEN "granted" ELSE call[e]]
        BY <2>2 DEF Release, Grant
      <3>2. d \in G /\ c \notin G
        BY <2>0, <3>1
      <3>. QED BY <2>2, <3>1, <3>2 DEF Grants
    <2>3. ASSUME NEW x \in Calls, Start(x) PROVE d \in waiters /\ place[d] < place[c]
      <3>1. CASE x \in stopped
        BY <2>2, <2>3, <3>1 DEF Start, Holding
      <3>2. CASE x \notin stopped
        BY <2>0, <2>3, <3>2 DEF Start, Inv, SchedulerTypeOK
      <3>. QED BY <3>1, <3>2
    <2>4. ASSUME NEW x \in Calls, Finish(x) PROVE d \in waiters /\ place[d] < place[c]
      BY <2>2, <2>4 DEF Finish, Holding
    <2>5. ASSUME NEW x \in Calls, Timeout(x) PROVE FALSE
      BY <2>0, <2>5 DEF Timeout, GivesUp, Inv, SchedulerTypeOK
    <2>6. ASSUME NEW r \in Runs, PauseRun(r) PROVE FALSE
      BY <2>0, <2>6 DEF PauseRun
    <2>7. ASSUME NEW r \in Runs, ResumeRun(r) PROVE d \in waiters /\ place[d] < place[c]
      BY <2>0, <2>7 DEF ResumeRun, Grants, Grant
    <2>8. ASSUME NEW r \in Runs, NEW ps, CancelRun(r, ps) PROVE d \in waiters /\ place[d] < place[c]
      <3>1. PICK G \in SUBSET waiters :
              /\ Grants(G, waiters, IF ps = paused THEN 0 ELSE MaxConcurrency - active, ps)
              /\ waiters' = (waiters \ CallsOf(r)) \ G
              /\ call' = [e \in Calls |-> IF e \in G THEN "granted"
                                          ELSE IF RunOf[e] = r /\ GivesUp(e) THEN "failed" ELSE call[e]]
        BY <2>8 DEF CancelRun, Grant
      <3>2. d \in G /\ c \notin G /\ paused' = ps
        BY <2>0, <2>8, <3>1 DEF CancelRun
      <3>. QED BY <3>1, <3>2 DEF Grants
    <2>. QED BY <2>1, <2>3, <2>4, <2>5, <2>6, <2>7, <2>8 DEF SchedulerNext, Abort, Shutdown
  <1>. QED BY <1>1, InvAlways, PTL DEF SchedulerSpec, NoOvertaking

\* No call of a cancelled run starts to work, even one that holds a slot (schedule).
THEOREM CancelHolds == SchedulerSpec => CancelledStartsNothing
  <1>. DEFINE A == \A c \in Calls : call[c] # "working" /\ call'[c] = "working" => RunOf[c] \notin cancelled
  <1>1. Inv /\ [SchedulerNext]_schedulerVars => [A]_schedulerVars
    <2>. SUFFICES ASSUME Inv, SchedulerNext, NEW c \in Calls, call[c] # "working", call'[c] = "working",
                         RunOf[c] \in cancelled
                  PROVE  FALSE
      BY DEF schedulerVars
    <2>1. ASSUME NEW x \in Calls, NEW st \in {"done", "failed"}, Release(x, st) PROVE FALSE
      BY <2>1 DEF Release
    <2>2. ASSUME NEW x \in Calls, Start(x) PROVE FALSE
      <3>1. CASE x \in stopped
        BY <2>1, <2>2, <3>1 DEF Start
      <3>2. CASE x \notin stopped
        BY <2>2, <3>2 DEF Start, Inv, SchedulerTypeOK, CancelStops
      <3>. QED BY <3>1, <3>2
    <2>3. ASSUME NEW x \in Calls, Schedule(x) \/ Timeout(x) PROVE FALSE
      BY <2>3 DEF Schedule, Timeout, Inv, SchedulerTypeOK
    <2>4. ASSUME NEW x \in Calls, Finish(x) PROVE FALSE
      BY <2>1, <2>4 DEF Finish
    <2>5. ASSUME NEW r \in Runs, PauseRun(r) \/ ResumeRun(r) PROVE FALSE
      BY <2>5 DEF PauseRun, ResumeRun
    <2>6. ASSUME NEW r \in Runs, NEW ps, CancelRun(r, ps) PROVE FALSE
      BY <2>6 DEF CancelRun
    <2>. QED BY <2>2, <2>3, <2>4, <2>5, <2>6 DEF SchedulerNext, Abort, Shutdown
  <1>. QED BY <1>1, InvAlways, PTL DEF SchedulerSpec, CancelledStartsNothing
=============================================================================
