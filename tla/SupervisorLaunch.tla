-------------------------- MODULE SupervisorLaunch --------------------------
(***************************************************************************)
(* How the servers of one agent directory and port find the RPC supervisor *)
(* they share, or start it: the state file, the socket and the startup     *)
(* lock (rpc-supervisor-state.mjs, rpc-supervisor-client.mjs), and the     *)
(* start and the end of the supervisor itself.  A launcher starts at most  *)
(* one supervisor, which goes by its name.  A step is one file operation,  *)
(* and any process may die between two.                                    *)
(***************************************************************************)

CONSTANTS Launchers, Nothing

ASSUME LaunchersAssumption == Nothing \notin Launchers

VARIABLES
  startLock,   \* who created the lock file
  lockIsOld,   \* its file is older than STARTUP_LOCK_STALE_MS
  stateFile,   \* the supervisor in the state file
  socketFile,  \* the supervisor whose socket is at the path
  launch,      \* what a launcher does next
  found,       \* the state it has read
  supervisor,  \* what the supervisor it started does next
  incumbent,   \* the state which that one has found
  overlapped   \* history: a start was under way when its lock went

launchVars == <<startLock, lockIsOld, stateFile, socketFile, launch, found, supervisor, incumbent, overlapped>>
lockVars   == <<startLock, lockIsOld>>
pathVars   == <<stateFile, socketFile>>

Locked    == {"look", "confirm", "drop", "unlink", "spawn", "wait", "unlock", "unlockFailed"}
Launching == Locked \cup {"read", "connect", "lock", "steal", "reread", "reconnect", "attached", "failed", "died"}
Starting  == {"look", "confirm", "drop", "unlink", "listen", "publish"}
Serving   == {"publish", "up", "closing"}
Leaving   == {"closed", "dropState", "dropSocket"}
Alive(h)  == supervisor[h] \in Starting \cup Serving \cup Leaving

LaunchInit ==
  /\ startLock = Nothing /\ lockIsOld = FALSE
  /\ stateFile = Nothing /\ socketFile = Nothing
  /\ launch = [l \in Launchers |-> "read"] /\ found = [l \in Launchers |-> Nothing]
  /\ supervisor = [l \in Launchers |-> "none"] /\ incumbent = [l \in Launchers |-> Nothing]
  /\ overlapped = FALSE

-----------------------------------------------------------------------------
(* A launcher.                                                             *)

Moves(l, place) == launch' = [launch EXCEPT ![l] = place]
Fails(l)        == Moves(l, "failed")

ReadState(l) ==
  /\ launch[l] \in {"read", "reread"}
  /\ found' = [found EXCEPT ![l] = stateFile]
  /\ Moves(l, IF launch[l] = "read"
              THEN (IF stateFile = Nothing THEN "lock" ELSE "connect")
              ELSE (IF stateFile = Nothing THEN "reread" ELSE "reconnect"))
  /\ UNCHANGED <<lockVars, pathVars, supervisor, incumbent, overlapped>>

\* The socket of the supervisor that was found answers, or another one's, which does
\* not know the token; or nobody does (ENOENT, ECONNREFUSED): start one, or poll on.
Connect(l) ==
  /\ launch[l] \in {"connect", "reconnect"}
  /\ IF socketFile # Nothing /\ supervisor[socketFile] \in Serving
     THEN IF socketFile = found[l] THEN Moves(l, "attached") ELSE Fails(l)
     ELSE Moves(l, IF launch[l] = "connect" THEN "lock" ELSE "reread")
  /\ UNCHANGED <<lockVars, pathVars, found, supervisor, incumbent, overlapped>>

\* A pipe that is reset, or the deadline of the polling.
ConnectFails(l) ==
  /\ launch[l] \in {"connect", "reread", "reconnect"} /\ Fails(l)
  /\ UNCHANGED <<lockVars, pathVars, found, supervisor, incumbent, overlapped>>

TakesAnyLock(l) ==                    \* mutant of TakeLock: the file need not be new
  /\ launch[l] = "lock" /\ startLock' = l /\ lockIsOld' = FALSE /\ Moves(l, "look")
  /\ UNCHANGED <<pathVars, found, supervisor, incumbent, overlapped>>

\* acquireStartupLock: the file is created, or it is there. A stale one is removed
\* in a step of its own; behind a fresh one somebody else is starting.
TakeLock(l) ==
  /\ launch[l] = "lock"
  /\ IF startLock = Nothing
     THEN startLock' = l /\ lockIsOld' = FALSE /\ Moves(l, "look")
     ELSE UNCHANGED lockVars /\ Moves(l, IF lockIsOld THEN "steal" ELSE "reread")
  /\ UNCHANGED <<pathVars, found, supervisor, incumbent, overlapped>>

\* The lock file goes, whosever it is. History: its owner was still at it.
LockGoes(l) ==
  /\ startLock' = Nothing /\ lockIsOld' = FALSE
  /\ overlapped' = (overlapped \/ (startLock # Nothing
       /\ (supervisor[startLock] \in Starting \/ (startLock # l /\ launch[startLock] \in Locked))))

StealLock(l) ==
  /\ launch[l] = "steal" /\ LockGoes(l) /\ Moves(l, "lock")
  /\ UNCHANGED <<pathVars, found, supervisor, incumbent>>

\* Under the lock: a live supervisor is left alone, a dead one's files are removed.
LookUnderLock(l) ==
  /\ launch[l] = "look"
  /\ found' = [found EXCEPT ![l] = stateFile]
  /\ Moves(l, IF stateFile = Nothing THEN "spawn"
              ELSE IF Alive(stateFile) THEN "unlockFailed" ELSE "confirm")
  /\ UNCHANGED <<lockVars, pathVars, supervisor, incumbent, overlapped>>

ConfirmState(l) ==
  /\ launch[l] = "confirm"
  /\ Moves(l, IF stateFile = found[l] THEN "drop" ELSE "unlockFailed")
  /\ UNCHANGED <<lockVars, pathVars, found, supervisor, incumbent, overlapped>>

DropState(l) ==
  /\ launch[l] = "drop" /\ stateFile' = Nothing /\ Moves(l, "unlink")
  /\ UNCHANGED <<lockVars, socketFile, found, supervisor, incumbent, overlapped>>

DropSocket(l) ==
  /\ launch[l] = "unlink" /\ socketFile' = Nothing /\ Moves(l, "spawn")
  /\ UNCHANGED <<lockVars, stateFile, found, supervisor, incumbent, overlapped>>

Spawn(l) ==
  /\ launch[l] = "spawn" /\ Moves(l, "wait")
  /\ supervisor' = [supervisor EXCEPT ![l] = "look"]
  /\ UNCHANGED <<lockVars, pathVars, found, incumbent, overlapped>>

\* waitForSupervisorState: any state will do, and after a while none is waited for.
Wait(l) ==
  /\ launch[l] = "wait"
  /\ \/ stateFile # Nothing /\ Moves(l, "unlock")
     \/ Moves(l, "unlockFailed")
  /\ UNCHANGED <<lockVars, pathVars, found, supervisor, incumbent, overlapped>>

Unlock(l) ==
  /\ launch[l] \in {"unlock", "unlockFailed"} /\ LockGoes(l)
  /\ Moves(l, IF launch[l] = "unlock" THEN "reread" ELSE "failed")
  /\ UNCHANGED <<pathVars, found, supervisor, incumbent>>

LauncherDies(l) ==
  /\ launch[l] \notin {"attached", "failed", "died"} /\ Moves(l, "died")
  /\ UNCHANGED <<lockVars, pathVars, found, supervisor, incumbent, overlapped>>

LockAges ==
  /\ startLock # Nothing /\ ~lockIsOld /\ lockIsOld' = TRUE
  /\ UNCHANGED <<startLock, pathVars, launch, found, supervisor, incumbent, overlapped>>

-----------------------------------------------------------------------------
(* A supervisor.                                                           *)

Advances(h, place) == supervisor' = [supervisor EXCEPT ![h] = place]
otherVars == <<launch, found, incumbent, overlapped>>

\* start: as the launcher did, it refuses beside a live one.
HostLooks(h) ==
  /\ supervisor[h] = "look"
  /\ incumbent' = [incumbent EXCEPT ![h] = stateFile]
  /\ Advances(h, IF stateFile = Nothing THEN "unlink"
                 ELSE IF Alive(stateFile) THEN "gone" ELSE "confirm")
  /\ UNCHANGED <<lockVars, pathVars, launch, found, overlapped>>

HostConfirms(h) ==
  /\ supervisor[h] = "confirm"
  /\ Advances(h, IF stateFile = incumbent[h] THEN "drop" ELSE "gone")
  /\ UNCHANGED <<lockVars, pathVars, otherVars>>

HostDropsState(h) ==
  /\ supervisor[h] = "drop" /\ stateFile' = Nothing /\ Advances(h, "unlink")
  /\ UNCHANGED <<lockVars, socketFile, otherVars>>

HostUnlinks(h) ==
  /\ supervisor[h] = "unlink" /\ socketFile' = Nothing /\ Advances(h, "listen")
  /\ UNCHANGED <<lockVars, stateFile, otherVars>>

\* The path may be in use.
HostListens(h) ==
  /\ supervisor[h] = "listen"
  /\ IF socketFile = Nothing
     THEN socketFile' = h /\ Advances(h, "publish")
     ELSE UNCHANGED socketFile /\ Advances(h, "gone")
  /\ UNCHANGED <<lockVars, stateFile, otherVars>>

\* persist, first of all after the start and then after every change of a tab.
HostPersists(h) ==
  /\ supervisor[h] \in {"publish", "up"} /\ stateFile' = h /\ Advances(h, "up")
  /\ UNCHANGED <<lockVars, socketFile, otherVars>>

\* shutdown, because of a request or of idleness. Closing the listener unlinks the path.
HostCloses(h) ==
  /\ \/ supervisor[h] = "up" /\ Advances(h, "closing") /\ UNCHANGED socketFile
     \/ supervisor[h] = "closing" /\ Advances(h, "closed") /\ socketFile' = Nothing
  /\ UNCHANGED <<lockVars, stateFile, otherVars>>

\* removeSupervisorState: the incarnation is compared, the state goes, the socket goes.
HostLeaves(h) ==
  /\ \/ /\ supervisor[h] = "closed" /\ UNCHANGED pathVars
        /\ Advances(h, IF stateFile = h THEN "dropState" ELSE "gone")
     \/ /\ supervisor[h] = "dropState" /\ Advances(h, "dropSocket")
        /\ stateFile' = Nothing /\ UNCHANGED socketFile
     \/ /\ supervisor[h] = "dropSocket" /\ Advances(h, "gone")
        /\ socketFile' = Nothing /\ UNCHANGED stateFile
  /\ UNCHANGED <<lockVars, otherVars>>

HostDies(h) ==
  /\ Alive(h) /\ Advances(h, "gone")
  /\ UNCHANGED <<lockVars, pathVars, otherVars>>

-----------------------------------------------------------------------------

Launch(l) ==
  \/ ReadState(l) \/ Connect(l) \/ ConnectFails(l) \/ TakeLock(l) \/ StealLock(l)
  \/ LookUnderLock(l) \/ ConfirmState(l) \/ DropState(l) \/ DropSocket(l)
  \/ Spawn(l) \/ Wait(l) \/ Unlock(l)
Host(h) ==
  \/ HostLooks(h) \/ HostConfirms(h) \/ HostDropsState(h) \/ HostUnlinks(h)
  \/ HostListens(h) \/ HostPersists(h) \/ HostCloses(h) \/ HostLeaves(h)

LaunchNext ==
  \/ \E l \in Launchers : Launch(l) \/ LauncherDies(l) \/ Host(l) \/ HostDies(l)
  \/ LockAges

LaunchSpec == LaunchInit /\ [][LaunchNext]_launchVars

-----------------------------------------------------------------------------

LaunchTypeOK ==
  /\ startLock \in Launchers \cup {Nothing} /\ lockIsOld \in BOOLEAN
  /\ stateFile \in Launchers \cup {Nothing} /\ socketFile \in Launchers \cup {Nothing}
  /\ launch \in [Launchers -> Launching] /\ found \in [Launchers -> Launchers \cup {Nothing}]
  /\ supervisor \in [Launchers -> {"none", "gone"} \cup Starting \cup Serving \cup Leaving]
  /\ incumbent \in [Launchers -> Launchers \cup {Nothing}] /\ overlapped \in BOOLEAN

\* One supervisor serves an agent directory and port, and the state file names it
\* once it has started: unless the lock of a start that was still under way went,
\* because it was taken for stale or its launcher gave up (startSupervisor, start).
OneSupervisor ==
  ~overlapped =>
    /\ \A g, h \in Launchers : supervisor[g] \in Serving /\ supervisor[h] \in Serving => g = h
    /\ \A h \in Launchers : supervisor[h] \in {"up", "closing"} => stateFile = h
=============================================================================
