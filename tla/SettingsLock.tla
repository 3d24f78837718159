---------------------------- MODULE SettingsLock ----------------------------
(***************************************************************************)
(* The lock around an update of the web UI's settings file                 *)
(* (git-workflow-preferences.mjs).  Every writer puts a record of its own  *)
(* in a lock directory, and holds the lock when it has found its record to *)
(* be the only active one.  A writer is one save of a process of its own;  *)
(* the order of the writers is the order of the names of their records.    *)
(* A step is what one file operation does: writers interleave between any  *)
(* two, and may die there.                                                 *)
(***************************************************************************)
EXTENDS Integers

CONSTANT Writers

ASSUME WritersAssumption == Writers \subseteq Int

VARIABLES
  lockDirectory, \* whether the directory exists
  record,        \* the record in each writer's file
  doing,         \* what each writer does next
  seen,          \* the records of the last scan, as each was when it was read
  dead,          \* the writers whose process is gone
  old,           \* the records created more than the grace period ago
  late,          \* the writers past their deadline
  settings,      \* the settings file: the saves it contains
  copy,          \* what a writer has read of it
  saved,         \* the saves that were reported as done
  robbed         \* history: writers whose active record another one removed

settingsVars == <<lockDirectory, record, doing, seen, dead, old, late,
                  settings, copy, saved, robbed>>

Records == {"none", "empty", "pending", "active"}
Holds   == {"reading", "writing"}
Places  == Holds \cup {"mkdir", "open", "fill", "list", "scan", "judge", "sweep",
                       "activate", "rm", "rmdir", "ended", "died"}

SettingsInit ==
  /\ lockDirectory = FALSE
  /\ record = [w \in Writers |-> "none"]
  /\ doing = [w \in Writers |-> "mkdir"]
  /\ seen = [w \in Writers |-> [x \in Writers |-> "none"]]
  /\ dead = {} /\ old = {} /\ late = {}
  /\ settings = {} /\ copy = [w \in Writers |-> {}] /\ saved = {} /\ robbed = {}

-----------------------------------------------------------------------------

Turns(w, place) == doing' = [doing EXCEPT ![w] = place]
fileVars  == <<settings, copy, saved>>
clockVars == <<dead, old, late>>

MakeDirectory(w) ==
  /\ doing[w] = "mkdir" /\ Turns(w, "open")
  /\ lockDirectory' = TRUE
  /\ UNCHANGED <<record, seen, clockVars, fileVars, robbed>>

\* The file is created empty. It is not, and the save fails, when the last writer
\* to leave has removed the directory.
OpenRecord(w) ==
  /\ doing[w] = "open"
  /\ IF lockDirectory
     THEN record' = [record EXCEPT ![w] = "empty"] /\ Turns(w, "fill")
     ELSE UNCHANGED record /\ Turns(w, "ended")
  /\ UNCHANGED <<lockDirectory, seen, clockVars, fileVars, robbed>>

\* What is written to a file that somebody has removed is seen by nobody.
FillRecord(w) ==
  /\ doing[w] = "fill" /\ Turns(w, "list")
  /\ record' = [record EXCEPT ![w] = IF @ = "empty" THEN "pending" ELSE @]
  /\ UNCHANGED <<lockDirectory, seen, clockVars, fileVars, robbed>>

\* readdir, and then each file that was listed, in any order.
ListRecords(w) ==
  /\ doing[w] = "list"
  /\ IF lockDirectory
     THEN /\ Turns(w, "scan")
          /\ seen' = [seen EXCEPT ![w] = [x \in Writers |-> IF record[x] = "none" THEN "none" ELSE "unread"]]
     ELSE UNCHANGED seen /\ Turns(w, "rm")
  /\ UNCHANGED <<lockDirectory, record, clockVars, fileVars, robbed>>

ReadRecord(w, x) ==
  /\ doing[w] = "scan" /\ seen[w][x] = "unread"
  /\ seen' = [seen EXCEPT ![w][x] = record[x]]
  /\ Turns(w, IF \E y \in Writers \ {x} : seen[w][y] = "unread" THEN "scan" ELSE "judge")
  /\ UNCHANGED <<lockDirectory, record, clockVars, fileVars, robbed>>

ScannedNothing(w) ==
  /\ doing[w] = "scan" /\ Turns(w, "judge")
  /\ \A x \in Writers : seen[w][x] = "none"
  /\ UNCHANGED <<lockDirectory, record, seen, clockVars, fileVars, robbed>>

\* The record of a dead process, or one without content that is old.
Stale(w) == {x \in Writers : \/ seen[w][x] # "none" /\ x \in dead
                             \/ seen[w][x] = "empty" /\ x \in old}

RemoveStale(w, x) ==
  /\ doing[w] \in {"judge", "sweep"} /\ x \in Stale(w) /\ Turns(w, "sweep")
  /\ record' = [record EXCEPT ![x] = "none"]
  /\ seen' = [seen EXCEPT ![w][x] = "none"]
  /\ robbed' = IF record[x] = "active" /\ x \notin dead THEN robbed \cup {x} ELSE robbed
  /\ UNCHANGED <<lockDirectory, clockVars, fileVars>>

ScanAgain(w) ==
  /\ doing[w] = "sweep" /\ Stale(w) = {} /\ Turns(w, "list")
  /\ UNCHANGED <<lockDirectory, record, seen, clockVars, fileVars, robbed>>

Active(w)     == {x \in Writers : seen[w][x] = "active"}
SelfActive(w) == w \in Active(w)       \* mutant of OnlyActive: beside another one
OnlyActive(w) == Active(w) = {w}
ComesFirst(w)  ==
  /\ Active(w) = {} /\ seen[w][w] = "pending"
  /\ \A x \in Writers : seen[w][x] # "none" => w <= x

FirstHolds(w) ==                      \* mutant of Decide: without becoming active
  /\ doing[w] = "judge" /\ Stale(w) = {}
  /\ \/ ComesFirst(w) /\ Turns(w, "reading")
     \/ ~ComesFirst(w) /\ Turns(w, IF w \in late THEN "rm" ELSE "list")
  /\ UNCHANGED <<lockDirectory, record, seen, clockVars, fileVars, robbed>>

WaitsOn(w) ==                         \* mutant of Decide: without the deadline
  /\ doing[w] = "judge" /\ Stale(w) = {}
  /\ \/ OnlyActive(w) /\ Turns(w, "reading")
     \/ ComesFirst(w) /\ Turns(w, "activate")
     \/ ~OnlyActive(w) /\ ~ComesFirst(w) /\ Turns(w, "list")
  /\ UNCHANGED <<lockDirectory, record, seen, clockVars, fileVars, robbed>>

\* The only active record is mine: the lock is taken. None is active and mine is
\* the first: it becomes active. Else wait and look again, until the deadline.
Decide(w) ==
  /\ doing[w] = "judge" /\ Stale(w) = {}
  /\ \/ OnlyActive(w) /\ Turns(w, "reading")
     \/ ComesFirst(w) /\ Turns(w, "activate")
     \/ ~OnlyActive(w) /\ ~ComesFirst(w) /\ Turns(w, IF w \in late THEN "rm" ELSE "list")
  /\ UNCHANGED <<lockDirectory, record, seen, clockVars, fileVars, robbed>>

\* A temporary file is renamed to the record, which is there again if it was gone.
BecomeActive(w) ==
  /\ doing[w] = "activate"
  /\ IF lockDirectory
     THEN record' = [record EXCEPT ![w] = "active"] /\ Turns(w, "list")
     ELSE UNCHANGED record /\ Turns(w, "rm")
  /\ UNCHANGED <<lockDirectory, seen, clockVars, fileVars, robbed>>

\* updateWebuiSettings: the snapshot on the disk, and the patch merged into it.
ReadSettings(w) ==
  /\ doing[w] = "reading" /\ Turns(w, "writing")
  /\ copy' = [copy EXCEPT ![w] = settings]
  /\ UNCHANGED <<lockDirectory, record, seen, clockVars, settings, saved, robbed>>

WriteSettings(w) ==
  /\ doing[w] = "writing" /\ Turns(w, "rm")
  /\ settings' = copy[w] \cup {w} /\ saved' = saved \cup {w}
  /\ UNCHANGED <<lockDirectory, record, seen, clockVars, copy, robbed>>

RemoveRecord(w) ==
  /\ doing[w] = "rm" /\ Turns(w, "rmdir")
  /\ record' = [record EXCEPT ![w] = "none"]
  /\ UNCHANGED <<lockDirectory, seen, clockVars, fileVars, robbed>>

\* An empty directory goes. It is kept by a temporary file: one that a dead writer left, or
\* that of a writer whose record was removed and which writes it anew to become active.
RemoveDirectory(w) ==
  /\ doing[w] = "rmdir" /\ Turns(w, "ended")
  /\ \/ lockDirectory' = FALSE /\ \A x \in Writers : record[x] = "none"
     \/ /\ UNCHANGED lockDirectory
        /\ dead # {} \/ \E x \in Writers : record[x] # "none" \/ doing[x] = "activate"
  /\ UNCHANGED <<record, seen, clockVars, fileVars, robbed>>

Dies(w) ==
  /\ doing[w] \notin {"ended", "died"} /\ Turns(w, "died") /\ dead' = dead \cup {w}
  /\ UNCHANGED <<lockDirectory, record, seen, old, late, fileVars, robbed>>

GrowsOld(w) ==
  /\ doing[w] \notin {"mkdir", "ended"} /\ w \notin old /\ old' = old \cup {w}
  /\ UNCHANGED <<lockDirectory, record, doing, seen, dead, late, fileVars, robbed>>

DeadlinePasses(w) ==
  /\ doing[w] \notin {"mkdir", "open", "fill", "ended", "died"} /\ w \notin late
  /\ late' = late \cup {w}
  /\ UNCHANGED <<lockDirectory, record, doing, seen, dead, old, fileVars, robbed>>

\* What a save does by itself.
Saves(w) ==
  \/ OpenRecord(w) \/ FillRecord(w)
  \/ ListRecords(w) \/ ScannedNothing(w) \/ ScanAgain(w) \/ Decide(w) \/ BecomeActive(w)
  \/ \E x \in Writers : ReadRecord(w, x) \/ RemoveStale(w, x)
  \/ ReadSettings(w) \/ WriteSettings(w) \/ RemoveRecord(w) \/ RemoveDirectory(w)

SettingsNext ==
  \E w \in Writers : MakeDirectory(w) \/ Saves(w) \/ Dies(w) \/ GrowsOld(w) \/ DeadlinePasses(w)

SettingsSpec == SettingsInit /\ [][SettingsNext]_settingsVars

\* File operations end and time passes.
SettingsFairness ==
  \A w \in Writers : WF_settingsVars(Saves(w)) /\ WF_settingsVars(DeadlinePasses(w))

-----------------------------------------------------------------------------

SettingsTypeOK ==
  /\ lockDirectory \in BOOLEAN
  /\ record \in [Writers -> Records] /\ doing \in [Writers -> Places]
  /\ seen \in [Writers -> [Writers -> Records \cup {"unread"}]]
  /\ dead \subseteq Writers /\ old \subseteq Writers /\ late \subseteq Writers
  /\ settings \subseteq Writers /\ copy \in [Writers -> SUBSET Writers]
  /\ saved \subseteq Writers /\ robbed \subseteq Writers

\* Two writers hold the lock together only if one of them lost its active record
\* to a third, which had found the file empty and took its time to remove it
\* (withWebuiSettingsLock).
OneWriter ==
  \A w, x \in Writers :
    doing[w] \in Holds /\ doing[x] \in Holds /\ w # x => w \in robbed \/ x \in robbed

\* No save that was reported is undone by another one: a patch goes to the latest
\* snapshot on the disk (updateWebuiSettings).
NoLostUpdate == robbed = {} => saved \subseteq settings

\* A save that has begun comes to an end, although two writers that became
\* active together wait for each other, and although others die.
SavesEnd == \A w \in Writers : doing[w] = "open" ~> doing[w] \in {"ended", "died"}
=============================================================================
