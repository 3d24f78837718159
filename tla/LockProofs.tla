----------------------------- MODULE LockProofs -----------------------------
(***************************************************************************)
(* The two locks that processes take through the file system.              *)
(*                                                                         *)
(* The settings lock for any number of writers: OneWriter, NoLostUpdate.   *)
(* A writer is ahead of another one when its record is active and it has   *)
(* read the other's record since, and not as active.  Two writers cannot   *)
(* be ahead of each other: the later of the two became active before it    *)
(* read, and so did the other one.                                         *)
(*                                                                         *)
(* One supervisor at a time, for any number of launching servers, as long  *)
(* as no startup lock goes before its start is over.  The lock names the   *)
(* launcher and the supervisor which that one has started until the latter *)
(* is in the state file; from then on it is the state file that names it,  *)
(* until it has withdrawn.                                                 *)
(***************************************************************************)
EXTENDS SettingsLock, SupervisorLaunch, TLAPS

Scanned == {"scan", "judge", "sweep"}

Ahead(w, x) ==
  /\ record[w] = "active"
  /\ \/ doing[w] \in Holds
     \/ doing[w] \in Scanned /\ seen[w][x] \notin {"unread", "active"}

\* Who is dead does nothing; a scan is over when every record is read; and who has
\* read its own record as active, or holds the lock, has it still, or was robbed.
DeadRest  == \A w \in dead : doing[w] = "died"
AllRead   == \A w, x \in Writers : doing[w] \in {"judge", "sweep"} => seen[w][x] # "unread"
OwnActive ==
  \A w \in Writers :
    /\ w \notin robbed
    /\ doing[w] \in Holds \/ (doing[w] \in Scanned /\ seen[w][w] = "active")
    => record[w] = "active"
NotBoth   == \A w, x \in Writers : w # x => ~(Ahead(w, x) /\ Ahead(x, w))

LockInv == SettingsTypeOK /\ DeadRest /\ AllRead /\ OwnActive /\ NotBoth

USE DEF Holds, Scanned

\* In the invariant, two writers that hold the lock are ahead of each other.
LEMMA HoldersAreAhead == LockInv => OneWriter
  BY DEF LockInv, OwnActive, NotBoth, Ahead, OneWriter

LEMMA LockInitially == SettingsInit => LockInv
  <1>. SUFFICES ASSUME SettingsInit PROVE LockInv
    OBVIOUS
  <1>1. SettingsTypeOK
    BY DEF SettingsInit, SettingsTypeOK, Records, Places
  <1>2. DeadRest /\ AllRead /\ OwnActive /\ NotBoth
    BY DEF SettingsInit, DeadRest, AllRead, OwnActive, NotBoth, Ahead
  <1>. QED BY <1>1, <1>2 DEF LockInv

\* A step of w that leaves the scans, the records of others and what it has read
\* as they are, and does not lead to a scan or to the lock.
LEMMA PlainStep ==
  ASSUME LockInv, NEW w \in Writers, NEW place \in Places \ (Holds \cup Scanned \cup {"died"}),
         doing[w] \notin {"died"},
         doing' = [doing EXCEPT ![w] = place],
         \/ record' = record
         \/ \E c \in Records : record' = [record EXCEPT ![w] = c],
         UNCHANGED <<seen, dead, robbed>>,
         SettingsTypeOK'
  PROVE  LockInv'
  <1>1. \A x \in Writers : x # w => record'[x] = record[x] /\ doing'[x] = doing[x]
    BY DEF LockInv, SettingsTypeOK
  <1>2. doing'[w] = place
    BY DEF LockInv, SettingsTypeOK
  <1>3. DeadRest'
    BY <1>1, <1>2 DEF LockInv, SettingsTypeOK, DeadRest
  <1>4. AllRead'
    BY <1>1, <1>2 DEF LockInv, AllRead
  <1>5. OwnActive'
    BY <1>1, <1>2 DEF LockInv, OwnActive
  <1>6. NotBoth'
    BY <1>1, <1>2 DEF LockInv, NotBoth, Ahead
  <1>. QED BY <1>3, <1>4, <1>5, <1>6 DEF LockInv

\* A step that changes nothing of what the invariant speaks of but the type.
LEMMA ElsewhereStep ==
  ASSUME LockInv, UNCHANGED <<record, doing, seen, dead, robbed>>, SettingsTypeOK'
  PROVE  LockInv'
  BY DEF LockInv, DeadRest, AllRead, OwnActive, NotBoth, Ahead

\* Every step keeps the types.
LEMMA TypesKept ==
  ASSUME SettingsTypeOK, NEW w \in Writers,
         MakeDirectory(w) \/ Saves(w) \/ Dies(w) \/ GrowsOld(w) \/ DeadlinePasses(w)
  PROVE  SettingsTypeOK'
  <1>. USE DEF SettingsTypeOK, Turns, fileVars, clockVars, Places, Records
  <1>1. CASE MakeDirectory(w) \/ Dies(w) \/ GrowsOld(w) \/ DeadlinePasses(w)
    BY <1>1 DEF MakeDirectory, Dies, GrowsOld, DeadlinePasses
  <1>2. CASE OpenRecord(w) \/ FillRecord(w)
    BY <1>2 DEF OpenRecord, FillRecord
  <1>3. CASE ScannedNothing(w) \/ ScanAgain(w) \/ Decide(w) \/ BecomeActive(w)
    BY <1>3 DEF ScannedNothing, ScanAgain, Decide, BecomeActive
  <1>4. CASE ListRecords(w)
    <2>1. CASE lockDirectory
      <3>1. [x \in Writers |-> IF record[x] = "none" THEN "none" ELSE "unread"]
              \in [Writers -> Records \cup {"unread"}]
        OBVIOUS
      <3>2. seen' \in [Writers -> [Writers -> Records \cup {"unread"}]]
        BY <1>4, <2>1, <3>1 DEF ListRecords
      <3>3. doing' \in [Writers -> Places]
        BY <1>4, <2>1 DEF ListRecords
      <3>. QED BY <1>4, <3>2, <3>3 DEF ListRecords
    <2>2. CASE ~lockDirectory
      BY <1>4, <2>2 DEF ListRecords
    <2>. QED BY <2>1, <2>2
  <1>5. ASSUME NEW x \in Writers, ReadRecord(w, x) \/ RemoveStale(w, x)
        PROVE  SettingsTypeOK'
    <2>1. seen' \in [Writers -> [Writers -> Records \cup {"unread"}]]
      <3>1. PICK c \in Records : seen' = [seen EXCEPT ![w] = [seen[w] EXCEPT ![x] = c]]
        BY <1>5 DEF ReadRecord, RemoveStale
      <3>2. [seen[w] EXCEPT ![x] = c] \in [Writers -> Records \cup {"unread"}]
        BY <3>1
      <3>. QED BY <3>1, <3>2
    <2>2. record' \in [Writers -> Records] /\ doing' \in [Writers -> Places] /\ robbed' \subseteq Writers
      BY <1>5 DEF ReadRecord, RemoveStale
    <2>. QED BY <1>5, <2>1, <2>2 DEF ReadRecord, RemoveStale
  <1>6. CASE ReadSettings(w)
    BY <1>6 DEF ReadSettings
  <1>7. CASE WriteSettings(w)
    <2>1. copy[w] \cup {w} \subseteq Writers /\ saved \cup {w} \subseteq Writers
      OBVIOUS
    <2>. QED BY <1>7, <2>1 DEF WriteSettings
  <1>8. CASE RemoveRecord(w) \/ RemoveDirectory(w)
    <2>1. CASE RemoveRecord(w)    BY <2>1 DEF RemoveRecord
    <2>2. CASE RemoveDirectory(w) BY <2>2 DEF RemoveDirectory
    <2>. QED BY <1>8, <2>1, <2>2
  <1>. QED BY <1>1, <1>2, <1>3, <1>4, <1>5, <1>6, <1>7, <1>8 DEF Saves

\* A scan that begins finds nobody that is ahead of w without a record.
LEMMA ListKeeps ==
  ASSUME LockInv, NEW w \in Writers, ListRecords(w), SettingsTypeOK'
  PROVE  LockInv'
  <1>1. CASE ~lockDirectory
    <2>1. record' = record /\ UNCHANGED <<seen, dead, robbed>> /\ doing' = [doing EXCEPT ![w] = "rm"]
          /\ doing[w] = "list"
      BY <1>1 DEF ListRecords, Turns, clockVars
    <2>. QED BY <2>1, PlainStep DEF Places
  <1>2. CASE lockDirectory
    <2>1. /\ doing[w] = "list" /\ doing' = [doing EXCEPT ![w] = "scan"]
          /\ seen' = [seen EXCEPT ![w] = [x \in Writers |-> IF record[x] = "none" THEN "none" ELSE "unread"]]
          /\ UNCHANGED <<record, dead, robbed>>
      BY <1>2 DEF ListRecords, Turns, clockVars
    <2>2. \A x \in Writers : x # w => doing'[x] = doing[x] /\ seen'[x] = seen[x]
      BY <2>1 DEF LockInv, SettingsTypeOK
    <2>3. /\ doing'[w] = "scan"
          /\ \A x \in Writers : seen'[w][x] = IF record[x] = "none" THEN "none" ELSE "unread"
      BY <2>1 DEF LockInv, SettingsTypeOK
    <2>4. DeadRest' /\ AllRead' /\ OwnActive'
      BY <2>1, <2>2, <2>3 DEF LockInv, SettingsTypeOK, DeadRest, AllRead, OwnActive
    <2>5. NotBoth'
      BY <2>1, <2>2, <2>3 DEF LockInv, NotBoth, Ahead
    <2>. QED BY <2>4, <2>5 DEF LockInv
  <1>. QED BY <1>1, <1>2

\* To read a record that is not active gets w ahead, and nobody is ahead of w
\* without one that is.
LEMMA ReadKeeps ==
  ASSUME LockInv, NEW w \in Writers, NEW y \in Writers, ReadRecord(w, y), SettingsTypeOK'
  PROVE  LockInv'
  <1>1. /\ doing[w] = "scan" /\ seen[w][y] = "unread" /\ UNCHANGED <<record, dead, robbed>>
        /\ seen' = [seen EXCEPT ![w][y] = record[y]]
        /\ doing' = [doing EXCEPT ![w] =
             IF \E z \in Writers \ {y} : seen[w][z] = "unread" THEN "scan" ELSE "judge"]
    BY DEF ReadRecord, Turns, clockVars
  <1>2. \A x \in Writers : x # w => doing'[x] = doing[x] /\ seen'[x] = seen[x]
    BY <1>1 DEF LockInv, SettingsTypeOK
  <1>3. \A z \in Writers : seen'[w][z] = IF z = y THEN record[y] ELSE seen[w][z]
    BY <1>1 DEF LockInv, SettingsTypeOK
  <1>4. /\ doing'[w] \in {"scan", "judge"}
        /\ doing'[w] = "judge" => \A z \in Writers \ {y} : seen[w][z] # "unread"
    BY <1>1 DEF LockInv, SettingsTypeOK
  <1>5. record[y] # "unread"
    BY DEF LockInv, SettingsTypeOK, Records
  <1>6. DeadRest'
    BY <1>1, <1>2, <1>4 DEF LockInv, SettingsTypeOK, DeadRest
  <1>7. AllRead'
    BY <1>1, <1>2, <1>3, <1>4, <1>5 DEF LockInv, AllRead
  <1>8. OwnActive'
    BY <1>1, <1>2, <1>3, <1>4 DEF LockInv, OwnActive
  <1>9. NotBoth'
    BY <1>1, <1>2, <1>3, <1>4 DEF LockInv, NotBoth, Ahead
  <1>. QED BY <1>6, <1>7, <1>8, <1>9 DEF LockInv

\* Whose record is removed is ahead of nobody, and is dead, robbed or not active.
LEMMA RemovalKeeps ==
  ASSUME LockInv, NEW w \in Writers, NEW y \in Writers, RemoveStale(w, y), SettingsTypeOK'
  PROVE  LockInv'
  <1>1. /\ doing[w] \in {"judge", "sweep"} /\ UNCHANGED dead
        /\ doing' = [doing EXCEPT ![w] = "sweep"]
        /\ seen' = [seen EXCEPT ![w][y] = "none"]
        /\ record' = [record EXCEPT ![y] = "none"]
        /\ robbed' = IF record[y] = "active" /\ y \notin dead THEN robbed \cup {y} ELSE robbed
        /\ y \in dead \/ seen[w][y] = "empty"
    BY DEF RemoveStale, Stale, Turns, clockVars
  <1>2. \A x \in Writers : x # w => doing'[x] = doing[x] /\ seen'[x] = seen[x]
    BY <1>1 DEF LockInv, SettingsTypeOK
  <1>3. doing'[w] = "sweep" /\ \A z \in Writers : seen'[w][z] = IF z = y THEN "none" ELSE seen[w][z]
    BY <1>1 DEF LockInv, SettingsTypeOK
  <1>4. \A x \in Writers : record'[x] = IF x = y THEN "none" ELSE record[x]
    BY <1>1 DEF LockInv, SettingsTypeOK
  <1>5. DeadRest' /\ AllRead'
    BY <1>1, <1>2, <1>3 DEF LockInv, SettingsTypeOK, DeadRest, AllRead
  <1>6. OwnActive'
    BY <1>1, <1>2, <1>3, <1>4 DEF LockInv, OwnActive, DeadRest
  <1>7. NotBoth'
    BY <1>1, <1>2, <1>3, <1>4 DEF LockInv, NotBoth, Ahead, DeadRest
  <1>. QED BY <1>5, <1>6, <1>7 DEF LockInv

\* Who decides to take the lock has its own record active and has read no other
\* one so: it was ahead of everybody.
LEMMA DecideKeeps ==
  ASSUME LockInv, NEW w \in Writers, Decide(w), SettingsTypeOK'
  PROVE  LockInv'
  <1>1. doing[w] = "judge" /\ UNCHANGED <<record, seen, dead, robbed>>
    BY DEF Decide, clockVars
  <1>2. CASE OnlyActive(w) /\ Turns(w, "reading")
    <2>1. \A x \in Writers : x # w => doing'[x] = doing[x]
      BY <1>2 DEF Turns, LockInv, SettingsTypeOK
    <2>2. doing'[w] = "reading"
      BY <1>2 DEF Turns, LockInv, SettingsTypeOK
    <2>3. seen[w][w] = "active" /\ \A x \in Writers : x # w => seen[w][x] \notin {"unread", "active"}
      BY <1>1, <1>2 DEF OnlyActive, Active, LockInv, AllRead
    <2>4. \A x \in Writers : x # w => (Ahead(w, x)' => Ahead(w, x)) /\ (Ahead(x, w)' => Ahead(x, w))
      BY <1>1, <2>1, <2>2, <2>3 DEF Ahead
    <2>5. NotBoth'
      <3>1. \A x, y \in Writers : x # w /\ y # w => (Ahead(x, y)' <=> Ahead(x, y))
        BY <1>1, <2>1 DEF Ahead
      <3>. QED BY <2>4, <3>1 DEF NotBoth, LockInv
    <2>6. DeadRest' /\ AllRead' /\ OwnActive'
      BY <1>1, <2>1, <2>2, <2>3 DEF LockInv, SettingsTypeOK, DeadRest, AllRead, OwnActive
    <2>. QED BY <2>5, <2>6 DEF LockInv
  <1>3. CASE \E place \in {"activate", "rm", "list"} : Turns(w, place)
    <2>1. PICK place \in {"activate", "rm", "list"} : doing' = [doing EXCEPT ![w] = place]
      BY <1>3 DEF Turns
    <2>. QED BY <1>1, <2>1, PlainStep DEF Places
  <1>. QED BY <1>2, <1>3 DEF Decide

\* Every step keeps the invariant.
LEMMA LockKept ==
  ASSUME LockInv, NEW w \in Writers,
         MakeDirectory(w) \/ Saves(w) \/ Dies(w) \/ GrowsOld(w) \/ DeadlinePasses(w)
  PROVE  LockInv'
  <1>1. SettingsTypeOK'
    BY TypesKept DEF LockInv
  <1>2. CASE \/ MakeDirectory(w) \/ OpenRecord(w) \/ FillRecord(w) \/ ScanAgain(w) \/ BecomeActive(w)
             \/ WriteSettings(w) \/ RemoveRecord(w) \/ RemoveDirectory(w)
    <2>1. PICK place \in {"open", "fill", "list", "rm", "rmdir", "ended"} :
             /\ doing' = [doing EXCEPT ![w] = place] /\ doing[w] # "died"
             /\ record' = record \/ \E c \in Records : record' = [record EXCEPT ![w] = c]
             /\ UNCHANGED <<seen, dead, robbed>>
      <3>. USE DEF Turns, clockVars, fileVars, Records
      <3>1. CASE MakeDirectory(w)    BY <3>1 DEF MakeDirectory
      <3>2. CASE OpenRecord(w)       BY <3>2 DEF OpenRecord
      <3>3. CASE FillRecord(w)
        <4>1. record' = [record EXCEPT ![w] = IF record[w] = "empty" THEN "pending" ELSE record[w]]
          BY <3>3 DEF FillRecord
        <4>2. (IF record[w] = "empty" THEN "pending" ELSE record[w]) \in Records
          BY DEF LockInv, SettingsTypeOK
        <4>. QED BY <3>3, <4>1, <4>2 DEF FillRecord
      <3>4. CASE ScanAgain(w)        BY <3>4 DEF ScanAgain
      <3>5. CASE BecomeActive(w)     BY <3>5 DEF BecomeActive
      <3>6. CASE WriteSettings(w)    BY <3>6 DEF WriteSettings
      <3>7. CASE RemoveRecord(w)     BY <3>7 DEF RemoveRecord
      <3>8. CASE RemoveDirectory(w)  BY <3>8 DEF RemoveDirectory
      <3>. QED BY <1>2, <3>1, <3>2, <3>3, <3>4, <3>5, <3>6, <3>7, <3>8
    <2>. QED BY <1>1, <2>1, PlainStep DEF Places
  <1>3. CASE ListRecords(w)
    BY <1>1, <1>3, ListKeeps
  <1>4. ASSUME NEW x \in Writers, ReadRecord(w, x) \/ RemoveStale(w, x)
        PROVE  LockInv'
    BY <1>1, <1>4, ReadKeeps, RemovalKeeps
  <1>5. CASE Decide(w)
    BY <1>1, <1>5, DecideKeeps
  <1>6. CASE ScannedNothing(w) \/ ReadSettings(w) \/ Dies(w)
    <2>1. /\ UNCHANGED <<record, seen, robbed>>
          /\ \A x \in Writers : x # w => doing'[x] = doing[x]
          /\ \/ doing[w] = "scan" /\ doing'[w] = "judge" /\ dead' = dead
                /\ \A x \in Writers : seen[w][x] = "none"
             \/ doing[w] = "reading" /\ doing'[w] = "writing" /\ dead' = dead
             \/ doing'[w] = "died" /\ dead' = dead \cup {w}
      BY <1>6 DEF ScannedNothing, ReadSettings, Dies, Turns, clockVars, fileVars, LockInv, SettingsTypeOK
    <2>2. DeadRest'
      BY <2>1 DEF LockInv, SettingsTypeOK, DeadRest
    <2>3. AllRead' /\ OwnActive'
      BY <2>1 DEF LockInv, AllRead, OwnActive
    <2>4. NotBoth'
      BY <2>1 DEF LockInv, NotBoth, Ahead
    <2>. QED BY <1>1, <2>2, <2>3, <2>4 DEF LockInv
  <1>7. CASE GrowsOld(w) \/ DeadlinePasses(w)
    BY <1>1, <1>7, ElsewhereStep DEF GrowsOld, DeadlinePasses, fileVars
  <1>. QED BY <1>2, <1>3, <1>4, <1>5, <1>6, <1>7 DEF Saves

LEMMA LockStep == LockInv /\ [SettingsNext]_settingsVars => LockInv'
  <1>1. ASSUME LockInv, UNCHANGED settingsVars PROVE LockInv'
    <2>1. SettingsTypeOK'
      BY <1>1 DEF settingsVars, LockInv, SettingsTypeOK
    <2>. QED BY <1>1, <2>1, ElsewhereStep DEF settingsVars
  <1>. QED BY <1>1, LockKept DEF SettingsNext

\* Two writers hold the settings lock together only if one of them was robbed, for
\* any number of writers (withWebuiSettingsLock).
THEOREM LockIsExclusive == SettingsSpec => []OneWriter
  <1>1. SettingsSpec => []LockInv
    BY LockInitially, LockStep, PTL DEF SettingsSpec
  <1>. QED BY <1>1, HoldersAreAhead, PTL

-----------------------------------------------------------------------------

\* While nobody was robbed, what is about to be written contains every save.
Contained ==
  robbed = {} =>
    /\ saved \subseteq settings
    /\ \A w \in Writers : doing[w] = "writing" => saved \subseteq copy[w]

LEMMA ContainedStep ==
  LockInv /\ Contained /\ [SettingsNext]_settingsVars => Contained'
  <1>. SUFFICES ASSUME LockInv, Contained, [SettingsNext]_settingsVars, robbed' = {}
                PROVE  /\ saved' \subseteq settings'
                       /\ \A w \in Writers : doing'[w] = "writing" => saved' \subseteq copy'[w]
    BY DEF Contained
  <1>. USE DEF Turns, clockVars, fileVars, LockInv, SettingsTypeOK
  <1>1. CASE UNCHANGED settingsVars
    BY <1>1 DEF settingsVars, Contained
  <1>2. ASSUME NEW w \in Writers, WriteSettings(w)
        PROVE  /\ saved' \subseteq settings'
               /\ \A x \in Writers : doing'[x] = "writing" => saved' \subseteq copy'[x]
    <2>1. /\ doing[w] = "writing" /\ doing' = [doing EXCEPT ![w] = "rm"] /\ robbed = {}
          /\ settings' = copy[w] \cup {w} /\ saved' = saved \cup {w}
      BY <1>2 DEF WriteSettings
    <2>2. \A x \in Writers : doing[x] = "writing" => x = w
      BY <2>1, HoldersAreAhead DEF OneWriter
    <2>3. saved \subseteq copy[w]
      BY <2>1 DEF Contained
    <2>. QED BY <2>1, <2>2, <2>3
  <1>3. ASSUME NEW w \in Writers, ReadSettings(w)
        PROVE  /\ saved' \subseteq settings'
               /\ \A x \in Writers : doing'[x] = "writing" => saved' \subseteq copy'[x]
    <2>1. /\ doing' = [doing EXCEPT ![w] = "writing"] /\ robbed = {}
          /\ copy' = [copy EXCEPT ![w] = settings] /\ settings' = settings /\ saved' = saved
      BY <1>3 DEF ReadSettings
    <2>2. copy'[w] = settings /\ \A x \in Writers : x # w => copy'[x] = copy[x] /\ doing'[x] = doing[x]
      BY <2>1
    <2>. QED BY <2>1, <2>2 DEF Contained
  <1>4. ASSUME NEW w \in Writers,
               MakeDirectory(w) \/ Saves(w) \/ Dies(w) \/ GrowsOld(w) \/ DeadlinePasses(w),
               ~WriteSettings(w), ~ReadSettings(w)
        PROVE  /\ saved' \subseteq settings'
               /\ \A x \in Writers : doing'[x] = "writing" => saved' \subseteq copy'[x]
    <2>1. /\ UNCHANGED <<settings, copy, saved>> /\ robbed = {}
          /\ \A x \in Writers : doing'[x] = "writing" => doing[x] = "writing"
      <3>1. CASE MakeDirectory(w) \/ Dies(w) \/ GrowsOld(w) \/ DeadlinePasses(w)
        BY <3>1 DEF MakeDirectory, Dies, GrowsOld, DeadlinePasses
      <3>2. CASE OpenRecord(w) \/ FillRecord(w) \/ ListRecords(w) \/ ScannedNothing(w) \/ ScanAgain(w)
        BY <3>2 DEF OpenRecord, FillRecord, ListRecords, ScannedNothing, ScanAgain
      <3>3. CASE Decide(w) \/ BecomeActive(w) \/ RemoveRecord(w) \/ RemoveDirectory(w)
        BY <3>3 DEF Decide, BecomeActive, RemoveRecord, RemoveDirectory
      <3>4. ASSUME NEW x \in Writers, ReadRecord(w, x) \/ RemoveStale(w, x)
            PROVE  /\ UNCHANGED <<settings, copy, saved>> /\ robbed = {}
                   /\ \A y \in Writers : doing'[y] = "writing" => doing[y] = "writing"
        BY <3>4 DEF ReadRecord, RemoveStale
      <3>. QED BY <1>4, <3>1, <3>2, <3>3, <3>4 DEF Saves
    <2>. QED BY <2>1 DEF Contained
  <1>. QED BY <1>1, <1>2, <1>3, <1>4 DEF SettingsNext

\* Without a robbery no reported save is undone by another one, for any number of
\* writers (updateWebuiSettings).
THEOREM UpdatesAreKept == SettingsSpec => []NoLostUpdate
  <1>1. SettingsInit => Contained
    BY DEF SettingsInit, Contained
  <1>2. SettingsSpec => [](LockInv /\ Contained)
    BY <1>1, LockInitially, LockStep, ContainedStep, PTL DEF SettingsSpec
  <1>3. Contained => NoLostUpdate
    BY DEF Contained, NoLostUpdate
  <1>. QED BY <1>2, <1>3, PTL

-----------------------------------------------------------------------------
(* The startup of a supervisor.                                            *)

Published == {"up", "closing", "closed", "dropState"}
Clearing  == {"confirm", "drop", "unlink", "spawn"}
Preparing == Clearing \cup {"read", "connect", "lock", "steal", "look"}

\* The owner of the lock is alone with its start, and who has started is in the
\* state file.
Exclusive ==
  /\ \A l \in Launchers : launch[l] \in Locked => startLock = l
  /\ \A h \in Launchers : supervisor[h] \in Starting => startLock = h
  /\ \A h \in Launchers : supervisor[h] \in Published => stateFile = h
  /\ \A l, h \in Launchers : launch[l] \in Clearing => supervisor[h] \notin Starting \cup Published
  /\ \A g, h \in Launchers : supervisor[g] \in Starting => supervisor[h] \notin Published

LaunchInv ==
  /\ LaunchTypeOK
  /\ \A l \in Launchers : launch[l] \in Preparing => supervisor[l] = "none"
  /\ ~overlapped => Exclusive

LEMMA InvInit == LaunchInit => LaunchInv
  BY DEF LaunchInit, LaunchInv, LaunchTypeOK, Exclusive, Launching, Locked, Clearing, Starting, Published,
     Serving, Leaving

LEMMA TypeStep ==
  ASSUME LaunchTypeOK, [LaunchNext]_launchVars
  PROVE  LaunchTypeOK'
  <1>. USE DEF LaunchTypeOK, Launching, Locked, Starting, Serving, Leaving, Moves, Fails, Advances,
       lockVars, pathVars, otherVars
  <1>1. ASSUME NEW l \in Launchers, ReadState(l) \/ Connect(l) \/ ConnectFails(l) \/ LauncherDies(l)
        PROVE  LaunchTypeOK'
    BY <1>1 DEF ReadState, Connect, ConnectFails, LauncherDies
  <1>2. ASSUME NEW l \in Launchers, TakeLock(l) \/ StealLock(l) \/ Unlock(l)
        PROVE  LaunchTypeOK'
    BY <1>2 DEF TakeLock, StealLock, Unlock, LockGoes
  <1>3. ASSUME NEW l \in Launchers, LookUnderLock(l) \/ ConfirmState(l) \/ DropState(l) \/ DropSocket(l)
        PROVE  LaunchTypeOK'
    BY <1>3 DEF LookUnderLock, ConfirmState, DropState, DropSocket
  <1>4. ASSUME NEW l \in Launchers, Spawn(l) \/ Wait(l)
        PROVE  LaunchTypeOK'
    BY <1>4 DEF Spawn, Wait
  <1>5. ASSUME NEW h \in Launchers, HostLooks(h) \/ HostConfirms(h) \/ HostDropsState(h) \/ HostUnlinks(h)
        PROVE  LaunchTypeOK'
    BY <1>5 DEF HostLooks, HostConfirms, HostDropsState, HostUnlinks
  <1>6. ASSUME NEW h \in Launchers, HostListens(h) \/ HostPersists(h) \/ HostCloses(h)
        PROVE  LaunchTypeOK'
    BY <1>6 DEF HostListens, HostPersists, HostCloses
  <1>7. ASSUME NEW h \in Launchers, HostLeaves(h) \/ HostDies(h)
        PROVE  LaunchTypeOK'
    BY <1>7 DEF HostLeaves, HostDies
  <1>8. CASE LockAges \/ UNCHANGED launchVars
    BY <1>8 DEF LockAges, launchVars
  <1>. QED BY <1>1, <1>2, <1>3, <1>4, <1>5, <1>6, <1>7, <1>8 DEF LaunchNext, Launch, Host

-----------------------------------------------------------------------------
(* The launchers *)

LEMMA LauncherKeeps ==
  ASSUME LaunchInv, LaunchTypeOK', NEW l \in Launchers, Launch(l) \/ LauncherDies(l)
  PROVE  LaunchInv'
  <1>. USE DEF LaunchInv, Moves, Fails, lockVars, pathVars
  <1>. USE DEF Exclusive, Preparing, Clearing, Locked, Starting, Published
  <1>t. /\ launch \in [Launchers -> Launching] /\ supervisor \in [Launchers -> {"none", "gone"} \cup Starting \cup Serving \cup Leaving]
        /\ startLock \in Launchers \cup {Nothing} /\ stateFile \in Launchers \cup {Nothing}
    BY DEF LaunchTypeOK
  <1>1. CASE ReadState(l)
    BY <1>1, <1>t DEF ReadState
  <1>2. CASE Connect(l) \/ ConnectFails(l)
    BY <1>2, <1>t DEF Connect, ConnectFails
  <1>3. CASE TakeLock(l)
    BY <1>3, <1>t, LaunchersAssumption DEF TakeLock
  <1>4. CASE StealLock(l)
    BY <1>4, <1>t, LaunchersAssumption DEF StealLock, LockGoes
  <1>5. CASE LookUnderLock(l)
    <2>1. ~overlapped /\ launch'[l] \in Clearing => \A h \in Launchers : supervisor[h] \notin Starting \cup Published
      BY <1>5, <1>t, LaunchersAssumption DEF LookUnderLock, Alive, Serving, Leaving
    <2>. QED BY <1>5, <1>t, <2>1 DEF LookUnderLock
  <1>6. CASE ConfirmState(l)
    BY <1>6, <1>t DEF ConfirmState
  <1>7. CASE DropState(l)
    BY <1>7, <1>t DEF DropState
  <1>8. CASE DropSocket(l)
    BY <1>8, <1>t DEF DropSocket
  <1>9. CASE Spawn(l)
    BY <1>9, <1>t DEF Spawn
  <1>10. CASE Wait(l)
    BY <1>10, <1>t DEF Wait
  <1>11. CASE Unlock(l)
    BY <1>11, <1>t, LaunchersAssumption DEF Unlock, LockGoes
  <1>12. CASE LauncherDies(l)
    BY <1>12, <1>t DEF LauncherDies
  <1>. QED
    BY <1>1, <1>2, <1>3, <1>4, <1>5, <1>6, <1>7, <1>8, <1>9, <1>10, <1>11, <1>12 DEF Launch

-----------------------------------------------------------------------------
(* The supervisors *)

LEMMA HostKeeps ==
  ASSUME LaunchInv, LaunchTypeOK', NEW h \in Launchers, Host(h) \/ HostDies(h)
  PROVE  LaunchInv'
  <1>. USE DEF LaunchInv, Advances, lockVars, pathVars, otherVars
  <1>. USE DEF Exclusive, Preparing, Clearing, Starting, Published
  <1>t. /\ launch \in [Launchers -> Launching] /\ supervisor \in [Launchers -> {"none", "gone"} \cup Starting \cup Serving \cup Leaving]
        /\ startLock \in Launchers \cup {Nothing} /\ stateFile \in Launchers \cup {Nothing}
    BY DEF LaunchTypeOK
  <1>1. CASE HostLooks(h)
    BY <1>1, <1>t DEF HostLooks
  <1>2. CASE HostConfirms(h)
    BY <1>2, <1>t DEF HostConfirms
  <1>3. CASE HostDropsState(h)
    BY <1>3, <1>t DEF HostDropsState
  <1>4. CASE HostUnlinks(h)
    BY <1>4, <1>t DEF HostUnlinks
  <1>5. CASE HostListens(h)
    BY <1>5, <1>t DEF HostListens
  <1>6. CASE HostPersists(h)
    BY <1>6, <1>t DEF HostPersists
  <1>7. CASE HostCloses(h)
    BY <1>7, <1>t DEF HostCloses
  <1>8. CASE HostLeaves(h)
    BY <1>8, <1>t DEF HostLeaves
  <1>9. CASE HostDies(h)
    BY <1>9, <1>t DEF HostDies, Alive, Serving, Leaving
  <1>. QED
    BY <1>1, <1>2, <1>3, <1>4, <1>5, <1>6, <1>7, <1>8, <1>9 DEF Host

-----------------------------------------------------------------------------
LEMMA InvNext == LaunchInv /\ [LaunchNext]_launchVars => LaunchInv'
  <1>. SUFFICES ASSUME LaunchInv, [LaunchNext]_launchVars PROVE LaunchInv'
    OBVIOUS
  <1>1. LaunchTypeOK'
    BY TypeStep DEF LaunchInv
  <1>2. ASSUME NEW l \in Launchers, Launch(l) \/ LauncherDies(l) PROVE LaunchInv'
    BY <1>1, <1>2, LauncherKeeps
  <1>3. ASSUME NEW h \in Launchers, Host(h) \/ HostDies(h) PROVE LaunchInv'
    BY <1>1, <1>3, HostKeeps
  <1>4. CASE LockAges \/ UNCHANGED launchVars
    BY <1>1, <1>4 DEF LockAges, launchVars, pathVars, LaunchInv, Exclusive
  <1>. QED BY <1>2, <1>3, <1>4 DEF LaunchNext

\* At most one supervisor serves, and the state file names it once it has started,
\* unless a startup lock went while its start was still under way
\* (startSupervisor, SupervisorHost.start).
THEOREM SupervisorIsAlone == LaunchSpec => []OneSupervisor
  <1>1. LaunchInv => OneSupervisor
    BY DEF LaunchInv, Exclusive, OneSupervisor, Serving, Starting, Published
  <1>2. LaunchSpec => []LaunchInv
    BY InvInit, InvNext, PTL DEF LaunchSpec
  <1>. QED BY <1>1, <1>2, PTL
=============================================================================
