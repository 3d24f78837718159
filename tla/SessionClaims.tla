---------------------------- MODULE SessionClaims ----------------------------
(***************************************************************************)
(* The tabs of the Qt client's backend and the session files they own      *)
(* (pi-package-qt-webui/lib/backend/tabs.mjs, with the children of         *)
(* pi-session.mjs).  A tab has a Pi child that is in some session; the     *)
(* registry keeps what it believes of that, and an index of the files that *)
(* tabs own or have reserved.  A command to a child is answered, refused,  *)
(* or given up on; in the last case the child may still perform it.  A     *)
(* file is its canonical path, and none is ever removed.                   *)
(***************************************************************************)

CONSTANTS
  TabIds,     \* the ids that open gives, each once
  SavedFiles, \* the session files at the start
  NewFiles,   \* names of new sessions, which become files when something is saved
  NoFile, NoTab

ASSUME ClaimsAssumption ==
  /\ SavedFiles \cap NewFiles = {}
  /\ NoFile \notin SavedFiles \cup NewFiles /\ NoTab \notin TabIds

VARIABLES
  tab,            \* what the registry keeps of a tab
  identityOwners, \* the index
  alive, at,      \* the child runs; the session it is in
  ready, active,  \* session.ready; the child has a run
  shuttingDown,   \* session.stop was called
  late,           \* commands given up on: a file to switch to, NoFile for new_session
  files,          \* the session files that exist
  unnoticed       \* history: the tab has not noticed where a late or disregarded command took
                  \* its child, or that the child has saved its new session

process    == <<alive, at, ready, active, shuttingDown, late, unnoticed>>
claimsVars == <<tab, identityOwners, process, files>>

Files == SavedFiles \cup NewFiles

\* place: in the registry's tabs, among closingTabs, or gone. mutation: what the holder
\* of the tab's mutationReservation waits for.
NoSuchTab ==
  [place |-> "none", sessionFile |-> NoFile, durable |-> FALSE, pendingResume |-> NoFile,
   resumeBlocked |-> FALSE, transition |-> NoFile, previous |-> NoFile, mutation |-> "none"]

ClaimsInit ==
  /\ tab = [t \in TabIds |-> NoSuchTab]
  /\ identityOwners = [f \in Files |-> NoTab]
  /\ alive = [t \in TabIds |-> FALSE] /\ at = [t \in TabIds |-> NoFile]
  /\ ready = [t \in TabIds |-> FALSE] /\ active = [t \in TabIds |-> FALSE]
  /\ shuttingDown = [t \in TabIds |-> FALSE] /\ late = [t \in TabIds |-> {}]
  /\ unnoticed = [t \in TabIds |-> FALSE]
  /\ files = SavedFiles

-----------------------------------------------------------------------------
(* The index.                                                              *)

Names(r) == {r.sessionFile, r.pendingResume, r.transition, r.previous}

\* claim, for a tab that may have the file; a name without a file is not indexed.
Clashes(t, f) == f \in files /\ identityOwners[f] \notin {t, NoTab}
Claimed(t, f) == [g \in Files |-> IF g = f /\ f \in files THEN t ELSE identityOwners[g]]

KeepsClaims(owners, t, r) == owners   \* mutant of Refreshed: what is no longer named stays claimed

RefreshedAtOnce(owners, t, r) ==      \* mutant of Refreshed: closing a tab gives its claims up
  [f \in Files |-> IF owners[f] = t /\ (r.place # "open" \/ f \notin Names(r)) THEN NoTab ELSE owners[f]]

\* refreshClaims of a tab whose fields are r; a closing one keeps what it has.
Refreshed(owners, t, r) ==
  [f \in Files |-> IF owners[f] = t /\ r.place # "closing" /\ (r.place # "open" \/ f \notin Names(r))
                   THEN NoTab ELSE owners[f]]

\* What becomes of a tab that hears that its session is f: handleSessionEvent for
\* pi.runtime, and promoteSavedFile, which is the case of the session it has.
Verdict(t, f) ==
  IF tab[t].pendingResume # NoFile \/ (f = tab[t].sessionFile /\ (tab[t].durable \/ f \notin files))
  THEN "same"
  ELSE IF Clashes(t, f) THEN "clash" ELSE "moved"

\* Its fields and the index then. The draft of a session that is new to it may not be
\* migrated: the file is claimed, and not yet taken for durable. Pi may tell of another
\* name for the session that it has, which refreshes the index, too.
Outcome(r, owners) == [fields |-> r, owners |-> owners]
Moved(t, f, d) ==
  LET r == [tab[t] EXCEPT !.sessionFile = f, !.durable = d]
  IN Outcome(r, Refreshed(Claimed(t, f), t, r))

Heard(t, f) ==
  IF Verdict(t, f) # "moved" THEN {Outcome(tab[t], identityOwners)}
  ELSE {Moved(t, f, f \in files)} \cup
         (IF f \notin files THEN {}
          ELSE IF tab[t].sessionFile = f THEN {Outcome(tab[t], Claimed(t, f))}
          ELSE IF tab[t].sessionFile = NoFile THEN {Moved(t, f, FALSE)} ELSE {})

Told(t, f) ==
  Heard(t, f) \cup
    (IF Verdict(t, f) = "same" /\ tab[t].pendingResume = NoFile
     THEN {Outcome(tab[t], Refreshed(identityOwners, t, tab[t]))} ELSE {})

\* The tab has caught up with its child, where it has.
Tracks(t, r) ==
  unnoticed' = [unnoticed EXCEPT ![t] =
                  @ /\ (r.sessionFile # at[t] \/ (at[t] \in files /\ identityOwners'[at[t]] # t))]

\* A clash stops the session of the tab.
StopsOnClash(t, f) == shuttingDown' = [shuttingDown EXCEPT ![t] = @ \/ Verdict(t, f) = "clash"]

Registers(t, r) == tab' = [tab EXCEPT ![t] = r]

-----------------------------------------------------------------------------
(* Tabs and their children.                                                *)

\* A name that nobody uses for a new session.
Unused == NewFiles \ (files \cup {at[t] : t \in TabIds} \cup UNION {Names(tab[t]) : t \in TabIds})

\* session.start
Spawns(t) ==
  /\ \E name \in Unused : at' = [at EXCEPT ![t] = name]
  /\ alive' = [alive EXCEPT ![t] = TRUE] /\ shuttingDown' = [shuttingDown EXCEPT ![t] = FALSE]
  /\ ready' = [ready EXCEPT ![t] = FALSE] /\ active' = [active EXCEPT ![t] = FALSE]
  /\ UNCHANGED <<late, unnoticed>>

\* open, of a file that nobody owns, or of none; restore knows that it was confirmed.
Open(t, f, confirmed) ==
  /\ tab[t].place = "none" /\ ~Clashes(t, f)
  /\ Registers(t, [NoSuchTab EXCEPT !.place = "open", !.pendingResume = f, !.durable = confirmed /\ f # NoFile,
                                    !.sessionFile = IF confirmed THEN f ELSE NoFile])
  /\ identityOwners' = Claimed(t, f) /\ Spawns(t)
  /\ UNCHANGED files

\* The tab's session begins to switch to f.
Switching(r, f) == [r EXCEPT !.mutation = "switch", !.transition = f, !.previous = r.sessionFile]

\* resumePending of a tab that is ready.
Resuming(t, r) ==
  LET f == r.pendingResume
  IN IF r.place # "open" \/ r.mutation # "none" \/ f = NoFile \/ r.resumeBlocked
     THEN r
     ELSE [(IF Clashes(t, f) THEN r ELSE Switching(r, f)) EXCEPT !.resumeBlocked = TRUE]

\* A get_state is answered: after the start, or whenever somebody asks.
StateHeard(t) == \E h \in Told(t, at[t]) :
  LET n == Resuming(t, h.fields)
  IN /\ alive[t] /\ Registers(t, n) /\ ready' = [ready EXCEPT ![t] = TRUE]
     /\ identityOwners' = IF n # h.fields THEN Claimed(t, n.transition) ELSE h.owners
     /\ StopsOnClash(t, at[t]) /\ Tracks(t, n)
     /\ UNCHANGED <<alive, at, active, late, files>>

\* Another operation reserves the tab, and releases it.
Reserve(t) ==
  /\ tab[t].place = "open" /\ tab[t].mutation = "none"
  /\ Registers(t, [tab[t] EXCEPT !.mutation = "other"])
  /\ UNCHANGED <<identityOwners, process, files>>

ReleasesOnly(t) ==                    \* mutant of Release: a session that waits is not resumed
  /\ tab[t].mutation = "other" /\ Registers(t, [tab[t] EXCEPT !.mutation = "none"])
  /\ UNCHANGED <<identityOwners, process, files>>

Release(t) ==
  LET r == [tab[t] EXCEPT !.mutation = "none"]
      n == IF ready[t] THEN Resuming(t, r) ELSE r
  IN /\ tab[t].mutation = "other" /\ Registers(t, n)
     /\ identityOwners' = IF n # r THEN Claimed(t, n.transition) ELSE identityOwners
     /\ UNCHANGED <<process, files>>

\* A stopped session takes no command.
Idle(t) ==
  tab[t].place = "open" /\ tab[t].mutation = "none" /\ alive[t] /\ ready[t] /\ ~active[t] /\ ~shuttingDown[t]

\* The end of switchReservedSession and of newReservedSession, with the reservation.
Over(r) == [r EXCEPT !.mutation = "none", !.transition = NoFile, !.previous = NoFile]
Ends(t) == Registers(t, Over(tab[t])) /\ identityOwners' = Refreshed(identityOwners, t, Over(tab[t]))

Switch(t, f) ==
  /\ Idle(t) /\ f \in files /\ ~Clashes(t, f)
  /\ Registers(t, Switching(tab[t], f)) /\ identityOwners' = Claimed(t, f)
  /\ UNCHANGED <<process, files>>

New(t) ==
  /\ Idle(t)
  /\ Registers(t, [tab[t] EXCEPT !.mutation = "new", !.transition = tab[t].sessionFile])
  /\ UNCHANGED <<identityOwners, process, files>>

\* A session that is being stopped does not heed that its child has moved.
Disregarded(t) == Ends(t) /\ unnoticed' = [unnoticed EXCEPT ![t] = TRUE]

\* session.replaced: the session is f, or an unnamed new one; then the rest of the answer.
\* The index is left for the end if neither the file nor the name of the session is new.
Replaced(t, f, rest) ==
  LET r == [tab[t] EXCEPT !.sessionFile = f, !.durable = f # NoFile, !.pendingResume = NoFile,
                          !.resumeBlocked = FALSE, !.mutation = rest]
  IN /\ Registers(t, r) /\ unnoticed' = [unnoticed EXCEPT ![t] = FALSE]
     /\ \/ identityOwners' = Refreshed(Claimed(t, f), t, r)
        \/ f = tab[t].sessionFile /\ UNCHANGED identityOwners

SwitchAnswered(t) ==
  LET f == tab[t].transition
  IN /\ tab[t].mutation = "switch" /\ alive[t] /\ at' = [at EXCEPT ![t] = f]
     /\ IF shuttingDown[t] THEN Disregarded(t) ELSE Replaced(t, f, "history")
     /\ UNCHANGED <<alive, ready, active, shuttingDown, late, files>>

NewAnswered(t) ==
  /\ tab[t].mutation = "new" /\ alive[t]
  /\ \E name \in Unused : at' = [at EXCEPT ![t] = name]
  /\ IF shuttingDown[t] THEN Disregarded(t) ELSE Replaced(t, NoFile, "state")
  /\ UNCHANGED <<alive, ready, active, shuttingDown, late, files>>

\* The command is refused, or not answered in time.
CommandFails(t) ==
  /\ tab[t].mutation \in {"switch", "new"} /\ alive[t] /\ Ends(t)
  /\ \E g \in {{}, {IF tab[t].mutation = "switch" THEN tab[t].transition ELSE NoFile}} :
       late' = [late EXCEPT ![t] = @ \cup g]
  /\ UNCHANGED <<alive, at, ready, active, shuttingDown, unnoticed, files>>

\* A command that was given up on is performed: a file to switch to, or NoFile.
PerformLate(t, f) ==
  /\ f \in late[t] /\ late' = [late EXCEPT ![t] = @ \ {f}]
  /\ \E g \in (IF f = NoFile THEN Unused ELSE {f}) : at' = [at EXCEPT ![t] = g]
  /\ unnoticed' = [unnoticed EXCEPT ![t] = TRUE]
  /\ UNCHANGED <<tab, identityOwners, alive, ready, active, shuttingDown, files>>

\* The operation is over: the history was read or not, and its get_state answered or not.
OperationEnds(t) ==
  /\ tab[t].mutation \in {"history", "state"} /\ alive[t]
  /\ \/ \E h \in Told(t, at[t]) :
          /\ Registers(t, Over(h.fields)) /\ identityOwners' = Refreshed(h.owners, t, Over(h.fields))
          /\ StopsOnClash(t, at[t]) /\ Tracks(t, h.fields)
     \/ Ends(t) /\ UNCHANGED <<shuttingDown, unnoticed>>
  /\ UNCHANGED <<alive, at, ready, active, late, files>>

\* A run goes on until its child has been stopped, whatever session.active says of it.
Restart(t) ==
  /\ tab[t].place = "open" /\ tab[t].mutation = "none"
  /\ Registers(t, [tab[t] EXCEPT !.mutation = "restart", !.resumeBlocked = FALSE,
                                 !.pendingResume = IF tab[t].durable THEN tab[t].sessionFile ELSE @])
  /\ ready' = [ready EXCEPT ![t] = FALSE]
  /\ UNCHANGED <<identityOwners, alive, at, active, shuttingDown, late, unnoticed, files>>

\* The old child is gone.
Restarted(t) ==
  /\ tab[t].mutation = "restart" /\ ~alive[t]
  /\ Registers(t, Over(tab[t]))
  /\ IF shuttingDown[t] THEN UNCHANGED process ELSE Spawns(t)
  /\ UNCHANGED <<identityOwners, files>>

\* onChildExit, and with it the end of the operation that waits for an answer.
Exit(t) == \E h \in Heard(t, tab[t].sessionFile) :
  LET own == tab[t].sessionFile
      p   == h.fields
      q   == [p EXCEPT !.pendingResume = IF p.durable THEN own ELSE @, !.resumeBlocked = FALSE]
      r   == IF q.mutation \in {"switch", "new", "history", "state"} THEN Over(q) ELSE q
  IN /\ alive[t] /\ Registers(t, r)
     /\ identityOwners' = IF r = q THEN h.owners ELSE Refreshed(h.owners, t, r)
     /\ StopsOnClash(t, own)
     /\ alive' = [alive EXCEPT ![t] = FALSE] /\ at' = [at EXCEPT ![t] = NoFile]
     /\ ready' = [ready EXCEPT ![t] = FALSE] /\ active' = [active EXCEPT ![t] = FALSE]
     /\ late' = [late EXCEPT ![t] = {}] /\ unnoticed' = [unnoticed EXCEPT ![t] = FALSE]
     /\ UNCHANGED files

-----------------------------------------------------------------------------
(* Runs, and the end of a tab.                                             *)

PromptsAnyway(t) ==                   \* mutant of Prompt: a session still to be resumed is no obstacle
  /\ Idle(t) /\ active' = [active EXCEPT ![t] = TRUE]
  /\ UNCHANGED <<tab, identityOwners, alive, at, ready, shuttingDown, late, unnoticed, files>>

\* A prompt, which prepareMutation lets through.
Prompt(t) ==
  /\ Idle(t) /\ tab[t].pendingResume = NoFile /\ active' = [active EXCEPT ![t] = TRUE]
  /\ UNCHANGED <<tab, identityOwners, alive, at, ready, shuttingDown, late, unnoticed, files>>

\* The first thing that is saved of a new session makes its file.
RunSaves(t) ==
  /\ alive[t] /\ active[t] /\ at[t] \notin files
  /\ files' = files \cup {at[t]} /\ unnoticed' = [unnoticed EXCEPT ![t] = TRUE]
  /\ UNCHANGED <<tab, identityOwners, alive, at, ready, active, shuttingDown, late>>

\* run.end
RunEnds(t) == \E h \in Heard(t, tab[t].sessionFile) :
  /\ alive[t] /\ active[t] /\ active' = [active EXCEPT ![t] = FALSE]
  /\ Registers(t, h.fields) /\ identityOwners' = h.owners
  /\ StopsOnClash(t, tab[t].sessionFile) /\ Tracks(t, h.fields)
  /\ UNCHANGED <<alive, at, ready, late, files>>

\* close, which may be forced at any time.
Close(t) ==
  /\ tab[t].place = "open" /\ Registers(t, [tab[t] EXCEPT !.place = "closing"])
  /\ shuttingDown' = [shuttingDown EXCEPT ![t] = TRUE]
  /\ UNCHANGED <<identityOwners, alive, at, ready, active, late, unnoticed, files>>

\* The tab is gone; what is left of an operation on it finds no tab.
Closed(t) ==
  LET r == [NoSuchTab EXCEPT !.place = "closed"]
  IN /\ tab[t].place = "closing" /\ ~alive[t]
     /\ Registers(t, r) /\ identityOwners' = Refreshed(identityOwners, t, r)
     /\ UNCHANGED <<process, files>>

ClaimsNext == \E t \in TabIds :
  \/ \E f \in files \cup {NoFile}, confirmed \in BOOLEAN : Open(t, f, confirmed)
  \/ StateHeard(t) \/ Reserve(t) \/ Release(t)
  \/ (\E f \in files : Switch(t, f)) \/ SwitchAnswered(t)
  \/ New(t) \/ NewAnswered(t) \/ CommandFails(t) \/ OperationEnds(t)
  \/ \E f \in late[t] : PerformLate(t, f)
  \/ Restart(t) \/ Restarted(t) \/ Exit(t)
  \/ Prompt(t) \/ RunSaves(t) \/ RunEnds(t)
  \/ Close(t) \/ Closed(t)

ClaimsSpec == ClaimsInit /\ [][ClaimsNext]_claimsVars

-----------------------------------------------------------------------------
(* Properties.                                                             *)

Present(t) == tab[t].place \in {"open", "closing"}

\* Two Pi children are never in one session: claim comes before every switch and refreshClaims
\* after it, and a closing tab keeps its claims until its child is gone. Excepted are a child
\* that a late or disregarded command took there, or that saved the session first, as long
\* as its tab has not noticed.
ChildrenApart == \A t, u \in TabIds :
  t # u /\ alive[t] /\ alive[u] /\ at[t] = at[u] => unnoticed[t] \/ unnoticed[u]

\* The index and the tabs agree, whatever comes between claim and refreshClaims: a claim is a tab's that has not gone, and which names the
\* file when no operation is under way; what a tab has durably or will resume is its claim.
ClaimsMatchTabs ==
  /\ \A f \in Files : LET t == identityOwners[f] IN
       t # NoTab => /\ f \in files /\ Present(t)
                    /\ tab[t].place = "open" /\ tab[t].mutation = "none" => f \in Names(tab[t])
  /\ \A t \in TabIds : Present(t) =>
       /\ tab[t].durable => identityOwners[tab[t].sessionFile] = t
       /\ tab[t].pendingResume # NoFile => identityOwners[tab[t].pendingResume] = t

\* What the user sends goes to the session that the tab shows, or the tab shows none yet,
\* unless the child went elsewhere by a late command: prepareMutation and requireReady let no
\* prompt through to the fresh session of a child that has yet to resume.
PromptReachesShownSession == [][\A t \in TabIds : ~active[t] /\ active'[t] =>
  unnoticed[t] \/ at[t] = tab[t].sessionFile \/ tab[t].sessionFile = NoFile]_claimsVars

\* A tab that is ready and idle has resumed its session, or says that it could not: the
\* resume is tried on ready and again when the reservation that was in its way is released.
NoMissedResume == \A t \in TabIds :
  tab[t].place = "open" /\ ready[t] /\ tab[t].mutation = "none" /\ tab[t].pendingResume # NoFile =>
    tab[t].resumeBlocked

\* "One Qt WebUI backend permits only one current or reserved owner of a saved session"
\* (TECHNICAL.md). A session that a run saves is owned by nobody until the run ends.
OneOwner == \A t, u \in TabIds :
  t # u /\ Present(t) /\ Present(u) => Names(tab[t]) \cap Names(tab[u]) \cap files = {}
=============================================================================
